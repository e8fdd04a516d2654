------------------------------- MODULE Meaning ------------------------------
(***************************************************************************)
(* What the statements mean, without pages, encodings or indexes.  A table *)
(* is its columns and its rows by primary key; a JSON value is the         *)
(* document itself, with every number a float in halves and every object a *)
(* function of its names.  This is the reference that module Server        *)
(* compares the execution of statements with; it models no code.           *)
(***************************************************************************)
EXTENDS Tables

RECURSIVE Normal(_), NormalTree(_), Depth(_), Size(_), Finite(_)
\* The value of a JSON text: of members with one name the last counts.
Normal(doc) ==
    CASE doc[1] = "num" -> <<"float", doc[2]>>
      [] doc[1] = "arr" -> <<"arr", [i \in DOMAIN doc[2] |-> Normal(doc[2][i])]>>
      [] doc[1] = "obj" -> <<"obj", [k \in Names(doc[2]) |-> Normal(Member(doc[2], k))]>>
      [] OTHER -> doc

\* The value of a decoded document.
NormalTree(t) ==
    CASE t[1] = "int" -> <<"float", 2 * t[2]>>
      [] t[1] \in {"arr", "obj"} -> <<t[1], [k \in DOMAIN t[2] |-> NormalTree(t[2][k])]>>
      [] OTHER -> t

Inner(t) == IF t[1] \in {"arr", "obj"} THEN {t[2][k] : k \in DOMAIN t[2]} ELSE {}

Depth(t) == IF Inner(t) = {} THEN 0 ELSE 1 + Max({Depth(u) : u \in Inner(t)})

\* Every number is one that a float64 can approximate.
Finite(t) == IF t[1] = "float" THEN InFloatRange(t[2]) ELSE \A u \in Inner(t) : Finite(u)

\* The bytes a document takes.
Size(t) ==
    LET parts == [k \in DOMAIN t[2] |-> Size(t[2][k]) + (IF t[1] = "obj" THEN LenBytes + Len(k) ELSE 0)]
    IN CASE t[1] \in {"null", "bool"} -> 1
         [] t[1] = "float" -> 1 + IntBytes
         [] t[1] = "str" -> 1 + LenBytes + Len(t[2])
         [] OTHER -> 1 + LenBytes + FoldFunction(+, 0, parts)

\* The value of an expression in a column; Bad if it has none.
Value(e, type) ==
    CASE e[1] = "null" -> NULL
      [] type = "INTEGER" /\ e[1] = "int" -> Integer(e[2])
      [] type = "TEXT" /\ e[1] = "text" -> Text(e[2])
      [] type = "BLOB" /\ e[1] = "blob" -> Blob(e[2])
      [] type = "JSON" /\ e[1] \in {"text", "blob"} ->
            LET value == Normal(Spelled[e[2]])
            IN IF e[2] \in DOMAIN Spelled /\ Depth(value) <= JsonMaxDepth /\ Finite(value)
               THEN JSON(value) ELSE Bad
      [] OTHER -> Bad

RowSize(row) ==
    LET size(v) == CASE v[1] = "NULL" -> 1
                     [] v[1] = "INTEGER" -> 1 + IntBytes
                     [] v[1] = "JSON" -> 1 + LenBytes + Size(v[2])
                     [] OTHER -> 1 + LenBytes + Len(v[2])
    IN 2 + FoldFunction(+, 0, [i \in DOMAIN row |-> size(row[i])])

\* A page has a header of four bytes and a slot of four bytes.
Storable(row) == 8 + RowSize(row) <= PageSize

\* What a path finds in a document, as a value.
RECURSIVE Leaf(_, _)
Leaf(t, segs) ==
    CASE segs # <<>> -> IF t[1] = "obj" /\ Head(segs) \in DOMAIN t[2]
                        THEN Leaf(t[2][Head(segs)], Tail(segs)) ELSE NULL
      [] t[1] = "null" -> NULL
      [] t[1] = "str" -> Text(t[2])
      [] t[1] = "float" /\ t[2] % 2 = 0 /\ t[2] \div 2 \in MinInt..MaxInt -> Integer(t[2] \div 2)
      [] OTHER -> Text(TextOf(Marshal(t)))

Selected(def, item, row) ==
    LET v == row[columnIndex(def, item.column)]
    IN IF item.path = <<>> THEN v
       ELSE IF v[1] = "JSON" THEN Leaf(v[2], parseJSONPath(item.path)) ELSE NULL

\* The operand of a predicate; paths compare with integers and texts.
Operand(def, w) ==
    IF w.path # <<>> THEN (CASE w.value[1] = "int" -> Integer(w.value[2])
                             [] w.value[1] = "text" -> Text(w.value[2])
                             [] OTHER -> Bad)
    ELSE Value(w.value, def[columnIndex(def, w.column)].type)

\* Predicates with an operand of the column's type, other than NULL.
Plain(def, where) ==
    \A i \in DOMAIN where : /\ columnIndex(def, where[i].column) # NoColumn
                            /\ Operand(def, where[i]) \notin {Bad, NULL}

Matches(def, where, row) ==
    \A i \in DOMAIN where : Selected(def, where[i], row) = Operand(def, where[i])

-----------------------------------------------------------------------------
(* Statements on tables; each is the tables after, for a statement that    *)
(* can be executed.                                                        *)

Definition(s) == [i \in DOMAIN s.columns |-> [s.columns[i] EXCEPT !.name = normalizeName(@)]]

\* The row an INSERT gives: of the values of one column the last counts.
NewRow(def, s) ==
    [i \in DOMAIN def |->
        LET at_(j) == IF s.columns = <<>> THEN j = i ELSE columnIndex(def, s.columns[j]) = i
            js == {j \in DOMAIN s.values : at_(j)}
        IN IF js = {} THEN NULL ELSE Value(s.values[Max(js)], def[i].type)]

Insertable(rel, s) ==
    LET t == normalizeName(s.table)
        def == rel[t].def
        row == NewRow(def, s)
    IN /\ t \in DOMAIN rel
       /\ Len(s.values) = Len(IF s.columns = <<>> THEN def ELSE s.columns)
       /\ \A j \in DOMAIN s.columns : /\ columnIndex(def, s.columns[j]) # NoColumn
                                      /\ Value(s.values[j], def[columnIndex(def, s.columns[j])].type) # Bad
       /\ \A i \in DOMAIN row : row[i] # Bad
       /\ row[pkColumn(def)] # NULL
       /\ row[pkColumn(def)] \notin DOMAIN rel[t].rows
       /\ Storable(row)

Target(rel, s) ==
    LET t == normalizeName(s.table)
    IN {pk \in DOMAIN rel[t].rows : Matches(rel[t].def, s.where, rel[t].rows[pk])}

Updated(rel, s, pk) ==
    LET t == normalizeName(s.table)
        def == rel[t].def
        last(i) == SelectLastInSeq(s.sets, LAMBDA a : columnIndex(def, a.column) = i)
    IN [i \in DOMAIN def |-> IF last(i) = 0 THEN rel[t].rows[pk][i]
                             ELSE Value(s.sets[last(i)].value, def[i].type)]

\* Every row can be updated, or none is.
Updatable(rel, s) ==
    LET t == normalizeName(s.table)
        def == rel[t].def
    IN /\ t \in DOMAIN rel
       /\ \A i \in DOMAIN s.sets : columnIndex(def, s.sets[i].column) # pkColumn(def)
       /\ Target(rel, s) # {} =>
            /\ \A i \in DOMAIN s.sets :
                  LET ci == columnIndex(def, s.sets[i].column)
                  IN ci # NoColumn /\ Value(s.sets[i].value, def[ci].type) # Bad
            /\ \A pk \in Target(rel, s) : Storable(Updated(rel, s, pk))

\* Whether a statement that is not about indexes can be executed.
Executable(rel, s) ==
    CASE s.op = "create table" -> normalizeName(s.table) \notin DOMAIN rel
      [] s.op = "insert" -> Insertable(rel, s)
      [] s.op = "update" -> Updatable(rel, s)
      [] s.op \in {"drop table", "delete"} -> normalizeName(s.table) \in DOMAIN rel

Executed(rel, s) ==
    LET t == normalizeName(s.table)
    IN CASE s.op = "create table" -> With1(rel, t, [def |-> Definition(s), rows |-> <<>>])
         [] s.op = "drop table" -> Without(rel, {t})
         [] s.op = "insert" ->
              LET row == NewRow(rel[t].def, s)
              IN [rel EXCEPT ![t].rows = With1(@, row[pkColumn(rel[t].def)], row)]
         [] s.op = "update" ->
              [rel EXCEPT ![t].rows = Onto(@, [pk \in Target(rel, s) |-> Updated(rel, s, pk)])]
         [] s.op = "delete" -> [rel EXCEPT ![t].rows = Without(@, Target(rel, s))]

\* How many rows a statement affects; DROP TABLE counts the rows it removes.
Affected(rel, s) ==
    CASE s.op = "create table" -> 0
      [] s.op = "insert" -> 1
      [] s.op = "drop table" -> Cardinality(DOMAIN rel[normalizeName(s.table)].rows)
      [] s.op \in {"update", "delete"} -> Cardinality(Target(rel, s))

\* Whether a SELECT can be answered: it names columns of the table, and paths
\* into documents only.
Answerable(rel, s) ==
    LET t == normalizeName(s.table)
        def == rel[t].def
    IN /\ t \in DOMAIN rel
       /\ \A i \in DOMAIN s.items :
             LET ci == columnIndex(def, s.items[i].column)
             IN ci # NoColumn /\ (s.items[i].path # <<>> => def[ci].type = "JSON")

\* The answer to a SELECT, by primary key, with documents as they are printed.
Answer(rel, s) ==
    LET def == rel[normalizeName(s.table)].def
        rows == rel[normalizeName(s.table)].rows
        items == IF s.items # <<>> THEN s.items
                 ELSE [i \in DOMAIN def |-> [column |-> def[i].name, path |-> <<>>]]
        printed(v) == IF v[1] = "JSON" THEN JSON(Marshal(v[2])) ELSE v
    IN [pk \in Target(rel, s) |-> [i \in DOMAIN items |-> printed(Selected(def, items[i], rows[pk]))]]

-----------------------------------------------------------------------------
(* The text of a statement. *)

\* Parts with a separator between them.
Joined(parts, sep) == Concat([i \in DOMAIN parts |-> IF i = 1 THEN parts[i] ELSE <<sep>> \o parts[i]])

ExprText(e) ==
    CASE e[1] = "param" -> << <<"?">> >>
      [] e[1] = "int" -> << <<"num", e[2]>> >>
      [] e[1] = "text" -> << <<"str", e[2]>> >>
      [] e[1] = "blob" -> << <<"blob", e[2]>> >>
      [] e[1] = "null" -> <<Kw("NULL")>>

OperandText(item) ==
    IF item.path = <<>> THEN <<Word(item.column)>>
    ELSE <<Kw("JSON_EXTRACT"), <<"(">>, Word(item.column), <<",">>, <<"str", item.path>>, <<")">> >>

StatementText(s) ==
    LET list(parts) == Joined(parts, <<",">>)
        parens(parts) == << <<"(">> >> \o list(parts) \o << <<")">> >>
        name(n) == <<Word(n)>>
        column(c) == <<Word(c.name), Kw(c.type)>> \o (IF c.pk THEN <<Kw("PRIMARY"), Kw("KEY")>> ELSE <<>>)
        assign(a) == <<Word(a.column), <<"=">> >> \o ExprText(a.value)
        pred(w) == OperandText(w) \o << <<"=">> >> \o ExprText(w.value)
        where(ws) == IF ws = <<>> THEN <<>>
                     ELSE <<Kw("WHERE")>> \o Joined([i \in DOMAIN ws |-> pred(ws[i])], Kw("AND"))
    IN CASE s.op = "create table" ->
              <<Kw("CREATE"), Kw("TABLE"), Word(s.table)>>
              \o parens([i \in DOMAIN s.columns |-> column(s.columns[i])])
         [] s.op = "create index" ->
              <<Kw("CREATE"), Kw("INDEX"), Word(s.index), Kw("ON"), Word(s.table)>>
              \o parens(<<name(s.column)>>)
              \o (IF s.path = <<>> THEN <<>> ELSE <<Kw("PATH"), <<"str", s.path>> >>)
         [] s.op = "drop table" -> <<Kw("DROP"), Kw("TABLE"), Word(s.table)>>
         [] s.op = "drop index" -> <<Kw("DROP"), Kw("INDEX"), Word(s.index)>>
         [] s.op = "insert" ->
              <<Kw("INSERT"), Kw("INTO"), Word(s.table)>>
              \o (IF s.columns = <<>> THEN <<>> ELSE parens([i \in DOMAIN s.columns |-> name(s.columns[i])]))
              \o <<Kw("VALUES")>> \o parens([i \in DOMAIN s.values |-> ExprText(s.values[i])])
         [] s.op = "select" ->
              <<Kw("SELECT")>>
              \o (IF s.items = <<>> THEN << <<"*">> >>
                  ELSE list([i \in DOMAIN s.items |-> OperandText(s.items[i])]))
              \o <<Kw("FROM"), Word(s.table)>> \o where(s.where)
         [] s.op = "update" ->
              <<Kw("UPDATE"), Word(s.table), Kw("SET")>>
              \o list([i \in DOMAIN s.sets |-> assign(s.sets[i])]) \o where(s.where)
         [] s.op = "delete" -> <<Kw("DELETE"), Kw("FROM"), Word(s.table)>> \o where(s.where)

-----------------------------------------------------------------------------
\* The tables that a store holds.
TablesOf(store) ==
    LET doc(v) == IF v[1] = "JSON" THEN JSON(NormalTree(decodeJSON(v[2]).v)) ELSE v
        decoded(t) == LET rows == Rows(store, t).rows
                      IN [pk \in DOMAIN rows |-> [i \in DOMAIN rows[pk] |-> doc(rows[pk][i])]]
    IN [t \in {Last(k) : k \in scanPrefix(store, catalogTablePrefix)} |->
            [def |-> store[catalogTableKey(t)], rows |-> decoded(t)]]
=============================================================================
