------------------------------- MODULE Tables -------------------------------
(***************************************************************************)
(* The execution of one statement at a time (sql_exec.go, secondary.go,    *)
(* catalog.go, keys.go) down to the bytes of pages and the keys of         *)
(* indexes.  How statements interleave is module SQL's subject.            *)
(*                                                                         *)
(* A database is a record: store, the committed pairs; tables, indexes and *)
(* sec, the catalog cache, primary-key indexes and secondary indexes.  A   *)
(* B+tree is the map that module BTree shows it to be.  A key of the store *)
(* is the sequence of its parts between slashes; an identifier has no      *)
(* slash and PathEscape leaves none in a primary key, which is one part.   *)
(***************************************************************************)
EXTENDS SQLText

NoColumn == 0
Bad == <<"bad">>

\* The code's reservedPrefix is this part with the slash behind it.
reservedPart == "__rdb__"
isReservedKey(key) == Len(key) > 1 /\ key[1] = reservedPart

catalogTablePrefix == <<reservedPart, "meta", "tables">>
catalogTableKey(name) == Append(catalogTablePrefix, name)

catalogIndexPrefix == <<reservedPart, "meta", "indexes">>
catalogIndexKey(name) == Append(catalogIndexPrefix, name)

rowPrefixUnreserved(table) == <<"t", table, "r">>                    \* mutant

rowKeyPrefix(table) == <<reservedPart, "t", table, "r">>
rowKey(table, pk) == Append(rowKeyPrefix(table), pk)

EmptyDB == [store |-> <<>>, tables |-> <<>>, indexes |-> <<>>, sec |-> <<>>]

\* Maps, as Go has them.
With1(f, k, v) == [x \in DOMAIN f \cup {k} |-> IF x = k THEN v ELSE f[x]]
Without(f, ks) == [x \in DOMAIN f \ ks |-> f[x]]
Onto(f, g) == [x \in DOMAIN f \cup DOMAIN g |-> IF x \in DOMAIN g THEN g[x] ELSE f[x]]

pkColumn(def) == SelectInSeq(def, LAMBDA c : c.pk)

\* The first column of that name; names are normalised on both sides.
columnIndex(def, name) == SelectInSeq(def, LAMBDA c : c.name = normalizeName(name))

scanPrefix(store, prefix) == {k \in DOMAIN store : IsPrefix(prefix, k)}

-----------------------------------------------------------------------------
(* Values. *)

exprToValue(e, type) ==
    CASE e[1] = "null" -> NULL
      [] type = "INTEGER" /\ e[1] = "int" -> Integer(e[2])
      [] type = "TEXT" /\ e[1] = "text" -> Text(e[2])
      [] type = "BLOB" /\ e[1] = "blob" -> Blob(e[2])
      [] type = "JSON" /\ e[1] \in {"text", "blob"} ->
            LET bin == encodeJSON(e[2]) IN IF bin = <<>> THEN Bad ELSE JSON(bin)
      [] OTHER -> Bad

\* The fields Int and Text of a NULL have their zero values.
OrZero(v, type) ==
    CASE v = NULL /\ type = "INTEGER" -> Integer(0)
      [] v = NULL /\ type = "TEXT" -> Text(<<>>)
      [] OTHER -> v

predValueForExtract(e) ==
    CASE e[1] = "int" -> Integer(e[2])
      [] e[1] = "text" -> Text(e[2])
      [] e[1] = "null" -> NULL
      [] OTHER -> Bad

Equal(a, b) == IF a = b THEN "yes" ELSE "no"

\* What json_extract found, against the value of the predicate.
matchLeaf(got, want) ==
    IF got = Missing THEN "no" ELSE IF want = Bad THEN "error" ELSE Equal(got, want)

\* Whether a row satisfies one predicate, or an error.
matchPred(def, vals, w, ci) ==
    CASE ci = NoColumn -> "no"
      [] ci # NoColumn /\ w.path = <<>> -> Equal(vals[ci], exprToValue(w.value, def[ci].type))
      [] ci # NoColumn /\ w.path # <<>> ->
            matchLeaf(IF vals[ci][1] = "JSON" THEN jsonExtract(vals[ci][2], w.path) ELSE Missing,
                      predValueForExtract(w.value))

\* The first predicate that does not hold decides.
RECURSIVE matchWhere(_, _, _)
matchWhere(def, vals, where) ==
    IF where = <<>> THEN "yes"
    ELSE LET first == matchPred(def, vals, Head(where), columnIndex(def, Head(where).column))
         IN IF first = "yes" THEN matchWhere(def, vals, Tail(where)) ELSE first

-----------------------------------------------------------------------------
(* Secondary indexes. *)

\* formatPK: an integer in digits, a text as it is.
formatPK(pk) == IF pk[1] = "INTEGER" THEN NumberText(2 * pk[2]) ELSE pk[2]

prefixUnterminated(v) ==                                             \* mutant
    CASE v[1] = "INTEGER" -> <<1>> \o NumberText(2 * v[2])
      [] v[1] = "TEXT" -> <<2>> \o v[2]
      [] OTHER -> <<3>>

\* I:digits, T:text or N:, and a zero byte.
compositePrefix(v) ==
    CASE v[1] = "INTEGER" -> <<1>> \o NumberText(2 * v[2]) \o <<0>>
      [] v[1] = "TEXT" -> <<2>> \o v[2] \o <<0>>
      [] OTHER -> <<3, 0>>

compositeKey(v, pk) == compositePrefix(v) \o formatPK(pk)

lookup(tree, v) == {tree[k] : k \in {c \in DOMAIN tree : IsPrefix(compositePrefix(v), c)}}

\* The value the index holds for a row, or Missing.
valueFromRow(idef, def, vals) ==
    LET v == vals[columnIndex(def, idef.column)]
    IN CASE idef.path # <<>> /\ v[1] = "JSON" -> indexableExtract(v[2], idef.path)
         [] idef.path = <<>> /\ v[1] \in {"INTEGER", "TEXT"} -> v
         [] OTHER -> Missing

\* The entries of some rows, given the value of each, by primary key.
EntriesOf(table, value) ==
    LET indexed == {pk \in DOMAIN value : value[pk] # Missing}
    IN [ck \in {compositeKey(value[pk], pk) : pk \in indexed} |->
            rowKey(table, CHOOSE pk \in indexed : compositeKey(value[pk], pk) = ck)]

Entries(idef, def, table, rows) ==
    EntriesOf(table, [pk \in DOMAIN rows |-> valueFromRow(idef, def, rows[pk])])

reindexKeepingOld(sec, def, table, old, new) ==                      \* mutant
    [i \in DOMAIN sec |->
        IF sec[i].def.table # table THEN sec[i]
        ELSE [sec[i] EXCEPT !.tree = Onto(@, Entries(sec[i].def, def, table, new))]]

\* For every index of the table, old rows are removed and then new ones inserted.
Reindex(sec, def, table, old, new) ==
    [i \in DOMAIN sec |->
        IF sec[i].def.table # table THEN sec[i]
        ELSE LET gone == DOMAIN Entries(sec[i].def, def, table, old)
             IN [sec[i] EXCEPT !.tree = Onto(Without(@, gone), Entries(sec[i].def, def, table, new))]]

-----------------------------------------------------------------------------
(* Rows as they are read: values by primary key, or an error. *)

Failed == [ok |-> FALSE]
Collected(rows) == [ok |-> TRUE, rows |-> rows]

\* The rows at some keys; one that unpackRow refuses is an error.
Unpacked(read) ==
    IF \E pk \in DOMAIN read : ~read[pk].ok THEN Failed
    ELSE Collected([pk \in DOMAIN read |-> read[pk].v])
RowsAt(store, keys) ==
    Unpacked([pk \in {Last(k) : k \in keys} |-> unpackRow(store[CHOOSE k \in keys : Last(k) = pk])])

\* The rows of a table.
Rows(store, table) == RowsAt(store, scanPrefix(store, rowKeyPrefix(table)))

\* Row keys from an index; those that are not in the store are skipped.
Fetched(d, keys) == RowsAt(d.store, keys \cap DOMAIN d.store)

collectByPK(d, table, def, w) ==
    LET type == def[pkColumn(def)].type
        v == exprToValue(w.value, type)
        k == OrZero(v, type)
    IN IF v = Bad THEN Failed
       ELSE Fetched(d, IF k \in DOMAIN d.indexes[table] THEN {d.indexes[table][k]} ELSE {})

\* The indexes that answer a predicate; the code takes any, all hold the same.
Covering(d, table, w) ==
    {i \in DOMAIN d.sec :
        d.sec[i].def = [table |-> table, column |-> normalizeName(w.column), path |-> w.path]}

collectByIndex(d, table, def, w) ==
    LET type == def[columnIndex(def, w.column)].type
        v == IF w.path # <<>> THEN predValueForExtract(w.value) ELSE exprToValue(w.value, type)
        i == CHOOSE i \in Covering(d, table, w) : TRUE
    IN IF v = Bad THEN Failed
       ELSE Fetched(d, lookup(d.sec[i].tree, IF w.path # <<>> THEN v ELSE OrZero(v, type)))

\* The rows that match; an error on any row is an error.
Filtered(rows, match) ==
    IF \E pk \in DOMAIN rows : match[pk] = "error" THEN Failed
    ELSE Collected([pk \in {q \in DOMAIN rows : match[q] = "yes"} |-> rows[pk]])

scanned(def, where, read) ==
    IF ~read.ok THEN Failed
    ELSE Filtered(read.rows, [pk \in DOMAIN read.rows |-> matchWhere(def, read.rows[pk], where)])

collectByScan(d, table, def, where) == scanned(def, where, Rows(d.store, table))

collectRows(d, table, where) ==
    LET def == d.tables[table]
        w == where[1]
    IN IF Len(where) = 1 /\ w.path = <<>> /\ normalizeName(w.column) = def[pkColumn(def)].name
       THEN collectByPK(d, table, def, w)
       ELSE IF Len(where) = 1 /\ Covering(d, table, w) # {}
       THEN collectByIndex(d, table, def, w)
       ELSE collectByScan(d, table, def, where)

-----------------------------------------------------------------------------
(* Statements.  The outcome is the database after, whether it went well,   *)
(* and the number of rows affected.                                        *)

Error(d) == [db |-> d, ok |-> FALSE, n |-> 0]
Done(d, n) == [db |-> d, ok |-> TRUE, n |-> n]

execCreate(d, s) ==
    LET name == normalizeName(s.table)
        def == [i \in DOMAIN s.columns |-> [s.columns[i] EXCEPT !.name = normalizeName(@)]]
    IN IF catalogTableKey(name) \in DOMAIN d.store THEN Error(d)
       ELSE Done([d EXCEPT !.store = With1(@, catalogTableKey(name), def),
                           !.tables = With1(@, name, def),
                           !.indexes = With1(@, name, <<>>)], 0)

indexDefsForgotten(store, table) == {}                               \* mutant

\* The catalog entries of a table's indexes.
indexDefsOf(store, table) == {k \in scanPrefix(store, catalogIndexPrefix) : store[k].table = table}

execDrop(d, s) ==
    LET table == normalizeName(s.table)
        rows == scanPrefix(d.store, rowKeyPrefix(table))
    IN IF catalogTableKey(table) \notin DOMAIN d.store THEN Error(d)
       ELSE Done([d EXCEPT !.store = Without(@, rows \cup indexDefsOf(@, table) \cup {catalogTableKey(table)}),
                           !.tables = Without(@, {table}),
                           !.indexes = Without(@, {table}),
                           !.sec = Without(@, {i \in DOMAIN @ : @[i].def.table = table})],
                 Cardinality(rows))

\* The checks, the transaction and the indexes for a row that has its values.
insertRow(d, table, def, pk, vals) ==
    IF pk = NULL \/ ~RowFits(vals) \/ rowKey(table, pk) \in DOMAIN d.store THEN Error(d)
    ELSE Done([d EXCEPT !.store = With1(@, rowKey(table, pk), packRow(vals)),
                        !.indexes[table] = With1(@, pk, rowKey(table, pk)),
                        !.sec = Reindex(@, def, table, <<>>, With1(<<>>, pk, vals))], 1)

\* A column named twice takes the last of its values.
rowOf(def, cols, given) ==
    [i \in DOMAIN def |->
        LET j == SelectLastInSeq(cols, LAMBDA c : c = i) IN IF j = 0 THEN NULL ELSE given[j]]

insertGiven(d, table, def, cols, given) ==
    IF Bad \in Range(given) THEN Error(d)
    ELSE LET vals == rowOf(def, cols, given) IN insertRow(d, table, def, vals[pkColumn(def)], vals)

execInsert(d, s) ==
    LET table == normalizeName(s.table)
        def == d.tables[table]
        cols == IF s.columns = <<>> THEN [i \in DOMAIN def |-> i]
                ELSE [j \in DOMAIN s.columns |-> columnIndex(def, s.columns[j])]
    IN IF \/ table \notin DOMAIN d.tables
          \/ Len(cols) # Len(s.values)
          \/ \E j \in DOMAIN cols : cols[j] = NoColumn
       THEN Error(d)
       ELSE insertGiven(d, table, def, cols,
                        [j \in DOMAIN cols |-> exprToValue(s.values[j], def[cols[j]].type)])

\* The row after the assignments, applied in order; a column set twice keeps the last.
Assigned(def, sets, vals) ==
    FoldLeft(LAMBDA row, a : LET ci == columnIndex(def, a.column)
                             IN [row EXCEPT ![ci] = exprToValue(a.value, def[ci].type)],
             vals, sets)

Assignable(def, a) ==
    LET ci == columnIndex(def, a.column) IN ci # NoColumn /\ exprToValue(a.value, def[ci].type) # Bad

\* One round of the loop: a row is assigned to, packed and put in the
\* transaction; an error ends the loop and leaves what was put.
putRow(tx, def, sets, pk, vals) ==
    IF ~tx.ok THEN tx
    ELSE IF \/ \E i \in DOMAIN sets : ~Assignable(def, sets[i])
            \/ ~RowFits(Assigned(def, sets, vals))
    THEN [tx EXCEPT !.ok = FALSE]
    ELSE [tx EXCEPT !.rows = With1(@, pk, Assigned(def, sets, vals))]

\* The transaction after the loop over the rows found.
putRows(def, sets, old) ==
    FoldSet(LAMBDA pk, tx : putRow(tx, def, sets, pk, old[pk]), Collected(<<>>), DOMAIN old)

\* The store with the writes of the transaction.
withWrites(store, table, rows) ==
    Onto(store, [k \in {rowKey(table, pk) : pk \in DOMAIN rows} |-> packRow(rows[Last(k)])])

updateCommitsPart(d, table, def, old, tx) ==                         \* mutant
    IF ~tx.ok THEN Error([d EXCEPT !.store = withWrites(@, table, tx.rows)])
    ELSE Done([d EXCEPT !.store = withWrites(@, table, tx.rows),
                        !.sec = Reindex(@, def, table, old, tx.rows)],
              Cardinality(DOMAIN tx.rows))

\* Update rolls the transaction back after an error; else it is committed and
\* every index of the table follows.
updateRows(d, table, def, old, tx) ==
    IF ~tx.ok THEN Error(d)
    ELSE Done([d EXCEPT !.store = withWrites(@, table, tx.rows),
                        !.sec = Reindex(@, def, table, old, tx.rows)],
              Cardinality(DOMAIN tx.rows))

updateFound(d, s, table, def, found) ==
    IF ~found.ok THEN Error(d)
    ELSE updateRows(d, table, def, found.rows, putRows(def, s.sets, found.rows))

execUpdate(d, s) ==
    LET table == normalizeName(s.table)
        def == d.tables[table]
    IN IF \/ table \notin DOMAIN d.tables
          \/ \E i \in DOMAIN s.sets : normalizeName(s.sets[i].column) = def[pkColumn(def)].name
       THEN Error(d)
       ELSE updateFound(d, s, table, def, collectRows(d, table, s.where))

deleteFound(d, table, found) ==
    IF ~found.ok THEN Error(d)
    ELSE Done([d EXCEPT !.store = Without(@, {rowKey(table, pk) : pk \in DOMAIN found.rows}),
                        !.indexes[table] = Without(@, DOMAIN found.rows),
                        !.sec = Reindex(@, d.tables[table], table, found.rows, <<>>)],
              Cardinality(DOMAIN found.rows))

execDelete(d, s) ==
    LET table == normalizeName(s.table)
    IN IF table \notin DOMAIN d.tables THEN Error(d)
       ELSE deleteFound(d, table, collectRows(d, table, s.where))

execCreateIndex(d, s) ==
    LET index == normalizeName(s.index)
        table == normalizeName(s.table)
        def == d.tables[table]
        ci == columnIndex(def, s.column)
        idef == [table |-> table, column |-> normalizeName(s.column), path |-> s.path]
        read == Rows(d.store, table)
    IN IF \/ table \notin DOMAIN d.tables
          \/ index \in DOMAIN d.sec
          \/ ci \in {NoColumn, pkColumn(def)}
          \/ def[ci].type \notin (IF s.path = <<>> THEN {"INTEGER", "TEXT"} ELSE {"JSON"})
          \/ ~read.ok
       THEN Error(d)
       ELSE Done([d EXCEPT !.store = With1(@, catalogIndexKey(index), idef),
                           !.sec = With1(@, index, [def |-> idef, tree |->
                                        Entries(idef, def, table, read.rows)])], 0)

execDropIndex(d, s) ==
    LET index == normalizeName(s.index)
    IN IF index \notin DOMAIN d.sec THEN Error(d)
       ELSE Done([d EXCEPT !.store = Without(@, {catalogIndexKey(index)}),
                           !.sec = Without(@, {index})], 0)

\* Exec, of a statement that has been parsed.
execute(d, s) ==
    CASE s.op = "create table" -> execCreate(d, s)
      [] s.op = "drop table" -> execDrop(d, s)
      [] s.op = "insert" -> execInsert(d, s)
      [] s.op = "update" -> execUpdate(d, s)
      [] s.op = "delete" -> execDelete(d, s)
      [] s.op = "create index" -> execCreateIndex(d, s)
      [] s.op = "drop index" -> execDropIndex(d, s)
      [] s.op = "select" -> Error(d)

execParsed(d, p, args) ==
    IF p.ok /\ Bindable(Parsed(p), args) THEN execute(d, bindArgs(Parsed(p), args)) ELSE Error(d)

Exec(d, tokens, args) == execParsed(d, parseSQL(tokens), args)

\* What one item of the list selects from a row, as Scan into an any returns it.
Scanned(v) == IF v[1] = "JSON" THEN <<"JSON", jsonToText(v[2])>> ELSE v

OrNull(leaf) == IF leaf = Missing THEN NULL ELSE leaf

Projected(def, item, vals) ==
    LET v == vals[columnIndex(def, item.column)]
    IN IF item.path = <<>> THEN Scanned(v)
       ELSE OrNull(IF v[1] = "JSON" THEN jsonExtract(v[2], item.path) ELSE NULL)

ProjectedRows(def, items, found) ==
    IF ~found.ok THEN Failed
    ELSE Collected([pk \in DOMAIN found.rows |->
                       [i \in DOMAIN items |-> Projected(def, items[i], found.rows[pk])]])

\* execSelect: the selected values by primary key.
execSelect(d, s) ==
    LET table == normalizeName(s.table)
        def == d.tables[table]
        items == IF s.items # <<>> THEN s.items
                 ELSE [i \in DOMAIN def |-> [column |-> def[i].name, path |-> <<>>]]
        col(item) == columnIndex(def, item.column)
    IN IF \/ table \notin DOMAIN d.tables
          \/ \E i \in DOMAIN items : \/ col(items[i]) = NoColumn
                                     \/ items[i].path # <<>> /\ def[col(items[i])].type # "JSON"
       THEN Failed
       ELSE ProjectedRows(def, items, collectRows(d, table, s.where))

queryParsed(d, p, args) ==
    IF p.ok /\ Bindable(Parsed(p), args) /\ Parsed(p).op = "select"
    THEN execSelect(d, bindArgs(Parsed(p), args)) ELSE Failed

Query(d, tokens, args) == queryParsed(d, parseSQL(tokens), args)

-----------------------------------------------------------------------------
\* An index whose table or column is not in the catalog is skipped.  A row
\* that cannot be read would make Open fail; packRow writes none.
rebuildSQLState(store) ==
    LET tables == [t \in {Last(k) : k \in scanPrefix(store, catalogTablePrefix)} |-> store[catalogTableKey(t)]]
        known == {k \in scanPrefix(store, catalogIndexPrefix) :
                     /\ store[k].table \in DOMAIN tables
                     /\ columnIndex(tables[store[k].table], store[k].column) # NoColumn}
    IN [store |-> store,
        tables |-> tables,
        indexes |-> [t \in DOMAIN tables |-> [pk \in {Last(k) : k \in scanPrefix(store, rowKeyPrefix(t))} |->
                                                    rowKey(t, pk)]],
        sec |-> [i \in {Last(k) : k \in known} |->
                    LET idef == store[catalogIndexKey(i)]
                    IN [def |-> idef, tree |-> Entries(idef, tables[idef.table], idef.table,
                                                       Rows(store, idef.table).rows)]]]
=============================================================================
