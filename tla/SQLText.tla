------------------------------- MODULE SQLText -------------------------------
(***************************************************************************)
(* Statement text (sql_lex.go, sql_parse.go, sql_ast.go) and the binding   *)
(* of arguments (sql_exec.go).  Text is the sequence of its tokens, each a *)
(* tuple that starts with its kind.  A parsing operator takes the parser   *)
(* (the tokens left, the number of ? seen, whether all went well, and the  *)
(* values parsed so far) and returns it further on; all errors are one.    *)
(***************************************************************************)
EXTENDS JSONBin

CONSTANT Lower      \* lower-case spelling of the names that are not lower-case

normalizeName(s) == IF s \in DOMAIN Lower THEN Lower[s] ELSE s

Keywords ==
    {"CREATE", "TABLE", "DROP", "INSERT", "INTO", "VALUES", "SELECT", "FROM", "UPDATE", "SET",
     "DELETE", "WHERE", "AND", "PRIMARY", "KEY", "INTEGER", "TEXT", "BLOB", "JSON", "NULL",
     "INDEX", "ON", "PATH", "JSON_EXTRACT"}

\* lexIdent: a word is a keyword or an identifier.  Keywords count in any case;
\* here they are in upper case.
Word(s) == IF s \in Keywords THEN <<"kw", s>> ELSE <<"id", s>>
Kw(s) == <<"kw", s>>

-----------------------------------------------------------------------------
Parser(tokens) == [in |-> tokens, nArg |-> 0, ok |-> TRUE, vals |-> <<>>]
Fail(p) == [p EXCEPT !.ok = FALSE]
tok(p) == IF p.in = <<>> THEN <<"eof">> ELSE Head(p.in)
advance(p) == [p EXCEPT !.in = Tail(@)]
at(p, t) == p.ok /\ tok(p) = t
expect(p, t) == IF at(p, t) THEN advance(p) ELSE Fail(p)

\* The value v was parsed, without reading a token and by reading one.
Push(p, v) == [p EXCEPT !.vals = Append(@, v)]
Read(p, v) == [Push(p, v) EXCEPT !.in = Tail(@)]

\* The last n values become the one that Make makes of them.
Reduce(p, n, Make(_)) ==
    IF ~p.ok THEN p
    ELSE [p EXCEPT !.vals = Append(SubSeq(@, 1, Len(@) - n), Make(SubSeq(@, Len(@) - n + 1, Len(@))))]

\* The value parsed last has to satisfy a condition.
Require(p, Cond(_)) == IF p.ok /\ Cond(Last(p.vals)) THEN p ELSE Fail(p)

\* Keywords are allowed as identifiers.
parseIdent(p) == IF p.ok /\ tok(p)[1] \in {"id", "kw"} THEN Read(p, tok(p)[2]) ELSE Fail(p)

parseLiteral(p, t) ==
    CASE t[1] = "num" /\ t[2] \in MinInt..MaxInt -> Read(p, <<"int", t[2]>>)
      [] t[1] = "str" -> Read(p, <<"text", t[2]>>)
      [] t[1] = "blob" -> Read(p, <<"blob", t[2]>>)
      [] t = Kw("NULL") -> Read(p, <<"null">>)
      [] OTHER -> Fail(p)

paramsUncounted(p) ==                                                \* mutant
    IF ~p.ok THEN p
    ELSE IF tok(p) = <<"?">> THEN Read(p, <<"param", p.nArg>>)
    ELSE parseLiteral(p, tok(p))

parseExpr(p) ==
    IF ~p.ok THEN p
    ELSE IF tok(p) = <<"?">> THEN [Read(p, <<"param", p.nArg>>) EXCEPT !.nArg = @ + 1]
    ELSE parseLiteral(p, tok(p))

\* A string token that spells a JSON path.
parsePath(p) == IF p.ok /\ tok(p)[1] = "str" /\ ValidPath(tok(p)[2]) THEN Read(p, tok(p)[2]) ELSE Fail(p)

\* json_extract(col, 'path'), or a column; the empty path stands for none.
parseOperand(p) ==
    Reduce(IF at(p, Kw("JSON_EXTRACT"))
           THEN expect(parsePath(expect(parseIdent(expect(advance(p), <<"(">>)), <<",">>)), <<")">>)
           ELSE Push(parseIdent(p), <<>>),
           2, LAMBDA v : [column |-> v[1], path |-> v[2]])

\* column = expr, in SET.
parseAssign(p) ==
    Reduce(parseExpr(expect(parseIdent(p), <<"=">>)), 2, LAMBDA v : [column |-> v[1], value |-> v[2]])

parsePred(p) ==
    Reduce(parseExpr(expect(parseOperand(p), <<"=">>)), 2,
           LAMBDA v : [column |-> v[1].column, path |-> v[1].path, value |-> v[2]])

parseType(p) ==
    IF p.ok /\ tok(p) \in {Kw("INTEGER"), Kw("TEXT"), Kw("BLOB"), Kw("JSON")} THEN Read(p, tok(p)[2]) ELSE Fail(p)

parsePrimaryKey(p) ==
    IF at(p, Kw("PRIMARY")) THEN expect(Push(advance(p), TRUE), Kw("KEY")) ELSE Push(p, FALSE)

parseColumnDef(p) ==
    Require(Reduce(parsePrimaryKey(parseType(parseIdent(p))), 3,
                   LAMBDA v : [name |-> v[1], type |-> v[2], pk |-> v[3]]),
            LAMBDA c : c.pk => c.type \in {"INTEGER", "TEXT"})

Item(what, p) ==
    CASE what = "ident" -> parseIdent(p)
      [] what = "expr" -> parseExpr(p)
      [] what = "operand" -> parseOperand(p)
      [] what = "assign" -> parseAssign(p)
      [] what = "pred" -> parsePred(p)
      [] what = "column" -> parseColumnDef(p)

\* One or more items with a separator between them.
RECURSIVE MoreItems(_, _, _)
MoreItems(what, sep, p) ==
    IF at(p, sep)
    THEN MoreItems(what, sep, Reduce(Item(what, advance(p)), 2, LAMBDA v : Append(v[1], v[2])))
    ELSE p

ListOf(what, sep, p) == MoreItems(what, sep, Reduce(Item(what, p), 1, LAMBDA v : v))

Parenthesised(what, p) == expect(ListOf(what, <<",">>, expect(p, <<"(">>)), <<")">>)

parseWhereOptional(p) ==
    IF at(p, Kw("WHERE")) THEN ListOf("pred", Kw("AND"), advance(p)) ELSE Push(p, <<>>)

parseCreateTable(p) ==
    Reduce(Require(Parenthesised("column", parseIdent(expect(p, Kw("TABLE")))),
                   LAMBDA cols : Len(SelectSeq(cols, LAMBDA c : c.pk)) = 1),
           2, LAMBDA v : [op |-> "create table", table |-> v[1], columns |-> v[2]])

parsePathOptional(p) == IF at(p, Kw("PATH")) THEN parsePath(advance(p)) ELSE Push(p, <<>>)

parseCreateIndex(p) ==
    Reduce(parsePathOptional(expect(parseIdent(expect(parseIdent(expect(parseIdent(expect(p,
                Kw("INDEX"))), Kw("ON"))), <<"(">>)), <<")">>)),
           4, LAMBDA v : [op |-> "create index", index |-> v[1], table |-> v[2], column |-> v[3], path |-> v[4]])

parseDrop(p) ==
    IF at(p, Kw("INDEX"))
    THEN Reduce(parseIdent(advance(p)), 1, LAMBDA v : [op |-> "drop index", index |-> v[1]])
    ELSE Reduce(parseIdent(expect(p, Kw("TABLE"))), 1, LAMBDA v : [op |-> "drop table", table |-> v[1]])

parseColumnsOptional(p) == IF at(p, <<"(">>) THEN Parenthesised("ident", p) ELSE Push(p, <<>>)

parseInsert(p) ==
    Reduce(Parenthesised("expr", expect(parseColumnsOptional(parseIdent(expect(p, Kw("INTO")))), Kw("VALUES"))),
           3, LAMBDA v : [op |-> "insert", table |-> v[1], columns |-> v[2], values |-> v[3]])

\* SELECT * has no items.
parseItems(p) == IF at(p, <<"*">>) THEN Read(p, <<>>) ELSE ListOf("operand", <<",">>, p)

parseSelect(p) ==
    Reduce(parseWhereOptional(parseIdent(expect(parseItems(p), Kw("FROM")))),
           3, LAMBDA v : [op |-> "select", table |-> v[2], items |-> v[1], where |-> v[3]])

parseUpdate(p) ==
    Reduce(parseWhereOptional(ListOf("assign", <<",">>, expect(parseIdent(p), Kw("SET")))),
           3, LAMBDA v : [op |-> "update", table |-> v[1], sets |-> v[2], where |-> v[3]])

parseDelete(p) ==
    Reduce(parseWhereOptional(parseIdent(expect(p, Kw("FROM")))),
           2, LAMBDA v : [op |-> "delete", table |-> v[1], where |-> v[2]])

parseCreate(p) == IF at(p, Kw("INDEX")) THEN parseCreateIndex(p) ELSE parseCreateTable(p)

parseStmt(p) ==
    CASE at(p, Kw("CREATE")) -> parseCreate(advance(p))
      [] at(p, Kw("DROP")) -> parseDrop(advance(p))
      [] at(p, Kw("INSERT")) -> parseInsert(advance(p))
      [] at(p, Kw("SELECT")) -> parseSelect(advance(p))
      [] at(p, Kw("UPDATE")) -> parseUpdate(advance(p))
      [] at(p, Kw("DELETE")) -> parseDelete(advance(p))
      [] OTHER -> Fail(p)

trailingIgnored(tokens) == parseStmt(Parser(tokens))                 \* mutant

skipSemi(p) == IF at(p, <<";">>) THEN advance(p) ELSE p
atEOF(p) == IF p.in = <<>> THEN p ELSE Fail(p)

\* The parser after the statement; ok says whether the text was accepted.
parseSQL(tokens) == atEOF(skipSemi(parseStmt(Parser(tokens))))

\* The statement it has parsed.
Parsed(p) == p.vals[1]

-----------------------------------------------------------------------------
(* Arguments. *)

\* int64(v) of a float64 given in halves: the fraction is dropped.
Truncated(h) == IF h >= 0 THEN h \div 2 ELSE -((-h) \div 2)

Unsupported == <<"unsupported">>

anyToExpr(a) ==
    CASE a[1] = "nil" -> <<"null">>
      [] a[1] = "int" -> <<"int", a[2]>>
      [] a[1] = "float" -> <<"int", Truncated(a[2])>>
      [] a[1] = "string" -> <<"text", a[2]>>
      [] a[1] = "bytes" -> <<"blob", a[2]>>
      [] OTHER -> Unsupported

Exprs(s) ==
    LET valuesOf(q) == [i \in DOMAIN q |-> q[i].value]
    IN CASE s.op = "insert" -> s.values
         [] s.op = "update" -> valuesOf(s.sets) \o valuesOf(s.where)
         [] s.op \in {"select", "delete"} -> valuesOf(s.where)
         [] OTHER -> <<>>

Params(s) == SelectSeq(Exprs(s), LAMBDA e : e[1] = "param")

\* More arguments than parameters are accepted, fewer are not.
Bindable(s, args) ==
    \A i \in DOMAIN Params(s) :
        LET n == Params(s)[i][2] + 1 IN n <= Len(args) /\ anyToExpr(args[n]) # Unsupported

bindArgs(s, args) ==
    LET fill(e) == IF e[1] = "param" THEN anyToExpr(args[e[2] + 1]) ELSE e
        fillAll(q) == [i \in DOMAIN q |-> [q[i] EXCEPT !.value = fill(@)]]
    IN CASE s.op = "insert" -> [s EXCEPT !.values = [i \in DOMAIN @ |-> fill(@[i])]]
         [] s.op = "update" -> [s EXCEPT !.sets = fillAll(@), !.where = fillAll(@)]
         [] s.op \in {"select", "delete"} -> [s EXCEPT !.where = fillAll(@)]
         [] OTHER -> s
=============================================================================
