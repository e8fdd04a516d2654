------------------------------ MODULE MCServer ------------------------------
(***************************************************************************)
(* A small instance of module Server: one table name with two definitions, *)
(* two primary keys of each, a column index and a path index, documents    *)
(* that reach every branch of binary JSON, and user keys that look like    *)
(* the keys of tables.                                                     *)
(***************************************************************************)
EXTENDS Server

a == <<1>>
ab == <<1, 2>>
PathA == <<Dollar, Dot, 1>>

Num(h, plain) == <<"num", h, plain>>
Obj(v) == <<"obj", << <<a, v>> >> >>

OneDoc == Obj(Num(2, TRUE))
BigDoc == <<"obj", << <<ab, Num(-64, TRUE)>>, <<a, <<"str", ab>> >> >> >>
TwiceDoc == <<"obj", << <<a, Num(2, TRUE)>>, <<a, <<"str", a>> >> >> >>
DeepDoc == Obj(Obj(<<"null">>))
MCDocuments ==
    {OneDoc, BigDoc, TwiceDoc, DeepDoc, Obj(Num(2, FALSE)), Obj(Num(3, FALSE)), Obj(Num(80, TRUE)),
     Obj(Num(162, TRUE)), Obj(<<"str", ab>>), Obj(<<"bool", TRUE>>), Obj(<<"null">>), Obj(<<"arr", <<>> >>),
     <<"arr", <<Num(2, TRUE), <<"bool", FALSE>> >> >>}

MCFloats == <<2, 3, 80>>
MCLower == [s \in {"T", "N", "J", "KEY"} |->
               CASE s = "T" -> "t" [] s = "N" -> "n" [] s = "J" -> "j" [] s = "KEY" -> "key"]

-----------------------------------------------------------------------------
\* Words and punctuation; literals are put in between.
Lex(words) ==
    [i \in DOMAIN words |-> IF words[i] \in {"(", ")", ",", "=", "*", ";", "?"} THEN <<words[i]>> ELSE Word(words[i])]
Lit(n) == << <<"num", n>> >>
Str(s) == << <<"str", s>> >>
Doc(d) == Str(TextOf(d))
ExtractA == Lex(<<"JSON_EXTRACT", "(", "j", ",">>) \o Str(PathA) \o Lex(<<")">>)
Where(left, right) == Lex(<<"WHERE">>) \o left \o Lex(<<"=">>) \o right

SQL(tokens, args) == [path |-> "/v1/sql", method |-> "POST", tokens |-> tokens, args |-> args]
Text0(tokens) == SQL(tokens, <<>>)

CreateDocs ==
    Lex(<<"CREATE", "TABLE", "t", "(", "k", "INTEGER", "PRIMARY", "KEY", ",", "n", "TEXT", ",", "J", "JSON", ")">>)
CreateBlobs ==
    Lex(<<"CREATE", "TABLE", "T", "(", "b", "BLOB", ",", "KEY", "TEXT", "PRIMARY", "KEY", ",", "n", "INTEGER", ")", ";">>)
MCExplored == {<<>>} \cup {With1(<<>>, "t", Definition(Parsed(parseSQL(c)))) : c \in {CreateDocs, CreateBlobs}}
Definitions ==
    {Text0(CreateDocs), Text0(CreateBlobs), Text0(Lex(<<"DROP", "TABLE", "t">>)),
     Text0(Lex(<<"CREATE", "INDEX", "i", "ON", "t", "(", "N", ")">>)),
     Text0(Lex(<<"CREATE", "INDEX", "p", "ON", "t", "(", "j", ")", "PATH">>) \o Str(PathA)),
     Text0(Lex(<<"DROP", "INDEX", "i">>))}

InsertParams == Lex(<<"INSERT", "INTO", "t", "VALUES", "(", "?", ",", "?", ",", "?", ")">>)
Inserts ==
    {SQL(InsertParams, << <<"float", 3>>, <<"string", a>>, <<"string", TextOf(d)>> >>) : d \in MCDocuments}
    \cup {SQL(InsertParams, << <<"float", 4>>, <<"string", ab>>, <<"string", TextOf(OneDoc)>> >>),
          SQL(InsertParams, << <<"bytes", ab>>, <<"string", ab>>, <<"float", -3>> >>),
          SQL(InsertParams, << <<"nil">>, <<"string", a>>, <<"float", 2>> >>),
          SQL(InsertParams, << <<"nil">>, <<"bool">> >>),
          Text0(Lex(<<"INSERT", "INTO", "t", "(", "n", ",", "KEY", ",", "n", ")", "VALUES", "(">>)
                \o Lit(0) \o Lex(<<",">>) \o Str(<<>>) \o Lex(<<",">>) \o Lit(-32) \o Lex(<<")">>))}

Updates ==
    {SQL(Lex(<<"UPDATE", "t", "SET", "n", "=", "?", "WHERE", "k", "=", "?">>), << <<"string", a>>, <<"float", 4>> >>),
     Text0(Lex(<<"UPDATE", "t", "SET", "j", "=">>) \o Doc(BigDoc)),
     SQL(Lex(<<"UPDATE", "T", "SET", "N", "=", "?">>) \o Where(ExtractA, Lex(<<"?">>)), << <<"nil">>, <<"float", 2>> >>),
     Text0(Lex(<<"UPDATE", "t", "SET", "k", "=">>) \o Lit(2))}

Deletes ==
    {Text0(Lex(<<"DELETE", "FROM", "t">>) \o Where(Lex(<<"n">>), Str(ab))),
     Text0(Lex(<<"DELETE", "FROM", "t">>) \o Where(Lex(<<"KEY">>), Str(ab)) \o Lex(<<"AND", "n", "=", "NULL">>)),
     Text0(Lex(<<"DELETE", "FROM", "t">>))}

Selects ==
    {Text0(Lex(<<"SELECT", "*", "FROM", "t">>) \o Where(Lex(<<"n">>), v)) :
        v \in {Str(a), Str(ab), Lit(-3), Lit(0), Lex(<<"NULL">>)}}
    \cup {Text0(Lex(<<"SELECT", "n", ",">>) \o ExtractA \o Lex(<<"FROM", "t">>) \o Where(ExtractA, v)) :
        v \in {Lit(1), Str(a), Str(ab), Str(TrueText), Str(NumberText(3)), << <<"blob", a>> >>}}
    \cup {Text0(Lex(<<"SELECT", "*", "FROM", "t">>)),
          SQL(Lex(<<"SELECT", "n", "FROM", "t", "WHERE", "k", "=", "?", "AND", "n", "=", "?", ";">>),
              << <<"int", 2>>, <<"string", ab>> >>)}

KV(method, key, body) == [path |-> "/v1/kv/", method |-> method, key |-> key, body |-> body]
Compact(method) == [path |-> "/v1/compact", method |-> method]

\* User keys that have the parts of a row's or a catalog entry's key but not
\* the first, or the first only; one of them is also written.
LikeRow == <<"t", "t", "r", Integer(1)>>
LikeReserved == {<<"__rdb__">>, <<"meta", "tables", "t">>, <<"meta", "indexes", "i">>}
Reserved == {rowKey("t", Integer(1)), catalogTableKey("t"), catalogIndexKey("i")}
RowPage == packRow(<<Integer(1), NULL, NULL>>)

MCRequests ==
    Definitions \cup Inserts \cup Updates \cup Deletes \cup Selects
    \cup {KV(m, LikeRow, Append(RowPage, 1)) : m \in {"GET", "PUT", "DELETE", "POST"}}
    \cup {KV(m, k, <<>>) : m \in {"GET", "DELETE"}, k \in LikeReserved}
    \cup {KV(m, k, RowPage) : m \in {"GET", "PUT", "DELETE"}, k \in Reserved}
    \cup {KV("GET", NoKey, <<>>), Compact("GET"), Compact("POST"),
          [path |-> "/v1/sql", method |-> "GET", tokens |-> <<>>, args |-> <<>>]}

\* One request of each kind.
MCAfterFailure ==
    {Text0(Lex(<<"SELECT", "*", "FROM", "t">>)), Text0(Lex(<<"DELETE", "FROM", "t">>)),
     Text0(Lex(<<"DROP", "TABLE", "t">>)), KV("GET", LikeRow, <<>>), KV("DELETE", LikeRow, <<>>),
     Compact("POST")}

MCCorrections == {<<"?">>, <<",">>, <<";">>, Kw("NULL"), Word("x"), <<"num", 32>>, <<"str", <<Dollar, Dot>> >>}
=============================================================================
