------------------------------- MODULE Server -------------------------------
(***************************************************************************)
(* The HTTP API (server.go) over the SQL engine and the key-value store,   *)
(* one request at a time, with restarts in between (rebuildSQLState).      *)
(* A request is a record: its path, its method, and for /v1/sql the tokens *)
(* of the statement and its arguments, for /v1/kv/ the key and the body.   *)
(***************************************************************************)
EXTENDS Meaning

CONSTANTS
    Requests,       \* the requests that clients send
    Explored,       \* bound: the catalogs with which more requests are sent
    AfterFailure,   \* bound: the requests sent once a compaction has closed the log
    Corrections,    \* tokens a client may put in the place of another one
    MaxBody         \* bytes of a body that PUT reads: 16 MiB in the code

ASSUME MaxBodyIsNat == MaxBody \in Nat

VARIABLES
    db,         \* the database
    log,        \* "open"; "lost", the descriptor is closed; "closed", db.closed is set
    request,    \* the request that the handler has, or NoRequest
    reply       \* the status, the rows of a SELECT, and rows_affected

vars == <<db, log, request, reply>>

NoRequest == [path |-> "none"]
Status(code) == [code |-> code, rows |-> <<>>, affected |-> 0]
NoReply == Status(0)

-----------------------------------------------------------------------------
(* Handlers.  An outcome is the database after and the reply. *)

Outcome(d, code) == [db |-> d, reply |-> Status(code)]

Selected200(d, selected) ==
    IF selected.ok THEN [db |-> d, reply |-> [Status(200) EXCEPT !.rows = selected.rows]] ELSE Outcome(d, 400)
Executed200(executed) ==
    [db |-> executed.db,
     reply |-> IF executed.ok THEN [Status(200) EXCEPT !.affected = executed.n] ELSE Status(400)]

\* A SELECT goes to Query, every other text to Exec; writeSQLErr turns an error into 400.
handleSQL(d, rq) ==
    IF rq.method # "POST" THEN Outcome(d, 405)
    ELSE IF rq.tokens # <<>> /\ Head(rq.tokens) = Kw("SELECT")
    THEN Selected200(d, Query(d, rq.tokens, rq.args))
    ELSE Executed200(Exec(d, rq.tokens, rq.args))

\* The empty key, as its one part.
NoKey == <<"">>

\* A body is cut at MaxBody bytes; Set and Delete refuse reserved keys.
handleKV(d, rq) ==
    CASE rq.key = NoKey -> Outcome(d, 400)
      [] rq.key # NoKey /\ rq.method = "GET" -> Outcome(d, IF rq.key \in DOMAIN d.store THEN 200 ELSE 404)
      [] rq.method \in {"PUT", "DELETE"} /\ isReservedKey(rq.key) -> Outcome(d, 500)
      [] rq.method = "PUT" /\ ~isReservedKey(rq.key) ->
            Outcome([d EXCEPT !.store = With1(@, rq.key, SubSeq(rq.body, 1, Min({Len(rq.body), MaxBody})))], 204)
      [] rq.method = "DELETE" /\ ~isReservedKey(rq.key) ->
            Outcome([d EXCEPT !.store = Without(@, {rq.key})], 204)
      [] OTHER -> Outcome(d, 405)

\* The handler's answer when every transaction succeeds.
Handled(d, rq) == IF rq.path = "/v1/sql" THEN handleSQL(d, rq) ELSE handleKV(d, rq)

\* Whether the request's transaction writes a key: an UPDATE or DELETE that
\* finds no row does not, a DELETE of an absent user key does.
Writes(d, rq, out) ==
    \/ rq.path = "/v1/kv/" /\ out.reply.code = 204
    \/ rq.path = "/v1/sql" /\ (out.reply.affected > 0 \/ out.db.store # d.store)

\* Begin fails when the database is closed, and a commit that has something to
\* write when the descriptor is; an error other than a conflict is 400 or 500.
FailsOn(l, d, rq, out) ==
    \/ l = "closed" /\ out.reply.code \notin {400, 405}
    \/ l = "lost" /\ Writes(d, rq, out)

Answered(l, d, rq, out) ==
    IF FailsOn(l, d, rq, out) THEN Outcome(d, IF rq.path = "/v1/sql" THEN 400 ELSE 500) ELSE out

Handle(l, d, rq) == Answered(l, d, rq, Handled(d, rq))

\* Where a compaction that fails leaves the log: as it was; closed, because
\* Close or Rename failed; or closed with the database, because the new log
\* could not be opened.
AfterFailedCompact(l) == IF l = "open" THEN {"open", "lost", "closed"} ELSE {l}

-----------------------------------------------------------------------------
Init == db = EmptyDB /\ log = "open" /\ request = NoRequest /\ reply = NoReply

Receive ==
    /\ request = NoRequest /\ reply = NoReply /\ db.tables \in Explored
    /\ request' \in (IF log = "open" THEN Requests ELSE AfterFailure)
    /\ UNCHANGED <<db, log, reply>>

\* Texts that are one token away from a statement.
Variants(tokens) ==
    UNION {{ReplaceAt(tokens, i, c) : c \in Corrections} \cup {RemoveAt(tokens, i)} : i \in DOMAIN tokens}

\* Such a text arrives; bound: while the database is empty.
ReceiveVariant ==
    /\ request = NoRequest /\ reply = NoReply /\ db = EmptyDB /\ log = "open"
    /\ \E rq \in {r \in Requests : r.path = "/v1/sql"} :
          \E tokens \in Variants(rq.tokens) : request' = [rq EXCEPT !.tokens = tokens]
    /\ UNCHANGED <<db, log, reply>>

\* A transaction is at work for the request.
Serving == request # NoRequest /\ request.path # "/v1/compact"

Serve ==
    /\ Serving
    /\ \E out \in {Handle(log, db, request)} : db' = out.db /\ reply' = out.reply
    /\ request' = NoRequest
    /\ UNCHANGED log

\* Another transaction committed first what this one writes.
ServeConflict ==
    /\ Serving /\ log # "closed"
    /\ Writes(db, request, Handled(db, request))
    /\ reply' = Status(409)
    /\ request' = NoRequest
    /\ UNCHANGED <<db, log>>

\* /v1/checkpoint and /v1/compact: Compact changes no value that a read can see.
handleCompact ==
    /\ request # NoRequest /\ request.path = "/v1/compact"
    /\ \/ request.method # "POST" /\ reply' = Status(405) /\ UNCHANGED log
       \/ request.method = "POST" /\ log = "open" /\ reply' = Status(204) /\ UNCHANGED log
       \/ request.method = "POST" /\ reply' = Status(500) /\ log' \in AfterFailedCompact(log)
    /\ request' = NoRequest
    /\ UNCHANGED db

\* The reply is written and the handler returns.
Respond ==
    /\ reply # NoReply
    /\ reply' = NoReply
    /\ UNCHANGED <<db, log, request>>

\* Open after the process stopped; the log holds the store (module MVCC).
Restart ==
    /\ db' = rebuildSQLState(db.store)
    /\ log' = "open"
    /\ request' = NoRequest
    /\ reply' = NoReply

Next == Receive \/ ReceiveVariant \/ Serve \/ ServeConflict \/ handleCompact \/ Respond \/ Restart

Spec == Init /\ [][Next]_vars

-----------------------------------------------------------------------------
(* Properties. *)

RowKeys(store) == scanPrefix(store, <<reservedPart, "t">>)

\* Between requests pages are bytes and indexes lead to rows that exist; there
\* is no reply while a request is being served.
TypeOK ==
    IF request # NoRequest THEN reply = NoReply
    ELSE /\ \A k \in RowKeys(db.store) :
                /\ Len(db.store[k]) = PageSize
                /\ Range(db.store[k]) \subseteq Bytes
         /\ \A t \in DOMAIN db.indexes : Range(db.indexes[t]) \subseteq DOMAIN db.store
         /\ \A i \in DOMAIN db.sec : Range(db.sec[i].tree) \subseteq DOMAIN db.store

IsSQL(rq) == rq # NoRequest /\ rq.path = "/v1/sql"

\* parseSQL reads all of a text and nothing but the text: the statement it
\* returns, written out, is the text again, but for a semicolon at the end.
ReadsAll(tokens, p) ==
    p.ok => tokens \in {StatementText(Parsed(p)), Append(StatementText(Parsed(p)), <<";">>)}
ParsesWhatItReads == IsSQL(request) => ReadsAll(request.tokens, parseSQL(request.tokens))

\* The text with its parameters replaced by their arguments, from the left.
ArgToken(a) == ExprText(anyToExpr(a))[1]
Inlined(tokens, args) ==
    [i \in DOMAIN tokens |->
        IF tokens[i] # <<"?">> THEN tokens[i]
        ELSE ArgToken(args[Cardinality({j \in 1..i : tokens[j] = <<"?">>})])]

\* parseSQL, maxParam and bindArgs number parameters the same way in every
\* clause: a statement with arguments is the statement with them written out.
BindsInOrder(tokens, args, p) ==
    p.ok /\ Bindable(Parsed(p), args) =>
        bindArgs(Parsed(p), args) = Parsed(parseSQL(Inlined(tokens, args)))
ParamsAreLiterals == IsSQL(request) => BindsInOrder(request.tokens, request.args, parseSQL(request.tokens))

\* Between requests, what the statements keep up to date in memory is what
\* rebuildSQLState would build from the store: a restart changes no answer.
RebuildAgrees == request = NoRequest => rebuildSQLState(db.store) = db

\* A row or a document that lost bytes at its end is an error to decodeRow and
\* to decodeJSON, never a shorter row or another document.
TruncationDetected ==
    request = NoRequest => \A k \in RowKeys(db.store) :
        LET payload == DecodeRowPage(db.store[k]).v
            docs == {v[2] : v \in {w \in Range(unpackRow(db.store[k]).v) : w[1] = "JSON"}}
        IN /\ \A n \in 0..(Len(payload) - 1) : ~decodeRow(SubSeq(payload, 1, n)).ok
           /\ \A bin \in docs : \A n \in 0..(Len(bin) - 1) : ~decodeJSON(SubSeq(bin, 1, n)).ok

\* The statement that the pending request asks for, if its text and arguments are accepted.
Accepted(rq) == LET p == parseSQL(rq.tokens) IN rq.method = "POST" /\ p.ok /\ Bindable(Parsed(p), rq.args)
Statement(rq) == bindArgs(Parsed(parseSQL(rq.tokens)), rq.args)

\* The rows a WHERE clause means; operands that are NULL or not of the column's
\* type are left out, for the three access paths differ on them.
PlainWhere(rel, s) ==
    s.op \in {"update", "delete", "select"} /\ normalizeName(s.table) \in DOMAIN rel =>
        Plain(rel[normalizeName(s.table)].def, s.where)

\* Whether the log takes what a statement writes: always while it is open, and
\* once its descriptor is lost only if that is nothing.
Writable(rel, s) ==
    \/ log = "open"
    \/ log = "lost" /\ s.op \in {"update", "delete"} /\ Target(rel, s) = {}

\* A statement has the effect on the tables that module Meaning gives it, or
\* is refused and has none; so pages, binary JSON, index keys and access paths
\* lose nothing.  In an UPDATE of several rows all change or none does, also
\* when one of them turns out too large after others were put in the
\* transaction, and rows_affected says how many.  After a compaction that took
\* the log away, statements that write are refused.
ExecutesAsSQL ==
    [][request # NoRequest /\ reply'.code \in {200, 400, 409} =>
          LET rel == TablesOf(db.store)
              after == TablesOf(db'.store)
              s == Statement(request)
          IN /\ reply'.code # 200 => after = rel
             /\ /\ reply'.code # 409 /\ IsSQL(request) /\ Accepted(request)
                /\ s.op \notin {"select", "create index", "drop index"} /\ PlainWhere(rel, s)
                => IF Executable(rel, s) /\ Writable(rel, s)
                   THEN reply'.code = 200 /\ after = Executed(rel, s) /\ reply'.affected = Affected(rel, s)
                   ELSE reply'.code = 400 /\ after = rel]_vars

\* A SELECT answers the rows of the tables that satisfy its WHERE clause,
\* whichever of the primary-key index, a secondary index, a path index or the
\* scan collectRows takes; it is refused only if it names what the table does
\* not have, or the database is closed.
SelectAnswers ==
    [][IsSQL(request) /\ reply'.code \in {200, 400} /\ Accepted(request) =>
          LET s == Statement(request)
              rel == TablesOf(db.store)
          IN s.op = "select" /\ PlainWhere(rel, s) =>
                IF Answerable(rel, s) /\ log # "closed"
                THEN reply'.code = 200 /\ reply'.rows = Answer(rel, s)
                ELSE reply'.code = 400]_vars

\* Tables and user keys are kept apart in one store: a request of the key-value
\* API changes no table and nothing that Open would build from the store, and
\* no statement adds, changes or removes a key that the key-value API can
\* write.  This needs the reserved prefix on every key that statements write
\* and on every prefix that they scan, and the same prefix in isReservedKey.
UserPairs(store) == [k \in {q \in DOMAIN store : ~isReservedKey(q)} |-> store[k]]
InMemory(d) == <<d.tables, d.indexes, d.sec>>
UserKeysAndTablesApart ==
    [][request # NoRequest =>
          IF IsSQL(request) THEN UserPairs(db'.store) = UserPairs(db.store)
          ELSE /\ TablesOf(db'.store) = TablesOf(db.store)
               /\ InMemory(rebuildSQLState(db'.store)) = InMemory(rebuildSQLState(db.store))]_vars
=============================================================================
