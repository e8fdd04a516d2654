--------------------------------- MODULE SQL ---------------------------------
(***************************************************************************)
(* SQL statements over one table (sql_exec.go, catalog.go, secondary.go).  *)
(* Rows and catalog entries are keys of the transactional store; the       *)
(* catalog cache, the primary-key index and the secondary index are in     *)
(* memory and are updated after the commit, in a critical section of their *)
(* own.  Each critical section and each transaction boundary is a step, so *)
(* statements of several sessions interleave between them.                 *)
(*                                                                         *)
(* The table has an INTEGER primary key and one INTEGER column, which the  *)
(* secondary index, when there is one, covers.  The B+trees are the sets   *)
(* of the keys they hold.  Transactions behave as module SnapshotStore     *)
(* says: a snapshot at Begin, first committer wins.                        *)
(***************************************************************************)
EXTENDS Integers

CONSTANTS
    Sessions,   \* goroutines that call Exec and Query
    PKs,        \* primary keys, a set of integers
    Ints,       \* the column's values other than NULL
    TableKey,   \* catalogTableKey(name)
    IndexKey,   \* the index's catalog key
    Null,
    Absent,     \* the value of a key that is not in the store
    Trees,      \* what newSecondaryIdx can return
    Scenarios   \* what the store holds at first, and who may execute what

Keys == PKs \cup {TableKey, IndexKey}
Cols == Ints \cup {Null}

\* A statement: the operation, how WHERE selects rows (by primary key, by the
\* column, or all of them), its operand, and the value INSERT or UPDATE sets.
Statement ==
    [op : {"insert", "update", "delete", "select", "create_table", "drop_table",
           "create_index", "drop_index"},
     by : {"none", "pk", "col", "all"}, arg : PKs \cup Cols, set : Cols]

\* A scenario: the catalog keys that an earlier process left in the store, and
\* the statements each session may execute.
ASSUME ScenariosTyped ==
    \A sc \in Scenarios :
        /\ sc.existing \subseteq {TableKey, IndexKey}
        /\ \A s \in Sessions : \A st \in sc.script[s] :
              st \in Statement /\ (st.op = "insert" => st.arg \in PKs)
\* NULL, a missing value and the catalog's keys are none of the others.
ASSUME ConstantsDiffer ==
    /\ Null \notin Ints /\ Absent \notin Cols /\ Absent # TRUE
    /\ \A S \in SUBSET PKs : Absent # S
    /\ TableKey # IndexKey /\ {TableKey, IndexKey} \cap PKs = {}
\* newSecondaryIdx never runs out: while a session holds no tree there is one
\* that neither the map nor a statement refers to.
ASSUME TreesSuffice ==
    /\ Trees \subseteq Nat \ {0} /\ 1 \in Trees
    /\ \A held \in [Sessions -> Trees \cup {0}] : \A idx \in Trees \cup {0} :
          (\E s \in Sessions : held[s] = 0)
              => \E t \in Trees : t # idx /\ \A s \in Sessions : t # held[s]
ASSUME ZeroIsInt == PKs \subseteq Nat /\ Ints \subseteq Nat /\ 0 \in PKs \cap Ints

VARIABLES
    scenario,   \* the scenario of this behaviour
    store,      \* the committed value of every key
    tables,     \* db.tables has the table
    pkIndex,    \* the keys in db.indexes[name], or Absent
    sec,        \* which tree db.secIndexes[idxName] is, or 0
    trees,      \* secondary indexes: the set of <<value, pk>> in each
    pc,         \* per session: the step of the statement it executes
    stmt,       \* the statement
    snap,       \* the snapshot of its transaction
    stale,      \* the keys committed since by others
    rows,       \* what collectRows found
    tree        \* the secondaryIdx it holds a pointer to, or 0

mem == <<tables, pkIndex, sec, trees>>
session == <<pc, stmt, snap, stale, rows, tree>>
vars == <<scenario, store, mem, session>>

NoStatement == [op |-> "select", by |-> "all", arg |-> Null, set |-> Null]

NoSnapshot == [k \in Keys |-> Absent]

Live(st) == {k \in PKs : st[k] # Absent}

EntryOfNull(k, v) == IF v # Absent THEN {<<v, k>>} ELSE {}           \* mutant

\* valueFromRow: NULL is not indexed.
Entry(k, v) == IF v \in Ints THEN {<<v, k>>} ELSE {}
Entries(st) == UNION {Entry(k, st[k]) : k \in PKs}

\* newSecondaryIdx: a tree that no map and no statement refers to.
NewTree == CHOOSE t \in Trees : t # sec /\ \A s \in Sessions : t # tree[s]

-----------------------------------------------------------------------------
(* Starting a statement: the checks against the cache, made under RLock.   *)
(* A statement that fails them returns an error and changes nothing.       *)

NeedsTable == {"insert", "update", "delete", "select", "create_index"}

Start(s, st) ==
    /\ pc[s] \in {"idle", "done"}
    /\ st.op \in NeedsTable => tables
    /\ st.op = "create_index" => sec = 0
    /\ st.op = "drop_index" => sec # 0
    /\ stmt' = [stmt EXCEPT ![s] = st]
    /\ pc' = [pc EXCEPT ![s] = IF st.op = "create_index" THEN "build" ELSE "begin"]
    /\ rows' = [rows EXCEPT ![s] = {}] /\ snap' = [snap EXCEPT ![s] = NoSnapshot]
    /\ UNCHANGED <<store, mem, stale, tree>>

\* execCreateIndex: one View scans the table into a shadow index.
Build(s) ==
    /\ pc[s] = "build"
    /\ tree' = [tree EXCEPT ![s] = NewTree]
    /\ trees' = [trees EXCEPT ![NewTree] = Entries(store)]
    /\ pc' = [pc EXCEPT ![s] = "begin"]
    /\ UNCHANGED <<store, tables, pkIndex, sec, stmt, snap, stale, rows>>

\* View and Update begin a transaction.
Begin(s) ==
    /\ pc[s] = "begin"
    /\ snap' = [snap EXCEPT ![s] = store]
    /\ stale' = [stale EXCEPT ![s] = {}]
    /\ pc' = [pc EXCEPT ![s] =
                 IF stmt[s].op \in {"update", "delete", "select"} THEN "collect" ELSE "commit"]
    /\ UNCHANGED <<store, mem, stmt, rows, tree>>

-----------------------------------------------------------------------------
(* collectRows. *)

\* Where the statement goes with the rows it found.
Collected(s, found) ==
    /\ rows' = [rows EXCEPT ![s] = found]
    /\ pc' = [pc EXCEPT ![s] = IF stmt[s].op = "select" THEN "done" ELSE "commit"]

\* exprToValue turns NULL into a Value whose Int is 0, and both index paths
\* look only at Int.
Operand(v) == IF v = Null THEN 0 ELSE v

\* WHERE pk = arg: the primary-key index decides, then the snapshot.
CollectByPK(s) ==
    /\ pc[s] = "collect" /\ stmt[s].by = "pk"
    /\ LET k == Operand(stmt[s].arg)
       IN  Collected(s, IF pkIndex # Absent /\ k \in pkIndex THEN {k} \cap Live(snap[s]) ELSE {})
    /\ UNCHANGED <<store, mem, stmt, snap, stale, tree>>

\* matchWhere on every row of the snapshot; valuesEqual finds NULL equal to NULL.
Matching(st, where) ==
    {k \in Live(st) : CASE where.by = "pk" -> k = where.arg
                        [] where.by = "col" -> st[k] = where.arg
                        [] OTHER -> TRUE}

ScanUnfiltered(s) ==                                                 \* mutant
    /\ pc[s] = "collect"
    /\ stmt[s].by = "all" \/ (stmt[s].by = "col" /\ sec = 0)
    /\ Collected(s, Live(snap[s]))
    /\ UNCHANGED <<store, mem, stmt, snap, stale, tree>>

CollectByScan(s) ==
    /\ pc[s] = "collect"
    /\ stmt[s].by = "all" \/ (stmt[s].by = "col" /\ sec = 0)
    /\ Collected(s, Matching(snap[s], stmt[s]))
    /\ UNCHANGED <<store, mem, stmt, snap, stale, tree>>

\* WHERE col = arg with an index: a pointer to it is taken in one critical
\* section and used in the next.
FindIndex(s) ==
    /\ pc[s] = "collect" /\ stmt[s].by = "col" /\ sec # 0
    /\ tree' = [tree EXCEPT ![s] = sec]
    /\ pc' = [pc EXCEPT ![s] = "lookup"]
    /\ UNCHANGED <<store, mem, stmt, snap, stale, rows>>

\* The row is read from the snapshot; the predicate is not checked again.
Lookup(s) ==
    /\ pc[s] = "lookup"
    /\ Collected(s, {k \in Live(snap[s]) : <<Operand(stmt[s].arg), k>> \in trees[tree[s]]})
    /\ tree' = [tree EXCEPT ![s] = 0]
    /\ UNCHANGED <<store, mem, stmt, snap, stale>>

-----------------------------------------------------------------------------
(* Committing. *)

\* The body of the transaction returns an error: duplicate primary key,
\* table already exists, no such table.
BodyFails(s) ==
    LET st == stmt[s]
    IN  \/ st.op = "insert" /\ snap[s][st.arg] # Absent
        \/ st.op = "create_table" /\ snap[s][TableKey] # Absent
        \/ st.op = "drop_table" /\ snap[s][TableKey] = Absent

\* The keys that the transaction writes, with their values.
WritesOf(s) ==
    LET st == stmt[s]
        all(S, v) == [k \in S |-> v]
    IN  CASE st.op = "insert" -> all({st.arg}, st.set)
          [] st.op = "update" -> all(rows[s], st.set)
          [] st.op = "delete" -> all(rows[s], Absent)
          [] st.op = "create_table" -> all({TableKey}, TRUE)
          [] st.op = "drop_table" ->
                all(Live(snap[s]) \cup {TableKey} \cup
                    (IF snap[s][IndexKey] = Absent THEN {} ELSE {IndexKey}), Absent)
          [] st.op = "create_index" -> all({IndexKey}, TRUE)
          [] st.op = "drop_index" -> all({IndexKey}, Absent)

InTransaction(s) == pc[s] \in {"collect", "lookup", "commit"}

Conflicts(s) == DOMAIN WritesOf(s) \cap stale[s] # {}

\* The store once the writes w are applied.
Written(w) == [k \in Keys |-> IF k \in DOMAIN w THEN w[k] ELSE store[k]]

CommitBlind(s) ==                                                    \* mutant
    /\ pc[s] = "commit" /\ ~BodyFails(s)
    /\ store' = Written(WritesOf(s))
    /\ stale' = [u \in Sessions |->
                  IF InTransaction(u) /\ u # s THEN stale[u] \cup DOMAIN WritesOf(s) ELSE {}]
    /\ pc' = [pc EXCEPT ![s] = "publish"]
    /\ UNCHANGED <<mem, stmt, snap, rows, tree>>

Commit(s) ==
    /\ pc[s] = "commit" /\ ~BodyFails(s) /\ ~Conflicts(s)
    /\ store' = Written(WritesOf(s))
    /\ stale' = [u \in Sessions |->
                  IF InTransaction(u) /\ u # s THEN stale[u] \cup DOMAIN WritesOf(s) ELSE {}]
    /\ pc' = [pc EXCEPT ![s] = "publish"]
    /\ UNCHANGED <<mem, stmt, snap, rows, tree>>

\* The statement ends and its local state with it.
Return(s) ==
    /\ pc' = [pc EXCEPT ![s] = "idle"]
    /\ stmt' = [stmt EXCEPT ![s] = NoStatement]
    /\ snap' = [snap EXCEPT ![s] = NoSnapshot]
    /\ stale' = [stale EXCEPT ![s] = {}]
    /\ rows' = [rows EXCEPT ![s] = {}]
    /\ tree' = [tree EXCEPT ![s] = 0]

\* The statement returns an error; nothing was written, nothing is published.
Fail(s) ==
    /\ pc[s] = "commit" /\ (BodyFails(s) \/ Conflicts(s))
    /\ Return(s)
    /\ UNCHANGED <<store, mem>>

-----------------------------------------------------------------------------
(* Publishing: the critical section that follows a successful commit. *)

Published(s) ==
    /\ pc[s] = "publish"
    /\ Return(s)
    /\ UNCHANGED store

\* Entries that leave and join the secondary index.
Reindex(gone, new) ==
    trees' = IF sec = 0 THEN trees ELSE [trees EXCEPT ![sec] = (@ \ gone) \cup new]

PublishInsert(s) ==
    /\ stmt[s].op = "insert" /\ Published(s)
    /\ pkIndex' = (IF pkIndex = Absent THEN {} ELSE pkIndex) \cup {stmt[s].arg}
    /\ Reindex({}, Entry(stmt[s].arg, stmt[s].set))
    /\ UNCHANGED <<tables, sec>>

OldEntries(s) == UNION {Entry(k, snap[s][k]) : k \in rows[s]}
NewEntries(s) == UNION {Entry(k, stmt[s].set) : k \in rows[s]}

PublishUpdate(s) ==
    /\ stmt[s].op = "update" /\ Published(s)
    /\ Reindex(OldEntries(s), NewEntries(s))
    /\ UNCHANGED <<tables, pkIndex, sec>>

DeleteKeepsEntries(s) ==                                             \* mutant
    /\ stmt[s].op = "delete" /\ Published(s)
    /\ pkIndex' = IF pkIndex = Absent THEN Absent ELSE pkIndex \ rows[s]
    /\ UNCHANGED <<tables, sec, trees>>

PublishDelete(s) ==
    /\ stmt[s].op = "delete" /\ Published(s)
    /\ pkIndex' = IF pkIndex = Absent THEN Absent ELSE pkIndex \ rows[s]
    /\ Reindex(OldEntries(s), {})
    /\ UNCHANGED <<tables, sec>>

PublishCreate(s) ==
    /\ stmt[s].op = "create_table" /\ Published(s)
    /\ tables' = TRUE /\ pkIndex' = {}
    /\ UNCHANGED <<sec, trees>>

PublishDrop(s) ==
    /\ stmt[s].op = "drop_table" /\ Published(s)
    /\ tables' = FALSE /\ pkIndex' = Absent /\ sec' = 0
    /\ UNCHANGED trees

PublishCreateIndex(s) ==
    /\ stmt[s].op = "create_index" /\ Published(s)
    /\ sec' = tree[s]
    /\ UNCHANGED <<tables, pkIndex, trees>>

PublishDropIndex(s) ==
    /\ stmt[s].op = "drop_index" /\ Published(s)
    /\ sec' = 0
    /\ UNCHANGED <<tables, pkIndex, trees>>

-----------------------------------------------------------------------------
(* The process ends and the database is opened again: rebuildSQLState      *)
(* recreates the cache and the indexes from the store.  An index whose     *)
(* table is gone is skipped.                                               *)

Idle ==
    /\ pc' = [s \in Sessions |-> "idle"]
    /\ stmt' = [s \in Sessions |-> NoStatement]
    /\ snap' = [s \in Sessions |-> NoSnapshot]
    /\ stale' = [s \in Sessions |-> {}]
    /\ rows' = [s \in Sessions |-> {}]
    /\ tree' = [s \in Sessions |-> 0]

Restart ==
    /\ Idle
    /\ tables' = (store[TableKey] # Absent)
    /\ pkIndex' = IF tables' THEN Live(store) ELSE Absent
    /\ sec' = IF tables' /\ store[IndexKey] # Absent THEN 1 ELSE 0
    /\ trees' = [t \in Trees |-> IF t = sec' THEN Entries(store) ELSE {}]
    /\ UNCHANGED store

Init ==
    /\ scenario \in Scenarios
    /\ store = [k \in Keys |-> IF k \in scenario.existing THEN TRUE ELSE Absent]
    /\ tables = (TableKey \in scenario.existing)
    /\ pkIndex = IF tables THEN {} ELSE Absent
    /\ sec = IF scenario.existing = {TableKey, IndexKey} THEN 1 ELSE 0
    /\ trees = [t \in Trees |-> {}]
    /\ pc = [s \in Sessions |-> "idle"]
    /\ stmt = [s \in Sessions |-> NoStatement]
    /\ snap = [s \in Sessions |-> NoSnapshot]
    /\ stale = [s \in Sessions |-> {}]
    /\ rows = [s \in Sessions |-> {}]
    /\ tree = [s \in Sessions |-> 0]

Step(s) ==
    \/ \E st \in scenario.script[s] : Start(s, st)
    \/ Build(s) \/ Begin(s)
    \/ CollectByPK(s) \/ CollectByScan(s) \/ FindIndex(s) \/ Lookup(s)
    \/ Commit(s) \/ Fail(s)
    \/ PublishInsert(s) \/ PublishUpdate(s) \/ PublishDelete(s)
    \/ PublishCreate(s) \/ PublishDrop(s)
    \/ PublishCreateIndex(s) \/ PublishDropIndex(s)

Next ==
    /\ Restart \/ \E s \in Sessions : Step(s)
    /\ UNCHANGED scenario

Spec == Init /\ [][Next]_vars

-----------------------------------------------------------------------------
(* Properties. *)

\* Every variable has its type, and a statement holds a secondary index only
\* while it builds one or looks one up.
TypeOK ==
    /\ \A k \in PKs : store[k] \in Cols \cup {Absent}
    /\ \A k \in {TableKey, IndexKey} : store[k] \in {TRUE, Absent}
    /\ tables \in BOOLEAN
    /\ pkIndex = Absent \/ pkIndex \subseteq PKs
    /\ sec \in Trees \cup {0}
    /\ trees \in [Trees -> SUBSET (Ints \X PKs)]
    /\ pc \in [Sessions -> {"idle", "build", "begin", "collect", "lookup", "commit", "publish", "done"}]
    /\ stmt \in [Sessions -> Statement]
    /\ stale \in [Sessions -> SUBSET Keys]
    /\ rows \in [Sessions -> SUBSET PKs]
    /\ \A s \in Sessions :
          /\ tree[s] \in Trees \cup {0}
          /\ tree[s] # 0 <=> \/ pc[s] = "lookup"
                             \/ stmt[s].op = "create_index" /\ pc[s] \in {"begin", "commit", "publish"}

Quiet == \A s \in Sessions : pc[s] \in {"idle", "done"}

\* The statements that read and write one row, the one they name.
ByKey(st) == st.op = "insert" \/ (st.op \in {"update", "delete", "select"} /\ st.by = "pk")

\* Statements that two sessions may execute at once without one finding, or
\* leaving, an index that is behind the store: they name different rows, or
\* insert the same one, and then one of them fails.
Independent(a, b) ==
    ByKey(a) /\ ByKey(b) /\ (a.arg = b.arg => a.op = "insert" /\ b.op = "insert")

\* A scenario in which concurrent statements are independent, WHERE has no NULL
\* operand, and the process before left no index without its table.
Disciplined(sc) ==
    /\ IndexKey \in sc.existing => TableKey \in sc.existing
    /\ \A s \in Sessions : \A a \in sc.script[s] :
          /\ a.by \in {"pk", "col"} => a.arg # Null
          /\ \A u \in Sessions \ {s} : \A b \in sc.script[u] : Independent(a, b)

\* DML and DDL maintain every in-memory structure: between statements the
\* catalog cache, the primary-key index and the secondary index say what the
\* store says, whatever statements ran and wherever the process was stopped.
IndexesMatch ==
    Quiet =>
      /\ tables <=> store[TableKey] # Absent
      /\ tables => pkIndex = Live(store)
      /\ sec # 0 <=> store[IndexKey] # Absent
      /\ sec # 0 => trees[sec] = Entries(store)

\* "DML statements automatically maintain all secondary indexes": between
\* statements the secondary index has the rows of the table.
SecondaryMatches == Quiet /\ sec # 0 => trees[sec] = Entries(store)

\* collectRows finds exactly the rows of its snapshot that satisfy WHERE,
\* whichever of its three paths it takes, so SELECT answers, and UPDATE and
\* DELETE change, what the snapshot says.
CollectsMatchingRows ==
    \A s \in Sessions :
      (stmt[s].op \in {"select", "update", "delete"} /\ pc[s] \in {"commit", "done"})
         => rows[s] = Matching(snap[s], stmt[s])

\* Concurrent statements do not overwrite each other: a commit changes keys
\* only from the values its statement saw in its snapshot, so INSERT never
\* replaces a row and UPDATE never revives a deleted one.
NoLostWrite ==
    [][\A s \in Sessions :
          pc[s] = "commit" /\ pc'[s] = "publish"
             => \A k \in DOMAIN WritesOf(s) : store[k] = snap[s][k]]_vars
=============================================================================
