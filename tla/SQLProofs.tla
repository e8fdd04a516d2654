------------------------------ MODULE SQLProofs ------------------------------
(***************************************************************************)
(* Proof that statements of any number of sessions, interleaved at every   *)
(* critical section and interrupted by restarts, lose no write.            *)
(***************************************************************************)
EXTENDS SQL, TLAPS

\* Zenon proves a step unless the step names another prover.
USE Zenon

\* Where a statement can be.
Points == {"idle", "build", "begin", "collect", "lookup", "commit", "publish", "done"}

Stored == Cols \cup {Absent, TRUE}

\* The types that the argument needs; an INSERT names a primary key and
\* a SELECT has nothing to commit.
Typed ==
    /\ scenario \in Scenarios
    /\ store \in [Keys -> Stored]
    /\ pc \in [Sessions -> Points]
    /\ stmt \in [Sessions -> Statement]
    /\ snap \in [Sessions -> [Keys -> Stored]]
    /\ stale \in [Sessions -> SUBSET Keys]
    /\ rows \in [Sessions -> SUBSET PKs]
    /\ \A s \in Sessions : stmt[s].op = "insert" => stmt[s].arg \in PKs
    /\ \A s \in Sessions : pc[s] = "commit" => stmt[s].op # "select"

\* A key that differs from the snapshot of an open transaction is in its
\* conflict set: nothing that was committed since escapes Tx.Commit's check.
StaleCoversChanges ==
    \A s \in Sessions : InTransaction(s) =>
        \A k \in Keys \ stale[s] : store[k] = snap[s][k]

SInv == Typed /\ StaleCoversChanges

\* Transactions write only keys of the model, with values of its types.
LEMMA WritesTyped ==
    ASSUME Typed, NEW s \in Sessions, pc[s] = "commit"
    PROVE  /\ DOMAIN WritesOf(s) \subseteq Keys
           /\ \A k \in DOMAIN WritesOf(s) : WritesOf(s)[k] \in Stored
<1> DEFINE st == stmt[s]
<1>1. st \in Statement /\ rows[s] \subseteq PKs /\ Live(snap[s]) \subseteq PKs
  BY DEF Typed, Live
<1>2. st.set \in Cols /\ st.op \in {"insert", "update", "delete", "create_table", "drop_table",
                                   "create_index", "drop_index"}
  BY <1>1 DEF Statement, Typed
<1>3. CASE st.op = "insert"
  <2>1. st.arg \in PKs
    BY <1>3 DEF Typed
  <2>2. WritesOf(s) = [k \in {st.arg} |-> st.set]
    BY <1>3 DEF WritesOf
  <2> QED BY <1>2, <2>1, <2>2 DEF Keys, Stored
<1>4. CASE st.op = "update"
  <2>1. WritesOf(s) = [k \in rows[s] |-> st.set]
    BY <1>4 DEF WritesOf
  <2> QED BY <1>1, <1>2, <2>1 DEF Keys, Stored
<1>5. CASE st.op = "delete"
  <2>1. WritesOf(s) = [k \in rows[s] |-> Absent]
    BY <1>5 DEF WritesOf
  <2> QED BY <1>1, <2>1 DEF Keys, Stored
<1>6. CASE st.op = "create_table"
  <2>1. WritesOf(s) = [k \in {TableKey} |-> TRUE]
    BY <1>6 DEF WritesOf
  <2> QED BY <2>1 DEF Keys, Stored
<1>7. CASE st.op = "drop_table"
  <2> DEFINE S == Live(snap[s]) \cup {TableKey} \cup (IF snap[s][IndexKey] = Absent THEN {} ELSE {IndexKey})
  <2>1. WritesOf(s) = [k \in S |-> Absent]
    BY <1>7 DEF WritesOf
  <2>2. S \subseteq Keys
    BY <1>1 DEF Keys
  <2> HIDE DEF S
  <2> QED BY <2>1, <2>2 DEF Stored
<1>8. CASE st.op = "create_index"
  <2>1. WritesOf(s) = [k \in {IndexKey} |-> TRUE]
    BY <1>8 DEF WritesOf
  <2> QED BY <2>1 DEF Keys, Stored
<1>9. CASE st.op = "drop_index"
  <2>1. WritesOf(s) = [k \in {IndexKey} |-> Absent]
    BY <1>9 DEF WritesOf
  <2> QED BY <2>1 DEF Keys, Stored
<1> QED BY <1>2, <1>3, <1>4, <1>5, <1>6, <1>7, <1>8, <1>9

\* Initially no transaction is open.
LEMMA InitSInv == Init => SInv
<1> SUFFICES ASSUME Init PROVE SInv
  OBVIOUS
<1>1. \A s \in Sessions : ~InTransaction(s)
  BY DEF Init, InTransaction
<1>2. NoStatement \in Statement /\ NoStatement.op # "insert"
  BY DEF NoStatement, Statement, Cols
<1>3. NoSnapshot \in [Keys -> Stored] /\ store \in [Keys -> Stored]
  BY DEF NoSnapshot, Stored, Init
<1>4. Typed
  <2>1. pc \in [Sessions -> Points] /\ stale \in [Sessions -> SUBSET Keys] /\ rows \in [Sessions -> SUBSET PKs]
    BY DEF Init, Points
  <2>2. /\ stmt \in [Sessions -> Statement] /\ snap \in [Sessions -> [Keys -> Stored]]
        /\ \A s \in Sessions : stmt[s].op # "insert" /\ pc[s] # "commit"
    BY <1>2, <1>3 DEF Init
  <2>3. scenario \in Scenarios
    BY DEF Init
  <2> QED BY <1>3, <2>1, <2>2, <2>3 DEF Typed
<1> QED BY <1>1, <1>4 DEF SInv, StaleCoversChanges

\* A step that leaves the store and the other sessions alone keeps the
\* invariant if the session's own state is typed and its transaction, if it is
\* open afterwards, has the snapshot and the conflict set it had.
LEMMA OwnStep ==
    ASSUME SInv, NEW s \in Sessions, UNCHANGED <<scenario, store>>,
           NEW p \in Points, pc' = [pc EXCEPT ![s] = p],
           stmt' \in [Sessions -> Statement],
           \A u \in Sessions : stmt'[u].op = "insert" => stmt'[u].arg \in PKs,
           snap' \in [Sessions -> [Keys -> Stored]],
           stale' \in [Sessions -> SUBSET Keys],
           rows' \in [Sessions -> SUBSET PKs],
           \A u \in Sessions \ {s} : stmt'[u] = stmt[u] /\ snap'[u] = snap[u] /\ stale'[u] = stale[u],
           p \in {"collect", "lookup", "commit"} =>
              \/ InTransaction(s) /\ snap'[s] = snap[s] /\ stale'[s] = stale[s]
              \/ snap'[s] = store,
           p = "commit" => stmt'[s].op # "select"
    PROVE  SInv'
<1>1. Typed'
  BY DEF SInv, Typed
<1>2. StaleCoversChanges'
  <2> SUFFICES ASSUME NEW u \in Sessions, InTransaction(u)', NEW k \in Keys \ stale'[u]
               PROVE  store[k] = snap'[u][k]
    BY DEF StaleCoversChanges
  <2>1. CASE u # s
    BY <2>1, SMT DEF SInv, Typed, StaleCoversChanges, InTransaction
  <2>2. CASE u = s
    <3>1. p \in {"collect", "lookup", "commit"}
      BY <2>2 DEF SInv, Typed, InTransaction
    <3> QED BY <2>2, <3>1, SMT DEF SInv, StaleCoversChanges
  <2> QED BY <2>1, <2>2
<1> QED BY <1>1, <1>2 DEF SInv

\* A session that returns has no transaction.
LEMMA ReturnStep ==
    ASSUME SInv, NEW s \in Sessions, UNCHANGED <<scenario, store>>, Return(s)
    PROVE  SInv'
<1>1. NoStatement \in Statement /\ NoStatement.op # "insert"
  BY DEF NoStatement, Statement, Cols
<1>2. NoSnapshot \in [Keys -> Stored]
  BY DEF NoSnapshot, Stored
<1>3. /\ stmt' \in [Sessions -> Statement]
      /\ \A u \in Sessions : stmt'[u].op = "insert" => stmt'[u].arg \in PKs
      /\ snap' \in [Sessions -> [Keys -> Stored]]
      /\ stale' \in [Sessions -> SUBSET Keys]
      /\ rows' \in [Sessions -> SUBSET PKs]
      /\ \A u \in Sessions \ {s} : stmt'[u] = stmt[u] /\ snap'[u] = snap[u] /\ stale'[u] = stale[u]
  BY <1>1, <1>2 DEF SInv, Typed, Return
<1>4. pc' = [pc EXCEPT ![s] = "idle"]
  BY DEF Return
<1>5. "idle" \in Points /\ "idle" \notin {"collect", "lookup", "commit"}
  BY DEF Points
<1> HIDE DEF SInv
<1> QED BY <1>3, <1>4, <1>5, OwnStep

\* What a commit does to the store and to the conflict sets of the others.
LEMMA CommitStep ==
    ASSUME SInv, NEW s \in Sessions, UNCHANGED scenario, Commit(s)
    PROVE  SInv'
<1> DEFINE W == WritesOf(s)
<1>1. DOMAIN W \subseteq Keys /\ \A k \in DOMAIN W : W[k] \in Stored
  BY WritesTyped DEF SInv, Commit
<1>2. store' = Written(W)
  BY DEF Commit
<1>3. store' \in [Keys -> Stored] /\ \A k \in Keys \ DOMAIN W : store'[k] = store[k]
  <2> HIDE DEF W
  <2> QED BY <1>1, <1>2 DEF Written, SInv, Typed
<1>4. stale' = [u \in Sessions |->
                 IF InTransaction(u) /\ u # s THEN stale[u] \cup DOMAIN W ELSE {}]
  BY DEF Commit
<1>5. pc' = [pc EXCEPT ![s] = "publish"] /\ UNCHANGED <<stmt, snap, rows>>
  BY DEF Commit
<1> HIDE DEF W
<1>6. Typed'
  <2>1. stale' \in [Sessions -> SUBSET Keys]
    BY <1>1, <1>4 DEF SInv, Typed
  <2>2. pc' \in [Sessions -> Points]
    BY <1>5 DEF SInv, Typed, Points
  <2> QED BY <1>3, <1>5, <2>1, <2>2 DEF SInv, Typed
<1>7. StaleCoversChanges'
  <2> SUFFICES ASSUME NEW u \in Sessions, InTransaction(u)', NEW k \in Keys \ stale'[u]
               PROVE  store'[k] = snap[u][k]
    BY <1>5 DEF StaleCoversChanges
  <2>1. u # s /\ InTransaction(u)
    BY <1>5 DEF SInv, Typed, InTransaction
  <2>2. k \in Keys \ stale[u] /\ k \notin DOMAIN W
    BY <1>4, <2>1
  <2> QED BY <1>3, <2>1, <2>2 DEF SInv, StaleCoversChanges
<1> QED BY <1>6, <1>7 DEF SInv

\* Every step keeps the invariant.
LEMMA NextSInv == SInv /\ [Next]_vars => SInv'
<1> SUFFICES ASSUME SInv, [Next]_vars PROVE SInv'
  OBVIOUS
<1> DEFINE Kept(s) == /\ stmt' \in [Sessions -> Statement]
                      /\ \A u \in Sessions : stmt'[u].op = "insert" => stmt'[u].arg \in PKs
                      /\ snap' \in [Sessions -> [Keys -> Stored]]
                      /\ stale' \in [Sessions -> SUBSET Keys]
                      /\ rows' \in [Sessions -> SUBSET PKs]
                      /\ \A u \in Sessions \ {s} : stmt'[u] = stmt[u] /\ snap'[u] = snap[u] /\ stale'[u] = stale[u]
<1>1. CASE UNCHANGED vars
  BY <1>1 DEF vars, session, SInv, Typed, StaleCoversChanges, InTransaction
<1>2. CASE Restart /\ UNCHANGED scenario
  <2>1. \A s \in Sessions : ~InTransaction(s)'
    BY <1>2 DEF Restart, Idle, InTransaction
  <2>2. NoStatement \in Statement /\ NoStatement.op # "insert" /\ NoSnapshot \in [Keys -> Stored]
    BY DEF NoStatement, Statement, Cols, NoSnapshot, Stored
  <2>3. pc' \in [Sessions -> Points] /\ stale' \in [Sessions -> SUBSET Keys] /\ rows' \in [Sessions -> SUBSET PKs]
    BY <1>2 DEF Restart, Idle, Points
  <2>4. /\ stmt' \in [Sessions -> Statement] /\ snap' \in [Sessions -> [Keys -> Stored]]
        /\ \A s \in Sessions : stmt'[s].op # "insert" /\ pc'[s] # "commit"
    BY <1>2, <2>2 DEF Restart, Idle
  <2>5. Typed'
    BY <1>2, <2>3, <2>4 DEF Restart, SInv, Typed
  <2> QED BY <2>1, <2>5 DEF SInv, StaleCoversChanges
<1>3. ASSUME NEW s \in Sessions, Step(s), UNCHANGED scenario
      PROVE  SInv'
  <2>1. ASSUME NEW st \in scenario.script[s], Start(s, st) PROVE SInv'
    <3>1. st \in Statement /\ (st.op = "insert" => st.arg \in PKs)
      BY <2>1, ScenariosTyped DEF SInv, Typed
    <3>2. NoSnapshot \in [Keys -> Stored]
      BY DEF NoSnapshot, Stored
    <3>3. Kept(s)
      BY <2>1, <3>1, <3>2 DEF Start, SInv, Typed
    <3> DEFINE p == IF st.op = "create_index" THEN "build" ELSE "begin"
    <3>4. p \in Points /\ p \notin {"collect", "lookup", "commit"}
      BY DEF Points
    <3>5. pc' = [pc EXCEPT ![s] = p] /\ UNCHANGED <<scenario, store>>
      BY <1>3, <2>1 DEF Start
    <3> HIDE DEF p
    <3> QED BY <3>3, <3>4, <3>5, OwnStep
  <2>2. CASE Build(s)
    <3>1. Kept(s)
      BY <2>2 DEF Build, SInv, Typed
    <3>2. pc' = [pc EXCEPT ![s] = "begin"] /\ UNCHANGED <<scenario, store>>
      BY <1>3, <2>2 DEF Build
    <3>3. "begin" \in Points /\ "begin" \notin {"collect", "lookup", "commit"}
      BY DEF Points
    <3> QED BY <3>1, <3>2, <3>3, OwnStep
  <2>3. CASE Begin(s)
    <3> DEFINE p == IF stmt[s].op \in {"update", "delete", "select"} THEN "collect" ELSE "commit"
    <3>1. Kept(s) /\ snap'[s] = store
      BY <2>3 DEF Begin, SInv, Typed
    <3>2. p \in Points /\ (p = "commit" => stmt'[s].op # "select")
      BY <2>3 DEF Begin, Points
    <3>3. pc' = [pc EXCEPT ![s] = p] /\ UNCHANGED <<scenario, store>>
      BY <1>3, <2>3 DEF Begin
    <3> HIDE DEF p
    <3> QED BY <3>1, <3>2, <3>3, OwnStep
  <2>4. ASSUME NEW found \in SUBSET PKs, Collected(s, found), InTransaction(s), UNCHANGED <<store, stmt, snap, stale>>
        PROVE  SInv'
    <3> DEFINE p == IF stmt[s].op = "select" THEN "done" ELSE "commit"
    <3>1. Kept(s) /\ snap'[s] = snap[s] /\ stale'[s] = stale[s]
      BY <2>4 DEF Collected, SInv, Typed
    <3>2. p \in Points /\ (p = "commit" => stmt'[s].op # "select")
      BY <2>4 DEF Points
    <3>3. pc' = [pc EXCEPT ![s] = p] /\ UNCHANGED <<scenario, store>>
      BY <1>3, <2>4 DEF Collected
    <3> HIDE DEF p
    <3> QED BY <2>4, <3>1, <3>2, <3>3, OwnStep
  <2>5. CASE CollectByPK(s)
    <3>1. Live(snap[s]) \subseteq PKs
      BY DEF Live
    <3> QED BY <2>4, <2>5, <3>1 DEF CollectByPK, InTransaction
  <2>6. CASE CollectByScan(s)
    <3>1. Matching(snap[s], stmt[s]) \subseteq PKs
      BY DEF Matching, Live
    <3> QED BY <2>4, <2>6, <3>1 DEF CollectByScan, InTransaction
  <2>7. CASE FindIndex(s)
    <3>1. Kept(s) /\ snap'[s] = snap[s] /\ stale'[s] = stale[s] /\ InTransaction(s)
      BY <2>7 DEF FindIndex, SInv, Typed, InTransaction
    <3>2. pc' = [pc EXCEPT ![s] = "lookup"] /\ UNCHANGED <<scenario, store>>
      BY <1>3, <2>7 DEF FindIndex
    <3>3. "lookup" \in Points /\ "lookup" # "commit"
      BY DEF Points
    <3> QED BY <3>1, <3>2, <3>3, OwnStep
  <2>8. CASE Lookup(s)
    <3> DEFINE found == {k \in Live(snap[s]) : <<Operand(stmt[s].arg), k>> \in trees[tree[s]]}
    <3>1. found \subseteq PKs
      BY DEF Live
    <3>2. Collected(s, found) /\ InTransaction(s) /\ UNCHANGED <<store, stmt, snap, stale>>
      BY <2>8 DEF Lookup, InTransaction
    <3> HIDE DEF found
    <3> QED BY <2>4, <3>1, <3>2
  <2>9. CASE Commit(s)
    BY <1>3, <2>9, CommitStep
  <2>10. CASE Fail(s) \/ PublishInsert(s) \/ PublishUpdate(s) \/ PublishDelete(s) \/ PublishCreate(s)
              \/ PublishDrop(s) \/ PublishCreateIndex(s) \/ PublishDropIndex(s)
    <3>1. Return(s) /\ UNCHANGED store
      BY <2>10 DEF Fail, Published, PublishInsert, PublishUpdate, PublishDelete, PublishCreate,
                   PublishDrop, PublishCreateIndex, PublishDropIndex
    <3> QED BY <1>3, <3>1, ReturnStep
  <2> QED BY <1>3, <2>1, <2>2, <2>3, <2>5, <2>6, <2>7, <2>8, <2>9, <2>10 DEF Step
<1> QED BY <1>1, <1>2, <1>3 DEF Next

\* For any sessions, statements, keys and values, and restarts at any step:
\* Update's conflict check (tx.go:98) makes every commit of a statement change
\* only keys that still have the values the statement saw.
THEOREM StatementsLoseNoWrite == Spec => NoLostWrite
<1> DEFINE A == \A s \in Sessions :
                  pc[s] = "commit" /\ pc'[s] = "publish"
                     => \A k \in DOMAIN WritesOf(s) : store[k] = snap[s][k]
<1>1. SInv /\ [Next]_vars => [A]_vars
  <2> SUFFICES ASSUME SInv, Next, NEW s \in Sessions, pc[s] = "commit", pc'[s] = "publish",
                      NEW k \in DOMAIN WritesOf(s)
               PROVE  store[k] = snap[s][k]
    OBVIOUS
  <2>1. Commit(s)
    <3>1. ~Restart
      BY DEF Restart, Idle
    <3>2. PICK u \in Sessions : Step(u)
      BY <3>1 DEF Next
    <3>3. u = s
      <4> SUFFICES ASSUME u # s PROVE pc'[s] = pc[s]
        OBVIOUS
      <4> QED BY <3>2 DEF Step, Start, Build, Begin, CollectByPK, CollectByScan, FindIndex, Lookup, Collected,
                 Commit, Fail, Return, Published, PublishInsert, PublishUpdate, PublishDelete, PublishCreate,
                 PublishDrop, PublishCreateIndex, PublishDropIndex, SInv, Typed
    <3> QED BY <3>2, <3>3 DEF Step, Start, Build, Begin, CollectByPK, CollectByScan, FindIndex, Lookup,
               Fail, Return, Published, PublishInsert, PublishUpdate, PublishDelete, PublishCreate,
               PublishDrop, PublishCreateIndex, PublishDropIndex, SInv, Typed
  <2>2. k \in Keys
    BY WritesTyped DEF SInv
  <2>3. k \notin stale[s]
    BY <2>1 DEF Commit, Conflicts
  <2> QED BY <2>2, <2>3 DEF SInv, StaleCoversChanges, InTransaction
<1>2. NoLostWrite <=> [][A]_vars
  BY DEF NoLostWrite
<1> HIDE DEF A
<1> QED BY <1>1, <1>2, InitSInv, NextSInv, PTL DEF Spec
-----------------------------------------------------------------------------
(* Types.  A CREATE INDEX in the making holds a tree of its own, which the *)
(* sessions and the map leave free for it.                                 *)

\* The points of a statement that only some statements reach, and the values
\* that the keys of rows and of the catalog may have.
Refined ==
    /\ tree \in [Sessions -> Trees \cup {0}]
    /\ \A s \in Sessions :
          /\ pc[s] \in {"collect", "lookup", "done"} => stmt[s].op \in {"update", "delete", "select"}
          /\ pc[s] = "build" => stmt[s].op = "create_index"

TInv == SInv /\ TypeOK /\ Refined

\* While a session holds no tree, newSecondaryIdx returns one nothing refers to.
LEMMA FreeTree ==
    ASSUME TypeOK, NEW s \in Sessions, tree[s] = 0
    PROVE  NewTree \in Trees /\ NewTree # sec /\ \A u \in Sessions : NewTree # tree[u]
<1> DEFINE held == [u \in Sessions |-> tree[u]]
<1>1. held \in [Sessions -> Trees \cup {0}] /\ sec \in Trees \cup {0}
  BY DEF TypeOK
<1>2. \A u \in Sessions : held[u] = tree[u]
  OBVIOUS
<1> HIDE DEF held
<1>3. \E t \in Trees : t # sec /\ \A u \in Sessions : t # held[u]
  BY <1>1, <1>2, TreesSuffice
<1> QED BY <1>2, <1>3, SMT DEF NewTree

StoreTyped ==
    /\ \A k \in PKs : store[k] \in Cols \cup {Absent}
    /\ \A k \in {TableKey, IndexKey} : store[k] \in {TRUE, Absent}

MemTyped ==
    /\ tables \in BOOLEAN
    /\ pkIndex = Absent \/ pkIndex \subseteq PKs
    /\ sec \in Trees \cup {0}
    /\ trees \in [Trees -> SUBSET (Ints \X PKs)]

\* When a statement holds a tree.
TreeHeld ==
    \A s \in Sessions :
        tree[s] # 0 <=> \/ pc[s] = "lookup"
                        \/ stmt[s].op = "create_index" /\ pc[s] \in {"begin", "commit", "publish"}

\* Index entries pair a value of the column with a primary key.
LEMMA EntryTyped ==
    /\ \A k \in PKs : \A v : Entry(k, v) \subseteq Ints \X PKs
    /\ \A st : Entries(st) \subseteq Ints \X PKs
<1>1. \A k \in PKs : \A v : Entry(k, v) \subseteq Ints \X PKs
  BY SMT DEF Entry
<1> QED BY <1>1, SMT DEF Entries

\* Rows get values of the column, catalog keys the value of an entry.
LEMMA StoreStep ==
    ASSUME TInv, NEW s \in Sessions, Commit(s)
    PROVE  StoreTyped'
<1> DEFINE st == stmt[s]
           W == WritesOf(s)
           Fits == /\ \A k \in DOMAIN W \cap PKs : W[k] \in Cols \cup {Absent}
                   /\ \A k \in DOMAIN W \cap {TableKey, IndexKey} : W[k] \in {TRUE, Absent}
<1>1. st \in Statement /\ rows[s] \subseteq PKs /\ Live(snap[s]) \subseteq PKs /\ (st.op = "insert" => st.arg \in PKs)
  BY DEF TInv, SInv, Typed, Live
<1>2. st.set \in Cols /\ st.op \in {"insert", "update", "delete", "create_table", "drop_table",
                                   "create_index", "drop_index"}
  BY <1>1 DEF Statement, TInv, SInv, Typed, Commit
<1>3. \A k \in {TableKey, IndexKey} : k \notin PKs
  BY ConstantsDiffer
<1>4. Fits
  <2>1. CASE st.op = "insert"
    <3>1. W = [k \in {st.arg} |-> st.set]
      BY <2>1 DEF WritesOf
    <3> HIDE DEF W
    <3> QED BY <1>1, <1>2, <1>3, <2>1, <3>1
  <2>2. CASE st.op = "update"
    <3>1. W = [k \in rows[s] |-> st.set]
      BY <2>2 DEF WritesOf
    <3> HIDE DEF W
    <3> QED BY <1>1, <1>2, <1>3, <3>1
  <2>3. CASE st.op \in {"delete", "drop_table", "drop_index"}
    <3>1. \A k \in DOMAIN W : W[k] = Absent
      BY <2>3 DEF WritesOf
    <3> HIDE DEF W
    <3> QED BY <3>1
  <2>4. CASE st.op = "create_table"
    <3>1. W = [k \in {TableKey} |-> TRUE]
      BY <2>4 DEF WritesOf
    <3> HIDE DEF W
    <3> QED BY <1>3, <3>1
  <2>5. CASE st.op = "create_index"
    <3>1. W = [k \in {IndexKey} |-> TRUE]
      BY <2>5 DEF WritesOf
    <3> HIDE DEF W
    <3> QED BY <1>3, <3>1
  <2> QED BY <1>2, <2>1, <2>2, <2>3, <2>4, <2>5
<1>5. store' = Written(W)
  BY DEF Commit
<1>6. StoreTyped
  BY DEF TInv, TypeOK, StoreTyped
<1> HIDE DEF W
<1> QED BY <1>4, <1>5, <1>6 DEF StoreTyped, Written, Keys

\* Initially there is nothing to hold.
LEMMA InitTInv == Init => TInv
<1> SUFFICES ASSUME Init PROVE TInv
  OBVIOUS
<1>1. SInv
  BY InitSInv
<1>2. tree \in [Sessions -> Trees \cup {0}] /\ TreeHeld /\ Refined
  BY DEF Init, TreeHeld, Refined
<1>3. MemTyped
  <2>1. 1 \in Trees
    BY TreesSuffice
  <2> QED BY <2>1, SMT DEF Init, MemTyped
<1>4. StoreTyped
  <2>1. scenario.existing \cap PKs = {}
    BY ScenariosTyped, ConstantsDiffer DEF Init
  <2> QED BY <2>1 DEF Init, StoreTyped, Keys
<1> QED BY <1>1, <1>2, <1>3, <1>4 DEF TInv, SInv, Typed, TypeOK, StoreTyped, MemTyped, TreeHeld, Points

\* Every step keeps the memory's types.
LEMMA MemStep ==
    ASSUME TInv, Next
    PROVE  MemTyped'
<1> USE EntryTyped
<1>1. MemTyped /\ Typed /\ tree \in [Sessions -> Trees \cup {0}]
  BY DEF TInv, SInv, TypeOK, MemTyped, Refined
<1>2. 1 \in Trees
  BY TreesSuffice
<1>3. CASE Restart
  <2>1. tables' \in BOOLEAN /\ sec' \in Trees \cup {0}
    BY <1>2, <1>3 DEF Restart
  <2>2. pkIndex' = Absent \/ pkIndex' \subseteq PKs
    BY <1>3 DEF Restart, Live
  <2>3. trees' \in [Trees -> SUBSET (Ints \X PKs)]
    BY <1>3 DEF Restart
  <2> QED BY <2>1, <2>2, <2>3 DEF MemTyped
<1>4. ASSUME NEW s \in Sessions, Step(s) PROVE MemTyped'
  <2>1. ASSUME NEW gone, NEW new \in SUBSET (Ints \X PKs), Reindex(gone, new)
        PROVE  trees' \in [Trees -> SUBSET (Ints \X PKs)]
    BY <1>1, <2>1 DEF Reindex, MemTyped
  <2>2. CASE UNCHANGED mem
    BY <1>1, <2>2 DEF MemTyped, mem
  <2>3. CASE Build(s)
    <3>1. tree[s] = 0
      BY <2>3 DEF Build, TInv, TypeOK
    <3>2. NewTree \in Trees
      BY <3>1, FreeTree DEF TInv
    <3> QED BY <1>1, <2>3, <3>2 DEF Build, MemTyped
  <2>4. CASE PublishInsert(s)
    <3>1. stmt[s].arg \in PKs
      BY <1>1, <2>4 DEF PublishInsert, Typed
    <3>2. trees' \in [Trees -> SUBSET (Ints \X PKs)]
      BY <2>1, <2>4, <3>1 DEF PublishInsert
    <3>3. pkIndex' \subseteq PKs
      BY <1>1, <2>4, <3>1 DEF PublishInsert, MemTyped
    <3> QED BY <1>1, <2>4, <3>2, <3>3 DEF PublishInsert, MemTyped
  <2>5. CASE PublishUpdate(s)
    <3>1. NewEntries(s) \subseteq Ints \X PKs
      BY <1>1, SMT DEF NewEntries, Typed
    <3>2. trees' \in [Trees -> SUBSET (Ints \X PKs)]
      BY <2>1, <2>5, <3>1 DEF PublishUpdate
    <3> QED BY <1>1, <2>5, <3>2 DEF PublishUpdate, MemTyped
  <2>6. CASE PublishDelete(s)
    <3>1. trees' \in [Trees -> SUBSET (Ints \X PKs)]
      BY <2>1, <2>6 DEF PublishDelete
    <3>2. pkIndex' = Absent \/ pkIndex' \subseteq PKs
      BY <1>1, <2>6 DEF PublishDelete, MemTyped
    <3> QED BY <1>1, <2>6, <3>1, <3>2 DEF PublishDelete, MemTyped
  <2>7. CASE PublishCreate(s) \/ PublishDrop(s) \/ PublishDropIndex(s)
    BY <1>1, <2>7 DEF PublishCreate, PublishDrop, PublishDropIndex, MemTyped
  <2>8. CASE PublishCreateIndex(s)
    <3>1. tree[s] \in Trees \cup {0}
      BY <1>1
    <3> QED BY <1>1, <2>8, <3>1 DEF PublishCreateIndex, MemTyped
  <2> QED BY <1>4, <2>2, <2>3, <2>4, <2>5, <2>6, <2>7, <2>8
             DEF Step, Start, Begin, CollectByPK, CollectByScan, FindIndex, Lookup, Commit, Fail
<1> QED BY <1>3, <1>4 DEF Next

\* Every step keeps the tree pointers where TypeOK says.
LEMMA TreeStep ==
    ASSUME TInv, Next
    PROVE  Refined' /\ TreeHeld'
<1>1. /\ tree \in [Sessions -> Trees \cup {0}] /\ sec \in Trees \cup {0}
      /\ pc \in [Sessions -> Points] /\ stmt \in [Sessions -> Statement]
      /\ Refined /\ TreeHeld
  BY DEF TInv, SInv, Typed, TypeOK, Refined, TreeHeld
<1>2. CASE Restart
  BY <1>2 DEF Restart, Idle, Refined, TreeHeld
<1>3. ASSUME NEW s \in Sessions, Step(s) PROVE Refined' /\ TreeHeld'
  <2>1. ASSUME NEW st \in scenario.script[s], Start(s, st) PROVE Refined' /\ TreeHeld'
    <3>1. tree[s] = 0
      BY <1>1, <2>1 DEF Start, Refined, TreeHeld
    <3>2. stmt' = [stmt EXCEPT ![s] = st] /\ UNCHANGED tree
      BY <2>1 DEF Start
    <3>3. IF st.op = "create_index" THEN pc' = [pc EXCEPT ![s] = "build"] ELSE pc' = [pc EXCEPT ![s] = "begin"]
      BY <2>1 DEF Start
    <3> QED BY <1>1, <3>1, <3>2, <3>3, SMT DEF Refined, TreeHeld
  <2>2. CASE Build(s)
    <3>1. tree[s] = 0
      BY <2>2 DEF Build, TInv, TypeOK
    <3>2. NewTree \in Trees /\ NewTree # 0
      BY <3>1, FreeTree DEF TInv
    <3>3. tree' = [tree EXCEPT ![s] = NewTree] /\ pc' = [pc EXCEPT ![s] = "begin"] /\ UNCHANGED stmt
      BY <2>2 DEF Build
    <3>4. pc[s] = "build"
      BY <2>2 DEF Build
    <3> QED BY <1>1, <3>2, <3>3, <3>4 DEF Refined, TreeHeld
  <2>3. CASE Begin(s)
    BY <1>1, <2>3 DEF Begin, Refined, TreeHeld
  <2>4. CASE CollectByPK(s) \/ CollectByScan(s)
    BY <1>1, <2>4, SMT DEF CollectByPK, CollectByScan, Collected, Refined, TreeHeld
  <2>5. CASE FindIndex(s)
    BY <1>1, <2>5 DEF FindIndex, Refined, TreeHeld
  <2>6. CASE Lookup(s)
    BY <1>1, <2>6 DEF Lookup, Collected, Refined, TreeHeld
  <2>7. CASE Commit(s)
    BY <1>1, <2>7 DEF Commit, Refined, TreeHeld
  <2>8. CASE Return(s)
    <3>1. NoStatement.op = "select"
      BY DEF NoStatement
    <3> QED BY <1>1, <2>8, <3>1 DEF Return, Refined, TreeHeld
  <2> QED BY <1>3, <2>1, <2>2, <2>3, <2>4, <2>5, <2>6, <2>7, <2>8
             DEF Step, Fail, Published, PublishInsert, PublishUpdate, PublishDelete, PublishCreate,
                 PublishDrop, PublishCreateIndex, PublishDropIndex
<1> QED BY <1>2, <1>3 DEF Next

\* Every step keeps the types.
LEMMA NextTInv == TInv /\ [Next]_vars => TInv'
<1> SUFFICES ASSUME TInv, [Next]_vars PROVE TInv'
  OBVIOUS
<1>1. CASE UNCHANGED vars
  BY <1>1, NextSInv DEF vars, mem, session, TInv, TypeOK, Refined
<1>2. CASE Next
  <2>1. SInv'
    BY NextSInv DEF TInv
  <2>2. MemTyped' /\ Refined' /\ TreeHeld'
    BY <1>2, MemStep, TreeStep
  <2>3. StoreTyped'
    <3>1. StoreTyped
      BY DEF TInv, TypeOK, StoreTyped
    <3>2. CASE UNCHANGED store
      BY <3>1, <3>2 DEF StoreTyped
    <3>3. CASE \E s \in Sessions : Commit(s)
      BY <3>3, StoreStep
    <3> QED BY <1>2, <3>2, <3>3
               DEF Next, Restart, Step, Start, Build, Begin, CollectByPK, CollectByScan, FindIndex, Lookup, Fail,
                   Published, PublishInsert, PublishUpdate, PublishDelete, PublishCreate, PublishDrop,
                   PublishCreateIndex, PublishDropIndex
  <2>4. Typed' /\ (tree \in [Sessions -> Trees \cup {0}])'
    BY <2>1, <2>2 DEF SInv, Refined
  <2>5. TypeOK'
    BY <2>2, <2>3, <2>4 DEF Typed, TypeOK, StoreTyped, MemTyped, TreeHeld, Points
  <2> QED BY <2>1, <2>2, <2>5 DEF TInv
<1> QED BY <1>1, <1>2

\* For any sessions, keys, values and statements: the types are kept, and a
\* statement holds a pointer to a secondary index exactly while it builds one or
\* looks one up (sql_exec.go), so execCreateIndex always finds a tree that nobody
\* else refers to.
THEOREM StatementsTyped == Spec => []TypeOK
<1>1. TInv => TypeOK
  BY DEF TInv
<1> QED BY <1>1, InitTInv, NextTInv, PTL DEF Spec

-----------------------------------------------------------------------------
(* Indexes.  Between a commit and its critical section the memory shows,   *)
(* for each key that the commit wrote, the value of the snapshot.          *)

ScenariosDisciplined == \A sc \in Scenarios : Disciplined(sc)

Active(s) == pc[s] \notin {"idle", "done"}

\* s has committed k and not yet published it.
Pending(s, k) == pc[s] = "publish" /\ k \in DOMAIN WritesOf(s)

\* The part of a set of entries that belongs to one row.
RowOf(E, k) == E \cap (Ints \X {k})

\* The cache and the indexes show v as the value of k.
Shows(k, v) ==
    /\ k \in PKs => /\ tables => (k \in pkIndex <=> v # Absent)
                    /\ sec # 0 => RowOf(trees[sec], k) = Entry(k, v)
    /\ k = TableKey => (tables <=> v # Absent)
    /\ k = IndexKey => (sec # 0 <=> v # Absent)

FromScript == \A s \in Sessions : pc[s] # "idle" => stmt[s] \in scenario.script[s]

\* The catalog has no index and no rows without their table.
CatalogKept ==
    /\ tables => pkIndex # Absent
    /\ sec # 0 => tables
    /\ store[TableKey] = Absent => Live(store) = {} /\ store[IndexKey] = Absent

\* What a statement under way relies on.
UnderwayAt(s) ==
    /\ pc[s] = "publish" => stmt[s].op # "select"
    /\ (stmt[s].op = "insert" /\ pc[s] = "publish") => snap[s][stmt[s].arg] = Absent
    /\ stmt[s].op \in NeedsTable => tables /\ store[TableKey] # Absent
    /\ (stmt[s].op = "create_index" /\ pc[s] \in {"begin", "commit", "publish"})
          => trees[tree[s]] = Entries(store)
    /\ (stmt[s].op = "create_table" /\ pc[s] = "publish") => Live(store) = {} /\ store[IndexKey] = Absent
    /\ pc[s] = "lookup" => tree[s] = sec /\ stmt[s].by = "col"
    /\ (InTransaction(s) /\ ByKey(stmt[s]) /\ stmt[s].op # "insert") => stmt[s].arg \notin stale[s]
    /\ (InTransaction(s) /\ ~ByKey(stmt[s])) => stale[s] = {}

Underway == \A s \in Sessions : Active(s) => UnderwayAt(s)

MatchingRows ==
    \A s \in Sessions :
      (stmt[s].op \in {"select", "update", "delete"} /\ pc[s] \in {"commit", "publish", "done"})
         => rows[s] = Matching(snap[s], stmt[s])

\* The memory is behind the store only for keys with a publication to come.
Shown ==
    \A k \in Keys :
      /\ (\A s \in Sessions : ~Pending(s, k)) => Shows(k, store[k])
      /\ \A s \in Sessions : Pending(s, k) => Shows(k, snap[s][k]) /\ store[k] = WritesOf(s)[k]

OnePending == \A k \in Keys : \A s, u \in Sessions : Pending(s, k) /\ Pending(u, k) => s = u

AInv == TInv /\ FromScript /\ CatalogKept /\ Underway /\ MatchingRows /\ Shown /\ OnePending

\* Sessions in the middle of statements execute independent ones.
LEMMA Companions ==
    ASSUME ScenariosDisciplined, TInv, FromScript, NEW s \in Sessions, NEW u \in Sessions, s # u,
           pc[s] # "idle", pc[u] # "idle"
    PROVE  Independent(stmt[s], stmt[u])
BY DEF ScenariosDisciplined, Disciplined, FromScript, TInv, SInv, Typed

\* A statement that is not about one row has the database for itself.
LEMMA Alone ==
    ASSUME ScenariosDisciplined, TInv, FromScript, NEW s \in Sessions, pc[s] # "idle", ~ByKey(stmt[s])
    PROVE  \A u \in Sessions \ {s} : pc[u] = "idle"
BY Companions DEF Independent

\* What each kind of statement writes.
LEMMA WrittenKeys ==
    ASSUME TInv, MatchingRows, NEW s \in Sessions, pc[s] \in {"commit", "publish"}
    PROVE  /\ stmt[s].op = "insert" =>
                 DOMAIN WritesOf(s) = {stmt[s].arg} /\ WritesOf(s)[stmt[s].arg] = stmt[s].set
           /\ stmt[s].op \in {"update", "delete"} =>
                 DOMAIN WritesOf(s) = rows[s] /\ rows[s] \subseteq Live(snap[s])
           /\ (ByKey(stmt[s]) /\ stmt[s].op # "select") => DOMAIN WritesOf(s) \subseteq {stmt[s].arg}
           /\ stmt[s].op \in {"insert", "update", "delete"} => DOMAIN WritesOf(s) \subseteq PKs
<1> DEFINE st == stmt[s]
<1>1. st.op = "insert" => WritesOf(s) = [k \in {st.arg} |-> st.set]
  BY DEF WritesOf
<1>2. st.op = "update" => WritesOf(s) = [k \in rows[s] |-> st.set]
  BY DEF WritesOf
<1>3. st.op = "delete" => WritesOf(s) = [k \in rows[s] |-> Absent]
  BY DEF WritesOf
<1>4. st.op \in {"update", "delete"} => rows[s] = Matching(snap[s], st)
  BY DEF MatchingRows
<1>5. Matching(snap[s], st) \subseteq Live(snap[s]) /\ Live(snap[s]) \subseteq PKs
  BY DEF Matching, Live
<1>6. st.by = "pk" => Matching(snap[s], st) \subseteq {st.arg}
  BY DEF Matching
<1>7. st.op = "insert" => st.arg \in PKs
  BY DEF TInv, SInv, Typed
<1> QED BY <1>1, <1>2, <1>3, <1>4, <1>5, <1>6, <1>7, SMT DEF ByKey

\* A step outside the critical sections of publication leaves what is pending
\* and what is shown as it was.
LEMMA QuietStep ==
    ASSUME TInv, Shown, OnePending, NEW s \in Sessions, NEW p,
           pc[s] # "publish", p # "publish", pc' = [pc EXCEPT ![s] = p],
           \A u \in Sessions \ {s} : stmt'[u] = stmt[u] /\ rows'[u] = rows[u] /\ snap'[u] = snap[u],
           UNCHANGED <<store, tables, pkIndex, sec>>,
           sec # 0 => trees'[sec] = trees[sec]
    PROVE  Shown' /\ OnePending'
<1>1. ASSUME NEW u \in Sessions \ {s} PROVE WritesOf(u)' = WritesOf(u)
  BY <1>1 DEF WritesOf
<1>2. pc'[s] # "publish" /\ \A u \in Sessions \ {s} : pc'[u] = pc[u]
  BY DEF TInv, SInv, Typed
<1>3. \A u \in Sessions, k \in Keys : Pending(u, k)' <=> Pending(u, k)
  BY <1>1, <1>2 DEF Pending
<1>4. \A u \in Sessions, k \in Keys : Pending(u, k) => u # s
  BY DEF Pending
<1>5. \A k, v : Shows(k, v)' <=> Shows(k, v)
  BY SMT DEF Shows
<1>6. OnePending'
  BY <1>3 DEF OnePending
<1>7. ASSUME NEW k \in Keys, \A u \in Sessions : ~Pending(u, k)' PROVE Shows(k, store[k])'
  BY <1>3, <1>5, <1>7 DEF Shown
<1>8. ASSUME NEW k \in Keys, NEW u \in Sessions, Pending(u, k)'
      PROVE  Shows(k, snap[u][k])' /\ (store[k] = WritesOf(u)[k])'
  <2>1. Pending(u, k) /\ u # s
    BY <1>3, <1>4, <1>8
  <2>2. Shows(k, snap[u][k]) /\ store[k] = WritesOf(u)[k]
    BY <2>1 DEF Shown
  <2>3. snap'[u][k] = snap[u][k] /\ WritesOf(u)' = WritesOf(u)
    BY <1>1, <2>1
  <2> QED BY <1>5, <2>2, <2>3
<1> QED BY <1>6, <1>7, <1>8 DEF Shown

\* What a publication has to do: show the values of the keys committed, and
\* leave what the memory shows of the others.
LEMMA PublishStep ==
    ASSUME TInv, Shown, OnePending, NEW s \in Sessions, pc[s] = "publish", Return(s), UNCHANGED store,
           \A k \in DOMAIN WritesOf(s) : Shows(k, store[k])',
           \A k \in Keys \ DOMAIN WritesOf(s) : \A v : Shows(k, v) => Shows(k, v)'
    PROVE  Shown' /\ OnePending'
<1>1. ASSUME NEW u \in Sessions \ {s}
      PROVE  WritesOf(u)' = WritesOf(u) /\ snap'[u] = snap[u] /\ pc'[u] = pc[u]
  <2>1. stmt'[u] = stmt[u] /\ rows'[u] = rows[u] /\ snap'[u] = snap[u] /\ pc'[u] = pc[u]
    BY <1>1 DEF Return, TInv, SInv, Typed
  <2> QED BY <2>1 DEF WritesOf
<1>2. pc'[s] # "publish"
  BY DEF Return, TInv, SInv, Typed
<1>3. \A u \in Sessions, k \in Keys : Pending(u, k)' <=> u # s /\ Pending(u, k)
  BY <1>1, <1>2 DEF Pending
<1>4. OnePending'
  BY <1>3 DEF OnePending
<1>5. \A k \in Keys : Pending(s, k) <=> k \in DOMAIN WritesOf(s)
  BY DEF Pending
<1>6. ASSUME NEW k \in Keys, \A u \in Sessions : ~Pending(u, k)' PROVE Shows(k, store[k])'
  <2>1. CASE k \in DOMAIN WritesOf(s)
    BY <2>1
  <2>2. CASE k \notin DOMAIN WritesOf(s)
    <3>1. \A u \in Sessions : ~Pending(u, k)
      BY <1>3, <1>5, <1>6, <2>2
    <3>2. Shows(k, store[k])
      BY <3>1 DEF Shown
    <3> DEFINE v == store[k]
    <3>3. Shows(k, v) /\ store'[k] = v
      BY <3>2
    <3>4. \A w : Shows(k, w) => Shows(k, w)'
      BY <2>2
    <3> HIDE DEF v
    <3> QED BY <3>2, <3>4
  <2> QED BY <2>1, <2>2
<1>7. ASSUME NEW k \in Keys, NEW u \in Sessions, Pending(u, k)'
      PROVE  Shows(k, snap[u][k])' /\ (store[k] = WritesOf(u)[k])'
  <2>1. u # s /\ Pending(u, k)
    BY <1>3, <1>7
  <2>2. k \notin DOMAIN WritesOf(s)
    BY <1>5, <2>1 DEF OnePending
  <2>3. Shows(k, snap[u][k]) /\ store[k] = WritesOf(u)[k]
    BY <2>1 DEF Shown
  <2>4. snap'[u][k] = snap[u][k] /\ WritesOf(u)' = WritesOf(u)
    BY <1>1, <2>1
  <2>5. \A w : Shows(k, w) => Shows(k, w)'
    BY <2>2
  <2> QED BY <2>3, <2>4, <2>5
<1> QED BY <1>4, <1>6, <1>7 DEF Shown

\* A commit makes its keys pending: nobody else has them pending, because of two
\* independent statements on one row both are INSERTs, and the second one fails.
LEMMA CommitShown ==
    ASSUME ScenariosDisciplined, AInv, NEW s \in Sessions, Commit(s)
    PROVE  /\ Shown' /\ OnePending'
           /\ \A k \in DOMAIN WritesOf(s) : store[k] = snap[s][k]
           /\ \A k \in Keys : store'[k] = IF k \in DOMAIN WritesOf(s) THEN WritesOf(s)[k] ELSE store[k]
<1> DEFINE W == WritesOf(s)
<1>1. pc[s] = "commit" /\ ~BodyFails(s) /\ store' = Written(W)
  BY DEF Commit
<1>2. DOMAIN W \subseteq Keys
  BY <1>1, WritesTyped DEF AInv, TInv, SInv
<1>3. ASSUME NEW k \in DOMAIN W PROVE store[k] = snap[s][k]
  <2>1. k \notin stale[s]
    BY <1>3 DEF Commit, Conflicts
  <2> QED BY <1>1, <1>2, <1>3, <2>1 DEF AInv, TInv, SInv, StaleCoversChanges, InTransaction
<1>4. ASSUME NEW k \in DOMAIN W, NEW u \in Sessions, Pending(u, k) PROVE FALSE
  <2>1. pc[u] = "publish" /\ u # s /\ k \in DOMAIN WritesOf(u)
    BY <1>1, <1>4 DEF Pending
  <2>2. Independent(stmt[s], stmt[u])
    BY <1>1, <2>1, Companions DEF AInv
  <2>3. stmt[s].op # "select" /\ stmt[u].op # "select"
    BY <1>1, <2>1 DEF AInv, TInv, SInv, Typed, Underway, UnderwayAt, Active
  <2>4. k = stmt[s].arg /\ k = stmt[u].arg
    BY <1>1, <1>4, <2>1, <2>2, <2>3, WrittenKeys DEF AInv, Independent
  <2>5. stmt[s].op = "insert" /\ stmt[u].op = "insert"
    BY <2>2, <2>4 DEF Independent
  <2>6. snap[s][k] = Absent
    BY <1>1, <2>4, <2>5 DEF BodyFails
  <2>7. store[k] = stmt[u].set
    <3>1. store[k] = WritesOf(u)[k]
      BY <1>2, <1>4 DEF AInv, Shown
    <3>2. WritesOf(u)[stmt[u].arg] = stmt[u].set
      BY <2>1, <2>5, WrittenKeys DEF AInv
    <3> QED BY <2>4, <3>1, <3>2
  <2>8. stmt[u].set # Absent
    BY ConstantsDiffer, SMT DEF AInv, TInv, SInv, Typed, Statement
  <2> QED BY <1>3, <1>4, <2>6, <2>7, <2>8
<1>5. \A u \in Sessions : WritesOf(u)' = WritesOf(u)
  BY DEF Commit, WritesOf
<1>6. pc'[s] = "publish" /\ \A u \in Sessions \ {s} : pc'[u] = pc[u]
  BY DEF Commit, AInv, TInv, SInv, Typed
<1>7. \A k : \A u \in Sessions : Pending(u, k)' <=> Pending(u, k) \/ (u = s /\ k \in DOMAIN W)
  BY <1>1, <1>5, <1>6 DEF Pending
<1>8. \A k, v : Shows(k, v)' <=> Shows(k, v)
  BY SMT DEF Shows, Commit, mem
<1>9. \A k \in Keys : store'[k] = IF k \in DOMAIN W THEN W[k] ELSE store[k]
  <2> HIDE DEF W
  <2> QED BY <1>1 DEF Written
<1>10. snap' = snap
  BY DEF Commit
<1>11. OnePending'
  BY <1>4, <1>7 DEF OnePending, AInv
<1>12. WritesOf(s)' = W
  BY <1>5
<1> HIDE DEF W
<1>13. ASSUME NEW k \in Keys, \A u \in Sessions : ~Pending(u, k)' PROVE Shows(k, store[k])'
  <2>1. k \notin DOMAIN W /\ \A u \in Sessions : ~Pending(u, k)
    BY <1>7, <1>13
  <2>2. Shows(k, store[k]) /\ store'[k] = store[k]
    BY <1>9, <2>1 DEF AInv, Shown
  <2> QED BY <1>8, <2>2
<1>14. ASSUME NEW k \in Keys, NEW u \in Sessions, Pending(u, k)'
      PROVE  Shows(k, snap[u][k])' /\ (store[k] = WritesOf(u)[k])'
  <2>1. CASE k \in DOMAIN W
    <3>1. u = s
      BY <1>4, <1>7, <1>14, <2>1
    <3>2. Shows(k, store[k])
      BY <1>4, <2>1 DEF AInv, Shown
    <3>3. store[k] = snap'[u][k] /\ store'[k] = W[k] /\ WritesOf(u)' = W
      BY <1>3, <1>9, <1>10, <1>12, <2>1, <3>1
    <3> QED BY <1>8, <3>2, <3>3
  <2>2. CASE k \notin DOMAIN W
    <3>1. Pending(u, k)
      BY <1>7, <1>14, <2>2
    <3>2. Shows(k, snap[u][k]) /\ store[k] = WritesOf(u)[k]
      BY <3>1 DEF AInv, Shown
    <3>3. snap'[u][k] = snap[u][k] /\ store'[k] = store[k] /\ WritesOf(u)' = WritesOf(u)
      BY <1>5, <1>9, <1>10, <2>2
    <3> QED BY <1>8, <3>2, <3>3
  <2> QED BY <2>1, <2>2
<1>15. Shown'
  BY <1>13, <1>14 DEF Shown
<1> QED BY <1>3, <1>9, <1>11, <1>15 DEF W

\* The statement of another session relies on what it relied on.
LEMMA OthersUnderway ==
    ASSUME TInv, NEW u \in Sessions, Active(u) => UnderwayAt(u),
           pc'[u] = pc[u], stmt'[u] = stmt[u], snap'[u] = snap[u], stale'[u] = stale[u], tree'[u] = tree[u],
           UNCHANGED <<store, tables, sec>>,
           (Active(u) /\ stmt[u].op = "create_index") => trees'[tree[u]] = trees[tree[u]]
    PROVE  (Active(u) => UnderwayAt(u))'
<1>1. Entries(store)' = Entries(store) /\ Live(store)' = Live(store)
  BY DEF Entries, Live
<1> QED BY <1>1 DEF Active, UnderwayAt, InTransaction, ByKey

\* A step of one session that changes nothing that others see.
LEMMA LocalStep ==
    ASSUME AInv, TInv', NEW s \in Sessions, NEW p, pc' = [pc EXCEPT ![s] = p],
           pc[s] # "publish", p # "publish",
           UNCHANGED <<scenario, store, tables, pkIndex, sec>>,
           \A u \in Sessions \ {s} : /\ stmt'[u] = stmt[u] /\ rows'[u] = rows[u] /\ snap'[u] = snap[u]
                                     /\ stale'[u] = stale[u] /\ tree'[u] = tree[u]
                                     /\ (Active(u) /\ stmt[u].op = "create_index")
                                           => trees'[tree[u]] = trees[tree[u]],
           sec # 0 => trees'[sec] = trees[sec],
           p # "idle" => stmt'[s] \in scenario.script[s],
           p \notin {"idle", "done"} => UnderwayAt(s)',
           (stmt'[s].op \in {"select", "update", "delete"} /\ p \in {"commit", "done"})
              => rows'[s] = Matching(snap'[s], stmt'[s])
    PROVE  AInv'
<1>1. Shown' /\ OnePending'
  BY QuietStep DEF AInv
<1>2. pc'[s] = p /\ \A u \in Sessions \ {s} : pc'[u] = pc[u]
  BY DEF AInv, TInv, SInv, Typed
<1>3. FromScript'
  BY <1>2 DEF AInv, FromScript
<1>4. CatalogKept'
  BY DEF AInv, CatalogKept, Live
<1>5. Underway'
  <2>1. ASSUME NEW u \in Sessions \ {s} PROVE (Active(u) => UnderwayAt(u))'
    BY <1>2, OthersUnderway DEF AInv, Underway
  <2>2. (Active(s) => UnderwayAt(s))'
    BY <1>2 DEF Active
  <2> QED BY <2>1, <2>2 DEF Underway
<1>6. MatchingRows'
  <2>1. ASSUME NEW u \in Sessions \ {s},
               (stmt[u].op \in {"select", "update", "delete"} /\ pc[u] \in {"commit", "publish", "done"})'
        PROVE  (rows[u] = Matching(snap[u], stmt[u]))'
    <3>1. rows[u] = Matching(snap[u], stmt[u])
      BY <1>2, <2>1 DEF AInv, MatchingRows
    <3> QED BY <2>1, <3>1, SMT DEF Matching, Live
  <2>2. (stmt[s].op \in {"select", "update", "delete"} /\ pc[s] \in {"commit", "publish", "done"})'
           => (rows[s] = Matching(snap[s], stmt[s]))'
    BY <1>2 DEF Matching, Live
  <2> QED BY <2>1, <2>2 DEF MatchingRows
<1> QED BY <1>1, <1>3, <1>4, <1>5, <1>6 DEF AInv

\* Nothing is pending for a key that a statement not yet committed names,
\* unless it inserts it.
LEMMA NamedIsShown ==
    ASSUME ScenariosDisciplined, AInv, NEW s \in Sessions, InTransaction(s), NEW k \in Keys,
           stmt[s].op # "insert", ByKey(stmt[s]) => k = stmt[s].arg
    PROVE  Shows(k, store[k]) /\ store[k] = snap[s][k]
<1>1. Active(s) /\ pc[s] # "idle" /\ pc[s] # "publish"
  BY DEF InTransaction, Active
<1>2. k \notin stale[s]
  BY <1>1 DEF AInv, Underway, UnderwayAt
<1>3. store[k] = snap[s][k]
  BY <1>2 DEF AInv, TInv, SInv, StaleCoversChanges
<1>4. ASSUME NEW u \in Sessions, Pending(u, k) PROVE FALSE
  <2>1. pc[u] = "publish" /\ k \in DOMAIN WritesOf(u) /\ u # s
    BY <1>1, <1>4 DEF Pending
  <2>2. Independent(stmt[s], stmt[u])
    BY <1>1, <2>1, Companions DEF AInv
  <2>3. stmt[u].op # "select"
    BY <2>1 DEF AInv, Underway, UnderwayAt, Active
  <2>4. k = stmt[u].arg
    BY <2>1, <2>2, <2>3, WrittenKeys DEF AInv, Independent
  <2> QED BY <2>2, <2>4 DEF Independent
<1> QED BY <1>3, <1>4 DEF AInv, Shown

\* Starting a statement, building an index and beginning a transaction.
LEMMA StartStep ==
    ASSUME ScenariosDisciplined, AInv, TInv', UNCHANGED scenario, NEW s \in Sessions,
           (\E st \in scenario.script[s] : Start(s, st)) \/ Build(s) \/ Begin(s)
    PROVE  AInv'
<1>1. /\ pc \in [Sessions -> Points] /\ stmt \in [Sessions -> Statement] /\ stale \in [Sessions -> SUBSET Keys]
      /\ rows \in [Sessions -> SUBSET PKs] /\ snap \in [Sessions -> [Keys -> Stored]]
      /\ tree \in [Sessions -> Trees \cup {0}] /\ trees \in [Trees -> SUBSET (Ints \X PKs)]
  BY DEF AInv, TInv, SInv, Typed, Refined, TypeOK
<1>2. ASSUME NEW st \in scenario.script[s], Start(s, st) PROVE AInv'
  <2> DEFINE p == IF st.op = "create_index" THEN "build" ELSE "begin"
  <2>1. /\ pc' = [pc EXCEPT ![s] = p] /\ UNCHANGED <<scenario, store, tables, pkIndex, sec, trees>>
        /\ pc[s] # "publish" /\ p # "publish" /\ p \notin {"idle", "done", "commit"}
        /\ \A u \in Sessions \ {s} : /\ stmt'[u] = stmt[u] /\ rows'[u] = rows[u] /\ snap'[u] = snap[u]
                                     /\ stale'[u] = stale[u] /\ tree'[u] = tree[u]
        /\ stmt'[s] = st
    BY <1>1, <1>2 DEF Start, mem
  <2>2. pc'[s] = p
    BY <1>1, <2>1
  <2>3. UnderwayAt(s)'
    <3>1. st.op \in NeedsTable => tables' /\ store'[TableKey] # Absent
      <4>1. SUFFICES ASSUME st.op \in NeedsTable, tables PROVE store[TableKey] # Absent
        BY <1>2, <2>1 DEF Start
      <4>2. CASE \E u \in Sessions : Pending(u, TableKey)
        <5>1. PICK u \in Sessions : Pending(u, TableKey)
          BY <4>2
        <5>2. u # s /\ pc[u] = "publish"
          BY <2>1, <5>1 DEF Pending
        <5>3. stmt[u] \in scenario.script[u] /\ scenario \in Scenarios
          BY <5>2 DEF AInv, FromScript, TInv, SInv, Typed
        <5>4. ByKey(stmt[u])
          BY <1>2, <5>2, <5>3 DEF ScenariosDisciplined, Disciplined, Independent
        <5>5. stmt[u].op # "select"
          BY <5>2 DEF AInv, Underway, UnderwayAt, Active
        <5>6. TableKey \in PKs
          BY <5>1, <5>2, <5>4, <5>5, WrittenKeys DEF AInv, Pending, ByKey
        <5> QED BY <5>6, ConstantsDiffer
      <4>3. CASE \A u \in Sessions : ~Pending(u, TableKey)
        BY <4>1, <4>3 DEF AInv, Shown, Shows, Keys
      <4> QED BY <4>2, <4>3
    <3>2. pc'[s] \notin {"publish", "lookup", "collect", "commit"}
      BY <2>2
    <3>3. st.op = "create_index" => pc'[s] = "build"
      BY <2>2
    <3> QED BY <2>1, <3>1, <3>2, <3>3 DEF UnderwayAt, InTransaction
  <2> HIDE DEF p
  <2> QED BY <2>1, <2>3, LocalStep
<1>3. CASE Build(s)
  <2>1. tree[s] = 0 /\ stmt[s].op = "create_index"
    BY <1>3 DEF Build, AInv, TInv, TypeOK, Refined
  <2>2. NewTree \in Trees /\ NewTree # sec /\ \A u \in Sessions : NewTree # tree[u]
    BY <2>1, FreeTree DEF AInv, TInv
  <2>3. /\ pc' = [pc EXCEPT ![s] = "begin"] /\ UNCHANGED <<scenario, store, tables, pkIndex, sec, stmt>>
        /\ pc[s] = "build"
        /\ \A u \in Sessions \ {s} : /\ stmt'[u] = stmt[u] /\ rows'[u] = rows[u] /\ snap'[u] = snap[u]
                                     /\ stale'[u] = stale[u] /\ tree'[u] = tree[u]
        /\ tree'[s] = NewTree /\ trees' = [trees EXCEPT ![NewTree] = Entries(store)]
    BY <1>1, <1>3 DEF Build
  <2>4. /\ sec # 0 => trees'[sec] = trees[sec]
        /\ \A u \in Sessions : tree[u] # 0 => trees'[tree[u]] = trees[tree[u]]
        /\ trees'[NewTree] = Entries(store)
    <3>1. \A t \in Trees : t # NewTree => trees'[t] = trees[t]
      BY <1>1, <2>3
    <3>2. sec \in Trees \cup {0} /\ \A u \in Sessions : tree[u] \in Trees \cup {0}
      BY <1>1 DEF AInv, TInv, TypeOK
    <3> QED BY <1>1, <2>2, <2>3, <3>1, <3>2
  <2>5. stmt[s] \in scenario.script[s] /\ UnderwayAt(s)
    BY <2>3 DEF AInv, FromScript, Underway, Active
  <2>6. pc'[s] = "begin"
    BY <1>1, <2>3
  <2>7. Entries(store)' = Entries(store)
    BY <2>3 DEF Entries
  <2>8. UnderwayAt(s)'
    BY <2>1, <2>3, <2>4, <2>5, <2>6, <2>7 DEF UnderwayAt, InTransaction
  <2>9. \A u \in Sessions \ {s} : (Active(u) /\ stmt[u].op = "create_index") => trees'[tree[u]] = trees[tree[u]]
    <3> SUFFICES ASSUME NEW u \in Sessions \ {s}, Active(u), stmt[u].op = "create_index" PROVE FALSE
      OBVIOUS
    <3>1. ~ByKey(stmt[u]) /\ pc[u] # "idle" /\ pc[s] # "idle"
      BY <2>3 DEF ByKey, Active
    <3> QED BY <3>1, Alone DEF AInv
  <2> QED BY <2>3, <2>4, <2>5, <2>8, <2>9, LocalStep
<1>4. CASE Begin(s)
  <2> DEFINE p == IF stmt[s].op \in {"update", "delete", "select"} THEN "collect" ELSE "commit"
  <2>1. /\ pc' = [pc EXCEPT ![s] = p] /\ UNCHANGED <<scenario, store, tables, pkIndex, sec, trees, stmt>>
        /\ pc[s] = "begin" /\ p # "publish" /\ p \notin {"idle", "done"}
        /\ \A u \in Sessions \ {s} : /\ stmt'[u] = stmt[u] /\ rows'[u] = rows[u] /\ snap'[u] = snap[u]
                                     /\ stale'[u] = stale[u] /\ tree'[u] = tree[u]
        /\ tree'[s] = tree[s] /\ stale'[s] = {}
        /\ p = "commit" => stmt[s].op \notin {"update", "delete", "select"}
    BY <1>1, <1>4 DEF Begin, mem
  <2>2. stmt[s] \in scenario.script[s] /\ UnderwayAt(s)
    BY <2>1 DEF AInv, FromScript, Underway, Active
  <2>3. pc'[s] = p /\ p \notin {"publish", "lookup"}
    BY <1>1, <2>1
  <2>4. Entries(store)' = Entries(store)
    BY <2>1 DEF Entries
  <2> HIDE DEF p
  <2>5. UnderwayAt(s)'
    BY <2>1, <2>2, <2>3, <2>4 DEF UnderwayAt
  <2> QED BY <2>1, <2>2, <2>5, LocalStep
<1> QED BY <1>2, <1>3, <1>4

\* collectRows: each path finds the rows of the snapshot that match.
LEMMA CollectFinds ==
    ASSUME ScenariosDisciplined, AInv, NEW s \in Sessions
    PROVE  /\ (pc[s] = "collect" /\ stmt[s].by = "pk") =>
                 (IF pkIndex # Absent /\ Operand(stmt[s].arg) \in pkIndex
                  THEN {Operand(stmt[s].arg)} \cap Live(snap[s]) ELSE {}) = Matching(snap[s], stmt[s])
           /\ pc[s] = "lookup" =>
                 {k \in Live(snap[s]) : <<Operand(stmt[s].arg), k>> \in trees[tree[s]]} = Matching(snap[s], stmt[s])
<1> DEFINE a == stmt[s].arg
<1>1. pc[s] \in {"collect", "lookup"} => stmt[s] \in scenario.script[s] /\ scenario \in Scenarios
  BY DEF AInv, FromScript, TInv, SInv, Typed
<1>2. (pc[s] \in {"collect", "lookup"} /\ stmt[s].by \in {"pk", "col"}) => a # Null /\ Operand(a) = a
  BY <1>1 DEF ScenariosDisciplined, Disciplined, Operand
<1>3. pc[s] \in {"collect", "lookup"} => stmt[s].op \in {"update", "delete", "select"} /\ InTransaction(s) /\ Active(s)
  BY DEF AInv, TInv, Refined, InTransaction, Active
<1>4. ASSUME pc[s] = "collect", stmt[s].by = "pk"
      PROVE  (IF pkIndex # Absent /\ Operand(a) \in pkIndex THEN {Operand(a)} \cap Live(snap[s]) ELSE {})
                = Matching(snap[s], stmt[s])
  <2>1. Operand(a) = a /\ InTransaction(s) /\ stmt[s].op # "insert" /\ ByKey(stmt[s])
    BY <1>2, <1>3, <1>4 DEF ByKey
  <2>2. Matching(snap[s], stmt[s]) = {k \in Live(snap[s]) : k = a}
    BY <1>4 DEF Matching
  <2>3. a \in Live(snap[s]) => pkIndex # Absent /\ a \in pkIndex
    <3> SUFFICES ASSUME a \in Live(snap[s]) PROVE pkIndex # Absent /\ a \in pkIndex
      OBVIOUS
    <3>1. a \in PKs /\ snap[s][a] # Absent /\ a \in Keys
      BY DEF Live, Keys
    <3>2. Shows(a, store[a]) /\ store[a] = snap[s][a]
      BY <2>1, <3>1, NamedIsShown
    <3>3. tables /\ pkIndex # Absent
      BY <1>3, <1>4 DEF AInv, Underway, UnderwayAt, NeedsTable, CatalogKept
    <3> QED BY <3>1, <3>2, <3>3 DEF Shows
  <2> QED BY <2>1, <2>2, <2>3
<1>5. ASSUME pc[s] = "lookup"
      PROVE  {k \in Live(snap[s]) : <<Operand(a), k>> \in trees[tree[s]]} = Matching(snap[s], stmt[s])
  <2>1. tree[s] = sec /\ stmt[s].by = "col" /\ tree[s] # 0
    BY <1>3, <1>5 DEF AInv, Underway, UnderwayAt, TInv, TypeOK
  <2>2. Operand(a) = a /\ a # Null /\ InTransaction(s) /\ stmt[s].op # "insert" /\ ~ByKey(stmt[s])
    BY <1>2, <1>3, <1>5, <2>1 DEF ByKey
  <2>3. Matching(snap[s], stmt[s]) = {k \in Live(snap[s]) : snap[s][k] = a}
    BY <2>1 DEF Matching
  <2>4. ASSUME NEW k \in Live(snap[s]) PROVE <<a, k>> \in trees[sec] <=> snap[s][k] = a
    <3>1. k \in PKs /\ k \in Keys /\ snap[s][k] # Absent
      BY DEF Live, Keys
    <3>2. Shows(k, store[k]) /\ store[k] = snap[s][k]
      BY <2>2, <3>1, NamedIsShown
    <3>3. RowOf(trees[sec], k) = Entry(k, snap[s][k])
      BY <2>1, <3>1, <3>2 DEF Shows
    <3>4. snap[s][k] \in Ints \cup {Null}
      BY <3>1, <3>2 DEF AInv, TInv, TypeOK, Cols
    <3>5. sec \in Trees /\ trees[sec] \subseteq Ints \X PKs
      BY <2>1 DEF AInv, TInv, TypeOK
    <3>6. <<a, k>> \in trees[sec] <=> <<a, k>> \in RowOf(trees[sec], k)
      BY <3>5 DEF RowOf
    <3>7. <<a, k>> \in Entry(k, snap[s][k]) <=> snap[s][k] \in Ints /\ snap[s][k] = a
      BY DEF Entry
    <3> QED BY <2>2, <3>3, <3>4, <3>6, <3>7
  <2> QED BY <2>1, <2>2, <2>3, <2>4
<1> QED BY <1>4, <1>5

\* The steps of collectRows.
LEMMA CollectStep ==
    ASSUME ScenariosDisciplined, AInv, TInv', UNCHANGED scenario, NEW s \in Sessions,
           CollectByPK(s) \/ CollectByScan(s) \/ FindIndex(s) \/ Lookup(s)
    PROVE  AInv'
<1>1. /\ pc \in [Sessions -> Points] /\ rows \in [Sessions -> SUBSET PKs] /\ tree \in [Sessions -> Trees \cup {0}]
  BY DEF AInv, TInv, SInv, Typed, Refined
<1>2. pc[s] \in {"collect", "lookup"} /\ UNCHANGED <<store, tables, pkIndex, sec, trees, stmt, snap, stale>>
  BY DEF CollectByPK, CollectByScan, FindIndex, Lookup, mem
<1>3. UnderwayAt(s) /\ InTransaction(s) /\ stmt[s] \in scenario.script[s]
  BY <1>2 DEF AInv, Underway, Active, InTransaction, FromScript
<1>4. stmt[s].op \in {"update", "delete", "select"}
  BY <1>2 DEF AInv, TInv, Refined
<1>5. \A u \in Sessions \ {s} : rows'[u] = rows[u] /\ tree'[u] = tree[u]
  BY <1>1 DEF CollectByPK, CollectByScan, FindIndex, Lookup, Collected
<1>6. CASE FindIndex(s)
  <2>1. pc' = [pc EXCEPT ![s] = "lookup"] /\ tree'[s] = sec /\ stmt[s].by = "col"
    BY <1>1, <1>6 DEF FindIndex
  <2>2. pc'[s] = "lookup"
    BY <1>1, <2>1
  <2>3. UnderwayAt(s)'
    BY <1>2, <1>3, <1>4, <2>1, <2>2 DEF UnderwayAt, InTransaction
  <2> QED BY <1>2, <1>3, <1>5, <2>1, <2>3, LocalStep
<1>7. ASSUME NEW found, Collected(s, found), found = Matching(snap[s], stmt[s]) PROVE AInv'
  <2> DEFINE p == IF stmt[s].op = "select" THEN "done" ELSE "commit"
  <2>1. pc' = [pc EXCEPT ![s] = p] /\ rows'[s] = found /\ p \in {"done", "commit"}
    BY <1>1, <1>7 DEF Collected
  <2>2. pc'[s] = p
    BY <1>1, <2>1
  <2>3. rows'[s] = Matching(snap'[s], stmt'[s])
    BY <1>2, <1>7, <2>1
  <2> HIDE DEF p
  <2>4. UnderwayAt(s)'
    BY <1>2, <1>3, <1>4, <2>1, <2>2 DEF UnderwayAt
  <2> QED BY <1>2, <1>3, <1>5, <2>1, <2>3, <2>4, LocalStep
<1>8. CASE CollectByPK(s)
  BY <1>7, <1>8, CollectFinds DEF CollectByPK
<1>9. CASE CollectByScan(s)
  BY <1>7, <1>9 DEF CollectByScan
<1>10. CASE Lookup(s)
  BY <1>7, <1>10, CollectFinds DEF Lookup
<1> QED BY <1>6, <1>8, <1>9, <1>10

\* A statement that fails returns, and nothing was written.
LEMMA FailStep ==
    ASSUME AInv, TInv', UNCHANGED scenario, NEW s \in Sessions, Fail(s)
    PROVE  AInv'
<1>1. /\ pc \in [Sessions -> Points] /\ stmt \in [Sessions -> Statement] /\ stale \in [Sessions -> SUBSET Keys]
      /\ rows \in [Sessions -> SUBSET PKs] /\ snap \in [Sessions -> [Keys -> Stored]]
      /\ tree \in [Sessions -> Trees \cup {0}]
  BY DEF AInv, TInv, SInv, Typed, Refined
<1>2. /\ pc' = [pc EXCEPT ![s] = "idle"] /\ pc[s] = "commit"
      /\ UNCHANGED <<store, tables, pkIndex, sec, trees>>
  BY DEF Fail, Return, mem
<1>3. \A u \in Sessions \ {s} : /\ stmt'[u] = stmt[u] /\ rows'[u] = rows[u] /\ snap'[u] = snap[u]
                               /\ stale'[u] = stale[u] /\ tree'[u] = tree[u]
  BY <1>1 DEF Fail, Return
<1> QED BY <1>2, <1>3, LocalStep

\* A commit keeps rows and indexes with their table, and what the statements
\* under way rely on.
LEMMA CommitKeeps ==
    ASSUME ScenariosDisciplined, AInv, TInv', UNCHANGED scenario, NEW s \in Sessions, Commit(s)
    PROVE  AInv'
<1> DEFINE W == WritesOf(s)
           st == stmt[s]
<1>1. /\ Shown' /\ OnePending'
      /\ \A k \in DOMAIN W : store[k] = snap[s][k]
      /\ \A k \in Keys : store'[k] = IF k \in DOMAIN W THEN W[k] ELSE store[k]
  BY CommitShown
<1>2. /\ pc[s] = "commit" /\ ~BodyFails(s) /\ UNCHANGED <<tables, pkIndex, sec, trees, stmt, snap, rows, tree>>
      /\ pc'[s] = "publish" /\ \A u \in Sessions \ {s} : pc'[u] = pc[u]
  BY DEF Commit, mem, AInv, TInv, SInv, Typed
<1>3. UnderwayAt(s) /\ st \in scenario.script[s] /\ Active(s) /\ InTransaction(s)
  BY <1>2 DEF AInv, Underway, Active, FromScript, InTransaction
<1>4. st.op \in {"insert", "update", "delete", "create_table", "drop_table", "create_index", "drop_index"}
  BY <1>2 DEF AInv, TInv, SInv, Typed, Statement
<1>5. TableKey \in Keys /\ IndexKey \in Keys /\ PKs \subseteq Keys /\ TableKey # IndexKey
      /\ TableKey \notin PKs /\ IndexKey \notin PKs
  BY ConstantsDiffer DEF Keys
<1>6. st.op \in {"insert", "update", "delete"} => DOMAIN W \subseteq PKs
  BY <1>2, WrittenKeys DEF AInv
<1>7. st.op \in {"create_index", "drop_index"} => DOMAIN W = {IndexKey}
  BY DEF WritesOf
<1>8. st.op = "create_table" => W = [k \in {TableKey} |-> TRUE]
  BY DEF WritesOf
<1>9. st.op = "drop_index" => W[IndexKey] = Absent
  BY DEF WritesOf
<1>10. st.op = "drop_table" =>
         /\ \A k \in Keys : (k \in PKs /\ snap[s][k] # Absent) => k \in DOMAIN W
         /\ snap[s][IndexKey] # Absent => IndexKey \in DOMAIN W
         /\ \A k \in DOMAIN W : W[k] = Absent
  BY DEF WritesOf, Live
<1>11. st.op = "drop_table" => \A k \in Keys : store[k] = snap[s][k]
  BY <1>3 DEF UnderwayAt, ByKey, AInv, TInv, SInv, StaleCoversChanges
<1> HIDE DEF W
<1>12. FromScript'
  BY <1>2 DEF AInv, FromScript
<1>13. st.op \notin {"create_table", "drop_table"} => store'[TableKey] = store[TableKey]
  BY <1>1, <1>4, <1>5, <1>6, <1>7
<1>14. st.op \in {"create_table", "create_index", "drop_index"} => \A k \in PKs : store'[k] = store[k]
  BY <1>1, <1>5, <1>7, <1>8
<1>15. CatalogKept'
  <2> SUFFICES ASSUME store'[TableKey] = Absent
               PROVE  (\A k \in PKs : store'[k] = Absent) /\ store'[IndexKey] = Absent
    BY <1>2 DEF AInv, CatalogKept, Live
  <2>1. st.op \in {"drop_table", "drop_index"}
    <3>1. st.op \in NeedsTable => store[TableKey] # Absent
      BY <1>3 DEF UnderwayAt
    <3>2. st.op = "create_table" => store'[TableKey] # Absent
      BY <1>1, <1>5, <1>8, ConstantsDiffer
    <3> QED BY <1>4, <1>13, <3>1, <3>2 DEF NeedsTable
  <2>2. CASE st.op = "drop_table"
    BY <1>1, <1>5, <1>10, <1>11, <2>2
  <2>3. CASE st.op = "drop_index"
    <3>1. Live(store) = {}
      BY <1>13, <2>3 DEF AInv, CatalogKept
    <3> QED BY <1>1, <1>5, <1>7, <1>9, <1>14, <2>3, <3>1 DEF Live
  <2> QED BY <2>1, <2>2, <2>3
<1>16. UnderwayAt(s)'
  <2>1. st.op = "create_index" => Entries(store)' = Entries(store)
    BY <1>14 DEF Entries
  <2>2. st.op = "create_table" => Live(store') = {} /\ store'[IndexKey] = Absent
    <3> SUFFICES ASSUME st.op = "create_table" PROVE Live(store') = {} /\ store'[IndexKey] = Absent
      OBVIOUS
    <3>1. snap[s][TableKey] = Absent
      BY <1>2 DEF BodyFails
    <3>2. store[TableKey] = Absent
      BY <1>1, <1>8, <3>1
    <3>3. Live(store) = {} /\ store[IndexKey] = Absent
      BY <3>2 DEF AInv, CatalogKept
    <3>4. store'[IndexKey] = store[IndexKey]
      BY <1>1, <1>5, <1>8
    <3> QED BY <1>14, <3>3, <3>4 DEF Live
  <2>3. st.op # "select" /\ (st.op \in NeedsTable => st.op \notin {"create_table", "drop_table"})
    BY <1>4 DEF NeedsTable
  <2>4. st.op = "insert" => snap[s][st.arg] = Absent
    BY <1>2 DEF BodyFails
  <2> QED BY <1>2, <1>3, <1>13, <2>1, <2>2, <2>3, <2>4 DEF UnderwayAt, InTransaction
<1>17. ASSUME NEW u \in Sessions \ {s}, Active(u) PROVE UnderwayAt(u)'
  <2>1. Independent(st, stmt[u])
    BY <1>2, <1>17, Companions DEF AInv, Active
  <2>2. UnderwayAt(u)
    BY <1>17 DEF AInv, Underway
  <2>3. ByKey(stmt[u]) /\ ByKey(st)
    BY <2>1 DEF Independent
  <2>4. stale'[u] = IF InTransaction(u) THEN stale[u] \cup DOMAIN W ELSE {}
    BY <1>17 DEF Commit, W
  <2>5. DOMAIN W \subseteq {st.arg}
    BY <1>2, <1>4, <2>3, WrittenKeys DEF AInv, W
  <2>6. (InTransaction(u) /\ stmt[u].op # "insert") => stmt[u].arg \notin stale'[u]
    BY <2>1, <2>2, <2>3, <2>4, <2>5 DEF Independent, UnderwayAt
  <2>7. store'[TableKey] = store[TableKey]
    BY <1>4, <1>13, <2>3 DEF ByKey
  <2>8. pc[u] # "lookup" /\ stmt[u].op \notin {"create_index", "create_table"}
    BY <2>2, <2>3 DEF ByKey, UnderwayAt, AInv, TInv, Refined
  <2> QED BY <1>2, <2>2, <2>3, <2>6, <2>7, <2>8 DEF UnderwayAt, InTransaction
<1>18. Underway'
  BY <1>2, <1>16, <1>17 DEF Underway, Active
<1>19. MatchingRows'
  <2> SUFFICES ASSUME NEW u \in Sessions, stmt[u].op \in {"select", "update", "delete"},
                      pc'[u] \in {"commit", "publish", "done"}
               PROVE  rows[u] = Matching(snap[u], stmt[u])
    BY <1>2 DEF MatchingRows, Matching, Live
  <2> QED BY <1>2 DEF AInv, MatchingRows
<1> QED BY <1>1, <1>12, <1>15, <1>18, <1>19 DEF AInv

\* What is left to show of a publication.
LEMMA PublishKeeps ==
    ASSUME ScenariosDisciplined, AInv, TInv', UNCHANGED <<scenario, store>>, NEW s \in Sessions,
           pc[s] = "publish", Return(s), CatalogKept',
           ByKey(stmt[s]) => UNCHANGED <<tables, sec>>,
           \A k \in DOMAIN WritesOf(s) : Shows(k, store[k])',
           \A k \in Keys \ DOMAIN WritesOf(s) : \A v : Shows(k, v) => Shows(k, v)'
    PROVE  AInv'
<1>1. Shown' /\ OnePending'
  BY PublishStep DEF AInv
<1>2. pc'[s] = "idle" /\ \A u \in Sessions \ {s} :
         /\ pc'[u] = pc[u] /\ stmt'[u] = stmt[u] /\ rows'[u] = rows[u] /\ snap'[u] = snap[u]
         /\ stale'[u] = stale[u] /\ tree'[u] = tree[u]
  BY SMT DEF Return, AInv, TInv, SInv, Typed, Refined
<1>3. FromScript'
  BY <1>2 DEF AInv, FromScript
<1>4. Underway'
  <2> SUFFICES ASSUME NEW u \in Sessions, Active(u)' PROVE UnderwayAt(u)'
    BY DEF Underway
  <2>1. u # s /\ Active(u)
    BY <1>2 DEF Active
  <2>2. Independent(stmt[s], stmt[u])
    BY <2>1, Companions DEF AInv, Active
  <2>3. UNCHANGED <<tables, sec>> /\ stmt[u].op # "create_index"
    BY <2>2 DEF Independent, ByKey
  <2> QED BY <1>2, <2>1, <2>3, OthersUnderway DEF AInv, Underway
<1>5. MatchingRows'
  <2> SUFFICES ASSUME NEW u \in Sessions, stmt'[u].op \in {"select", "update", "delete"},
                      pc'[u] \in {"commit", "publish", "done"}
               PROVE  (rows[u] = Matching(snap[u], stmt[u]))'
    BY DEF MatchingRows
  <2>1. u # s
    BY <1>2
  <2>2. rows[u] = Matching(snap[u], stmt[u])
    BY <1>2, <2>1 DEF AInv, MatchingRows
  <2> QED BY <1>2, <2>1, <2>2 DEF Matching, Live
<1> QED BY <1>1, <1>3, <1>4, <1>5 DEF AInv

\* Entries of other rows do not count.
LEMMA RowEntries ==
    ASSUME NEW k \in PKs
    PROVE  /\ \A v : RowOf(Entry(k, v), k) = Entry(k, v)
           /\ \A j, v : j # k => RowOf(Entry(j, v), k) = {}
           /\ \A st : RowOf(Entries(st), k) = Entry(k, st[k])
<1>1. \A v : RowOf(Entry(k, v), k) = Entry(k, v)
  BY SMT DEF RowOf, Entry
<1>2. \A j, v : j # k => RowOf(Entry(j, v), k) = {}
  BY SMT DEF RowOf, Entry
<1>3. ASSUME NEW st PROVE RowOf(Entries(st), k) = Entry(k, st[k])
  <2>1. \A e \in Entries(st) : \E j \in PKs : e \in Entry(j, st[j])
    BY DEF Entries
  <2>2. Entry(k, st[k]) \subseteq Entries(st)
    BY DEF Entries
  <2> QED BY <1>1, <1>2, <2>1, <2>2 DEF RowOf
<1> QED BY <1>1, <1>2, <1>3

\* The entries that UPDATE and DELETE take out and put in, row by row.
LEMMA ChangedEntries ==
    ASSUME NEW s \in Sessions, NEW k \in PKs, rows[s] \subseteq PKs
    PROVE  /\ RowOf(OldEntries(s), k) = IF k \in rows[s] THEN Entry(k, snap[s][k]) ELSE {}
           /\ RowOf(NewEntries(s), k) = IF k \in rows[s] THEN Entry(k, stmt[s].set) ELSE {}
<1>1. /\ \A v : RowOf(Entry(k, v), k) = Entry(k, v)
      /\ \A j, v : j # k => RowOf(Entry(j, v), k) = {}
  BY RowEntries
<1>2. RowOf(OldEntries(s), k) = IF k \in rows[s] THEN Entry(k, snap[s][k]) ELSE {}
  <2>1. \A e \in OldEntries(s) : \E j \in rows[s] : e \in Entry(j, snap[s][j])
    BY DEF OldEntries
  <2>2. k \in rows[s] => Entry(k, snap[s][k]) \subseteq OldEntries(s)
    BY DEF OldEntries
  <2> QED BY <1>1, <2>1, <2>2, SMT DEF RowOf
<1>3. RowOf(NewEntries(s), k) = IF k \in rows[s] THEN Entry(k, stmt[s].set) ELSE {}
  <2>1. \A e \in NewEntries(s) : \E j \in rows[s] : e \in Entry(j, stmt[s].set)
    BY DEF NewEntries
  <2>2. k \in rows[s] => Entry(k, stmt[s].set) \subseteq NewEntries(s)
    BY DEF NewEntries
  <2> QED BY <1>1, <2>1, <2>2, SMT DEF RowOf
<1> QED BY <1>2, <1>3

\* Reindex works on each row's entries.
LEMMA ReindexRow ==
    ASSUME MemTyped, sec # 0, NEW gone, NEW new, Reindex(gone, new), NEW k \in PKs
    PROVE  RowOf(trees'[sec], k) = (RowOf(trees[sec], k) \ RowOf(gone, k)) \cup RowOf(new, k)
<1>1. trees'[sec] = (trees[sec] \ gone) \cup new
  BY DEF MemTyped, Reindex
<1> QED BY <1>1 DEF RowOf

\* INSERT, UPDATE and DELETE bring the primary-key index and the secondary
\* index up to date for the rows they wrote.
LEMMA PublishDML ==
    ASSUME ScenariosDisciplined, AInv, TInv', UNCHANGED scenario, NEW s \in Sessions,
           PublishInsert(s) \/ PublishUpdate(s) \/ PublishDelete(s)
    PROVE  AInv'
<1> DEFINE st == stmt[s]
           W == WritesOf(s)
<1>1. pc[s] = "publish" /\ Return(s) /\ UNCHANGED <<store, tables, sec>>
  BY DEF PublishInsert, PublishUpdate, PublishDelete, Published
<1>2. UnderwayAt(s) /\ MemTyped /\ rows[s] \subseteq PKs /\ tables /\ pkIndex # Absent /\ pkIndex \subseteq PKs
  <2>1. UnderwayAt(s)
    BY <1>1 DEF AInv, Underway, Active
  <2>2. st.op \in NeedsTable
    BY DEF PublishInsert, PublishUpdate, PublishDelete, NeedsTable
  <2> QED BY <2>1, <2>2 DEF UnderwayAt, AInv, TInv, SInv, Typed, TypeOK, MemTyped, CatalogKept
<1>3. /\ st.op = "insert" => DOMAIN W = {st.arg} /\ W[st.arg] = st.set
      /\ st.op \in {"update", "delete"} => DOMAIN W = rows[s] /\ rows[s] \subseteq Live(snap[s])
      /\ st.op \in {"insert", "update", "delete"} => DOMAIN W \subseteq PKs
  BY <1>1, WrittenKeys DEF AInv
<1>4. st.op = "update" => \A k \in rows[s] : W[k] = st.set
  BY DEF WritesOf
<1>5. st.op = "delete" => \A k \in rows[s] : W[k] = Absent
  BY DEF WritesOf
<1>6. \A k \in DOMAIN W \cap Keys : Shows(k, snap[s][k]) /\ store[k] = W[k]
  BY <1>1 DEF AInv, Shown, Pending
<1>7. st.set # Absent /\ Entry(st.arg, Absent) = {} /\ \A k : Entry(k, Absent) = {}
  <2>1. st.set \in Cols /\ Absent \notin Ints
    BY ConstantsDiffer DEF AInv, TInv, SInv, Typed, Statement, Cols
  <2> QED BY <2>1, ConstantsDiffer DEF Entry
<1>8. TableKey \notin PKs /\ IndexKey \notin PKs /\ PKs \subseteq Keys
  BY ConstantsDiffer DEF Keys
<1> HIDE DEF W
<1>9. ASSUME NEW k \in Keys \ PKs, NEW v PROVE Shows(k, v) => Shows(k, v)'
  BY <1>1, <1>9 DEF Shows
<1>10. CatalogKept'
  <2>1. pkIndex' # Absent
    <3>1. CASE PublishInsert(s)
      <4>1. st.arg \in PKs
        BY <1>3, <3>1 DEF PublishInsert
      <4>2. pkIndex' \in SUBSET PKs
        BY <1>2, <3>1, <4>1 DEF PublishInsert
      <4> QED BY <4>2, ConstantsDiffer
    <3>2. CASE PublishUpdate(s)
      BY <1>2, <3>2 DEF PublishUpdate
    <3>3. CASE PublishDelete(s)
      <4>1. pkIndex' \in SUBSET PKs
        BY <1>2, <3>3 DEF PublishDelete
      <4> QED BY <4>1, ConstantsDiffer
    <3> QED BY <3>1, <3>2, <3>3
  <2> QED BY <1>1, <2>1 DEF AInv, CatalogKept, Live
<1>11. ASSUME NEW k \in PKs PROVE
         /\ k \in DOMAIN W => Shows(k, store[k])'
         /\ k \notin DOMAIN W => \A v : Shows(k, v) => Shows(k, v)'
  <2>1. /\ RowOf(OldEntries(s), k) = IF k \in rows[s] THEN Entry(k, snap[s][k]) ELSE {}
        /\ RowOf(NewEntries(s), k) = IF k \in rows[s] THEN Entry(k, st.set) ELSE {}
        /\ \A v : RowOf(Entry(k, v), k) = Entry(k, v)
        /\ \A j, v : j # k => RowOf(Entry(j, v), k) = {}
    BY <1>2, ChangedEntries, RowEntries
  <2>2. RowOf({}, k) = {}
    BY DEF RowOf
  <2>3. CASE PublishInsert(s)
    <3>1. st.op = "insert" /\ pkIndex' = pkIndex \cup {st.arg} /\ Reindex({}, Entry(st.arg, st.set))
      BY <1>2, <2>3 DEF PublishInsert
    <3>2. sec # 0 => RowOf(trees'[sec], k) = RowOf(trees[sec], k) \cup RowOf(Entry(st.arg, st.set), k)
      BY <1>2, <2>2, <3>1, ReindexRow, SMT
    <3>3. CASE k = st.arg
      <4>1. snap[s][k] = Absent /\ store[k] = st.set /\ Shows(k, snap[s][k]) /\ k \in DOMAIN W
        BY <1>1, <1>2, <1>3, <1>6, <1>8, <3>1, <3>3 DEF UnderwayAt
      <4>2. sec # 0 => RowOf(trees'[sec], k) = Entry(k, st.set)
        BY <1>7, <2>1, <3>2, <3>3, <4>1, SMT DEF Shows
      <4> QED BY <1>1, <1>7, <1>8, <1>11, <3>1, <3>3, <4>1, <4>2 DEF Shows
    <3>4. CASE k # st.arg
      <4>1. k \notin DOMAIN W
        BY <1>3, <3>1, <3>4
      <4>2. sec # 0 => RowOf(trees'[sec], k) = RowOf(trees[sec], k)
        BY <2>1, <3>2, <3>4, SMT
      <4> QED BY <1>1, <1>8, <3>1, <3>4, <4>1, <4>2 DEF Shows
    <3> QED BY <3>3, <3>4
  <2>4. CASE PublishUpdate(s)
    <3>1. st.op = "update" /\ UNCHANGED pkIndex /\ Reindex(OldEntries(s), NewEntries(s)) /\ DOMAIN W = rows[s]
      BY <1>3, <2>4 DEF PublishUpdate
    <3>2. sec # 0 => RowOf(trees'[sec], k) = (RowOf(trees[sec], k) \ RowOf(OldEntries(s), k)) \cup RowOf(NewEntries(s), k)
      BY <1>2, <3>1, ReindexRow, SMT
    <3>3. CASE k \in rows[s]
      <4>1. store[k] = st.set /\ Shows(k, snap[s][k]) /\ snap[s][k] # Absent
        BY <1>3, <1>4, <1>6, <1>8, <3>1, <3>3 DEF Live
      <4>2. sec # 0 => RowOf(trees'[sec], k) = Entry(k, st.set)
        BY <2>1, <3>2, <3>3, <4>1 DEF Shows
      <4> QED BY <1>1, <1>7, <1>8, <3>1, <3>3, <4>1, <4>2 DEF Shows
    <3>4. CASE k \notin rows[s]
      <4>1. sec # 0 => RowOf(trees'[sec], k) = RowOf(trees[sec], k)
        BY <2>1, <3>2, <3>4
      <4> QED BY <1>1, <1>8, <3>1, <3>4, <4>1 DEF Shows
    <3> QED BY <3>3, <3>4
  <2>5. CASE PublishDelete(s)
    <3>1. st.op = "delete" /\ pkIndex' = pkIndex \ rows[s] /\ Reindex(OldEntries(s), {}) /\ DOMAIN W = rows[s]
      BY <1>2, <1>3, <2>5 DEF PublishDelete
    <3>2. sec # 0 => RowOf(trees'[sec], k) = RowOf(trees[sec], k) \ RowOf(OldEntries(s), k)
      BY <1>2, <2>2, <3>1, ReindexRow, SMT
    <3>3. CASE k \in rows[s]
      <4>1. store[k] = Absent /\ Shows(k, snap[s][k])
        BY <1>3, <1>5, <1>6, <1>8, <3>1, <3>3
      <4>2. sec # 0 => RowOf(trees'[sec], k) = {}
        BY <2>1, <3>2, <3>3, <4>1 DEF Shows
      <4> QED BY <1>1, <1>7, <1>8, <3>1, <3>3, <4>1, <4>2 DEF Shows
    <3>4. CASE k \notin rows[s]
      <4>1. sec # 0 => RowOf(trees'[sec], k) = RowOf(trees[sec], k)
        BY <2>1, <3>2, <3>4
      <4> QED BY <1>1, <1>8, <3>1, <3>4, <4>1 DEF Shows
    <3> QED BY <3>3, <3>4
  <2> QED BY <2>3, <2>4, <2>5
<1>12. DOMAIN W \subseteq PKs
  BY <1>3 DEF PublishInsert, PublishUpdate, PublishDelete
<1> QED BY <1>1, <1>8, <1>9, <1>10, <1>11, <1>12, PublishKeeps DEF W

\* CREATE and DROP of the table and of the index.
LEMMA PublishDDL ==
    ASSUME ScenariosDisciplined, AInv, TInv', UNCHANGED scenario, NEW s \in Sessions,
           PublishCreate(s) \/ PublishDrop(s) \/ PublishCreateIndex(s) \/ PublishDropIndex(s)
    PROVE  AInv'
<1> DEFINE st == stmt[s]
           W == WritesOf(s)
<1>1. pc[s] = "publish" /\ Return(s) /\ UNCHANGED store /\ ~ByKey(st)
  BY DEF PublishCreate, PublishDrop, PublishCreateIndex, PublishDropIndex, Published, ByKey
<1>2. UnderwayAt(s) /\ MemTyped /\ CatalogKept
  BY <1>1 DEF AInv, Underway, Active, TInv, TypeOK, MemTyped
<1>3. TableKey \in Keys /\ IndexKey \in Keys /\ TableKey # IndexKey /\ TableKey \notin PKs /\ IndexKey \notin PKs
      /\ TRUE # Absent /\ Keys = PKs \cup {TableKey, IndexKey}
  BY ConstantsDiffer DEF Keys
<1>4. \A k \in Keys : IF k \in DOMAIN W THEN store[k] = W[k] ELSE Shows(k, store[k])
  <2> SUFFICES ASSUME NEW k \in Keys PROVE IF k \in DOMAIN W THEN store[k] = W[k] ELSE Shows(k, store[k])
    OBVIOUS
  <2>1. CASE k \in DOMAIN W
    BY <1>1, <2>1 DEF AInv, Shown, Pending
  <2>2. CASE k \notin DOMAIN W
    <3>1. \A u \in Sessions : ~Pending(u, k)
      BY <1>1, <2>2, Alone DEF AInv, Pending
    <3> QED BY <2>2, <3>1 DEF AInv, Shown
  <2> QED BY <2>1, <2>2
<1>5. SUFFICES CatalogKept' /\ \A k \in Keys : Shows(k, store[k])'
  <2> SUFFICES ASSUME CatalogKept', \A k \in Keys : Shows(k, store[k])' PROVE AInv'
    OBVIOUS
  <2>1. Shown' /\ OnePending'
    <3>1. \A u \in Sessions : pc'[u] # "publish"
      BY <1>1, Alone DEF AInv, Return, TInv, SInv, Typed
    <3> QED BY <3>1 DEF Shown, OnePending, Pending
  <2>2. \A u \in Sessions : pc'[u] = "idle"
    BY <1>1, Alone DEF AInv, Return, TInv, SInv, Typed
  <2>3. FromScript' /\ Underway' /\ MatchingRows'
    BY <2>2 DEF FromScript, Underway, Active, MatchingRows
  <2> QED BY <2>1, <2>3 DEF AInv
<1>6. CASE PublishCreate(s)
  <2>1. st.op = "create_table" /\ tables' = TRUE /\ pkIndex' = {} /\ UNCHANGED <<sec, trees>>
    BY <1>6 DEF PublishCreate
  <2>2. W = [k \in {TableKey} |-> TRUE]
    BY <2>1 DEF WritesOf
  <2> HIDE DEF W
  <2>3. store[TableKey] = TRUE /\ Shows(IndexKey, store[IndexKey])
    BY <1>3, <1>4, <2>2
  <2>4. store[IndexKey] = Absent /\ \A k \in PKs : store[k] = Absent
    BY <1>1, <1>2, <2>1 DEF UnderwayAt, Live
  <2>5. sec = 0
    BY <2>3, <2>4 DEF Shows
  <2>6. pkIndex' # Absent
    BY <2>1, ConstantsDiffer
  <2>7. CatalogKept'
    BY <1>1, <1>3, <2>1, <2>3, <2>5, <2>6 DEF CatalogKept
  <2>8. ASSUME NEW k \in Keys PROVE Shows(k, store[k])'
    BY <1>1, <1>3, <2>1, <2>3, <2>4, <2>5 DEF Shows
  <2> QED BY <2>7, <2>8
<1>7. CASE PublishDrop(s)
  <2>1. st.op = "drop_table" /\ tables' = FALSE /\ sec' = 0
    BY <1>7 DEF PublishDrop
  <2>2. TableKey \in DOMAIN W /\ \A k \in DOMAIN W : W[k] = Absent
    BY <2>1 DEF WritesOf
  <2> HIDE DEF W
  <2>3. store[TableKey] = Absent
    BY <1>3, <1>4, <2>2
  <2>4. store[IndexKey] = Absent /\ Live(store) = {}
    BY <1>2, <2>3 DEF CatalogKept
  <2>5. CatalogKept'
    BY <1>1, <2>1, <2>4 DEF CatalogKept
  <2>6. ASSUME NEW k \in Keys PROVE Shows(k, store[k])'
    BY <1>1, <1>3, <2>1, <2>3, <2>4 DEF Shows
  <2> QED BY <2>5, <2>6
<1>8. CASE PublishDropIndex(s)
  <2>1. st.op = "drop_index" /\ sec' = 0 /\ UNCHANGED <<tables, pkIndex>>
    BY <1>8 DEF PublishDropIndex
  <2>2. W = [k \in {IndexKey} |-> Absent]
    BY <2>1 DEF WritesOf
  <2> HIDE DEF W
  <2>3. store[IndexKey] = Absent /\ \A k \in Keys \ {IndexKey} : Shows(k, store[k])
    BY <1>3, <1>4, <2>2
  <2>4. CatalogKept'
    BY <1>1, <1>2, <2>1 DEF CatalogKept, Live
  <2>5. ASSUME NEW k \in Keys PROVE Shows(k, store[k])'
    BY <1>1, <1>3, <2>1, <2>3 DEF Shows
  <2> QED BY <2>4, <2>5
<1>9. CASE PublishCreateIndex(s)
  <2>1. st.op = "create_index" /\ sec' = tree[s] /\ UNCHANGED <<tables, pkIndex, trees>>
    BY <1>9 DEF PublishCreateIndex
  <2>2. W = [k \in {IndexKey} |-> TRUE]
    BY <2>1 DEF WritesOf
  <2> HIDE DEF W
  <2>3. store[IndexKey] = TRUE /\ \A k \in Keys \ {IndexKey} : Shows(k, store[k])
    BY <1>3, <1>4, <2>2
  <2>4. tables /\ trees[tree[s]] = Entries(store)
    BY <1>1, <1>2, <2>1 DEF UnderwayAt, NeedsTable
  <2>5. tree[s] # 0
    BY <1>1, <2>1 DEF AInv, TInv, TypeOK
  <2>6. CatalogKept'
    BY <1>1, <1>2, <2>1, <2>4 DEF CatalogKept, Live
  <2>7. ASSUME NEW k \in Keys PROVE Shows(k, store[k])'
    <3>1. CASE k \in PKs
      <4>1. RowOf(trees'[sec'], k) = Entry(k, store[k])
        BY <2>1, <2>4, <3>1, RowEntries
      <4>2. tables' => (k \in pkIndex' <=> store[k] # Absent)
        BY <1>3, <2>1, <2>3, <3>1 DEF Shows
      <4> QED BY <1>1, <1>3, <3>1, <4>1, <4>2 DEF Shows
    <3>2. CASE k = TableKey
      BY <1>1, <1>3, <2>1, <2>3, <3>2 DEF Shows
    <3>3. CASE k = IndexKey
      BY <1>1, <1>3, <2>1, <2>3, <2>5, <3>3 DEF Shows
    <3> QED BY <1>3, <3>1, <3>2, <3>3
  <2> QED BY <2>6, <2>7
<1> QED BY <1>6, <1>7, <1>8, <1>9

\* With every session idle the invariant is about the store and the memory.
LEMMA IdleSuffices ==
    ASSUME TInv, \A u \in Sessions : pc[u] = "idle", CatalogKept, \A k \in Keys : Shows(k, store[k])
    PROVE  AInv
BY DEF AInv, FromScript, Underway, Active, MatchingRows, Shown, OnePending, Pending

\* An earlier process left nothing but the catalog.
LEMMA InitAInv ==
    ASSUME ScenariosDisciplined, Init
    PROVE  AInv
<1>1. TInv /\ scenario \in Scenarios
  BY InitTInv DEF Init
<1>2. /\ scenario.existing \subseteq {TableKey, IndexKey}
      /\ IndexKey \in scenario.existing => TableKey \in scenario.existing
  BY <1>1, ScenariosTyped DEF ScenariosDisciplined, Disciplined
<1>3. TableKey \in Keys /\ IndexKey \in Keys /\ TableKey # IndexKey /\ TableKey \notin PKs /\ IndexKey \notin PKs
      /\ TRUE # Absent /\ Keys = PKs \cup {TableKey, IndexKey} /\ {} # Absent /\ Absent \notin Ints
  BY ConstantsDiffer DEF Keys, Cols
<1>4. /\ store[TableKey] # Absent <=> TableKey \in scenario.existing
      /\ store[IndexKey] # Absent <=> IndexKey \in scenario.existing
      /\ \A k \in PKs : store[k] = Absent
  BY <1>2, <1>3 DEF Init
<1>5. tables <=> TableKey \in scenario.existing
  BY DEF Init
<1>6. sec # 0 <=> IndexKey \in scenario.existing
  BY <1>2, SMT DEF Init
<1>7. tables => pkIndex = {}
  BY DEF Init
<1>8. sec # 0 => trees[sec] = {}
  <2>1. sec # 0 => sec \in Trees
    BY <1>1 DEF TInv, TypeOK
  <2> QED BY <2>1 DEF Init
<1>9. CatalogKept
  BY <1>2, <1>3, <1>4, <1>5, <1>6, <1>7 DEF CatalogKept, Live
<1>10. ASSUME NEW k \in Keys PROVE Shows(k, store[k])
  BY <1>3, <1>4, <1>5, <1>6, <1>7, <1>8 DEF Shows, RowOf, Entry
<1>11. \A u \in Sessions : pc[u] = "idle"
  BY DEF Init
<1> QED BY <1>1, <1>9, <1>10, <1>11, IdleSuffices

\* rebuildSQLState brings back exactly what the store says.
LEMMA RestartKeeps ==
    ASSUME AInv, TInv', Restart
    PROVE  AInv'
<1>1. /\ \A u \in Sessions : pc'[u] = "idle"
      /\ tables' <=> store[TableKey] # Absent
      /\ tables' => pkIndex' = Live(store)
      /\ sec' # 0 <=> tables' /\ store[IndexKey] # Absent
      /\ UNCHANGED store
  <2>1. tables' = (store[TableKey] # Absent)
    BY DEF Restart
  <2>2. tables' <=> store[TableKey] # Absent
    BY <2>1
  <2>3. sec' # 0 <=> tables' /\ store[IndexKey] # Absent
    BY SMT DEF Restart
  <2>4. \A u \in Sessions : pc'[u] = "idle"
    BY DEF Restart, Idle
  <2>5. (tables' => pkIndex' = Live(store)) /\ UNCHANGED store
    BY DEF Restart
  <2> QED BY <2>2, <2>3, <2>4, <2>5
<1>2. store[TableKey] = Absent => Live(store) = {} /\ store[IndexKey] = Absent
  BY DEF AInv, CatalogKept
<1>3. sec' # 0 => trees'[sec'] = Entries(store)
  <2>1. sec' # 0 => sec' \in Trees
    BY DEF TInv, TypeOK
  <2> QED BY <2>1 DEF Restart
<1>4. tables' => pkIndex' # Absent
  <2>1. Live(store) \in SUBSET PKs
    BY DEF Live
  <2> QED BY <1>1, <2>1, ConstantsDiffer
<1>5. CatalogKept'
  BY <1>1, <1>2, <1>4 DEF CatalogKept, Live
<1>6. ASSUME NEW k \in Keys PROVE Shows(k, store[k])'
  <2>1. k \in PKs => (tables' => (k \in pkIndex' <=> store[k] # Absent))
    BY <1>1 DEF Live
  <2>2. k \in PKs => (sec' # 0 => RowOf(trees'[sec'], k) = Entry(k, store[k]))
    BY <1>3, RowEntries
  <2>3. k = IndexKey => (sec' # 0 <=> store[IndexKey] # Absent)
    BY <1>1, <1>2
  <2> QED BY <1>1, <2>1, <2>2, <2>3 DEF Shows
<1> QED BY <1>1, <1>5, <1>6 DEF AInv, FromScript, Underway, Active, MatchingRows, Shown, OnePending, Pending

\* Every step keeps the memory in step with the store.
LEMMA NextAInv ==
    ASSUME ScenariosDisciplined, AInv, [Next]_vars
    PROVE  AInv'
<1>1. TInv'
  BY NextTInv DEF AInv
<1>2. CASE UNCHANGED vars
  <2>1. \A s \in Sessions : WritesOf(s)' = WritesOf(s)
    BY <1>2 DEF vars, session, WritesOf
  <2>2. \A k, v : Shows(k, v)' <=> Shows(k, v)
    BY <1>2, SMT DEF vars, mem, Shows
  <2>3. \A k : \A s \in Sessions : Pending(s, k)' <=> Pending(s, k)
    BY <1>2, <2>1 DEF vars, session, Pending
  <2>4. OnePending'
    BY <2>3 DEF AInv, OnePending
  <2>5. Shown'
    <3>1. store' = store /\ snap' = snap
      BY <1>2 DEF vars, session
    <3> QED BY <2>1, <2>2, <2>3, <3>1 DEF AInv, Shown
  <2>6. FromScript' /\ CatalogKept' /\ MatchingRows'
    BY <1>2 DEF vars, mem, session, AInv, FromScript, CatalogKept, MatchingRows, Live, Matching
  <2>7. Underway'
    <3> SUFFICES ASSUME NEW u \in Sessions PROVE (Active(u) => UnderwayAt(u))'
      BY DEF Underway
    <3>1. UNCHANGED <<pc, stmt, snap, stale, tree, store, tables, sec, trees>>
      BY <1>2 DEF vars, mem, session
    <3> QED BY <3>1, OthersUnderway DEF AInv, Underway
  <2> QED BY <1>1, <2>4, <2>5, <2>6, <2>7 DEF AInv
<1>3. CASE Next
  <2>1. UNCHANGED scenario
    BY <1>3 DEF Next
  <2>2. CASE Restart
    BY <1>1, <2>2, RestartKeeps
  <2>3. ASSUME NEW s \in Sessions, Step(s) PROVE AInv'
    <3>1. CASE (\E st \in scenario.script[s] : Start(s, st)) \/ Build(s) \/ Begin(s)
      BY <1>1, <2>1, <3>1, StartStep
    <3>2. CASE CollectByPK(s) \/ CollectByScan(s) \/ FindIndex(s) \/ Lookup(s)
      BY <1>1, <2>1, <3>2, CollectStep
    <3>3. CASE Commit(s)
      BY <1>1, <2>1, <3>3, CommitKeeps
    <3>4. CASE Fail(s)
      BY <1>1, <2>1, <3>4, FailStep
    <3>5. CASE PublishInsert(s) \/ PublishUpdate(s) \/ PublishDelete(s)
      BY <1>1, <2>1, <3>5, PublishDML
    <3>6. CASE PublishCreate(s) \/ PublishDrop(s) \/ PublishCreateIndex(s) \/ PublishDropIndex(s)
      BY <1>1, <2>1, <3>6, PublishDDL
    <3> QED BY <2>3, <3>1, <3>2, <3>3, <3>4, <3>5, <3>6 DEF Step
  <2> QED BY <1>3, <2>2, <2>3 DEF Next
<1> QED BY <1>2, <1>3

\* With nothing pending, what is shown is what is stored.
LEMMA QuietMatches ==
    ASSUME AInv
    PROVE  IndexesMatch
<1> SUFFICES ASSUME Quiet
             PROVE  /\ tables <=> store[TableKey] # Absent
                    /\ tables => pkIndex = Live(store)
                    /\ sec # 0 <=> store[IndexKey] # Absent
                    /\ sec # 0 => trees[sec] = Entries(store)
  BY DEF IndexesMatch
<1>1. \A k \in Keys : Shows(k, store[k])
  BY DEF Quiet, AInv, Shown, Pending
<1>2. TableKey \in Keys /\ IndexKey \in Keys /\ PKs \subseteq Keys
  BY DEF Keys
<1>3. (tables <=> store[TableKey] # Absent) /\ (sec # 0 <=> store[IndexKey] # Absent)
  BY <1>1, <1>2 DEF Shows
<1>4. ASSUME tables PROVE pkIndex = Live(store)
  <2>1. pkIndex \subseteq PKs
    BY <1>4 DEF AInv, CatalogKept, TInv, TypeOK
  <2>2. \A k \in PKs : k \in pkIndex <=> store[k] # Absent
    BY <1>1, <1>2, <1>4 DEF Shows
  <2> QED BY <2>1, <2>2 DEF Live
<1>5. ASSUME sec # 0 PROVE trees[sec] = Entries(store)
  <2>1. trees[sec] \subseteq Ints \X PKs
    BY <1>5 DEF AInv, TInv, TypeOK
  <2>2. \A k \in PKs : RowOf(trees[sec], k) = RowOf(Entries(store), k)
    BY <1>1, <1>2, <1>5, RowEntries DEF Shows
  <2>3. Entries(store) \subseteq Ints \X PKs
    BY EntryTyped
  <2>4. ASSUME NEW e \in Ints \X PKs PROVE e \in trees[sec] <=> e \in Entries(store)
    <3>1. e[2] \in PKs /\ e \in Ints \X {e[2]}
      OBVIOUS
    <3> QED BY <2>2, <3>1 DEF RowOf
  <2> QED BY <2>1, <2>3, <2>4
<1> QED BY <1>3, <1>4, <1>5

\* For any sessions, keys and values, statements that are independent of each
\* other (or one session's alone, DDL included) and restarts at any step: between
\* statements the catalog cache, the primary-key index and the secondary index
\* (sql_exec.go, secondary.go) say what the store says.
THEOREM IndexesMaintained == ScenariosDisciplined => (Spec => []IndexesMatch)
<1> SUFFICES ASSUME ScenariosDisciplined PROVE Spec => []IndexesMatch
  OBVIOUS
<1>1. Init => AInv
  BY InitAInv
<1>2. AInv /\ [Next]_vars => AInv'
  BY NextAInv
<1>3. AInv => IndexesMatch
  BY QuietMatches
<1> QED BY <1>1, <1>2, <1>3, PTL DEF Spec

\* Under the same assumptions collectRows finds, by each of its three paths
\* (sql_exec.go), exactly the rows of its snapshot that satisfy WHERE.
THEOREM RowsCollected == ScenariosDisciplined => (Spec => []CollectsMatchingRows)
<1> SUFFICES ASSUME ScenariosDisciplined PROVE Spec => []CollectsMatchingRows
  OBVIOUS
<1>1. Init => AInv
  BY InitAInv
<1>2. AInv /\ [Next]_vars => AInv'
  BY NextAInv
<1>3. AInv => CollectsMatchingRows
  BY DEF AInv, MatchingRows, CollectsMatchingRows
<1> QED BY <1>1, <1>2, <1>3, PTL DEF Spec

=============================================================================
