---------------------------- MODULE SnapshotStore ----------------------------
(***************************************************************************)
(* What the kernel promises its callers, without versions, logs or         *)
(* compaction: one committed store, transactions that read a private copy  *)
(* of it taken when they began, first committer wins, and no acknowledged  *)
(* commit is ever lost.  Module MVCC is shown to implement it.             *)
(***************************************************************************)
CONSTANTS Keys, Values, Txs, Delete, None

VARIABLES
    up,         \* the database is open
    store,      \* the committed contents
    status,     \* of each transaction: "idle", "reader" or "writer"
    writes,     \* its pending writes
    snap,       \* the store as it was when it began
    stale       \* the keys others have committed since

vars == <<up, store, status, writes, snap, stale>>

Empty == [k \in Keys |-> None]

Init ==
    /\ up = FALSE
    /\ store = Empty
    /\ status = [t \in Txs |-> "idle"]
    /\ writes = [t \in Txs |-> Empty]
    /\ snap = [t \in Txs |-> Empty]
    /\ stale = [t \in Txs |-> {}]

Begin(t, kind) ==
    /\ up /\ status[t] = "idle"
    /\ status' = [status EXCEPT ![t] = kind]
    /\ snap' = [snap EXCEPT ![t] = store]
    /\ UNCHANGED <<up, store, writes, stale>>

Write(t, k, op) ==
    /\ status[t] = "writer"
    /\ writes' = [writes EXCEPT ![t][k] = op]
    /\ UNCHANGED <<up, store, status, snap, stale>>

End(t) ==
    /\ status' = [status EXCEPT ![t] = "idle"]
    /\ writes' = [writes EXCEPT ![t] = Empty]
    /\ snap' = [snap EXCEPT ![t] = Empty]

WriteSet(t) == {k \in Keys : writes[t][k] # None}

Overwrite(t) == [k \in Keys |-> CASE writes[t][k] = None   -> store[k]
                                  [] writes[t][k] = Delete -> None
                                  [] OTHER                 -> writes[t][k]]

MayCommit(t) == status[t] = "writer" /\ WriteSet(t) \cap stale[t] = {}

\* Every other open transaction now has these keys changed under it.
Commit(t) ==
    /\ End(t)
    /\ MayCommit(t)
    /\ store' = Overwrite(t)
    /\ stale' = [u \in Txs |-> IF u = t \/ status[u] = "idle" THEN {}
                               ELSE stale[u] \cup WriteSet(t)]
    /\ UNCHANGED up

\* Rollback, a conflict or an error: no effect.
Abort(t) ==
    /\ status[t] # "idle"
    /\ End(t)
    /\ stale' = [stale EXCEPT ![t] = {}]
    /\ UNCHANGED <<up, store>>

\* A commit in flight at a crash takes effect entirely or not at all.
Crash ==
    /\ up
    /\ up' = FALSE
    /\ \/ store' = store
       \/ \E t \in Txs : MayCommit(t) /\ store' = Overwrite(t)
    /\ status' = [t \in Txs |-> "idle"]
    /\ writes' = [t \in Txs |-> Empty]
    /\ snap' = [t \in Txs |-> Empty]
    /\ stale' = [t \in Txs |-> {}]

Recover ==
    /\ ~up
    /\ up' = TRUE
    /\ UNCHANGED <<store, status, writes, snap, stale>>

Next ==
    \/ \E t \in Txs : \/ \E kind \in {"reader", "writer"} : Begin(t, kind)
                      \/ \E k \in Keys, op \in Values \cup {Delete} : Write(t, k, op)
                      \/ Commit(t)
                      \/ Abort(t)
    \/ Crash
    \/ Recover

Spec == Init /\ [][Next]_vars
==============================================================================
