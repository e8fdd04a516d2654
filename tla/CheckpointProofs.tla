--------------------------- MODULE CheckpointProofs ---------------------------
(***************************************************************************)
(* The safety of the checkpoint worker and of Close, for any number of     *)
(* goroutines that call Close, any thresholds and any I/O errors.          *)
(***************************************************************************)
EXTENDS Checkpoint, TLAPS

\* db.mu keeps Close out while the worker compacts, so the worker compacts an
\* open database only.
CompactsWhileOpen == worker = "compact" => ~closed

\* A Close that has begun has set db.closed, which nothing resets.
BegunIsClosed == \A c \in Closers : closer[c] # "idle" => closed

CInv == TypeOK /\ CompactsWhileOpen /\ BegunIsClosed /\ QuietAfterClose

\* What Compact may do to the variables it shares with Close.
LEMMA CompactTyped ==
    ASSUME TypeOK, CompactOK \/ CompactError
    PROVE  /\ closed' \in BOOLEAN /\ fileOpen' \in BOOLEAN /\ fdOpen' \in BOOLEAN
           /\ size' \in Nat
           /\ closed => closed'
<1>1. closed \in BOOLEAN /\ fileOpen \in BOOLEAN /\ fdOpen \in BOOLEAN
  BY DEF TypeOK
<1>2. closed' \in BOOLEAN /\ fileOpen' \in BOOLEAN /\ fdOpen' \in BOOLEAN /\ (closed => closed')
  <2>1. CASE CompactOK
    BY <1>1, <2>1, Zenon DEF CompactOK
  <2>2. CASE CompactError
    BY <1>1, <2>2, Zenon DEF CompactError
  <2> QED BY <2>1, <2>2
<1>3. size' \in Nat
  BY DEF TypeOK, CompactOK, CompactError
<1> QED BY <1>2, <1>3

\* Open starts the worker on an open database.
LEMMA InitCInv == Init => CInv
<1> SUFFICES ASSUME Init PROVE CInv
  OBVIOUS
<1>1. closed \in BOOLEAN /\ fileOpen \in BOOLEAN /\ stop \in BOOLEAN /\ fdOpen \in BOOLEAN
  BY Zenon DEF Init
<1>2. TypeOK
  BY <1>1 DEF Init, TypeOK
<1> QED BY <1>2 DEF Init, CInv, CompactsWhileOpen, BegunIsClosed, QuietAfterClose

\* Every step of users, worker and Close keeps the invariant.
LEMMA NextCInv == CInv /\ [Next]_vars => CInv'
<1> SUFFICES ASSUME CInv, [Next]_vars PROVE CInv'
  OBVIOUS
<1> USE ThresholdsAreNat, MaxCommitsIsNat
<1> USE DEF CInv, CompactsWhileOpen, BegunIsClosed, QuietAfterClose
<1>1. CASE Commit
  BY <1>1 DEF Commit, TypeOK
<1>2. CASE UserCompact
  <2>1. ~closed /\ mu = "free" /\ UNCHANGED <<mu, commits, stop, worker, lastCommits, closer>>
    BY <1>2 DEF UserCompact
  <2>2. TypeOK'
    BY <1>2, <2>1, CompactTyped DEF UserCompact, TypeOK
  <2>3. \A c \in Closers : closer[c] = "idle"
    BY <2>1
  <2> QED BY <2>1, <2>2, <2>3 DEF TypeOK
<1>3. CASE Tick
  BY <1>3 DEF Tick, TypeOK
<1>4. CASE Peek
  BY <1>4 DEF Peek, TypeOK
<1>5. CASE Stat
  BY <1>5 DEF Stat, TypeOK
<1>6. CASE Lock
  BY <1>6 DEF Lock, TypeOK
<1>7. CASE WorkerCompact
  <2>1. ~closed /\ mu' = "free" /\ worker' \in {"reload", "wait"}
        /\ UNCHANGED <<commits, stop, lastCommits, closer>>
    BY <1>7 DEF WorkerCompact
  <2>2. TypeOK'
    BY <1>7, <2>1, CompactTyped DEF WorkerCompact, TypeOK
  <2>3. \A c \in Closers : closer[c] = "idle"
    BY <2>1
  <2> QED BY <2>1, <2>2, <2>3 DEF TypeOK
<1>8. CASE Reload
  BY <1>8 DEF Reload, TypeOK
<1>9. CASE Exit
  BY <1>9 DEF Exit, TypeOK
<1>10. ASSUME NEW c \in Closers, CloseBegin(c) PROVE CInv'
  BY <1>10 DEF CloseBegin, TypeOK
<1>11. ASSUME NEW c \in Closers, CloseStop(c) PROVE CInv'
  BY <1>11 DEF CloseStop, TypeOK
<1>12. ASSUME NEW c \in Closers, CloseFile(c) PROVE CInv'
  BY <1>12 DEF CloseFile, TypeOK
<1>13. CASE UNCHANGED vars
  BY <1>13 DEF vars, TypeOK
<1> QED
  BY <1>1, <1>2, <1>3, <1>4, <1>5, <1>6, <1>7, <1>8, <1>9, <1>10, <1>11, <1>12, <1>13 DEF Next

\* When the Close that closes the database returns, the worker is gone, the file is
\* closed and db.mu is free, for ever.
THEOREM CloseIsQuiet == Spec => [](TypeOK /\ QuietAfterClose)
<1>1. CInv => TypeOK /\ QuietAfterClose
  BY DEF CInv
<1> QED BY <1>1, InitCInv, NextCInv, PTL DEF Spec

\* The worker, the closers and db.mu keep their types.
THEOREM WorkerTyped == Spec => []TypeOK
BY CloseIsQuiet, PTL

\* Neither the worker nor a user changes the log of a database that is closed.
THEOREM ClosedLogIsFinal == Spec => NoCompactionAfterClose
<1>1. ASSUME CInv, [Next]_vars PROVE [closed => size' = size /\ commits' = commits]_vars
  <2> SUFFICES ASSUME closed, Next PROVE size' = size /\ commits' = commits
    BY <1>1 DEF vars
  <2>1. ~Commit /\ ~UserCompact /\ ~WorkerCompact
    BY <1>1 DEF CInv, CompactsWhileOpen, Commit, UserCompact, WorkerCompact
  <2> QED
    BY <2>1 DEF Next, Tick, Peek, Stat, Lock, Reload, Exit, CloseBegin, CloseStop, CloseFile
<1> QED BY <1>1, InitCInv, NextCInv, PTL DEF Spec, NoCompactionAfterClose
=============================================================================
