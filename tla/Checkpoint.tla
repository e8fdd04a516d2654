----------------------------- MODULE Checkpoint -----------------------------
(***************************************************************************)
(* The background checkpoint worker (checkpoint.go) and its life cycle:    *)
(* Open starts it, it compacts when enough was committed or the log is     *)
(* large, Close stops it (db.go).  db.mu is modelled as a lock because     *)
(* Close waits for the worker and the worker waits for db.mu.              *)
(*                                                                         *)
(* A commit and a Compact called by a user hold db.mu throughout and are   *)
(* one step each.  The file is reduced to its size in records.             *)
(***************************************************************************)
EXTENDS Integers

CONSTANTS
    Closers,                \* goroutines that call Close
    CheckpointEveryCommit,  \* Options, both thresholds
    CheckpointMinBytes,
    CompactMayFail,         \* whether Compact meets I/O errors
    MaxCommits              \* bound on db.commits

ASSUME ThresholdsAreNat == CheckpointEveryCommit \in Nat /\ CheckpointMinBytes \in Nat
ASSUME MaxCommitsIsNat == MaxCommits \in Nat
ASSUME MayFailIsBool == CompactMayFail \in BOOLEAN

VARIABLES
    mu,             \* "free", or "worker" inside Compact
    closed,         \* db.closed
    fileOpen,       \* db.file is an open descriptor
    size,           \* size of the log
    commits,        \* db.commits
    stop,           \* the stop channel is closed
    worker,         \* where the worker is
    fdOpen,         \* the descriptor that maybeCheckpoint took is still open
    lastCommits,    \* the loop's local variable
    closer          \* where each call of Close is

vars == <<mu, closed, fileOpen, size, commits, stop, worker, fdOpen, lastCommits, closer>>

Init ==
    /\ mu = "free" /\ closed = FALSE /\ fileOpen = TRUE
    /\ size = 0 /\ commits = 0
    /\ stop = FALSE
    /\ worker = "wait" /\ fdOpen = FALSE /\ lastCommits = 0
    /\ closer = [c \in Closers |-> "idle"]

-----------------------------------------------------------------------------
(* Users of the database. *)

Commit ==
    /\ mu = "free" /\ ~closed /\ fileOpen
    /\ commits < MaxCommits
    /\ commits' = commits + 1
    /\ size' = size + 1
    /\ UNCHANGED <<mu, closed, fileOpen, stop, worker, fdOpen, lastCommits, closer>>

\* What Compact does to the database inside its critical section.
CompactOK ==
    /\ fileOpen
    /\ size' \in 0..size
    /\ fdOpen' = FALSE
    /\ UNCHANGED <<closed, fileOpen>>

\* It fails before the old file is closed (always, when an earlier failure has
\* closed it); with the old file closed and perhaps reopened; or after the
\* rename, when it closes the database.
CompactError ==
    /\ UNCHANGED size
    /\ \/ /\ CompactMayFail \/ ~fileOpen
          /\ UNCHANGED <<closed, fileOpen, fdOpen>>
       \/ /\ CompactMayFail /\ fileOpen
          /\ fdOpen' = FALSE
          /\ \/ fileOpen' \in BOOLEAN /\ UNCHANGED closed
             \/ fileOpen' = FALSE /\ closed' = TRUE

UserCompact ==
    /\ mu = "free" /\ ~closed
    /\ CompactOK \/ CompactError
    /\ UNCHANGED <<mu, commits, stop, worker, lastCommits, closer>>

-----------------------------------------------------------------------------
(* The worker: loop and maybeCheckpoint. *)

Due == commits - lastCommits >= CheckpointEveryCommit

\* Mutant: only the size counts.
TickBySize ==
    /\ worker = "wait"
    /\ worker' = "peek"
    /\ UNCHANGED <<mu, closed, fileOpen, size, commits, stop, fdOpen, lastCommits, closer>>

\* The ticker fires and the commit counter is loaded.
Tick ==
    /\ worker = "wait"
    /\ worker' = IF Due THEN "lock" ELSE "peek"
    /\ UNCHANGED <<mu, closed, fileOpen, size, commits, stop, fdOpen, lastCommits, closer>>

\* The file and the closed flag are read under the read lock.
Peek ==
    /\ worker = "peek" /\ mu = "free"
    /\ worker' = IF closed THEN "wait" ELSE "stat"
    /\ fdOpen' = (~closed /\ fileOpen)
    /\ UNCHANGED <<mu, closed, fileOpen, size, commits, stop, lastCommits, closer>>

\* Stat, without the lock, on the descriptor taken before.
Stat ==
    /\ worker = "stat"
    /\ worker' = IF fdOpen /\ size >= CheckpointMinBytes THEN "lock" ELSE "wait"
    /\ fdOpen' = FALSE
    /\ UNCHANGED <<mu, closed, fileOpen, size, commits, stop, lastCommits, closer>>

\* Mutant: Compact does not look at db.closed.
LockAlways ==
    /\ worker = "lock" /\ mu = "free"
    /\ worker' = "compact" /\ mu' = "worker"
    /\ UNCHANGED <<closed, fileOpen, size, commits, stop, fdOpen, lastCommits, closer>>

\* Compact takes db.mu, and returns at once when the database is closed.
Lock ==
    /\ worker = "lock" /\ mu = "free"
    /\ IF closed THEN worker' = "wait" /\ mu' = mu
                 ELSE worker' = "compact" /\ mu' = "worker"
    /\ UNCHANGED <<closed, fileOpen, size, commits, stop, fdOpen, lastCommits, closer>>

WorkerCompact ==
    /\ worker = "compact"
    /\ \/ CompactOK /\ worker' = "reload"
       \/ CompactError /\ worker' = "wait"
    /\ mu' = "free"
    /\ UNCHANGED <<commits, stop, lastCommits, closer>>

\* Mutant: the counter advances by the threshold.
ReloadByThreshold ==
    /\ worker = "reload"
    /\ lastCommits' = lastCommits + CheckpointEveryCommit
    /\ worker' = "wait"
    /\ UNCHANGED <<mu, closed, fileOpen, size, commits, stop, fdOpen, closer>>

\* The counter is loaded again, after the lock was released.
Reload ==
    /\ worker = "reload"
    /\ lastCommits' = commits
    /\ worker' = "wait"
    /\ UNCHANGED <<mu, closed, fileOpen, size, commits, stop, fdOpen, closer>>

Exit ==
    /\ worker = "wait" /\ stop
    /\ worker' = "exited"
    /\ UNCHANGED <<mu, closed, fileOpen, size, commits, stop, fdOpen, lastCommits, closer>>

-----------------------------------------------------------------------------
(* Close. *)

\* The first critical section; a database that is closed already is left alone.
CloseBegin(c) ==
    /\ closer[c] = "idle" /\ mu = "free"
    /\ closed' = TRUE
    /\ closer' = [closer EXCEPT ![c] = IF closed THEN "noop" ELSE "stopping"]
    /\ UNCHANGED <<mu, fileOpen, size, commits, stop, worker, fdOpen, lastCommits>>

\* Mutant: the stop channel stays open.
CloseSilent(c) ==
    /\ closer[c] = "stopping"
    /\ closer' = [closer EXCEPT ![c] = "waiting"]
    /\ UNCHANGED <<mu, closed, fileOpen, size, commits, stop, worker, fdOpen, lastCommits>>

CloseStop(c) ==
    /\ closer[c] = "stopping"
    /\ stop' = TRUE
    /\ closer' = [closer EXCEPT ![c] = "waiting"]
    /\ UNCHANGED <<mu, closed, fileOpen, size, commits, worker, fdOpen, lastCommits>>

\* Mutant: the worker is not waited for.
CloseNoWait(c) ==
    /\ closer[c] = "waiting" /\ mu = "free"
    /\ fileOpen' = FALSE
    /\ fdOpen' = FALSE
    /\ closer' = [closer EXCEPT ![c] = "done"]
    /\ UNCHANGED <<mu, closed, size, commits, stop, worker, lastCommits>>

\* wg.Wait returns, and the second critical section closes the file.
CloseFile(c) ==
    /\ closer[c] = "waiting" /\ worker = "exited" /\ mu = "free"
    /\ fileOpen' = FALSE
    /\ fdOpen' = FALSE
    /\ closer' = [closer EXCEPT ![c] = "done"]
    /\ UNCHANGED <<mu, closed, size, commits, stop, worker, lastCommits>>

-----------------------------------------------------------------------------
WorkerStep == Tick \/ Peek \/ Stat \/ Lock \/ WorkerCompact \/ Reload

Next ==
    \/ Commit \/ UserCompact
    \/ Tick \/ Peek \/ Stat \/ Lock \/ WorkerCompact \/ Reload \/ Exit
    \/ \E c \in Closers : CloseBegin(c) \/ CloseStop(c) \/ CloseFile(c)

\* The scheduler runs the worker, whose ticker fires every second, and a Close
\* that has begun.  A select with both channels ready picks one at random, so
\* the stop channel is not passed over for ever: strong fairness of Exit.  No
\* one has to call Commit, Compact or Close.
Fairness ==
    /\ WF_vars(WorkerStep)
    /\ SF_vars(Exit)
    /\ \A c \in Closers : WF_vars(CloseStop(c)) /\ WF_vars(CloseFile(c))

Spec == Init /\ [][Next]_vars /\ Fairness

-----------------------------------------------------------------------------
(* Properties. *)

\* Every variable has its type, the worker's count of commits is never ahead of
\* db.commits, and db.mu is held by the worker exactly while it compacts.
TypeOK ==
    /\ mu \in {"free", "worker"}
    /\ closed \in BOOLEAN /\ fileOpen \in BOOLEAN /\ stop \in BOOLEAN /\ fdOpen \in BOOLEAN
    /\ size \in Nat /\ commits \in Nat
    /\ lastCommits \in 0..commits
    /\ worker \in {"wait", "peek", "stat", "lock", "compact", "reload", "exited"}
    /\ closer \in [Closers -> {"idle", "stopping", "waiting", "done", "noop"}]
    /\ mu = "worker" <=> worker = "compact"

\* Once db.closed is set, by Close or by a failed Compact, no compaction of the
\* worker or of a user is in progress or starts: the log Close leaves behind is
\* final.
NoCompactionAfterClose ==
    [][closed => size' = size /\ commits' = commits]_vars

\* The Close that closes the database returns only when the worker is gone and
\* the file is closed, so nothing of the database runs afterwards.
QuietAfterClose ==
    (\E c \in Closers : closer[c] = "done") => worker = "exited" /\ ~fileOpen /\ mu = "free"

\* Close returns: it never waits for a worker that waits for db.mu.
CloseReturns ==
    \A c \in Closers : closer[c] = "stopping" ~> closer[c] = "done"

\* A worker "stopped cleanly by Close": once some call of Close has returned, the
\* worker's goroutine ends.
CloseStopsWorker ==
    (\E c \in Closers : closer[c] \in {"done", "noop"}) ~> worker = "exited"

\* When CheckpointEveryCommit commits have accumulated the worker compacts, even
\* if compactions fail, unless the database is closed first.
DueIsServed == Due ~> (~Due \/ closed \/ worker = "compact")
=============================================================================
