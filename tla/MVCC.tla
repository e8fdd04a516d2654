-------------------------------- MODULE MVCC --------------------------------
(***************************************************************************)
(* The transactional kernel: DB (db.go), Tx (tx.go), Compact (compact.go)  *)
(* and the write-ahead log at the granularity of whole records (wal.go;    *)
(* module WAL has its bytes).                                              *)
(*                                                                         *)
(* db.mu serialises Begin, Commit, Rollback, Compact and Close.  Commit    *)
(* and Compact do I/O while they hold it, so each is split where the       *)
(* process can die: a committing transaction or a compaction in progress   *)
(* IS the holder of the lock.  Reads (Tx.Get) change no state: they are    *)
(* the operator Get, which the properties quantify over.                   *)
(***************************************************************************)
EXTENDS Integers, Sequences, FiniteSets

CONSTANTS
    Keys,           \* user keys (strings)
    Values,         \* payloads (byte slices)
    Txs,            \* transaction objects alive at one time
    Delete,         \* operation{Delete: true}, valueVersion{deleted: true}
    None,           \* no pending write; "not found"
    MaxRecordOps,   \* operations whose record still fits maxRecordSize
    Faults,         \* the I/O calls that may return an error
    MaxVersion,     \* bound on db.version
    MaxFrames       \* bound on the number of records in the file

Ops == Values \cup {Delete}

FaultKinds == {"write", "sync", "tmp", "close", "rename", "reopen"}

ASSUME KeysFinite == IsFiniteSet(Keys)
ASSUME SentinelsDistinct == Delete \notin Values /\ None \notin Ops
ASSUME BoundsAreNat == MaxRecordOps \in Nat /\ MaxVersion \in Nat /\ MaxFrames \in Nat
ASSUME FaultsKnown == Faults \subseteq FaultKinds

VARIABLES
    up,             \* a process has the database open
    history,        \* db.history; <<>> for a key the map does not hold
    version,        \* db.version
    closed,         \* db.closed
    active,         \* the keys of db.active
    tx,             \* the Tx objects
    fileOpen,       \* db.file is an open descriptor
    file,           \* the records in the WAL file, the page cache included
    synced,         \* how many of them a Sync has made durable
    compacting,     \* where Compact is: "no", "written" or "renamed"
    tmp             \* the records of path.compact

vars == <<up, history, version, closed, active, tx, fileOpen, file, synced,
          compacting, tmp>>

Version == [version : Nat, op : Ops]
Writes == [Keys -> Ops \cup {None}]
Frame == [whole : BOOLEAN, version : Nat, ops : Writes]
Tx == [state : {"closed", "open", "committing"}, writable : BOOLEAN,
       readVersion : Nat, writes : Writes]

NoWrites == [k \in Keys |-> None]
NoHistory == [k \in Keys |-> <<>>]
ClosedTx == [state |-> "closed", writable |-> FALSE, readVersion |-> 0,
             writes |-> NoWrites]

Written(ops) == {k \in Keys : ops[k] # None}

Least(S) == CHOOSE n \in S : \A m \in S : n <= m
Greatest(S) == CHOOSE n \in S : \A m \in S : m <= n
Newest(versions) == versions[Len(versions)]

-----------------------------------------------------------------------------
(* Reading: the newest version at or below a snapshot. *)

\* The downward loop over versions[i] of Tx.Get and of pruneVersions; 0 when
\* it runs off the front.
BaseIdx(versions, rv) ==
    CHOOSE i \in 0..Len(versions) :
        /\ i > 0 => versions[i].version <= rv
        /\ \A j \in (i + 1)..Len(versions) : versions[j].version > rv

Visible(versions, rv) ==
    LET i == BaseIdx(versions, rv)
    IN  IF i = 0 \/ versions[i].op = Delete THEN None ELSE versions[i].op

\* What Tx.Get returns: the transaction's own write, else its snapshot.
Get(t, k) ==
    CASE tx[t].state = "closed"      -> None
      [] tx[t].writes[k] = Delete    -> None
      [] tx[t].writes[k] \in Values  -> tx[t].writes[k]
      [] OTHER                       -> Visible(history[k], tx[t].readVersion)

\* The committed contents: what a transaction that begins now will read.
Store(h, v) == [k \in Keys |-> Visible(h[k], v)]

-----------------------------------------------------------------------------
(* Applying and replaying records. *)

Record(v, ops) == [whole |-> TRUE, version |-> v, ops |-> ops]

\* DB.apply on a history.
ApplyOps(h, v, ops) ==
    [k \in Keys |-> IF ops[k] = None THEN h[k]
                    ELSE Append(h[k], [version |-> v, op |-> ops[k]])]

Larger(a, b) == IF a > b THEN a ELSE b

\* Mutant: the version counts the records replayed.
ApplyCounting(s, rec) == [history |-> ApplyOps(s.history, rec.version, rec.ops),
                          version |-> s.version + 1]

Apply(s, rec) == [history |-> ApplyOps(s.history, rec.version, rec.ops),
                  version |-> Larger(s.version, rec.version)]

\* A record that replay accepts: complete, and of an admissible size.
Readable(rec) == rec.whole /\ Cardinality(Written(rec.ops)) <= MaxRecordOps

\* The records before the first one that replay rejects (lastGood).
GoodPrefix(f) ==
    LET bad == {i \in 1..Len(f) : ~Readable(f[i])}
    IN  IF bad = {} THEN f ELSE SubSeq(f, 1, Least(bad) - 1)

\* replay with DB.apply as its callback.
Replay(f) ==
    LET s[i \in 0..Len(f)] == IF i = 0 THEN [history |-> NoHistory, version |-> 0]
                              ELSE Apply(s[i - 1], f[i])
    IN  s[Len(f)]

-----------------------------------------------------------------------------
(* Compaction. *)

\* Mutant: open transactions do not hold back pruning.
OldestUnregistered == version

OldestReadVersion ==
    IF active = {} THEN version ELSE Least({tx[t].readVersion : t \in active})

\* baseIdx is the LAST version at or below retain, so every later version is
\* above it and the code's `version > retain` filters never drop one.
PruneVersions(versions, retain) ==
    LET b == BaseIdx(versions, retain)
    IN  IF b = 0 THEN versions
        ELSE IF versions[b].op = Delete /\ b = Len(versions) THEN <<>>
        ELSE SubSeq(versions, b, Len(versions))

Pruned(h, retain) == [k \in Keys |-> PruneVersions(h[k], retain)]

\* One record with every live key, or no record when there is none.
SnapshotRecords(h, v) ==
    LET live == [k \in Keys |-> IF h[k] = <<>> \/ Newest(h[k]).op = Delete
                                THEN None ELSE Newest(h[k]).op]
    IN  IF Written(live) = {} THEN <<>> ELSE <<Record(v, live)>>

\* sort.Slice on a set of distinct numbers, at most n of them: each is in its
\* place, and none is missing.
IsAscending(s, S) ==
    /\ \A i, j \in DOMAIN s : i < j => s[i] < s[j]
    /\ \A x \in S : \E i \in DOMAIN s : s[i] = x
Ascending(S, n) == CHOOSE s \in UNION {[1..c -> S] : c \in 0..n} : IsAscending(s, S)

VersionsIn(h) == UNION {{h[k][i].version : i \in DOMAIN h[k]} : k \in Keys}

\* The operation that version v holds for a key, or None.
OpAt(versions, v) ==
    LET at == {i \in DOMAIN versions : versions[i].version = v}
    IN  IF at = {} THEN None ELSE versions[Greatest(at)].op

\* Mutant: tombstones are not rewritten.
GroupLive(h, v) ==
    LET versions == Ascending(VersionsIn(h), v + 1)
        live(op) == IF op = Delete THEN None ELSE op
    IN  [i \in DOMAIN versions |->
            Record(versions[i], [k \in Keys |-> live(OpAt(h[k], versions[i]))])]

\* One record per retained version, in ascending order; v is the newest.
GroupRecords(h, v) ==
    LET versions == Ascending(VersionsIn(h), v + 1)
    IN  [i \in DOMAIN versions |->
            Record(versions[i], [k \in Keys |-> OpAt(h[k], versions[i])])]

CompactRecords(h, retain, v) ==
    IF retain = v THEN SnapshotRecords(h, v) ELSE GroupRecords(h, v)

-----------------------------------------------------------------------------
(* Transactions. *)

MuFree == compacting = "no" /\ \A t \in Txs : tx[t].state # "committing"

\* tx.closed = true together with db.unregister(tx).
Finish(t) ==
    /\ tx' = [tx EXCEPT ![t] = ClosedTx]
    /\ active' = active \ {t}

Begin(t, writable) ==
    /\ up /\ MuFree /\ ~closed
    /\ tx[t].state = "closed"
    /\ tx' = [tx EXCEPT ![t] = [state |-> "open", writable |-> writable,
                                readVersion |-> version, writes |-> NoWrites]]
    /\ active' = active \cup {t}
    /\ UNCHANGED <<up, history, version, closed, fileOpen, file, synced, compacting, tmp>>

\* Set and Delete (put, del).  No lock is taken.
Put(t, k, op) ==
    /\ tx[t].state = "open" /\ tx[t].writable
    /\ tx' = [tx EXCEPT ![t].writes[k] = op]
    /\ UNCHANGED <<up, history, version, closed, active, fileOpen, file, synced,
                   compacting, tmp>>

\* Rollback, and Commit of a read-only transaction.
Rollback(t) ==
    /\ MuFree /\ tx[t].state = "open"
    /\ Finish(t)
    /\ UNCHANGED <<up, history, version, closed, fileOpen, file, synced, compacting, tmp>>

NewerThan(versions, rv) == versions # <<>> /\ Newest(versions).version > rv

\* Mutant: a deletion never conflicts.
ConflictOnValues(t) ==
    \E k \in Written(tx[t].writes) :
        tx[t].writes[k] # Delete /\ NewerThan(history[k], tx[t].readVersion)

\* Some key of the write set has a version newer than the snapshot.
Conflict(t) ==
    \E k \in Written(tx[t].writes) : NewerThan(history[k], tx[t].readVersion)

\* Commit of a writable transaction has taken the lock.
InCommit(t) == MuFree /\ tx[t].state = "open" /\ tx[t].writable

\* Mutant: a Commit that returns early does not unregister.
CommitNothingRegistered(t) ==
    /\ InCommit(t)
    /\ closed \/ Conflict(t) \/ Written(tx[t].writes) = {}
    /\ tx' = [tx EXCEPT ![t] = ClosedTx]
    /\ UNCHANGED <<up, history, version, closed, active, fileOpen, file, synced, compacting, tmp>>

\* Commit returns without touching the file: ErrClosed, ErrConflict, or
\* nothing to write.
CommitNothing(t) ==
    /\ InCommit(t)
    /\ closed \/ Conflict(t) \/ Written(tx[t].writes) = {}
    /\ Finish(t)
    /\ UNCHANGED <<up, history, version, closed, fileOpen, file, synced, compacting, tmp>>

MustAppend(t) ==
    /\ InCommit(t) /\ ~closed /\ ~Conflict(t)
    /\ Written(tx[t].writes) # {}
    /\ version < MaxVersion

\* appendRecord: the Write has put the whole record in the file.
CommitWrite(t) ==
    /\ MustAppend(t)
    /\ fileOpen /\ Len(file) < MaxFrames
    /\ file' = Append(file, Record(version + 1, tx[t].writes))
    /\ tx' = [tx EXCEPT ![t].state = "committing"]
    /\ UNCHANGED <<up, history, version, closed, active, fileOpen, synced, compacting, tmp>>

\* appendRecord: the Write failed, on a closed descriptor or part way.  What
\* it wrote stays in the file.
CommitWriteError(t) ==
    /\ MustAppend(t)
    /\ \/ ~fileOpen /\ file' = file
       \/ /\ fileOpen /\ "write" \in Faults /\ Len(file) < MaxFrames
          /\ LET part == [Record(version + 1, tx[t].writes) EXCEPT !.whole = FALSE]
             IN  file' \in {file, Append(file, part)}
    /\ Finish(t)
    /\ UNCHANGED <<up, history, version, closed, fileOpen, synced, compacting, tmp>>

\* Mutant: the record is acknowledged without a Sync.
CommitNoSync(t) ==
    /\ tx[t].state = "committing"
    /\ history' = ApplyOps(history, version + 1, tx[t].writes)
    /\ version' = version + 1
    /\ Finish(t)
    /\ UNCHANGED <<up, closed, fileOpen, file, synced, compacting, tmp>>

\* appendRecord: Sync succeeded; DB.apply and return nil.
CommitSync(t) ==
    /\ tx[t].state = "committing"
    /\ synced' = Len(file)
    /\ history' = ApplyOps(history, version + 1, tx[t].writes)
    /\ version' = version + 1
    /\ Finish(t)
    /\ UNCHANGED <<up, closed, fileOpen, file, compacting, tmp>>

\* appendRecord: Sync failed; the record stays in the file, unapplied.
CommitSyncError(t) ==
    /\ tx[t].state = "committing" /\ "sync" \in Faults
    /\ Finish(t)
    /\ UNCHANGED <<up, history, version, closed, fileOpen, file, synced, compacting, tmp>>

-----------------------------------------------------------------------------
(* Compact, Close, crashes and Open. *)

\* Prune memory, then write, sync and close path.compact.
CompactWrite ==
    /\ up /\ MuFree /\ ~closed
    /\ history' = Pruned(history, OldestReadVersion)
    /\ tmp' = CompactRecords(history', OldestReadVersion, version)
    /\ compacting' = "written"
    /\ UNCHANGED <<up, version, closed, active, tx, fileOpen, file, synced>>

\* Creating or writing path.compact failed: memory is pruned, nothing else.
CompactTmpError ==
    /\ up /\ MuFree /\ ~closed /\ "tmp" \in Faults
    /\ history' = Pruned(history, OldestReadVersion)
    /\ UNCHANGED <<up, version, closed, active, tx, fileOpen, file, synced, compacting, tmp>>

\* old.Close and os.Rename.
CompactRename ==
    /\ compacting = "written" /\ fileOpen
    /\ file' = tmp
    /\ synced' = Len(tmp)
    /\ tmp' = <<>>
    /\ fileOpen' = FALSE
    /\ compacting' = "renamed"
    /\ UNCHANGED <<up, history, version, closed, active, tx>>

\* old.Close failed (always, on a descriptor an earlier failure closed), or
\* os.Rename failed and the old file was or was not reopened.
CompactRenameError ==
    /\ compacting = "written"
    /\ \/ (~fileOpen \/ "close" \in Faults) /\ fileOpen' = FALSE
       \/ fileOpen /\ "rename" \in Faults /\ fileOpen' \in BOOLEAN
    /\ compacting' = "no"
    /\ tmp' = <<>>
    /\ UNCHANGED <<up, history, version, closed, active, tx, file, synced>>

CompactReopen ==
    /\ compacting = "renamed"
    /\ fileOpen' = TRUE
    /\ compacting' = "no"
    /\ UNCHANGED <<up, history, version, closed, active, tx, file, synced, tmp>>

\* Reopening the new file failed: the database closes itself.
CompactReopenError ==
    /\ compacting = "renamed" /\ "reopen" \in Faults
    /\ closed' = TRUE
    /\ compacting' = "no"
    /\ UNCHANGED <<up, history, version, active, tx, fileOpen, file, synced, tmp>>

\* Close; module Checkpoint has its two critical sections.
Close ==
    /\ up /\ MuFree /\ ~closed
    /\ closed' = TRUE
    /\ fileOpen' = FALSE
    /\ UNCHANGED <<up, history, version, active, tx, file, synced, compacting, tmp>>

\* What the disk may hold after a crash: the synced records, any number of
\* the unsynced ones, and possibly a part of the next.
CrashImages(f, s) ==
    {SubSeq(f, 1, n) : n \in s..Len(f)} \cup
    {Append(SubSeq(f, 1, n), [f[n + 1] EXCEPT !.whole = FALSE]) : n \in s..(Len(f) - 1)}

\* The machine stops, at any point; memory and path.compact are gone.  (Module
\* WAL also has the process ending while the page cache survives.)
Crash ==
    /\ up
    /\ up' = FALSE
    /\ file' \in CrashImages(file, synced)
    /\ synced' = Len(file')
    /\ history' = NoHistory /\ version' = 0 /\ closed' = FALSE
    /\ active' = {} /\ tx' = [t \in Txs |-> ClosedTx]
    /\ fileOpen' = FALSE /\ compacting' = "no" /\ tmp' = <<>>

\* OpenWithOptions: replay, and truncate what replay rejected.  A readable
\* record behind a rejected one may instead make Open fail (ErrWALCorrupt),
\* which leaves everything as it is; module WAL tells the two cases apart.
Open ==
    /\ ~up
    /\ up' = TRUE
    /\ file' = GoodPrefix(file)
    /\ synced' = Len(file')
    /\ history' = Replay(file').history
    /\ version' = Replay(file').version
    /\ fileOpen' = TRUE
    /\ UNCHANGED <<closed, active, tx, compacting, tmp>>

Init ==
    /\ up = FALSE
    /\ history = NoHistory /\ version = 0 /\ closed = FALSE
    /\ active = {} /\ tx = [t \in Txs |-> ClosedTx]
    /\ fileOpen = FALSE /\ file = <<>> /\ synced = 0
    /\ compacting = "no" /\ tmp = <<>>

Next ==
    \/ \E t \in Txs :
          \/ \E writable \in BOOLEAN : Begin(t, writable)
          \/ \E k \in Keys, op \in Ops : Put(t, k, op)
          \/ Rollback(t)
          \/ CommitNothing(t)
          \/ CommitWrite(t)
          \/ CommitWriteError(t)
          \/ CommitSync(t)
          \/ CommitSyncError(t)
    \/ CompactWrite \/ CompactTmpError
    \/ CompactRename \/ CompactRenameError
    \/ CompactReopen \/ CompactReopenError
    \/ Close
    \/ Crash
    \/ Open

Spec == Init /\ [][Next]_vars

-----------------------------------------------------------------------------
(* Properties. *)

\* Every variable has its type, the synced records are records of the file,
\* and a transaction is registered in db.active exactly while it is open.
TypeOK ==
    /\ up \in BOOLEAN /\ closed \in BOOLEAN /\ fileOpen \in BOOLEAN
    /\ history \in [Keys -> Seq(Version)]
    /\ version \in Nat
    /\ tx \in [Txs -> Tx]
    /\ active = {t \in Txs : tx[t].state # "closed"}
    /\ file \in Seq(Frame) /\ tmp \in Seq(Frame)
    /\ synced \in 0..Len(file)
    /\ compacting \in {"no", "written", "renamed"}

\* db.version, rebuilt by Open and advanced by Commit, is never behind a version
\* in the history or the snapshot of an open transaction; a transaction outlives
\* neither its process nor a crash.  Reads, conflict checks and pruning rely on it.
MemoryConsistent ==
    /\ \A k \in Keys : \A i \in 1..Len(history[k]) : history[k][i].version <= version
    /\ \A t \in Txs : tx[t].state # "closed" => up /\ tx[t].readVersion <= version

\* What Tx.Get returns to an open transaction for a key changes in a step only
\* when the transaction itself writes the key.
ReadsRepeat ==
    \A t \in Txs, k \in Keys :
        /\ tx[t].state # "closed" /\ tx'[t].state # "closed"
        /\ tx'[t].writes[k] = tx[t].writes[k]
        => Get(t, k)' = Get(t, k)

\* A stable snapshot: whatever other transactions commit and whatever Compact
\* prunes, Tx.Get repeats its answer for as long as the transaction is open.
SnapshotStable == [][ReadsRepeat]_vars

\* The store that replay (initWAL) would rebuild from a file.
StoreOf(f) ==
    LET s == Replay(GoodPrefix(f)) IN Store(s.history, s.version)

\* Durability: at every moment, whichever step of Commit or Compact has just
\* happened, replaying the synced records gives exactly the committed store:
\* every acknowledged commit, and none that was not acknowledged.
RecoverableStore ==
    up => StoreOf(SubSeq(file, 1, synced)) = Store(history, version)

\* compactRecords "builds WAL records that rebuild retained history": a replay
\* of path.compact answers every snapshot an open transaction may hold, and
\* every later one, as memory does.
RewriteFaithful ==
    compacting = "written" =>
        \A rv \in OldestReadVersion..version :
            Store(Replay(GoodPrefix(tmp)).history, rv) = Store(history, rv)

\* Refinement.  Versions, the log and compaction are invisible: a snapshot is
\* what the history shows at readVersion, and a key is stale for a transaction
\* when its newest version is above readVersion.  While no process is up, the
\* store is what a replay of the disk would give.
IsOpen(t) == tx[t].state # "closed"
CommittedStore == IF up THEN Store(history, version) ELSE StoreOf(file)
TxStatus == [t \in Txs |-> IF ~IsOpen(t) THEN "idle"
                           ELSE IF tx[t].writable THEN "writer" ELSE "reader"]
TxWrites == [t \in Txs |-> tx[t].writes]
TxSnapshot == [t \in Txs |-> IF IsOpen(t) THEN Store(history, tx[t].readVersion) ELSE NoWrites]
TxStale == [t \in Txs |-> IF IsOpen(t) THEN {k \in Keys : NewerThan(history[k], tx[t].readVersion)}
                          ELSE {}]
Abstract == INSTANCE SnapshotStore WITH
    store <- CommittedStore, status <- TxStatus, writes <- TxWrites,
    snap <- TxSnapshot, stale <- TxStale

\* Snapshot isolation with first committer wins and durable commits: every
\* step of Begin, Set, Delete, Commit, Rollback, Compact, Close, a crash or
\* Open is a step of the abstract store or invisible to its callers.
ImplementsSnapshotStore == Abstract!Spec
=============================================================================
