-------------------------- MODULE DurabilityProofs --------------------------
(***************************************************************************)
(* For any keys, values, transactions and bounds, replaying the synced     *)
(* records gives the committed store, through commits, compactions that    *)
(* fail anywhere, crashes and recovery; and the kernel implements          *)
(* SnapshotStore.                                                          *)
(***************************************************************************)
EXTENDS MVCCProofs

\* Zenon proves a step unless the step names another prover.
USE Zenon

\* The writes and syncs of the log do not fail while the process lives.  When
\* one does, a record that was not acknowledged may be replayed.
LogReliable == Faults \cap {"write", "sync"} = {}

Durable == SubSeq(file, 1, synced)

Committing(t) == tx[t].state = "committing"

\* Replaying f gives the committed store of h at v.
Recovers(f, h, v) == Bounded(f, v) /\ Store(Replay(f).history, v) = Store(h, v)

\* The inductive invariant.  Versions grow along every chain and along the
\* file.  The synced records recover the committed store, and they are the
\* whole file but for the record of the one transaction that is committing.
\* The file Compact has written answers as memory does.
DInv ==
    /\ \A k \in Keys : Ordered(history[k])
    /\ Ordered(file)
    /\ compacting # "no" => up
    /\ up => AllReadable(file) /\ Recovers(Durable, history, version)
    /\ up /\ (\A t \in Txs : ~Committing(t)) => synced = Len(file)
    /\ \A t \in Txs : Committing(t) =>
          /\ compacting = "no"
          /\ \A u \in Txs : Committing(u) => u = t
          /\ file = Append(Durable, Record(version + 1, tx[t].writes))
    /\ compacting = "written" => Image(tmp, version, history, OldestReadVersion)

-----------------------------------------------------------------------------
(* One lemma for each kind of step. *)

\* Only transactions that do not commit, descriptors, or the end of a
\* compaction.
LEMMA QuietStep ==
  ASSUME DInv, UNCHANGED <<up, history, version, file, synced>>,
         \A t \in Txs : /\ Committing(t)' <=> Committing(t)
                        /\ Committing(t) => tx'[t].writes = tx[t].writes,
         compacting' \in {"no", compacting},
         compacting' = "written" => tmp' = tmp /\ OldestReadVersion' = OldestReadVersion
  PROVE  DInv'
<1>1. Durable' = Durable
  BY DEF Durable
<1>2. \A k \in Keys : Ordered(history'[k])
  BY DEF DInv
<1>3. Ordered(file') /\ (compacting' # "no" => up')
  BY DEF DInv
<1>4. up' => AllReadable(file') /\ Recovers(Durable', history', version')
  BY <1>1 DEF DInv
<1>5. up' /\ (\A t \in Txs : ~Committing(t)') => synced' = Len(file')
  BY DEF DInv
<1>6. ASSUME NEW t \in Txs, Committing(t)'
      PROVE  /\ compacting' = "no"
             /\ \A u \in Txs : Committing(u)' => u = t
             /\ file' = Append(Durable', Record(version' + 1, tx'[t].writes))
  BY <1>1, <1>6 DEF DInv
<1>7. compacting' = "written" => Image(tmp', version', history', OldestReadVersion')
  BY DEF DInv
<1> QED BY <1>2, <1>3, <1>4, <1>5, <1>6, <1>7 DEF DInv

\* Closing a transaction that is not committing.
LEMMA FinishQuiet ==
  ASSUME DInv, TypeOK, NEW t \in Txs, Finish(t), ~Committing(t), MuFree,
         UNCHANGED <<up, history, version, file, synced, compacting, tmp>>
  PROVE  DInv'
<1>1. /\ tx'[t].state = "closed" /\ \A u \in Txs : u # t => tx'[u] = tx[u]
  BY ClosedTxTyped DEF Finish, TypeOK
<1>2. \A u \in Txs : /\ Committing(u)' <=> Committing(u)
                     /\ Committing(u) => tx'[u].writes = tx[u].writes
  BY <1>1 DEF Committing
<1>3. compacting' = "no" /\ compacting' \in {"no", compacting}
  BY DEF MuFree
<1> QED BY <1>2, <1>3, QuietStep

\* With no commit in progress every record is synced.
LEMMA AllSynced ==
  ASSUME DInv, TypeOK, up, \A t \in Txs : ~Committing(t)
  PROVE  Durable = file /\ Recovers(file, history, version)
<1>1. synced = Len(file) /\ file \in Seq(Frame)
  BY DEF DInv, TypeOK
<1>2. Durable = file
  BY <1>1, SubSeqFull DEF Durable
<1> QED BY <1>2 DEF DInv

\* The record is in the file, and not yet synced.
LEMMA WriteStep ==
  ASSUME DInv, IInv, RecordsFit, NEW t \in Txs, CommitWrite(t)
  PROVE  DInv'
<1> DEFINE rec == Record(version + 1, tx[t].writes)
<1>1. /\ up /\ compacting = "no" /\ (\A u \in Txs : ~Committing(u))
  BY DEF CommitWrite, MustAppend, InCommit, MuFree, Committing, IInv, MemoryConsistent
<1>2. Durable = file /\ Recovers(file, history, version) /\ AllReadable(file) /\ Ordered(file)
  BY <1>1, AllSynced DEF IInv, DInv
<1>3. /\ file \in Seq(Frame) /\ Len(file) \in Nat /\ synced = Len(file) /\ version \in Nat
      /\ tx[t].writes \in Writes
  BY <1>1, LenProperties DEF IInv, TypeOK, Tx, DInv
<1>4. /\ rec \in Frame /\ rec.version = version + 1 /\ Readable(rec)
  <2>1. version + 1 \in Nat
    BY <1>3, SMT
  <2> QED BY <1>3, <2>1, RecordTyped, RecordReadable DEF Record
<1>5. /\ file' = Append(file, rec)
      /\ UNCHANGED <<up, history, version, synced, compacting>>
      /\ tx' = [tx EXCEPT ![t].state = "committing"]
  BY DEF CommitWrite
<1> HIDE DEF rec
<1>6. /\ file' \in Seq(Frame) /\ Len(file') = Len(file) + 1 /\ file'[Len(file) + 1] = rec
      /\ \A i \in 1..Len(file) : file'[i] = file[i]
  BY <1>3, <1>4, <1>5, AppendProperties, SMT
<1>7. Durable' = Durable
  <2>1. Len(file) \in 0..Len(file')
    BY <1>3, <1>6, SMT
  <2> DEFINE p == SubSeq(file', 1, Len(file))
  <2>2. p \in Seq(Frame) /\ Len(p) = Len(file) /\ \A i \in 1..Len(file) : p[i] = file'[i]
    BY <1>6, <2>1, PrefixProperties
  <2>3. p = file
    <3> HIDE DEF p
    <3> QED BY <1>3, <1>6, <2>2, SeqEqual
  <2> QED BY <1>2, <1>3, <1>5, <2>3 DEF Durable
<1>8. Ordered(file')
  <2>1. Bounded(file, version) /\ version < rec.version
    BY <1>2, <1>3, <1>4, SMT DEF Recovers
  <2> QED BY <1>2, <1>3, <1>4, <1>5, <2>1, AppendOrdered, FrameTyped
<1>9. AllReadable(file')
  BY <1>2, <1>3, <1>4, <1>6, SMT DEF AllReadable
<1>10. /\ \A u \in Txs : Committing(u)' <=> u = t
       /\ tx'[t].writes = tx[t].writes
  BY <1>1, <1>5 DEF Committing, IInv, TypeOK, Tx
<1>11. file' = Append(Durable', Record(version' + 1, tx'[t].writes))
  BY <1>2, <1>5, <1>7, <1>10 DEF rec
<1>12. Recovers(Durable', history', version')
  BY <1>2, <1>5, <1>7
<1>13. \A k \in Keys : Ordered(history'[k])
  BY <1>5 DEF DInv
<1>14. compacting' = "no"
  BY <1>1, <1>5
<1> QED BY <1>8, <1>9, <1>10, <1>11, <1>12, <1>13, <1>14 DEF DInv

\* The record of a committing transaction would recover the store after its
\* commit.
LEMMA PendingRecovers ==
  ASSUME DInv, IInv, NEW t \in Txs, Committing(t)
  PROVE  Recovers(file, ApplyOps(history, version + 1, tx[t].writes), version + 1)
<1> DEFINE ops == tx[t].writes
           rec == Record(version + 1, ops)
           g == Replay(Durable).history
<1>1. up
  BY DEF Committing, IInv, MemoryConsistent
<1>2. /\ file = Append(Durable, rec)
      /\ Bounded(Durable, version) /\ Store(g, version) = Store(history, version)
  BY <1>1 DEF DInv, Recovers
<1>3. /\ file \in Seq(Frame) /\ synced \in 0..Len(file) /\ version \in Nat /\ ops \in Writes
      /\ history \in [Keys -> Seq(Version)] /\ \A k \in Keys : Bounded(history[k], version)
  BY DEF IInv, TypeOK, Tx, MemoryConsistent, Bounded
<1>4. Durable \in Seq(Frame)
  BY <1>3, PrefixProperties DEF Durable
<1>5. version + 1 \in Nat /\ rec \in Frame /\ rec.version = version + 1 /\ rec.ops = ops
  <2>1. version + 1 \in Nat
    BY <1>3, SMT
  <2> QED BY <1>3, <2>1, RecordTyped DEF Record
<1> HIDE DEF rec, ops
<1>6. Replay(file).history = ApplyOps(g, version + 1, ops)
  <2>1. Replay(file) = Apply(Replay(Durable), rec)
    BY <1>2, <1>4, <1>5, ReplayAppend
  <2> QED BY <1>5, <2>1, SMT DEF Apply
<1>7. g \in [Keys -> Seq(Version)] /\ \A k \in Keys : Bounded(g[k], version)
  BY <1>2, <1>3, <1>4, ReplayBounded
<1> HIDE DEF g
<1>8. Store(ApplyOps(g, version + 1, ops), version + 1)
        = Store(ApplyOps(history, version + 1, ops), version + 1)
  BY <1>2, <1>3, <1>7, StoreApply
<1>9. Bounded(file, version + 1)
  <2>1. /\ Len(Durable) \in Nat /\ Len(file) = Len(Durable) + 1 /\ file[Len(Durable) + 1] = rec
        /\ \A i \in 1..Len(Durable) : file[i] = Durable[i] /\ Durable[i].version \in Nat
    BY <1>2, <1>4, <1>5, AppendProperties, FrameTyped, SMT
  <2> QED BY <1>2, <1>3, <1>5, <2>1, SMT DEF Bounded
<1> QED BY <1>6, <1>8, <1>9 DEF Recovers, ops

\* The Sync returned: the record is durable and applied.
LEMMA SyncStep ==
  ASSUME DInv, IInv, NEW t \in Txs, CommitSync(t)
  PROVE  DInv'
<1> DEFINE ops == tx[t].writes
<1>1. Committing(t) /\ up
  BY DEF CommitSync, Committing, IInv, MemoryConsistent
<1>2. /\ compacting = "no" /\ (\A u \in Txs : Committing(u) => u = t)
      /\ AllReadable(file) /\ Ordered(file)
  BY <1>1 DEF DInv
<1>3. /\ file \in Seq(Frame) /\ version \in Nat /\ ops \in Writes
      /\ history \in [Keys -> Seq(Version)] /\ \A k \in Keys : Bounded(history[k], version)
  BY DEF IInv, TypeOK, Tx, MemoryConsistent, Bounded
<1>4. /\ synced' = Len(file) /\ file' = file /\ version' = version + 1
      /\ history' = ApplyOps(history, version + 1, ops)
      /\ UNCHANGED <<up, compacting>> /\ Finish(t)
  BY DEF CommitSync
<1>5. Durable' = file
  BY <1>3, <1>4, SubSeqFull DEF Durable
<1>6. Recovers(Durable', history', version')
  BY <1>1, <1>4, <1>5, PendingRecovers
<1> HIDE DEF ops
<1>7. ASSUME NEW k \in Keys PROVE Ordered(history'[k])
  <2> DEFINE e == [version |-> version + 1, op |-> ops[k]]
  <2>1. history'[k] = IF ops[k] = None THEN history[k] ELSE Append(history[k], e)
    BY <1>4 DEF ApplyOps
  <2>2. Ordered(history[k])
    BY DEF DInv
  <2>3. CASE ops[k] # None
    <3>1. e \in Version /\ version < e.version
      BY <1>3, <2>3, SMT DEF Version, Writes
    <3> HIDE DEF e
    <3>2. Ordered(Append(history[k], e))
      BY <1>3, <2>2, <3>1, AppendOrdered, VersionTyped
    <3> QED BY <2>1, <2>3, <3>2
  <2> QED BY <2>1, <2>2, <2>3
<1>8. \A u \in Txs : ~Committing(u)'
  <2>1. tx'[t].state = "closed" /\ \A u \in Txs : u # t => tx'[u] = tx[u]
    BY <1>4, ClosedTxTyped DEF Finish, IInv, TypeOK
  <2> QED BY <1>2, <2>1 DEF Committing
<1> QED BY <1>2, <1>4, <1>6, <1>7, <1>8 DEF DInv

\* OldestReadVersion never runs ahead of db.version.
LEMMA OldestBounded ==
  ASSUME IInv
  PROVE  OldestReadVersion \in 0..version
<1> DEFINE S == {tx[t].readVersion : t \in active}
<1>1. /\ version \in Nat /\ S \in SUBSET Nat /\ \A x \in S : x <= version
  BY DEF IInv, TypeOK, MemoryConsistent, Tx
<1>2. CASE active = {}
  BY <1>1, <1>2, SMT DEF OldestReadVersion
<1>3. CASE active # {}
  <2>1. S # {}
    BY <1>3
  <2>2. \E n \in S : \A m \in S : n <= m
    BY <1>1, <2>1, NatLeast
  <2>3. Least(S) \in S
    BY <2>2 DEF Least
  <2>4. OldestReadVersion = Least(S)
    BY <1>3 DEF OldestReadVersion
  <2> DEFINE m == Least(S)
  <2> HIDE DEF S, m
  <2>5. m \in S /\ OldestReadVersion = m
    BY <2>3, <2>4 DEF m
  <2>6. m \in Nat /\ m <= version
    BY <1>1, <2>5
  <2> QED BY <1>1, <2>5, <2>6, SMT
<1> QED BY <1>2, <1>3

\* Compact prunes memory: the committed store stays, and so does the order.
LEMMA PruneStep ==
  ASSUME DInv, IInv, history' = Pruned(history, OldestReadVersion)
  PROVE  /\ history' \in [Keys -> Seq(Version)]
         /\ \A k \in Keys : Ordered(history'[k]) /\ Bounded(history'[k], version)
         /\ Store(history', version) = Store(history, version)
<1>1. OldestReadVersion \in Nat /\ OldestReadVersion <= version /\ version \in Nat
  BY OldestBounded, SMT DEF IInv, TypeOK
<1>2. ASSUME NEW k \in Keys
      PROVE  /\ history'[k] \in Seq(Version) /\ Ordered(history'[k])
             /\ Bounded(history'[k], version)
             /\ Visible(history'[k], version) = Visible(history[k], version)
  <2>1. /\ history[k] \in Seq(Version) /\ Bounded(history[k], version) /\ Ordered(history[k])
        /\ history'[k] = PruneVersions(history[k], OldestReadVersion)
    BY DEF IInv, TypeOK, MemoryConsistent, Bounded, DInv, Pruned
  <2> QED BY <1>1, <2>1, PruneInvisible, PruneBounded, PruneOrdered, SMT
<1>3. history' \in [Keys -> Seq(Version)]
  BY <1>2 DEF Pruned
<1> QED BY <1>2, <1>3 DEF Store

\* Compact has written path.compact, or failed to.
LEMMA CompactStep ==
  ASSUME DInv, IInv, RecordsFit, CompactWrite \/ CompactTmpError
  PROVE  DInv'
<1>1. /\ up /\ (\A t \in Txs : ~Committing(t)) /\ compacting = "no"
      /\ history' = Pruned(history, OldestReadVersion)
      /\ UNCHANGED <<up, version, tx, active, file, synced>>
  BY DEF CompactWrite, CompactTmpError, MuFree, Committing
<1>2. /\ history' \in [Keys -> Seq(Version)]
      /\ \A k \in Keys : Ordered(history'[k]) /\ Bounded(history'[k], version)
      /\ Store(history', version) = Store(history, version)
  BY <1>1, PruneStep
<1>3. Durable' = Durable /\ OldestReadVersion' = OldestReadVersion
  BY <1>1 DEF Durable, OldestReadVersion
<1>4. \A t \in Txs : ~Committing(t)'
  BY <1>1 DEF Committing
<1>5. Ordered(file') /\ AllReadable(file') /\ synced' = Len(file')
  BY <1>1 DEF DInv
<1>6. Recovers(Durable', history', version')
  BY <1>1, <1>2, <1>3 DEF DInv, Recovers
<1>7. compacting' = "written" => Image(tmp', version', history', OldestReadVersion')
  <2> SUFFICES ASSUME compacting' = "written"
               PROVE  Image(tmp', version, history', OldestReadVersion)
    BY <1>1, <1>3
  <2>1. tmp' = CompactRecords(history', OldestReadVersion, version)
    BY <1>1 DEF CompactWrite, CompactTmpError
  <2>2. OldestReadVersion \in 0..version /\ version \in Nat
    BY OldestBounded DEF IInv, TypeOK
  <2> QED BY <1>2, <2>1, <2>2, CompactImage
<1> QED BY <1>1, <1>2, <1>4, <1>5, <1>6, <1>7 DEF DInv

\* The rename: the rewritten file is the log.
LEMMA RenameStep ==
  ASSUME DInv, IInv, CompactRename
  PROVE  DInv'
<1>1. /\ compacting = "written" /\ compacting' = "renamed" /\ file' = tmp /\ synced' = Len(tmp)
      /\ UNCHANGED <<up, history, version, tx>>
  BY DEF CompactRename
<1>2. up /\ Image(tmp, version, history, OldestReadVersion) /\ \A t \in Txs : ~Committing(t)
  BY <1>1 DEF DInv
<1>3. tmp \in Seq(Frame) /\ version \in OldestReadVersion..version
  BY OldestBounded, SMT DEF IInv, TypeOK
<1>4. Durable' = tmp
  BY <1>1, <1>3, SubSeqFull DEF Durable
<1>5. Ordered(file') /\ AllReadable(file') /\ Recovers(tmp, history, version)
  BY <1>1, <1>2, <1>3 DEF Image, Recovers
<1>6. Recovers(Durable', history', version')
  BY <1>1, <1>4, <1>5
<1>7. \A t \in Txs : ~Committing(t)'
  BY <1>1, <1>2 DEF Committing
<1>8. \A k \in Keys : Ordered(history'[k])
  BY <1>1 DEF DInv
<1> QED BY <1>1, <1>2, <1>5, <1>6, <1>7, <1>8 DEF DInv

\* A torn file is still in order.
LEMMA CrashStep ==
  ASSUME DInv, IInv, Crash
  PROVE  DInv'
<1>1. /\ file \in Seq(Frame) /\ Len(file) \in Nat /\ synced \in 0..Len(file) /\ Ordered(file)
      /\ \A i \in 1..Len(file) : file[i] \in Frame
  BY LenProperties DEF IInv, TypeOK, DInv
<1>2. ASSUME NEW f, Len(f) \in Nat, Len(f) <= Len(file),
             \A i \in 1..Len(f) : f[i].version = file[i].version
      PROVE  Ordered(f)
  BY <1>1, <1>2, SMT DEF Ordered
<1>3. ASSUME NEW n \in synced..Len(file) PROVE Ordered(SubSeq(file, 1, n))
  <2> DEFINE p == SubSeq(file, 1, n)
  <2>1. n \in 0..Len(file)
    BY <1>1, SMT
  <2>2. Len(p) = n /\ \A i \in 1..n : p[i] = file[i]
    BY <1>1, <2>1, PrefixProperties
  <2> HIDE DEF p
  <2>3. Ordered(p)
    BY <1>1, <1>2, <2>1, <2>2, SMT
  <2> QED BY <2>3 DEF p
<1>4. ASSUME NEW n \in synced..(Len(file) - 1)
      PROVE  Ordered(Append(SubSeq(file, 1, n), [file[n + 1] EXCEPT !.whole = FALSE]))
  <2> DEFINE p == SubSeq(file, 1, n)
             part == [file[n + 1] EXCEPT !.whole = FALSE]
             a == Append(p, part)
  <2>1. n \in 0..Len(file) /\ n + 1 \in 1..Len(file)
    BY <1>1, SMT
  <2>2. p \in Seq(Frame) /\ Len(p) = n /\ \A i \in 1..n : p[i] = file[i]
    BY <1>1, <2>1, PrefixProperties
  <2>3. part \in Frame /\ part.version = file[n + 1].version
    BY <1>1, <2>1 DEF Frame
  <2> HIDE DEF p, part
  <2>4. Len(a) = n + 1 /\ a[n + 1] = part /\ \A i \in 1..n : a[i] = file[i]
    BY <2>2, <2>3, AppendProperties, SMT
  <2> HIDE DEF a
  <2>5. Ordered(a)
    BY <1>1, <1>2, <2>1, <2>3, <2>4, SMT
  <2> QED BY <2>5 DEF a, p, part
<1>5. Ordered(file')
  <2>1. file' \in CrashImages(file, synced)
    BY DEF Crash
  <2> QED BY <1>3, <1>4, <2>1 DEF CrashImages
<1>6. \A k \in Keys : Ordered(history'[k])
  BY SMT DEF Crash, NoHistory, Ordered
<1>7. ~up' /\ compacting' = "no" /\ \A t \in Txs : ~Committing(t)'
  BY ClosedTxTyped DEF Crash, Committing
<1> QED BY <1>5, <1>6, <1>7 DEF DInv

\* Recovery.
LEMMA OpenStep ==
  ASSUME DInv, IInv, Open
  PROVE  DInv'
<1>1. /\ file' = GoodPrefix(file) /\ synced' = Len(file') /\ ~up
      /\ history' = Replay(file').history /\ version' = Replay(file').version
      /\ UNCHANGED <<tx, compacting>>
  BY DEF Open
<1>2. file' \in Seq(Frame) /\ AllReadable(file') /\ Ordered(file')
  BY <1>1, GoodPrefixTyped, GoodPrefixKeeps DEF IInv, TypeOK, DInv
<1>3. \A k \in Keys : Ordered(history'[k])
  BY <1>1, <1>2, ReplayOrdered
<1>4. Durable' = file'
  BY <1>1, <1>2, SubSeqFull DEF Durable
<1>5. Bounded(file', version')
  BY <1>1, <1>2, ReplayVersion
<1>6. Recovers(Durable', history', version')
  BY <1>1, <1>4, <1>5 DEF Recovers
<1>7. compacting' = "no" /\ \A t \in Txs : ~Committing(t)'
  BY <1>1 DEF DInv, IInv, MemoryConsistent, Committing
<1> QED BY <1>1, <1>2, <1>3, <1>6, <1>7 DEF DInv

-----------------------------------------------------------------------------
(* Durability. *)

\* An empty file and no process.
LEMMA InitDurable == Init => DInv
<1> SUFFICES ASSUME Init PROVE DInv
  OBVIOUS
<1>1. ~up /\ compacting = "no" /\ \A t \in Txs : ~Committing(t)
  BY ClosedTxTyped DEF Init, Committing
<1>2. Ordered(file) /\ \A k \in Keys : Ordered(history[k])
  BY SMT DEF Init, NoHistory, Ordered
<1> QED BY <1>1, <1>2 DEF DInv

\* Every step of the kernel keeps the invariant.
LEMMA NextDurable ==
  ASSUME LogReliable, RecordsFit, IInv, DInv, [Next]_vars
  PROVE  DInv'
<1>t. TypeOK /\ tx \in [Txs -> Tx]
  BY DEF IInv, TypeOK
<1>f. ASSUME NEW t \in Txs, Finish(t), MuFree,
             UNCHANGED <<up, history, version, file, synced, compacting, tmp>>
      PROVE  DInv'
  <2>1. ~Committing(t)
    BY <1>f DEF MuFree, Committing
  <2> QED BY <1>t, <1>f, <2>1, FinishQuiet
<1>q. ASSUME UNCHANGED <<up, history, version, file, synced, tx>>,
             compacting' \in {"no", compacting},
             compacting' = "written" => tmp' = tmp /\ active' = active
      PROVE  DInv'
  <2>1. \A t \in Txs : /\ Committing(t)' <=> Committing(t)
                       /\ Committing(t) => tx'[t].writes = tx[t].writes
    BY <1>q DEF Committing
  <2>2. compacting' = "written" => tmp' = tmp /\ OldestReadVersion' = OldestReadVersion
    BY <1>q DEF OldestReadVersion
  <2> QED BY <1>q, <2>1, <2>2, QuietStep
<1>1. ASSUME NEW t \in Txs, NEW writable \in BOOLEAN, Begin(t, writable) PROVE DInv'
  <2>1. /\ UNCHANGED <<up, history, version, file, synced>> /\ compacting' = "no"
        /\ tx[t].state = "closed" /\ tx'[t].state = "open"
        /\ \A u \in Txs : u # t => tx'[u] = tx[u]
    BY <1>t, <1>1 DEF Begin, MuFree
  <2>2. \A u \in Txs : /\ Committing(u)' <=> Committing(u)
                       /\ Committing(u) => tx'[u].writes = tx[u].writes
    BY <2>1 DEF Committing
  <2> QED BY <2>1, <2>2, QuietStep
<1>2. ASSUME NEW t \in Txs, NEW k \in Keys, NEW op \in Ops, Put(t, k, op) PROVE DInv'
  <2>1. /\ UNCHANGED <<up, history, version, active, file, synced, compacting, tmp>>
        /\ tx[t].state = "open" /\ tx'[t].state = "open"
        /\ \A u \in Txs : u # t => tx'[u] = tx[u]
        /\ \A u \in Txs : tx'[u].readVersion = tx[u].readVersion
    BY <1>t, <1>2 DEF Put, Tx
  <2>2. \A u \in Txs : /\ Committing(u)' <=> Committing(u)
                       /\ Committing(u) => tx'[u].writes = tx[u].writes
    BY <2>1 DEF Committing
  <2>3. {tx'[u].readVersion : u \in active'} = {tx[u].readVersion : u \in active}
    BY <1>t, <2>1 DEF TypeOK
  <2>4. OldestReadVersion' = OldestReadVersion
    BY <2>1, <2>3 DEF OldestReadVersion
  <2> QED BY <2>1, <2>2, <2>4, QuietStep
<1>3. ASSUME NEW t \in Txs, Rollback(t) PROVE DInv'
  BY <1>f, <1>3 DEF Rollback
<1>4. ASSUME NEW t \in Txs, CommitNothing(t) PROVE DInv'
  BY <1>f, <1>4 DEF CommitNothing, InCommit
<1>5. ASSUME NEW t \in Txs, CommitWrite(t) PROVE DInv'
  BY <1>5, WriteStep
<1>6. ASSUME NEW t \in Txs, CommitWriteError(t) PROVE DInv'
  <2>1. "write" \notin Faults
    BY DEF LogReliable
  <2>2. file' = file
    BY <1>6, <2>1 DEF CommitWriteError
  <2> QED BY <1>f, <1>6, <2>2 DEF CommitWriteError, MustAppend, InCommit
<1>7. ASSUME NEW t \in Txs, CommitSync(t) PROVE DInv'
  BY <1>7, SyncStep
<1>8. ASSUME NEW t \in Txs PROVE ~CommitSyncError(t)
  BY DEF CommitSyncError, LogReliable
<1>9. CASE CompactWrite \/ CompactTmpError
  BY <1>9, CompactStep
<1>10. CASE CompactRename
  BY <1>10, RenameStep
<1>11. CASE CompactRenameError \/ CompactReopen \/ CompactReopenError
  BY <1>q, <1>11 DEF CompactRenameError, CompactReopen, CompactReopenError
<1>12. CASE Close
  BY <1>q, <1>12 DEF Close
<1>13. CASE Crash
  BY <1>13, CrashStep
<1>14. CASE Open
  BY <1>14, OpenStep
<1>15. CASE UNCHANGED vars
  BY <1>q, <1>15 DEF vars
<1> QED BY <1>1, <1>2, <1>3, <1>4, <1>5, <1>6, <1>7, <1>8, <1>9, <1>10, <1>11, <1>12,
           <1>13, <1>14, <1>15 DEF Next

\* Open would rebuild the store that a readable file recovers.
LEMMA RecoversStore ==
  ASSUME NEW f \in Seq(Frame), AllReadable(f), NEW h, NEW v \in Nat, Recovers(f, h, v)
  PROVE  StoreOf(f) = Store(h, v)
<1> DEFINE r == Replay(f)
<1>1. Bounded(f, v) /\ Store(r.history, v) = Store(h, v)
  BY DEF Recovers
<1>2. GoodPrefix(f) = f
  BY GoodPrefixKeeps
<1>3. /\ r.history \in [Keys -> Seq(Version)] /\ r.version \in Nat /\ r.version <= v
      /\ \A k \in Keys : Bounded(r.history[k], r.version)
  BY <1>1, ReplayBounded, ReplayGood DEF GoodState
<1>4. StoreOf(f) = Store(r.history, r.version)
  BY <1>2 DEF StoreOf
<1> HIDE DEF r
<1>5. \A k \in Keys : Visible(r.history[k], v) = Visible(r.history[k], r.version)
  BY <1>3, VisibleLater
<1>6. Store(r.history, r.version) = Store(r.history, v)
  BY <1>5 DEF Store
<1> QED BY <1>1, <1>4, <1>6 DEF r

\* What the invariant says of the two properties of MVCC.
LEMMA DurableImplies ==
  ASSUME IInv, DInv
  PROVE  RecoverableStore /\ RewriteFaithful
<1>1. file \in Seq(Frame) /\ tmp \in Seq(Frame) /\ synced \in 0..Len(file) /\ version \in Nat
  BY DEF IInv, TypeOK
<1>2. ASSUME up PROVE StoreOf(Durable) = Store(history, version)
  <2>1. AllReadable(file) /\ Recovers(Durable, history, version)
    BY <1>2 DEF DInv
  <2>2. Durable \in Seq(Frame) /\ Len(Durable) = synced /\ \A i \in 1..synced : Durable[i] = file[i]
    BY <1>1, PrefixProperties DEF Durable
  <2>3. AllReadable(Durable)
    BY <1>1, <2>1, <2>2, SMT DEF AllReadable
  <2> QED BY <1>1, <2>1, <2>2, <2>3, RecoversStore
<1>3. ASSUME compacting = "written",
             NEW rv \in OldestReadVersion..version
      PROVE  Store(Replay(GoodPrefix(tmp)).history, rv) = Store(history, rv)
  <2>1. AllReadable(tmp) /\ Store(Replay(tmp).history, rv) = Store(history, rv)
    BY <1>3 DEF DInv, Image
  <2>2. GoodPrefix(tmp) = tmp
    BY <1>1, <2>1, GoodPrefixKeeps
  <2> QED BY <2>1, <2>2
<1> QED BY <1>2, <1>3 DEF RecoverableStore, RewriteFaithful, Durable

\* The invariant holds throughout.
LEMMA DurableAlways == LogReliable /\ RecordsFit => (Spec => [](IInv /\ DInv))
<1> SUFFICES ASSUME LogReliable, RecordsFit PROVE Spec => [](IInv /\ DInv)
  OBVIOUS
<1>1. Init => IInv /\ DInv
  BY InitInv, InitDurable
<1>2. IInv /\ DInv /\ [Next]_vars => IInv' /\ DInv'
  BY NextInv, NextDurable
<1> QED BY <1>1, <1>2, PTL DEF Spec

\* Durability: when the log's writes and syncs succeed and a record may hold
\* every key, replaying the synced records gives exactly the committed store,
\* whichever step of Commit, Compact, a crash or Open comes next, whichever
\* step of Compact fails, and for any sets of keys, values and transactions.
THEOREM DurableCommits == LogReliable /\ RecordsFit => (Spec => []RecoverableStore)
<1>1. IInv /\ DInv => RecoverableStore
  BY DurableImplies
<1> QED BY <1>1, DurableAlways, PTL

\* Compact's rewrite: under the same assumptions the file that replaces the log
\* answers every snapshot that a transaction holds, and every later one, as
\* memory does.
THEOREM FaithfulRewrites == LogReliable /\ RecordsFit => (Spec => []RewriteFaithful)
<1>1. IInv /\ DInv => RewriteFaithful
  BY DurableImplies
<1> QED BY <1>1, DurableAlways, PTL

-----------------------------------------------------------------------------
(* The kernel implements SnapshotStore. *)

\* A closed Tx holds no writes, and a transaction whose record is in the file
\* still has no conflict: it holds db.mu.
LockHeld ==
    \A t \in Txs : /\ tx[t].state = "closed" => tx[t].writes = NoWrites
                   /\ Committing(t) => tx[t].writable /\ ~Conflict(t)

RInv == IInv /\ DInv /\ LockHeld

\* The variables of SnapshotStore do not change.
Stutter == UNCHANGED <<up, CommittedStore, TxStatus, TxWrites, TxSnapshot, TxStale>>

-----------------------------------------------------------------------------
(* Conflicts. *)

\* A snapshot at db.version is newer than nothing that is stored.
LEMMA NotNewer ==
  ASSUME NEW versions \in Seq(Version), NEW v \in Nat, Bounded(versions, v)
  PROVE  ~NewerThan(versions, v)
<1> SUFFICES ASSUME versions # <<>> PROVE ~(versions[Len(versions)].version > v)
  BY DEF NewerThan, Newest
<1>1. Len(versions) \in 1..Len(versions)
  BY SMT
<1>2. versions[Len(versions)].version \in Nat /\ versions[Len(versions)].version <= v
  BY <1>1, VersionsTyped DEF Bounded
<1> QED BY <1>2, SMT

\* A version appended above the snapshot is newer than it.
LEMMA AppendNewer ==
  ASSUME NEW versions \in Seq(Version), NEW e \in Version, NEW rv \in Nat, e.version > rv
  PROVE  NewerThan(Append(versions, e), rv)
<1> DEFINE a == Append(versions, e)
<1>1. /\ Len(versions) \in Nat /\ Len(a) = Len(versions) + 1 /\ a[Len(versions) + 1] = e
      /\ a \in Seq(Version)
  BY AppendProperties, SMT
<1> HIDE DEF a
<1>2. a # <<>> /\ a[Len(a)] = e
  BY <1>1, SMT
<1> QED BY <1>2 DEF NewerThan, Newest, a

\* Pruning hides no conflict from a snapshot that it retains, and adds none.
LEMMA PruneNewer ==
  ASSUME NEW versions \in Seq(Version), NEW retain \in Nat, NEW rv \in Nat, retain <= rv
  PROVE  NewerThan(PruneVersions(versions, retain), rv) <=> NewerThan(versions, rv)
<1> DEFINE b == BaseIdx(versions, retain)
           n == Len(versions)
           kept == SubSeq(versions, b, n)
<1>1. IsBase(b, versions, retain) /\ n \in Nat
  BY BaseIdxIsBase, VersionsTyped
<1>2. PruneVersions(versions, retain) =
        IF b = 0 THEN versions
        ELSE IF versions[b].op = Delete /\ b = n THEN <<>> ELSE kept
  BY DEF PruneVersions
<1> HIDE DEF b
<1>3. b \in 0..n /\ (b > 0 => versions[b].version <= retain)
  BY <1>1 DEF IsBase
<1>4. CASE b = 0
  BY <1>2, <1>4
<1>5. CASE b # 0 /\ versions[b].op = Delete /\ b = n
  <2>1. PruneVersions(versions, retain) = <<>>
    BY <1>2, <1>5
  <2>2. versions[n].version \in Nat /\ versions[n].version <= rv
    <3>1. n \in 1..n /\ versions[n].version <= retain
      BY <1>3, <1>5, SMT
    <3>2. versions[n].version \in Nat
      BY <3>1, VersionsTyped
    <3> QED BY <3>1, <3>2, SMT
  <2> QED BY <2>1, <2>2, SMT DEF NewerThan, Newest
<1>6. CASE b # 0 /\ ~(versions[b].op = Delete /\ b = n)
  <2>1. b \in 1..n /\ \A i \in b..n : versions[i] \in Version
    BY <1>1, <1>3, <1>6, VersionsTyped, SMT
  <2>2. /\ kept \in Seq(Version) /\ Len(kept) = n - b + 1
        /\ \A i \in 1..(n - b + 1) : kept[i] = versions[b + i - 1]
    BY <1>1, <2>1, SubSeqProperties, SMT
  <2>3. PruneVersions(versions, retain) = kept
    BY <1>2, <1>6
  <2> HIDE DEF kept
  <2>4. kept[Len(kept)] = versions[n] /\ kept # <<>> /\ versions # <<>>
    BY <1>1, <2>1, <2>2, SMT
  <2> QED BY <2>3, <2>4 DEF NewerThan, Newest
<1> QED BY <1>4, <1>5, <1>6

\* What DB.apply does to the committed store.
LEMMA StoreOverwrite ==
  ASSUME NEW h \in [Keys -> Seq(Version)], NEW v \in Nat, \A k \in Keys : Bounded(h[k], v),
         NEW ops \in Writes, NEW k \in Keys
  PROVE  Visible(ApplyOps(h, v + 1, ops)[k], v + 1)
           = CASE ops[k] = None   -> Visible(h[k], v)
               [] ops[k] = Delete -> None
               [] OTHER           -> ops[k]
<1>1. v + 1 \in Nat /\ v <= v + 1 /\ h[k] \in Seq(Version) /\ Bounded(h[k], v) /\ None # Delete
  BY SentinelsDistinct, SMT DEF Ops
<1>2. CASE ops[k] = None
  <2>1. ApplyOps(h, v + 1, ops)[k] = h[k]
    BY <1>2 DEF ApplyOps
  <2>2. Visible(h[k], v + 1) = Visible(h[k], v)
    BY <1>1, VisibleLater
  <2> QED BY <1>1, <1>2, <2>1, <2>2
<1>3. CASE ops[k] # None
  <2> DEFINE e == [version |-> v + 1, op |-> ops[k]]
  <2>1. ApplyOps(h, v + 1, ops)[k] = Append(h[k], e)
    BY <1>3 DEF ApplyOps
  <2>2. e \in Version /\ e.version = v + 1 /\ e.op = ops[k]
    BY <1>1, <1>3 DEF Version, Writes
  <2> HIDE DEF e
  <2>3. Bounded(h[k], v + 1)
    BY VersionsTyped, SMT DEF Bounded
  <2>4. Visible(Append(h[k], e), v + 1) = IF ops[k] = Delete THEN None ELSE ops[k]
    BY <1>1, <2>2, <2>3, VisibleAppended
  <2> QED BY <1>3, <2>1, <2>4
<1> QED BY <1>2, <1>3

\* A part of a record at the end of a readable file is what replay drops.
LEMMA TornRecord ==
  ASSUME NEW f \in Seq(Frame), AllReadable(f), NEW e \in Frame, ~Readable(e)
  PROVE  GoodPrefix(Append(f, e)) = f
<1> DEFINE a == Append(f, e)
           n == Len(f)
           I == {i \in 1..Len(a) : ~Readable(a[i])}
<1>1. GoodPrefix(a) = IF I = {} THEN a ELSE SubSeq(a, 1, Least(I) - 1)
  BY DEF GoodPrefix
<1>2. /\ a \in Seq(Frame) /\ n \in Nat /\ Len(a) = n + 1 /\ a[n + 1] = e
      /\ \A i \in 1..n : a[i] = f[i]
  BY AppendProperties, SMT
<1> HIDE DEF a
<1>3. I = {n + 1}
  <2>1. n + 1 \in I
    BY <1>2, SMT
  <2>2. ASSUME NEW i \in I PROVE i = n + 1
    <3>1. i \in 1..(n + 1) /\ (i \in 1..n => a[i] = f[i] /\ Readable(f[i]))
      BY <1>2 DEF AllReadable
    <3>2. i \notin 1..n
      BY <3>1
    <3> QED BY <1>2, <3>1, <3>2, SMT
  <2> QED BY <2>1, <2>2
<1>4. Least({n + 1}) = n + 1
  BY <1>2, SMT DEF Least
<1>5. GoodPrefix(a) = SubSeq(a, 1, n)
  <2>1. n + 1 # 0 /\ (n + 1) - 1 = n /\ {n + 1} # {}
    BY <1>2, SMT
  <2> HIDE DEF I, n
  <2> QED BY <1>1, <1>3, <1>4, <2>1
<1>6. SubSeq(a, 1, n) = f
  <2> DEFINE p == SubSeq(a, 1, n)
  <2>1. n \in 0..Len(a)
    BY <1>2, SMT
  <2>2. p \in Seq(Frame) /\ Len(p) = n /\ \A i \in 1..n : p[i] = a[i]
    BY <1>2, <2>1, PrefixProperties
  <2> HIDE DEF p
  <2>3. p = f
    BY <1>2, <2>2, SeqEqual
  <2> QED BY <2>3 DEF p
<1> QED BY <1>5, <1>6 DEF a

-----------------------------------------------------------------------------
(* The lock. *)

\* Nothing that could make a conflict happens while a Commit does its I/O.
LEMMA NextLocked ==
  ASSUME LogReliable, RInv, [Next]_vars
  PROVE  LockHeld'
<1> DEFINE Held(t) == /\ tx[t].state = "closed" => tx[t].writes = NoWrites
                      /\ Committing(t) => tx[t].writable /\ ~Conflict(t)
<1>t. tx \in [Txs -> Tx] /\ \A t \in Txs : Held(t)
  BY DEF RInv, IInv, TypeOK, LockHeld
<1>k. ASSUME NEW t \in Txs, tx'[t] = tx[t], history' = history \/ ~Committing(t) PROVE Held(t)'
  BY <1>t, <1>k DEF Committing, Conflict
<1>f. ASSUME NEW t \in Txs, Finish(t),
             \A u \in Txs : u # t => history' = history \/ ~Committing(u)
      PROVE  LockHeld'
  <2>1. tx'[t] = ClosedTx /\ \A u \in Txs : u # t => tx'[u] = tx[u]
    BY <1>t, <1>f DEF Finish
  <2>2. Held(t)'
    BY <2>1, SMT DEF ClosedTx, Committing
  <2> QED BY <1>f, <1>k, <2>1, <2>2 DEF LockHeld
<1>q. ASSUME tx' = tx, history' = history \/ \A t \in Txs : ~Committing(t) PROVE LockHeld'
  BY <1>k, <1>q DEF LockHeld
<1>1. ASSUME NEW t \in Txs, NEW writable \in BOOLEAN, Begin(t, writable) PROVE LockHeld'
  <2>1. /\ history' = history /\ tx'[t].state = "open"
        /\ \A u \in Txs : u # t => tx'[u] = tx[u]
    BY <1>t, <1>1 DEF Begin
  <2>2. Held(t)'
    BY <2>1 DEF Committing
  <2> QED BY <1>k, <2>1, <2>2 DEF LockHeld
<1>2. ASSUME NEW t \in Txs, NEW k \in Keys, NEW op \in Ops, Put(t, k, op) PROVE LockHeld'
  <2>1. /\ history' = history /\ tx'[t].state = "open"
        /\ \A u \in Txs : u # t => tx'[u] = tx[u]
    BY <1>t, <1>2 DEF Put, Tx
  <2>2. Held(t)'
    BY <2>1 DEF Committing
  <2> QED BY <1>k, <2>1, <2>2 DEF LockHeld
<1>3. ASSUME NEW t \in Txs, Rollback(t) \/ CommitNothing(t) \/ CommitWriteError(t) PROVE LockHeld'
  BY <1>f, <1>3 DEF Rollback, CommitNothing, CommitWriteError
<1>4. ASSUME NEW t \in Txs, CommitWrite(t) PROVE LockHeld'
  <2>1. /\ history' = history /\ tx'[t].state = "committing"
        /\ tx'[t].writes = tx[t].writes /\ tx'[t].readVersion = tx[t].readVersion
        /\ tx'[t].writable = tx[t].writable /\ tx[t].writable /\ ~Conflict(t)
        /\ \A u \in Txs : u # t => tx'[u] = tx[u]
    BY <1>t, <1>4 DEF CommitWrite, MustAppend, InCommit, Tx
  <2>2. Held(t)'
    BY <2>1 DEF Committing, Conflict
  <2> QED BY <1>k, <2>1, <2>2 DEF LockHeld
<1>5. ASSUME NEW t \in Txs, CommitSync(t) PROVE LockHeld'
  <2>1. Finish(t) /\ \A u \in Txs : Committing(u) => u = t
    BY <1>5 DEF CommitSync, RInv, DInv, Committing
  <2> QED BY <1>f, <2>1
<1>6. ASSUME NEW t \in Txs PROVE ~CommitSyncError(t)
  BY DEF CommitSyncError, LogReliable
<1>7. CASE CompactWrite \/ CompactTmpError
  BY <1>q, <1>7 DEF CompactWrite, CompactTmpError, MuFree, Committing
<1>8. CASE CompactRename \/ CompactRenameError \/ CompactReopen \/ CompactReopenError \/ Close
  BY <1>q, <1>8 DEF CompactRename, CompactRenameError, CompactReopen, CompactReopenError, Close
<1>9. CASE Crash
  BY <1>9 DEF Crash, LockHeld, ClosedTx, Committing
<1>10. CASE Open
  <2>1. tx' = tx /\ \A t \in Txs : ~Committing(t)
    BY <1>10 DEF Open, RInv, IInv, MemoryConsistent, Committing
  <2> QED BY <1>q, <2>1
<1>11. CASE UNCHANGED vars
  BY <1>q, <1>11 DEF vars
<1> QED BY <1>1, <1>2, <1>3, <1>4, <1>5, <1>6, <1>7, <1>8, <1>9, <1>10, <1>11 DEF Next

-----------------------------------------------------------------------------
(* Every step is a step of SnapshotStore or changes nothing it shows. *)

\* Begin takes its snapshot at db.version: of the committed store, and with no
\* conflict.
LEMMA BeginRefines ==
  ASSUME RInv, NEW t \in Txs, NEW writable \in BOOLEAN, Begin(t, writable)
  PROVE  Abstract!Next
<1> DEFINE kind == IF writable THEN "writer" ELSE "reader"
           new == [state |-> "open", writable |-> writable, readVersion |-> version,
                   writes |-> NoWrites]
<1>1. /\ up /\ tx \in [Txs -> Tx] /\ tx[t].state = "closed" /\ tx[t].writes = NoWrites
      /\ tx' = [tx EXCEPT ![t] = new] /\ UNCHANGED <<up, history, version>>
      /\ version \in Nat /\ history \in [Keys -> Seq(Version)]
      /\ \A k \in Keys : Bounded(history[k], version)
  BY DEF Begin, RInv, IInv, TypeOK, MemoryConsistent, Bounded, LockHeld
<1>2. tx'[t] = new /\ \A u \in Txs : u # t => tx'[u] = tx[u]
  BY <1>1
<1>3. \A k \in Keys : ~NewerThan(history[k], version)
  BY <1>1, NotNewer
<1>4. CommittedStore = Store(history, version) /\ CommittedStore' = CommittedStore
  BY <1>1 DEF CommittedStore
<1>5. TxStatus[t] = "idle" /\ TxStatus' = [TxStatus EXCEPT ![t] = kind]
  BY <1>1, <1>2 DEF TxStatus, IsOpen
<1>6. TxWrites' = TxWrites
  BY <1>1, <1>2 DEF TxWrites
<1>7. TxSnapshot' = [TxSnapshot EXCEPT ![t] = CommittedStore]
  BY <1>1, <1>2, <1>4 DEF TxSnapshot, IsOpen
<1>8. TxStale' = TxStale
  BY <1>1, <1>2, <1>3 DEF TxStale, IsOpen
<1>9. kind \in {"reader", "writer"}
  OBVIOUS
<1> HIDE DEF kind
<1>10. Abstract!Begin(t, kind)
  BY <1>1, <1>4, <1>5, <1>6, <1>7, <1>8 DEF Abstract!Begin
<1> QED BY <1>9, <1>10 DEF Abstract!Next

\* Set and Delete change the write set only.
LEMMA PutRefines ==
  ASSUME RInv, NEW t \in Txs, NEW k \in Keys, NEW op \in Ops, Put(t, k, op)
  PROVE  Abstract!Next
<1>1. /\ tx \in [Txs -> Tx] /\ tx[t].state = "open" /\ tx[t].writable
      /\ tx' = [tx EXCEPT ![t].writes[k] = op] /\ UNCHANGED <<up, history, version, file>>
  BY DEF Put, RInv, IInv, TypeOK
<1>2. /\ tx'[t].writes = [tx[t].writes EXCEPT ![k] = op]
      /\ \A u \in Txs : u # t => tx'[u] = tx[u]
      /\ \A u \in Txs : /\ tx'[u].state = tx[u].state /\ tx'[u].writable = tx[u].writable
                        /\ tx'[u].readVersion = tx[u].readVersion
  BY <1>1 DEF Tx
<1>3. CommittedStore' = CommittedStore
  BY <1>1 DEF CommittedStore
<1>4. TxStatus[t] = "writer" /\ TxStatus' = TxStatus
  BY <1>1, <1>2 DEF TxStatus, IsOpen
<1>5. TxWrites' = [TxWrites EXCEPT ![t][k] = op]
  BY <1>1, <1>2 DEF TxWrites
<1>6. TxSnapshot' = TxSnapshot
  BY <1>1, <1>2, SMT DEF TxSnapshot, IsOpen
<1>7. TxStale' = TxStale
  BY <1>1, <1>2 DEF TxStale, IsOpen
<1>8. Abstract!Write(t, k, op)
  BY <1>1, <1>3, <1>4, <1>5, <1>6, <1>7 DEF Abstract!Write
<1> QED BY <1>8 DEF Abstract!Next, Ops

\* The Tx is closed and its view ends; the others keep theirs.
LEMMA FinishEnds ==
  ASSUME RInv, NEW t \in Txs, Finish(t),
         \A u \in Txs : u # t /\ IsOpen(u)
            => Store(history', tx[u].readVersion) = Store(history, tx[u].readVersion)
  PROVE  Abstract!End(t)
<1>1. tx \in [Txs -> Tx] /\ tx'[t] = ClosedTx /\ \A u \in Txs : u # t => tx'[u] = tx[u]
  BY DEF RInv, IInv, TypeOK, Finish
<1>2. ClosedTx.state = "closed" /\ ClosedTx.writes = NoWrites /\ NoWrites = Abstract!Empty
  BY DEF ClosedTx, NoWrites, Abstract!Empty
<1>3. TxStatus' = [TxStatus EXCEPT ![t] = "idle"]
  BY <1>1, <1>2 DEF TxStatus, IsOpen
<1>4. TxWrites' = [TxWrites EXCEPT ![t] = NoWrites]
  BY <1>1, <1>2 DEF TxWrites
<1>5. TxSnapshot' = [TxSnapshot EXCEPT ![t] = NoWrites]
  BY <1>1, <1>2 DEF TxSnapshot, IsOpen
<1> QED BY <1>2, <1>3, <1>4, <1>5 DEF Abstract!End

\* Rollback, and a Commit that changes nothing.
LEMMA AbortRefines ==
  ASSUME RInv, NEW t \in Txs, IsOpen(t), Finish(t), UNCHANGED <<up, history, version>>
  PROVE  Abstract!Next
<1>1. /\ tx \in [Txs -> Tx] /\ tx'[t] = ClosedTx /\ (\A u \in Txs : u # t => tx'[u] = tx[u])
      /\ up /\ ClosedTx.state = "closed"
  BY ClosedTxTyped DEF RInv, IInv, TypeOK, Finish, MemoryConsistent, IsOpen
<1>2. Abstract!End(t)
  BY FinishEnds
<1>3. TxStatus[t] # "idle"
  BY DEF TxStatus
<1>4. TxStale' = [TxStale EXCEPT ![t] = {}]
  BY <1>1 DEF TxStale, IsOpen
<1>5. CommittedStore' = CommittedStore
  BY <1>1 DEF CommittedStore
<1>6. Abstract!Abort(t)
  BY <1>2, <1>3, <1>4, <1>5 DEF Abstract!Abort
<1> QED BY <1>6 DEF Abstract!Next

\* The committed store after the commit of t, and that t may commit.
LEMMA CommitAllowed ==
  ASSUME RInv, NEW t \in Txs, Committing(t)
  PROVE  /\ Abstract!MayCommit(t)
         /\ Store(ApplyOps(history, version + 1, tx[t].writes), version + 1) = Abstract!Overwrite(t)
<1> DEFINE ops == tx[t].writes
<1>1. /\ tx \in [Txs -> Tx] /\ ops \in Writes /\ up /\ version \in Nat
      /\ history \in [Keys -> Seq(Version)] /\ \A k \in Keys : Bounded(history[k], version)
      /\ tx[t].state = "committing" /\ tx[t].writable /\ ~Conflict(t)
  BY DEF RInv, IInv, TypeOK, Tx, MemoryConsistent, Bounded, LockHeld, Committing
<1>2. TxStatus[t] = "writer" /\ TxWrites[t] = ops
  BY <1>1 DEF TxStatus, IsOpen, TxWrites
<1>3. TxStale[t] = {k \in Keys : NewerThan(history[k], tx[t].readVersion)}
  BY <1>1 DEF TxStale, IsOpen
<1>4. Abstract!WriteSet(t) = Written(ops)
  BY <1>2 DEF Abstract!WriteSet, Written
<1>5. Abstract!WriteSet(t) \cap TxStale[t] = {}
  BY <1>1, <1>3, <1>4 DEF Conflict
<1>6. Abstract!MayCommit(t)
  BY <1>2, <1>5 DEF Abstract!MayCommit
<1> DEFINE h == ApplyOps(history, version + 1, ops)
           after(k) == CASE ops[k] = None   -> Visible(history[k], version)
                         [] ops[k] = Delete -> None
                         [] OTHER           -> ops[k]
<1> HIDE DEF ops
<1>7. \A k \in Keys : Visible(h[k], version + 1) = after(k)
  BY <1>1, StoreOverwrite
<1> HIDE DEF h
<1>8. Store(h, version + 1) = [k \in Keys |-> after(k)]
  BY <1>7 DEF Store
<1>9. \A k \in Keys : CommittedStore[k] = Visible(history[k], version)
  BY <1>1 DEF CommittedStore, Store
<1>10. Abstract!Overwrite(t) = [k \in Keys |-> after(k)]
  BY <1>2, <1>9, SMT DEF Abstract!Overwrite
<1> QED BY <1>6, <1>8, <1>10 DEF h, ops

\* A commit shows when its Sync has returned.
LEMMA CommitRefines ==
  ASSUME RInv, [Next]_vars, NEW t \in Txs, CommitSync(t)
  PROVE  Abstract!Next
<1> DEFINE ops == tx[t].writes
<1>1. /\ tx \in [Txs -> Tx] /\ tx'[t] = ClosedTx /\ (\A u \in Txs : u # t => tx'[u] = tx[u])
      /\ up /\ up' = up /\ ClosedTx.state = "closed" /\ Committing(t) /\ ops \in Writes
      /\ version \in Nat /\ version' = version + 1 /\ history \in [Keys -> Seq(Version)]
      /\ history' = ApplyOps(history, version + 1, ops)
  BY ClosedTxTyped DEF RInv, IInv, TypeOK, Tx, CommitSync, Finish, MemoryConsistent, Committing
<1>2. \A u \in Txs : IsOpen(u) => tx[u].readVersion \in Nat /\ tx[u].readVersion <= version
  BY DEF RInv, IInv, TypeOK, Tx, MemoryConsistent, IsOpen
<1>3. ASSUME NEW u \in Txs, u # t, IsOpen(u)
      PROVE  Store(history', tx[u].readVersion) = Store(history, tx[u].readVersion)
  <2>1. tx[u].state # "closed" /\ tx'[u].state # "closed"
    BY <1>1, <1>3 DEF IsOpen
  <2>2. \A k \in Keys : Visible(history'[k], tx[u].readVersion) = Visible(history[k], tx[u].readVersion)
    BY <2>1, SnapshotKept DEF RInv
  <2> QED BY <2>2 DEF Store
<1>4. Abstract!End(t)
  BY <1>3, FinishEnds DEF CommitSync
<1>5. /\ Abstract!MayCommit(t) /\ CommittedStore' = Abstract!Overwrite(t)
  BY <1>1, CommitAllowed DEF CommittedStore
<1>6. Abstract!WriteSet(t) = Written(ops)
  BY DEF Abstract!WriteSet, Written, TxWrites
<1> HIDE DEF ops
<1>7. ASSUME NEW u \in Txs, IsOpen(u), NEW k \in Keys
      PROVE  NewerThan(history'[k], tx[u].readVersion)
                <=> NewerThan(history[k], tx[u].readVersion) \/ k \in Written(ops)
  <2> DEFINE e == [version |-> version + 1, op |-> ops[k]]
  <2>1. history'[k] = IF ops[k] = None THEN history[k] ELSE Append(history[k], e)
    BY <1>1 DEF ApplyOps
  <2>2. k \in Written(ops) <=> ops[k] # None
    BY DEF Written
  <2>3. CASE ops[k] # None
    <3>1. e \in Version /\ e.version = version + 1
      BY <1>1, <2>3, SMT DEF Version, Writes
    <3> HIDE DEF e
    <3>2. e.version > tx[u].readVersion
      BY <1>1, <1>2, <1>7, <3>1, SMT
    <3>3. NewerThan(Append(history[k], e), tx[u].readVersion)
      BY <1>1, <1>2, <1>7, <3>1, <3>2, AppendNewer
    <3> QED BY <2>1, <2>2, <2>3, <3>3
  <2> QED BY <2>1, <2>2, <2>3
<1> DEFINE stale == [u \in Txs |-> IF u = t \/ TxStatus[u] = "idle" THEN {}
                                   ELSE TxStale[u] \cup Written(ops)]
<1>8. TxStale' = stale
  <2>1. ASSUME NEW u \in Txs, u # t, IsOpen(u)
        PROVE  {k \in Keys : NewerThan(history'[k], tx'[u].readVersion)} = TxStale[u] \cup Written(ops)
    <3>1. tx'[u] = tx[u] /\ TxStale[u] = {k \in Keys : NewerThan(history[k], tx[u].readVersion)}
      BY <1>1, <2>1 DEF TxStale
    <3>2. Written(ops) \in SUBSET Keys
      BY DEF Written
    <3> QED BY <1>7, <2>1, <3>1, <3>2
  <2>2. \A u \in Txs : IsOpen(u)' <=> (u # t /\ IsOpen(u))
    BY <1>1 DEF IsOpen
  <2>3. \A u \in Txs : TxStatus[u] = "idle" <=> ~IsOpen(u)
    BY DEF TxStatus
  <2>4. TxStale' = [u \in Txs |-> IF IsOpen(u)'
                                  THEN {k \in Keys : NewerThan(history'[k], tx'[u].readVersion)} ELSE {}]
    BY DEF TxStale
  <2> QED BY <2>1, <2>2, <2>3, <2>4
<1>9. Abstract!Commit(t)
  BY <1>1, <1>4, <1>5, <1>6, <1>8 DEF Abstract!Commit
<1> QED BY <1>9 DEF Abstract!Next

\* The record is in the file: nothing shows yet.
LEMMA WriteStutters ==
  ASSUME RInv, NEW t \in Txs, CommitWrite(t)
  PROVE  Stutter
<1>1. /\ tx \in [Txs -> Tx] /\ tx[t].state = "open" /\ up /\ UNCHANGED <<up, history, version>>
      /\ tx' = [tx EXCEPT ![t].state = "committing"]
  BY DEF RInv, IInv, TypeOK, CommitWrite, MustAppend, InCommit, MemoryConsistent
<1>2. \A u \in Txs : /\ IsOpen(u)' <=> IsOpen(u)
                     /\ tx'[u].writable = tx[u].writable /\ tx'[u].writes = tx[u].writes
                     /\ tx'[u].readVersion = tx[u].readVersion
  BY <1>1 DEF IsOpen, Tx
<1>3. CommittedStore' = CommittedStore
  BY <1>1 DEF CommittedStore
<1>4. TxStatus' = TxStatus /\ TxWrites' = TxWrites
  BY <1>2 DEF TxStatus, TxWrites
<1>5. TxSnapshot' = TxSnapshot
  BY <1>1, <1>2, SMT DEF TxSnapshot
<1>6. TxStale' = TxStale
  <2>1. \A u \in Txs : {k \in Keys : NewerThan(history'[k], tx'[u].readVersion)}
                        = {k \in Keys : NewerThan(history[k], tx[u].readVersion)}
    BY <1>1, <1>2
  <2> QED BY <1>2, <2>1 DEF TxStale
<1> QED BY <1>1, <1>3, <1>4, <1>5, <1>6 DEF Stutter

\* Compact prunes only what no snapshot sees and no conflict check needs.
LEMMA PruneStutters ==
  ASSUME RInv, [Next]_vars, CompactWrite \/ CompactTmpError
  PROVE  Stutter
<1>1. /\ up /\ history' = Pruned(history, OldestReadVersion) /\ UNCHANGED <<up, version, tx>>
      /\ IInv /\ DInv
  BY DEF CompactWrite, CompactTmpError, RInv
<1>2. CommittedStore' = CommittedStore
  BY <1>1, PruneStep DEF CommittedStore
<1>3. \A u \in Txs : IsOpen(u)' <=> IsOpen(u)
  BY <1>1 DEF IsOpen
<1>4. TxStatus' = TxStatus /\ TxWrites' = TxWrites
  BY <1>1, <1>3 DEF TxStatus, TxWrites
<1>5. ASSUME NEW u \in Txs, IsOpen(u), NEW k \in Keys
      PROVE  /\ Visible(history'[k], tx[u].readVersion) = Visible(history[k], tx[u].readVersion)
             /\ NewerThan(history'[k], tx[u].readVersion) <=> NewerThan(history[k], tx[u].readVersion)
  <2>1. tx[u].state # "closed" /\ tx'[u].state # "closed"
    BY <1>1, <1>5 DEF IsOpen
  <2>2. Visible(history'[k], tx[u].readVersion) = Visible(history[k], tx[u].readVersion)
    BY <1>1, <2>1, SnapshotKept
  <2>3. /\ history[k] \in Seq(Version) /\ tx[u].readVersion \in Nat /\ OldestReadVersion \in Nat
        /\ OldestReadVersion <= tx[u].readVersion
        /\ history'[k] = PruneVersions(history[k], OldestReadVersion)
    BY <1>1, <2>1, OldestIsOldest DEF IInv, TypeOK, Tx, Pruned
  <2> QED BY <2>2, <2>3, PruneNewer, SMT
<1>6. \A u \in Txs : IsOpen(u) =>
        /\ Store(history', tx'[u].readVersion) = Store(history, tx[u].readVersion)
        /\ {k \in Keys : NewerThan(history'[k], tx'[u].readVersion)}
              = {k \in Keys : NewerThan(history[k], tx[u].readVersion)}
  BY <1>1, <1>5 DEF Store
<1>7. TxSnapshot' = TxSnapshot /\ TxStale' = TxStale
  BY <1>3, <1>6 DEF TxSnapshot, TxStale
<1> QED BY <1>1, <1>2, <1>4, <1>7 DEF Stutter

\* The rest of Compact, and Close, touch only the file and its descriptor.
LEMMA FilesStutter ==
  ASSUME UNCHANGED <<up, history, version, tx>>, up \/ file' = file
  PROVE  Stutter
<1>1. CommittedStore' = CommittedStore
  BY DEF CommittedStore
<1>2. TxStatus' = TxStatus /\ TxWrites' = TxWrites
  BY DEF TxStatus, TxWrites, IsOpen
<1>3. TxSnapshot' = TxSnapshot /\ TxStale' = TxStale
  BY DEF TxSnapshot, TxStale, IsOpen
<1> QED BY <1>1, <1>2, <1>3 DEF Stutter

\* What is left of the file rebuilds the store before or after the commit in
\* flight, and nothing in between.
LEMMA CrashImage ==
  ASSUME RInv, up, NEW f \in CrashImages(file, synced)
  PROVE  \/ StoreOf(f) = CommittedStore
         \/ \E t \in Txs : Abstract!MayCommit(t) /\ StoreOf(f) = Abstract!Overwrite(t)
<1>1. /\ file \in Seq(Frame) /\ Len(file) \in Nat /\ synced \in 0..Len(file) /\ version \in Nat
      /\ AllReadable(file) /\ Recovers(Durable, history, version)
  BY LenProperties DEF RInv, IInv, TypeOK, DInv
<1>2. /\ Durable \in Seq(Frame) /\ Len(Durable) = synced
      /\ \A i \in 1..synced : Durable[i] = file[i]
  BY <1>1, PrefixProperties DEF Durable
<1>3. AllReadable(Durable)
  BY <1>1, <1>2, SMT DEF AllReadable
<1>4. StoreOf(Durable) = CommittedStore
  BY <1>1, <1>2, <1>3, RecoversStore DEF CommittedStore
<1>5. \/ \E n \in synced..Len(file) : f = SubSeq(file, 1, n)
      \/ \E n \in synced..(Len(file) - 1) :
            f = Append(SubSeq(file, 1, n), [file[n + 1] EXCEPT !.whole = FALSE])
  BY DEF CrashImages
<1>6. CASE \A t \in Txs : ~Committing(t)
  <2>1. synced = Len(file)
    BY <1>6 DEF RInv, DInv
  <2>2. f = Durable
    <3>1. \A n \in synced..Len(file) : n = synced
      BY <1>1, <2>1, SMT
    <3>2. synced..(Len(file) - 1) = {}
      BY <1>1, <2>1, SMT
    <3> QED BY <1>5, <3>1, <3>2 DEF Durable
  <2> QED BY <1>4, <2>2
<1>7. ASSUME NEW t \in Txs, Committing(t)
      PROVE  StoreOf(f) = CommittedStore \/ (Abstract!MayCommit(t) /\ StoreOf(f) = Abstract!Overwrite(t))
  <2> DEFINE rec == Record(version + 1, tx[t].writes)
             part == [rec EXCEPT !.whole = FALSE]
  <2>1. file = Append(Durable, rec) /\ tx[t].writes \in Writes /\ version + 1 \in Nat
    BY <1>1, <1>7, SMT DEF RInv, DInv, IInv, TypeOK, Tx
  <2>2. rec \in Frame /\ part \in Frame /\ part.whole = FALSE
    BY <2>1, RecordTyped DEF Record, Frame
  <2>3. ~Readable(part)
    BY <2>2 DEF Readable
  <2> HIDE DEF rec
  <2>4. Len(file) = synced + 1 /\ file[synced + 1] = rec
    BY <1>2, <2>1, <2>2, AppendProperties, SMT
  <2>5. f = Durable \/ f = file \/ f = Append(Durable, part)
    <3>1. SubSeq(file, 1, synced + 1) = file
      BY <1>1, <2>4, SubSeqFull
    <3>2. \A n \in synced..Len(file) : n = synced \/ n = synced + 1
      BY <1>1, <2>4, SMT
    <3>3. \A n \in synced..(Len(file) - 1) : n = synced
      BY <1>1, <2>4, SMT
    <3> QED BY <1>5, <2>4, <3>1, <3>2, <3>3 DEF Durable
  <2>6. CASE f = Durable
    BY <1>4, <2>6
  <2>7. CASE f = file
    <3>1. StoreOf(file) = Store(ApplyOps(history, version + 1, tx[t].writes), version + 1)
      BY <1>1, <1>7, <2>1, PendingRecovers, RecoversStore DEF RInv
    <3> QED BY <1>7, <2>7, <3>1, CommitAllowed
  <2>8. CASE f = Append(Durable, part)
    <3> HIDE DEF part
    <3>1. GoodPrefix(f) = Durable /\ GoodPrefix(Durable) = Durable
      BY <1>2, <1>3, <2>2, <2>3, <2>8, TornRecord, GoodPrefixKeeps
    <3>2. StoreOf(f) = StoreOf(Durable)
      BY <3>1 DEF StoreOf
    <3> QED BY <1>4, <3>2
  <2> QED BY <2>5, <2>6, <2>7, <2>8
<1> QED BY <1>6, <1>7

\* A crash ends all transactions and keeps or drops the commit in flight.
LEMMA CrashRefines ==
  ASSUME RInv, Crash
  PROVE  Abstract!Next
<1>1. /\ up /\ up' = FALSE /\ file' \in CrashImages(file, synced)
      /\ \A t \in Txs : tx'[t] = ClosedTx
  BY DEF Crash
<1>2. CommittedStore' = StoreOf(file')
  BY <1>1 DEF CommittedStore, StoreOf
<1>3. \/ CommittedStore' = CommittedStore
      \/ \E t \in Txs : Abstract!MayCommit(t) /\ CommittedStore' = Abstract!Overwrite(t)
  BY <1>1, <1>2, CrashImage
<1>4. ClosedTx.state = "closed" /\ ClosedTx.writes = NoWrites /\ NoWrites = Abstract!Empty
  BY DEF ClosedTx, NoWrites, Abstract!Empty
<1>5. \A t \in Txs : ~IsOpen(t)'
  BY <1>1, <1>4 DEF IsOpen
<1>6. TxStatus' = [t \in Txs |-> "idle"] /\ TxStale' = [t \in Txs |-> {}]
  BY <1>5 DEF TxStatus, TxStale
<1>7. TxWrites' = [t \in Txs |-> NoWrites] /\ TxSnapshot' = [t \in Txs |-> NoWrites]
  BY <1>1, <1>4, <1>5 DEF TxWrites, TxSnapshot
<1>8. Abstract!Crash
  BY <1>1, <1>3, <1>4, <1>6, <1>7 DEF Abstract!Crash
<1> QED BY <1>8 DEF Abstract!Next

\* Open shows what the disk held.
LEMMA OpenRefines ==
  ASSUME RInv, Open
  PROVE  Abstract!Next
<1>1. /\ ~up /\ up' = TRUE /\ tx' = tx /\ file' = GoodPrefix(file)
      /\ history' = Replay(file').history /\ version' = Replay(file').version
  BY DEF Open
<1>2. \A t \in Txs : ~IsOpen(t) /\ ~IsOpen(t)'
  BY <1>1 DEF RInv, IInv, MemoryConsistent, IsOpen
<1>3. CommittedStore' = CommittedStore
  BY <1>1 DEF CommittedStore, StoreOf
<1>4. TxStatus' = TxStatus /\ TxStale' = TxStale
  BY <1>2 DEF TxStatus, TxStale
<1>5. TxWrites' = TxWrites /\ TxSnapshot' = TxSnapshot
  BY <1>1, <1>2 DEF TxWrites, TxSnapshot
<1>6. Abstract!Recover
  BY <1>1, <1>3, <1>4, <1>5 DEF Abstract!Recover
<1> QED BY <1>6 DEF Abstract!Next

-----------------------------------------------------------------------------
(* Refinement. *)

\* An empty file is an empty store.
LEMMA InitRefines == Init => Abstract!Init /\ LockHeld
<1> SUFFICES ASSUME Init PROVE Abstract!Init /\ LockHeld
  OBVIOUS
<1>1. ~up /\ up = FALSE /\ file = <<>> /\ \A t \in Txs : tx[t] = ClosedTx
  BY DEF Init
<1>2. ClosedTx.state = "closed" /\ ClosedTx.writes = NoWrites /\ NoWrites = Abstract!Empty
  BY DEF ClosedTx, NoWrites, Abstract!Empty
<1>3. \A t \in Txs : ~IsOpen(t) /\ ~Committing(t)
  BY <1>1, <1>2 DEF IsOpen, Committing
<1>4. CommittedStore = NoWrites
  <2>1. <<>> \in Seq(Frame) /\ AllReadable(<<>>)
    BY SMT DEF AllReadable
  <2>2. GoodPrefix(<<>>) = <<>>
    BY <2>1, GoodPrefixKeeps
  <2>3. StoreOf(<<>>) = Store(NoHistory, 0)
    BY <2>2, ReplayEmpty, SMT DEF StoreOf, Fresh
  <2>4. Store(NoHistory, 0) = NoWrites
    BY VisibleEmpty DEF Store, NoHistory, NoWrites
  <2> QED BY <1>1, <2>3, <2>4 DEF CommittedStore
<1>5. TxStatus = [t \in Txs |-> "idle"] /\ TxStale = [t \in Txs |-> {}]
  BY <1>3 DEF TxStatus, TxStale
<1>6. TxWrites = [t \in Txs |-> NoWrites] /\ TxSnapshot = [t \in Txs |-> NoWrites]
  BY <1>1, <1>2, <1>3 DEF TxWrites, TxSnapshot
<1>7. LockHeld
  BY <1>1, <1>2, <1>3 DEF LockHeld
<1> QED BY <1>1, <1>2, <1>4, <1>5, <1>6, <1>7 DEF Abstract!Init

\* One case for each action of the kernel.
LEMMA NextRefines ==
  ASSUME LogReliable, RInv, [Next]_vars
  PROVE  Abstract!Next \/ Stutter
<1>1. ASSUME NEW t \in Txs, NEW writable \in BOOLEAN, Begin(t, writable) PROVE Abstract!Next
  BY <1>1, BeginRefines
<1>2. ASSUME NEW t \in Txs, NEW k \in Keys, NEW op \in Ops, Put(t, k, op) PROVE Abstract!Next
  BY <1>2, PutRefines
<1>3. ASSUME NEW t \in Txs, Rollback(t) \/ CommitNothing(t) \/ CommitWriteError(t)
      PROVE  Abstract!Next
  <2>1. IsOpen(t) /\ Finish(t) /\ UNCHANGED <<up, history, version>>
    BY <1>3 DEF Rollback, CommitNothing, CommitWriteError, MustAppend, InCommit, IsOpen
  <2> QED BY <2>1, AbortRefines
<1>4. ASSUME NEW t \in Txs, CommitWrite(t) PROVE Stutter
  BY <1>4, WriteStutters
<1>5. ASSUME NEW t \in Txs, CommitSync(t) PROVE Abstract!Next
  BY <1>5, CommitRefines
<1>6. ASSUME NEW t \in Txs PROVE ~CommitSyncError(t)
  BY DEF CommitSyncError, LogReliable
<1>7. CASE CompactWrite \/ CompactTmpError
  BY <1>7, PruneStutters
<1>8. CASE CompactRename
  <2>1. up /\ UNCHANGED <<up, history, version, tx>>
    BY <1>8 DEF CompactRename, RInv, DInv
  <2> QED BY <2>1, FilesStutter
<1>9. CASE CompactRenameError \/ CompactReopen \/ CompactReopenError \/ Close
  <2>1. UNCHANGED <<up, history, version, tx, file>>
    BY <1>9 DEF CompactRenameError, CompactReopen, CompactReopenError, Close
  <2> QED BY <2>1, FilesStutter
<1>10. CASE Crash
  BY <1>10, CrashRefines
<1>11. CASE Open
  BY <1>11, OpenRefines
<1>12. CASE UNCHANGED vars
  BY <1>12, FilesStutter DEF vars
<1> QED BY <1>1, <1>2, <1>3, <1>4, <1>5, <1>6, <1>7, <1>8, <1>9, <1>10, <1>11, <1>12 DEF Next

\* Snapshot isolation with first committer wins and durable commits, for any
\* keys, values, transactions and bounds: when the log's writes and syncs
\* succeed and a record may hold every key, every step of Begin, Set, Delete,
\* Commit, Rollback, Compact, Close, a crash or Open is a step of SnapshotStore
\* or changes nothing its callers see.
THEOREM KernelRefines == LogReliable /\ RecordsFit => (Spec => ImplementsSnapshotStore)
<1> SUFFICES ASSUME LogReliable, RecordsFit PROVE Spec => ImplementsSnapshotStore
  OBVIOUS
<1>1. Init => RInv /\ Abstract!Init
  BY InitInv, InitDurable, InitRefines DEF RInv
<1>2. RInv /\ [Next]_vars => RInv'
  BY NextInv, NextDurable, NextLocked DEF RInv
<1>3. RInv /\ [Next]_vars => [Abstract!Next]_(Abstract!vars)
  BY NextRefines DEF Stutter, Abstract!vars
<1> QED BY <1>1, <1>2, <1>3, PTL DEF Spec, ImplementsSnapshotStore, Abstract!Spec

=============================================================================
