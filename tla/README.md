# A TLA+ model of RunnelDB

RunnelDB is an embedded multi-version key-value store with optimistic
transactions, an append-only log, compaction, a background checkpoint worker and
a small SQL layer. This directory models it in TLA+, checks the models with TLC on
small instances, and proves with TLAPS, for every value of the constants:

- open transactions read a stable snapshot, whatever I/O fails; and the kernel
  implements snapshot isolation with durable commits, provided that the writes and
  syncs of the log succeed and that a record may hold every key;
- once the log has its file header, crashes neither lose an acknowledged record nor
  make Open refuse the file, and one damaged byte outside the lengths never makes
  Open cut off an intact record (any number of crashes, no write that failed part way);
- the B+tree is an ordered map whose iterators miss nothing;
- no statement overwrites what it did not see; and the indexes of the SQL layer
  follow the store, provided that concurrent statements name different rows or
  insert the same one, and that DDL has a session to itself;
- once Close has returned from waiting for the checkpoint worker, nothing of the
  worker runs and no compaction rewrites the log.

Four runs show where the code does not do what a document or comment says: a
compaction may write a record that replay rejects, a short write may lose later
records, CREATE INDEX may miss concurrent inserts, and after a compaction that
failed to reopen the log Close leaves the worker running. Section 3 lists what is
kept out of the other runs, and section 4 the hypotheses of each theorem.

## 1. The system

| Part | Source | State | Operations | What is hard |
|---|---|---|---|---|
| Transactional kernel | `db.go`, `tx.go` | `history`, `version`, `active`, `closed`, the `Tx` objects | Open, Begin, Get, Set, Delete, Commit, Rollback, Close | conflicts, snapshots that outlive commits, I/O inside the lock |
| Compaction | `compact.go` | `path.compact`, the log | Compact | prunes under open snapshots; five I/O calls that can fail or be interrupted |
| Write-ahead log | `wal.go` | the file | append, replay, repair | torn, lost and damaged bytes |
| Checkpoint worker | `checkpoint.go` | its goroutine, `stop`, `lastCommits` | tick, compact, stop | Close waits for it while it waits for `db.mu` |
| SQL execution | `sql_exec.go`, `catalog.go` | catalog and rows in the store; `tables`, `indexes`, `secIndexes` in memory | eight statements, rebuild on Open | memory is updated after the commit, under another lock |
| Secondary indexes | `secondary.go` | B+tree over (value, pk) | insert, remove, lookup | stale entries, NULL, key text |
| B+tree | `btree.go` | nodes | Get, Put, Delete, Seek | splits, empty leaves |
| Codecs | `row.go`, `page.go`, `jsonbin.go`, `keys.go` | none | encode, decode | boundaries, round trips, truncation |
| SQL front end | `sql_lex.go`, `sql_parse.go` | none | lex, parse, bind arguments | numbering of parameters, trailing text |
| HTTP server | `server.go` | none | SQL, key-value, compact | reserved keys, errors without effect, service after a failed compaction |
| Command | `cmd/` | none | start | none that involves state |

Everything runs on one lock, `db.mu`. Transactions take it to begin and to commit;
Compact holds it throughout; the worker is a client of Compact; each SQL statement
is one or two transactions surrounded by critical sections on the in-memory maps.

## 2. Modules

| Module | Contents |
|---|---|
| `MVCC` | kernel, compaction and the log as a sequence of records |
| `SnapshotStore` | what the kernel promises: snapshot isolation, first committer wins, durable commits |
| `WAL` | the log as bytes |
| `Checkpoint` | the worker and `Close` |
| `SQL` | statements of several sessions over one table with one indexed column, interleaved |
| `BTree`, `OrderedMap` | the B+tree on a heap of nodes, and the map it promises to be |
| `Page`, `Row`, `JSONBin` | bytes: slotted pages, rows and values, binary JSON and its paths |
| `SQLText` | the parser on tokens, and the binding of arguments |
| `Tables` | what one statement does to pages, keys, catalog and indexes |
| `Meaning` | what statements mean: plain tables and documents; also how a statement is written |
| `Server` | the HTTP API over `Tables`, with restarts |
| `MCMVCC`, `MCWAL`, `MCCheckpoint`, `MCSQL`, `MCBTree`, `MCServer` | the instances TLC checks |
| `MVCCProofs`, `DurabilityProofs` | proofs about `MVCC`: memory, snapshots and what recovery rebuilds; durability and the refinement |
| `WALProofs`, `DamageProofs` | proofs about `WAL`: crashes; one damaged byte |
| `ShapeProofs`, `BTreeProofs` | proofs about `BTree`: what searches, splits and links do to its shape; operations and iterators |
| `CheckpointProofs`, `SQLProofs` | proofs about `Checkpoint` and `SQL` |

Definitions keep the source's names; `PROJECT.json` maps each to its lines.
Operators whose comment says *mutant* are wrong variants of the definition that
follows them. No specification uses them: each shows that a property would
notice that mistake.

**MVCC.** A `Tx` in state `committing`, or `compacting # "no"`, is the holder of
`db.mu`. Commit is two steps, the write and the sync of its record. Compact is
three: pruning and writing `path.compact`, closing and renaming, reopening. Each
has its error branch, enabled by `Faults`. A crash keeps the synced records, any
number of the others and possibly part of one more. `Tx.Get` changes nothing and
is an operator. Values, keys and record encodings are abstract. A record is
readable when it is whole and not larger than `MaxRecordOps`.

**WAL.** A byte is a digit below `Radix` and a length has two, where the code has
four base-256 digits. Payload digits are large, as the bytes of JSON text are: a
length read inside a payload is implausible, one that straddles a payload and the
next length may be plausible and large. The checksum is ideal. Power loss keeps a
prefix of the unsynced bytes, possibly followed by zeros; the end of a process keeps
all of them. `Truncate` is taken to be durable.

**Checkpoint.** The file is its size in records; `db.mu` is a lock, because the
question is who waits for whom.

**SQL.** Every transaction boundary and every critical section is a step, so
statements interleave between them. Transactions are those of `SnapshotStore`. A
B+tree is the set of its keys. A statement holds a pointer to the secondary index
it looks up, which may be dropped meanwhile. A restart may happen at any step.
A scenario, chosen at first and then fixed, says what an earlier process left
behind and who may execute what.

**BTree.** Nodes are cells of a heap and pointers are addresses, so the tree and
the leaf chain are separate structures. Deletion shortens a leaf and does nothing
else, as in the code. String keys are their ranks. A walk down the tree, the
returns of the recursive `insert`, and a walk along the chain are functions of the
number of steps or of the address, so that they can be reasoned about. `SQL` and
`Tables` use the tree as the set or the map that this module shows it to be.

**Page, Row, JSONBin.** Byte sequences with the code's layouts; the base of a
byte and the widths of integers and lengths are constants. Integers are in two's
complement. JSON text stands for the document it spells, since encoding/json is
external: the spelling of a number (digits only or not) is kept, because the
encoder depends on it, and so are members that share a name. Floats are halves,
and their bits are their positions in a list.

**SQLText, Tables, Meaning, Server.** Each layer extends the one before it. A
request holds the tokens of its statement. A parsing operator maps a parser to a
parser: where the code returns a value, the model pushes it, and `Reduce` makes one
node of the last few; all syntax errors are one. `Server` takes a request, handles it
with `Exec`, `Query` or the key-value store, and replies; the whole statement is
one step, since how statements interleave is the subject of `SQL`. A conflict
with another transaction appears as a reply of 409. `log` says whether the database
still has its log: a compaction that fails may leave it as it was, or with a closed
descriptor, on which reads work and commits fail, or closed altogether. Keys of the
store are the sequences of what stands between their slashes, user keys and the
keys of tables alike, and are found by prefix: identifiers have no slash and
`url.PathEscape` leaves none in a primary key, so sequences are told apart as the
code's strings are. UPDATE puts its rows into the transaction one by one and drops
it when one of them does not fit. Decoding a page, a row or a document gives a
value or an error, and errors are passed up as in the code. `Meaning` is written independently of the
encodings and the access paths: a row is a tuple of values, a size is a sum, a
document is a tree. It shares with `Tables` the syntax tree, the lookup of a
column and the spelling of texts.

## 3. Runs

| Run | Expectation | Shows |
|---|---|---|
| `MVCC_safety` | holds | `RecoverableStore`, `RewriteFaithful` with crashes and every error of Compact |
| `MVCC_io_errors` | holds | `MemoryConsistent`, `SnapshotStable` under all I/O errors |
| `MVCC_refinement` | holds | `MVCC` implements `SnapshotStore` |
| `MVCC_oversize` | fails | compaction can write a record that replay rejects |
| `WAL_recovery` | holds | acknowledged records survive crashes, no crash after the file header is written blocks Open, the file is what was loaded, damaged checksums and payloads are detected |
| `WAL_short_write` | fails | a record behind a partial frame is lost without an error |
| `Checkpoint_worker` | holds | Close returns, nothing runs after it, due checkpoints are attempted |
| `Checkpoint_leak` | fails | a failed reopen makes Close skip the worker |
| `SQL_statements` | holds | one session with every statement, and two sessions on different rows and with two inserts of one row: indexes follow the store, all access paths agree, no lost writes |
| `SQL_build_race` | fails | CREATE INDEX misses concurrent inserts |
| `BTree` | holds | lookups and iterators are right in every tree that Put and Delete build; the tree is an ordered map |
| `Server` | holds | statements and answers are those of plain tables; what is parsed is what was written; parameters are literals; a restart changes nothing; truncated rows are errors; the key-value API changes no table and statements change no user key; all this also after failed compactions |

What does not hold is kept out of the runs that hold by an explicit restriction:
the kernel's durability and refinement assume that writes and syncs of the log do
not fail while the process lives (after a failed sync the record may come back,
after a short write later records may be lost); `OnlyCrashes` and `~torn` say the
same in `WAL`, and damaged length fields are not among the faults of
`WAL_recovery`. `CrashesNeverBlockOpen` speaks of what follows the file header: a crash
while a new log gets its header may leave part of it, and every later Open refuses
that file, in which nothing was acknowledged yet. In `SQL_statements` no two sessions change or delete the same row
or read what the other changes, and DDL has one session: otherwise indexes can be
updated in another order than the store, and a lookup can miss a row of its
snapshot. WHERE operands are of the column's type and not NULL there, and
`SelectAnswers` and `ExecutesAsSQL` compare nothing else (`PlainWhere`): an index
looks NULL up as the zero value, and refuses operands of another type, which a
scan merely finds unequal. The hazards in `PROJECT.json` that only these excluded
cases would show name no property, and say what happens instead. Texts have no zero byte, which composite keys use as
a separator.

The runs that fail check what a document or comment of the repository says; the
findings in `PROJECT.json` quote it and name the line responsible.

### Bounds

- MVCC: two keys, one value, two transactions. Two transactions are what a conflict
  or a pruned snapshot needs, a tombstone is a second value, and version 3 leaves
  room for a version below, at and above an open snapshot. The refinement, and
  failing writes and syncs, are checked with 2 versions and 2 records.
- WAL: three records of lengths 1, 2 and 5 (two digits), at most one damaged byte,
  and every way to stop inside a frame. A checksum's digit is the smallest or the
  largest.
- Checkpoint: two calls of Close, thresholds of 2, up to 5 commits, so that the
  threshold is passed more than once.
- SQL: two or three primary keys, two integers and NULL. Key 0 and value 0 are
  included because 0 is the zero value that NULL shares in the code.
- BTree: nodes of at most two keys, and seven keys of both types. That gives trees
  of three levels, splits of leaves, interior nodes and roots, and every pattern of
  empty leaves. All reachable trees are checked.
- Server: bytes of base 8, integers and lengths of two bytes, pages of 35 bytes,
  which one of the rows fills exactly and another exceeds. One table name with two
  definitions, which between them have every column type and both types of key; a
  column index and a path index; thirteen documents that reach every branch of the
  encoder, one of them nested too deeply and one with a number that no float holds; statements with every clause. Texts with
  one token replaced or removed arrive while the database is empty, which is when
  parsing is all that happens to them. `Explored` stops behaviours in which such a
  text created a table with other columns: its creation is checked, and nothing
  is sent to it. User keys are those that would be keys of a row, a table or an index
  if the reserved prefix were missing, and the prefix itself; reserved ones are
  tried as well. Bodies of PUT are a row's page, or one byte longer than that and
  than `MaxBody`. After a compaction that took the log away, one request of each
  kind is sent (`AfterFailure`).

Symmetry is used only where sessions, keys, values and transactions are
interchangeable, and never with liveness.

### Fairness

Only `Checkpoint` assumes any. The worker's goroutine is scheduled and its ticker
fires (weak fairness of its steps); a Close under way is scheduled. When the
ticker and the stop channel are both ready, `select` chooses at random, so `stop`
is not passed over for ever (strong fairness of `Exit`). Nobody has to call
Commit, Compact or Close. Deadlock is not checked for `Checkpoint` and `WAL`,
which may stop: after Close, and when every record is written or Open fails.

## 4. Proofs

In the proof modules Zenon proves a step unless the step names another prover
(`USE Zenon`); steps with arithmetic, sequences or records name SMT. Induction is
over sets of numbers (`NatInd`, from the well-foundedness of the naturals), so that
no theorem needs a predicate as a parameter; a recursive function is shown to
exist in the same way before its equation is used.

`MVCCProofs` proves, for any keys (finitely many), values, transactions, bounds and
faults:

- `KernelInvariant`: `Spec => [](TypeOK /\ MemoryConsistent)`, and `KernelTyped`:
  `Spec => []TypeOK`. The conjunction is inductive. Conflict checks, reads and pruning compare versions with
  `db.version`; that it bounds them all is needed in each step. Open is the hard
  one: replay is a recursive function, and `ReplayGood` shows by induction over
  the file that the rebuilt version bounds the rebuilt history.
- `StableSnapshots`: `Spec => SnapshotStable`. A commit appends a version above
  every open snapshot (`AppendInvisible`, which needs the invariant), and pruning
  keeps, for every snapshot at or above the oldest, the version it reads
  (`PruneInvisible`, `OldestIsOldest`).

The assumptions are those named in `MVCC`: `KeysFinite`, `SentinelsDistinct`,
`BoundsAreNat`, `FaultsKnown`; TLC evaluates them in every run.

Durability and the refinement do not hold for every instance. Their theorems have
two hypotheses, and the instances of `MVCC_safety` and `MVCC_refinement` satisfy
both: `LogReliable`, the log's writes and syncs do not fail while the process
lives, and `RecordsFit`, a record of all keys is one that replay accepts. Compact
may fail at every one of its calls, and a crash may come at any step.
`MVCC_oversize` shows what happens without `RecordsFit`.

- `DurableCommits`: `Spec => []RecoverableStore`, and `FaithfulRewrites`:
  `Spec => []RewriteFaithful` (`DurabilityProofs`). What replay rebuilds after a
  compaction is not the history in memory, so the invariant `DInv` compares what
  snapshots see. It says that versions grow along every chain and along the file;
  that the synced records recover the committed store; that they are the whole file,
  but for the record of the one transaction that is committing; and that
  `path.compact` answers every retained snapshot. A sync extends the recovered
  store by one commit (`PendingRecovers`, from `ReplayAppend` and `StoreApply`).
  The rename needs that the rewritten file is right (`CompactImage`). For the
  records grouped by version, `GroupReplay` shows by induction over the file that
  after n records a chain has exactly the versions those records hold: this needs
  the chains ordered, and the sort of `compactRecords` to be ascending and complete
  (`AscendingLists`). The single record of live keys, which is written when no open
  snapshot is older than `db.version`, recovers the committed store
  (`SnapshotReplay`).
- `KernelRefines`: `Spec => ImplementsSnapshotStore` (`DurabilityProofs`). The
  invariant is extended by `LockHeld`: a transaction whose record is in the file
  still has no conflict, because it holds `db.mu`. A commit takes effect when its
  Sync returns; writing the record, and all of Compact, change nothing
  `SnapshotStore` shows. Pruning must keep conflicts as well as reads
  (`PruneNewer`). A crash leaves the store before or after the commit in flight,
  and a torn record is dropped whole (`CrashImage`, `TornRecord`).

`WALProofs` proves, for any records, lengths, faults and number of damaged bytes:

- `LogTyped`: `Spec => []TypeOK`, and `OpenKeepsWhatItLoaded`:
  `Spec => FileIsMemory`. Replay is a loop, written as a recursive function of
  the position in the file. `ReplayRounds` shows that the function exists (each
  round looks at later positions only), and `ReadOutcome`, by induction from the
  end of the file backwards (`Backwards`), that every round returns records of the
  log and where the last of them ends. `TwoDigits` and `Encoded` say that the
  length field holds the length.
- `CrashesNeverRefuse`: `Spec => []CrashesNeverBlockOpen`, and
  `AcknowledgedSurvives`: `RecordsDiffer => (Spec => []AckedSurvive)`. Neither is
  inductive: they speak of what replay will find, and not of why. The invariant
  `LogInv` describes a file that only crashes have touched (`Framed`): complete
  frames back to back, in the order of their commits, and behind them a tail in
  which at most the third byte is the checksum of a record, a later one than those
  in the frames. Every acknowledged record is a frame of this chain that ends
  within the synced bytes (`Logged`). A power loss cuts the chain anywhere behind
  the synced bytes, possibly inside a frame, and adds zeros: what is left is such a
  chain again (`FramedPrefix`). A tail may also be a complete frame, when the cut
  happens to fall at its end or the lost bytes were zeros: then it is one frame
  more (`FramedClosed`). A write extends the chain (`FramedExtend`,
  `EncodedFrame`). Of such a file replay applies exactly the frames, in order
  (`ReplayFramed`); and it does not mistake the tail for corruption, because no
  position behind it has the checksum of a record (`NothingBehind`). `MemInv` adds
  that memory holds what was applied in ascending order, up to the record that is
  being committed.

  `RecordsDiffer` says that no two records have the same text, so that a number
  can be told from a payload. Records carry their version; only a transaction that
  is executed again after its Sync failed can write the same text twice. TLC
  checks in `WAL_recovery` that the instance satisfies it. The first theorem does
  not need it.

`DamageProofs` proves, for any records and any number of crashes:

- `DamageDetected`: `OneDamage => (Spec => DamageIsDetected)`, where `OneDamage`
  says that at most one byte is damaged and that it is not part of a length, as in
  the instance of `WAL_recovery`. For two bytes it does not hold: the scan that
  looks for a record behind the damage gives up at bytes that look like a frame
  reaching past the end; and a damaged length sends replay to a position where
  there is no frame. The invariant `DamageInv` says that, unless a write failed
  part way, the file is a chain of frames (`Whole`), or differs from one in a
  single byte behind the length of one of its frames (`Hit`, `Damaged`); and that
  two bytes of a length precede every checksum (`Marked`), so that damage outside
  the lengths cannot move a frame. Damage to the tail leaves a chain
  (`TailChanged`), any other is a `Hit` (`DamagedChain`). The frame that is hit is
  not valid but still ends where it did (`HitFacts`), so replay comes to it and
  stops (`HitReplay`). If a frame follows, the scan finds it at once and Open
  refuses (`Refused`); if none does, nothing from the damaged frame on is a record,
  and Open leaves the chain in front of it (`OpenHit`). A power loss that cuts a
  damaged file keeps the damaged frame, or turns it into the tail (`HitZeroed`).

The assumptions of both are those named in `WAL`: `LengthsFit` (a length has two digits, no
record is empty or longer than `MaxRecordSize`), `DigitsKnown`, `NoneIsNoText`,
`FaultsAreKinds`, `MaxRotsIsNat`.

`CheckpointProofs` proves, for any callers of Close, thresholds and faults:

- `CloseIsQuiet`: `Spec => [](TypeOK /\ QuietAfterClose)`, `WorkerTyped`:
  `Spec => []TypeOK`, and `ClosedLogIsFinal`: `Spec => NoCompactionAfterClose`. The invariant `CInv` adds that the worker
  compacts an open database only, since `db.mu` keeps Close out, and that a Close
  under way has set `db.closed`, which nothing resets.

`SQLProofs` proves, for any sessions, keys, values and scenarios:

- `StatementsLoseNoWrite`: `Spec => NoLostWrite`. That a commit overwrites only
  what its statement saw is not visible from the conflict check alone, which
  looks at keys and not at values. The inductive invariant `SInv` connects them: in
  an open transaction, a key outside the conflict set still has the value of the
  snapshot (`StaleCoversChanges`). Only a commit can disturb it, and it adds what
  it writes to the conflict sets of all others (`CommitStep`); every other step
  leaves the store alone (`OwnStep`, `ReturnStep`). `WritesTyped` says that
  statements write only keys of the model.
- `StatementsTyped`: `Spec => []TypeOK`. The one step that is not obvious is
  CREATE INDEX, which needs a tree that nothing refers to (`FreeTree`, from
  `TreesSuffice`).
- `IndexesMaintained`: `Spec => []IndexesMatch`, and `RowsCollected`:
  `Spec => []CollectsMatchingRows`, both under the hypothesis
  `ScenariosDisciplined`: statements of different sessions name different rows, or
  both insert the same one; everything else, DDL included, is for a session on its
  own; WHERE has no NULL operand; and no earlier process left an index without its
  table. Without it they do not hold, as section 3 says, and `SQL_build_race` shows
  one way. TLC checks that the scenarios of `SQL_statements` satisfy it.
  `IndexesMatch` speaks of moments without a statement under way, and says nothing
  about the steps between a commit and the critical section that publishes it. The
  invariant `AInv` does: for a key with a publication to come, the memory still
  shows the value of the snapshot and the store has the value written; for every
  other key the memory shows the value of the store (`Shown`); and no key has two
  publications to come (`OnePending`, because a second commit would conflict, or
  because two inserts of one row cannot both succeed). A commit adds keys of the
  first kind (`CommitShown`), its publication removes them (`PublishStep`,
  `ReindexRow`), and no other step moves either side. `Underway` collects what a
  statement between two steps relies on: the table is still there, the tree it
  holds is the current one, the row it named has not changed. From this follows
  that each of the three access paths finds what a scan of the snapshot would
  (`CollectFinds`). A restart discards the publications and rebuilds the memory
  from the store (`RestartKeeps`).

The assumptions are those named in `SQL`: `ScenariosTyped`, `ConstantsDiffer`,
`TreesSuffice` (while some session holds no tree, there is one that neither the
index map nor another session refers to), `ZeroIsInt`.

`BTreeProofs`, on the lemmas of `ShapeProofs`, proves, for any integer and string
keys and any even order of at least 2:

- `TreeKeepsItsShape`: `Spec => []BInv`. What a search finds depends on where it
  goes, and that is decided by separators that may have outlived their keys; no
  relation between separators and keys in the leaves is inductive. `BInv` therefore
  says that every node has a range, the keys whose search passes it: the root's is
  all keys, a child's is the part of its parent's that `childIndex` sends there
  (`Passed`), the ranges of the leaves are disjoint, and a node's keys are in its
  range (`Ranged`). Heights that fall from parent to child bound every walk
  (`Leveled`), and no node has two parents (`Tree`). Along the chain, leaves have
  ascending, nonempty ranges and ranks that count the leaves behind (`Chained`). The
  code recurses, so `Shape` also describes the tree between the split of a node and
  the link to its right half: the parent's entry stands for both halves (`Halves`).
  `SplitLeafShape` and `SplitInteriorShape` open such a split, `LinkShape` and
  `NewRootShape` complete it, `ChainSplit` keeps the chain in step. `InsertDone`
  puts them together by induction over the calls of `insert`, which return from the
  leaf upwards, and `DeleteStep` needs only that a leaf may shrink within its range.
- `BTreeTyped`: `Spec => []TypeOK`, and `GetIsExact`: `Spec => []GetFindsEveryKey`.
  A search ends at the one leaf whose range has the key (`WalkExists`), and no
  other leaf may hold it.
- `TreeImplementsMap`: `Spec => ImplementsOrderedMap`. Each key is stored once
  (`StoredOnce`), so the pairs are a map (`ContentsAre`); Put changes and Delete
  drops one pair (`PutStep`, `DeleteStep`).
- `IteratorsAreExact`: `Spec => []IteratorsAreComplete`. What an iterator still
  returns is a recursive function of the address, which exists because ranks fall
  along the chain (`ChainEnds`). By induction over the ranks it lists what the leaf
  and all leaves behind it hold, in order (`TailListed`, `DrainListed`); the leaves
  in front of the one that Seek finds have only smaller keys. `leftmost` ends at the
  leaf of the highest rank, because the ranges along its way are initial segments
  of the keys (`LeftmostIs`).

The assumptions are those named in `BTree`: `OrderIsEven`, `KeysAreNumbers`.

The rest is only model-checked:

- `CloseReturns` and `DueIsServed`: liveness is outside what TLAPS can prove.
- The properties of `Server`: its parsers, decoders and documents are recursive
  operators, and what these compute for every input needs induction over data.

## 5. Not modelled

- Metrics, healthz and the command: they read counters and flags.
- The characters of SQL text: spaces, quotes, digits, hexadecimal. The lexer turns
  them into tokens without any state; only keywords are told from identifiers.
- The parser and printer of encoding/json, and with them texts that are not JSON in
  ways other than being unknown.
- `Scan` into types other than `any`, and the order of the rows of an answer, which
  no document fixes. `parseCompositeKey` has no caller.
- Statements that interleave on tables of several schemas: `SQL` has one schema
  and `Server` one statement at a time. A row that outlives its table and is then
  read under other columns needs both.
- Two processes on one file.
- The directory entry, which Compact does not sync after its rename: the models
  take a rename that returned to be durable, and where it is not, a power loss could
  bring back the old log without the commits made since; and an unsynced `Truncate`.

## 6. Further work

1. A proof that the bytes of `WAL` refine the records of `MVCC`, from the chain of
   frames of `WALProofs`.
2. `SQL` with two schemas, for rows that outlive their table.
3. The lexer on characters.
