--------------------------------- MODULE WAL ---------------------------------
(***************************************************************************)
(* The write-ahead log as bytes (wal.go): how records are framed, what     *)
(* replay accepts, what it truncates and when it refuses to open.          *)
(*                                                                         *)
(* A byte is a digit below Radix and a length field has two of them, least *)
(* significant first, where the code has four base-256 digits.  Payload    *)
(* digits are large, like the bytes of JSON text, so that a length read    *)
(* inside a payload exceeds MaxRecordSize, as it does in the code.  The    *)
(* checksum is ideal: one cell that remembers the payload it was computed  *)
(* from, and whose digit, should it be read as part of a length, is        *)
(* arbitrary.                                                              *)
(***************************************************************************)
EXTENDS Integers, Sequences

CONSTANTS
    Radix,          \* number of byte values
    MaxRecordSize,  \* maxRecordSize
    Payloads,       \* Payloads[k]: the JSON text of the k-th record committed
    CrcDigits,      \* the digits a checksum may have
    None,
    Faults,         \* which of FaultKinds may happen
    MaxRots         \* bound on the number of damaged bytes

FaultKinds == {"write", "sync", "power", "size", "crc", "payload"}
Digits == 0..(Radix - 1)
Range(f) == {f[x] : x \in DOMAIN f}

ASSUME LengthsFit ==
    /\ Radix \in Nat \ {0} /\ MaxRecordSize \in Nat /\ MaxRecordSize < Radix * Radix
    /\ \A k \in DOMAIN Payloads : Len(Payloads[k]) \in 1..MaxRecordSize
ASSUME DigitsKnown == CrcDigits \subseteq Digits /\ Payloads \in Seq(Seq(Digits))
ASSUME NoneIsNoText == None \notin Range(Payloads)
ASSUME FaultsAreKinds == Faults \subseteq FaultKinds
ASSUME MaxRotsIsNat == MaxRots \in Nat

VARIABLES
    up,         \* the database is open
    header,     \* the 16-byte file header: "none", "part" or "whole"
    body,       \* the bytes after it, as the operating system holds them
    synced,     \* how many of them have reached the disk for certain
    next,       \* the number of the next record
    pending,    \* the record written but not yet synced, or 0
    acked,      \* the records whose commit returned nil
    mem,        \* the records the open database has applied
    torn,       \* a write has failed part way
    rots        \* damaged bytes so far

faults == <<torn, rots>>
vars == <<up, header, body, synced, next, pending, acked, mem, faults>>

\* A byte of the file; field and crc are not visible to the program.
Cell == [digit : Digits, field : {"size", "crc", "payload"}, crc : Range(Payloads) \cup {None}]
Byte(d, f) == [digit |-> d, field |-> f, crc |-> None]
RecordHdrSize == 3

LengthOneDigit(n) == <<n, 0>>                                        \* mutant
LengthDigits(n) == <<n % Radix, n \div Radix>>

\* encodeRecord: length, checksum, payload.
EncodeRecord(p, c) ==
    LET len == LengthDigits(Len(p))
    IN  <<Byte(len[1], "size"), Byte(len[2], "size"), [Byte(c, "crc") EXCEPT !.crc = p]>>
        \o [i \in 1..Len(p) |-> Byte(p[i], "payload")]

-----------------------------------------------------------------------------
(* Reading the log. *)

SizeAt(b, i) == b[i].digit + Radix * b[i + 1].digit
Plausible(n) == n # 0 /\ n <= MaxRecordSize
HeaderFits(b, i) == i + RecordHdrSize - 1 <= Len(b)
FrameEnd(b, i) == i + RecordHdrSize - 1 + SizeAt(b, i)
PayloadAt(b, i) == [j \in 1..SizeAt(b, i) |-> b[i + RecordHdrSize - 1 + j].digit]

\* A frame at i whose length is plausible but runs past the end.
Overruns(b, i) == HeaderFits(b, i) /\ Plausible(SizeAt(b, i)) /\ FrameEnd(b, i) > Len(b)

\* A complete frame at i, with the right checksum and a payload that is JSON.
ValidAt(b, i) ==
    /\ HeaderFits(b, i)
    /\ Plausible(SizeAt(b, i)) /\ FrameEnd(b, i) <= Len(b)
    /\ b[i + 2].crc = PayloadAt(b, i)
    /\ PayloadAt(b, i) \in Range(Payloads)

\* hasValidRecord: advances a byte at a time, and gives up at the first frame
\* that overruns the data.
HasValidRecord(b) ==
    \E i \in 1..Len(b) : ValidAt(b, i) /\ \A j \in 1..(i - 1) : ~Overruns(b, j)

Stop(good) == [recs |-> <<>>, good |-> good, err |-> "nil"]

RecoverAlways(b, good, failEnd) == Stop(good)                        \* mutant
RecoverNever(b, good, failEnd) ==                                    \* mutant
    [Stop(good) EXCEPT !.err = "ErrWALCorrupt"]

\* recoverOrCorrupt: the record behind good ends, damaged, before failEnd.
RecoverOrCorrupt(b, good, failEnd) ==
    IF failEnd <= Len(b) /\ HasValidRecord(SubSeq(b, failEnd, Len(b)))
    THEN [Stop(good) EXCEPT !.err = "ErrWALCorrupt"]
    ELSE Stop(good)

\* replay: the records applied, the length of the part worth keeping, and
\* the error.  ReplayFrom is one round of its loop, with the next frame at i and
\* read[j] what the rounds after it make of a frame at j.
ReplayFrom(b, read, i) ==
    IF ~HeaderFits(b, i) THEN Stop(i - 1)
    ELSE IF ~Plausible(SizeAt(b, i)) THEN RecoverOrCorrupt(b, i - 1, i + RecordHdrSize)
    ELSE IF Overruns(b, i) THEN Stop(i - 1)
    ELSE IF ~ValidAt(b, i) THEN RecoverOrCorrupt(b, i - 1, FrameEnd(b, i) + 1)
    ELSE [read[FrameEnd(b, i) + 1] EXCEPT !.recs = <<PayloadAt(b, i)>> \o @]

Replay(b) == LET read[i \in 1..(Len(b) + 1)] == ReplayFrom(b, read, i) IN read[1]

Number(p) == CHOOSE k \in DOMAIN Payloads : Payloads[k] = p

-----------------------------------------------------------------------------
(* Opening. *)

\* initWAL on an empty file: writeWALHeader writes and syncs the header.
OpenEmpty ==
    /\ ~up /\ header = "none"
    /\ up' = TRUE /\ header' = "whole"
    /\ body' = <<>> /\ synced' = 0 /\ mem' = <<>>
    /\ UNCHANGED <<next, pending, acked, faults>>

\* The machine stops inside writeWALHeader.
HeaderTorn ==
    /\ "power" \in Faults
    /\ ~up /\ header = "none"
    /\ header' = "part"
    /\ UNCHANGED <<up, body, synced, next, pending, acked, mem, faults>>

OpenNoTruncate ==                                                    \* mutant
    /\ ~up /\ header = "whole"
    /\ Replay(body).err = "nil"
    /\ up' = TRUE
    /\ mem' = [k \in DOMAIN Replay(body).recs |-> Number(Replay(body).recs[k])]
    /\ UNCHANGED <<header, body, synced, next, pending, acked, faults>>

\* initWAL and OpenWithOptions on a file with a header: replay, and truncate
\* what follows the last good record.  ErrWALMagic (header "part") and
\* ErrWALCorrupt leave the file as it is.
Open ==
    /\ ~up /\ header = "whole"
    /\ Replay(body).err = "nil"
    /\ up' = TRUE
    /\ body' = SubSeq(body, 1, Replay(body).good)
    /\ synced' = IF synced > Len(body') THEN Len(body') ELSE synced
    /\ mem' = [k \in DOMAIN Replay(body).recs |-> Number(Replay(body).recs[k])]
    /\ UNCHANGED <<header, next, pending, acked, faults>>

-----------------------------------------------------------------------------
(* Committing: appendRecord writes the frame, then syncs the file. *)

CanAppend == up /\ pending = 0 /\ next \in DOMAIN Payloads

Write ==
    /\ CanAppend
    /\ \E c \in CrcDigits : body' = body \o EncodeRecord(Payloads[next], c)
    /\ pending' = next /\ next' = next + 1
    /\ UNCHANGED <<up, header, synced, acked, mem, faults>>

\* Write fails part of the way; Commit returns the error, the database stays open.
WriteError ==
    /\ "write" \in Faults
    /\ CanAppend
    /\ \E c \in CrcDigits, n \in 0..(RecordHdrSize + Len(Payloads[next]) - 1) :
          body' = body \o SubSeq(EncodeRecord(Payloads[next], c), 1, n)
    /\ next' = next + 1 /\ torn' = TRUE
    /\ UNCHANGED <<up, header, synced, pending, acked, mem, rots>>

SyncSkipped ==                                                       \* mutant
    /\ up /\ pending # 0
    /\ acked' = Append(acked, pending) /\ mem' = Append(mem, pending)
    /\ pending' = 0
    /\ UNCHANGED <<up, header, body, synced, next, faults>>

Sync ==
    /\ up /\ pending # 0
    /\ synced' = Len(body)
    /\ acked' = Append(acked, pending) /\ mem' = Append(mem, pending)
    /\ pending' = 0
    /\ UNCHANGED <<up, header, body, next, faults>>

SyncError ==
    /\ "sync" \in Faults
    /\ up /\ pending # 0
    /\ pending' = 0
    /\ UNCHANGED <<up, header, body, synced, next, acked, mem, faults>>

-----------------------------------------------------------------------------
(* Failures. *)

\* The process ends; the operating system keeps every byte written.
ProcessExit ==
    /\ up
    /\ up' = FALSE /\ pending' = 0 /\ mem' = <<>>
    /\ UNCHANGED <<header, body, synced, next, acked, faults>>

\* The machine stops.  Of the bytes not synced a prefix is on the disk; the
\* file may be longer than that, filled with zeros.
PowerLoss ==
    /\ "power" \in Faults
    /\ header = "whole" /\ (up \/ synced < Len(body))
    /\ \E n \in synced..Len(body) : \E m \in n..Len(body) :
          /\ body' = SubSeq(body, 1, n) \o [i \in 1..(m - n) |-> Byte(0, "payload")]
          /\ synced' = m
    /\ up' = FALSE /\ pending' = 0 /\ mem' = <<>>
    /\ UNCHANGED <<header, next, acked, faults>>

\* A byte of the closed file changes; a damaged checksum matches nothing.
Rot ==
    /\ ~up /\ rots < MaxRots
    /\ \E i \in DOMAIN body, d \in Digits :
          /\ body[i].field \in Faults /\ d # body[i].digit
          /\ body' = [body EXCEPT ![i] = Byte(d, body[i].field)]
    /\ rots' = rots + 1
    /\ UNCHANGED <<up, header, synced, next, pending, acked, mem, torn>>

Init ==
    /\ up = FALSE /\ header = "none" /\ body = <<>> /\ synced = 0
    /\ next = 1 /\ pending = 0 /\ acked = <<>> /\ mem = <<>>
    /\ torn = FALSE /\ rots = 0

Next ==
    \/ OpenEmpty \/ HeaderTorn \/ Open
    \/ Write \/ WriteError \/ Sync \/ SyncError
    \/ ProcessExit \/ PowerLoss \/ Rot

Spec == Init /\ [][Next]_vars

-----------------------------------------------------------------------------
(* Properties. *)

\* Every variable has its type: encodeRecord produces bytes, what is synced
\* is in the file, and only an open database has a commit under way.
TypeOK ==
    /\ up \in BOOLEAN /\ header \in {"none", "part", "whole"}
    /\ body \in Seq(Cell) /\ synced \in 0..Len(body)
    /\ next \in 1..(Len(Payloads) + 1) /\ pending \in 0..Len(Payloads)
    /\ acked \in Seq(DOMAIN Payloads) /\ mem \in Seq(DOMAIN Payloads)
    /\ torn \in BOOLEAN /\ rots \in 0..MaxRots
    /\ pending # 0 => up

OnlyCrashes == ~torn /\ rots = 0

\* No two commits write the same text: Commit (tx.go) puts the version into the
\* record, and every acknowledged commit has a version of its own.  Only a
\* transaction that is run again after its Sync failed can repeat a record.
RecordsDiffer == \A j, k \in DOMAIN Payloads : Payloads[j] = Payloads[k] => j = k

\* Durability: an open database has applied every record whose commit was
\* acknowledged, in commit order and none twice, whatever stopped the machine
\* or the process before, and wherever in a frame it did.
AckedSurvive ==
    up /\ OnlyCrashes =>
          /\ Range(acked) \subseteq Range(mem)
          /\ \A i, j \in DOMAIN mem : i < j => mem[i] < mem[j]

\* No crash makes the log unreadable: whatever the tail looks like once the
\* header is there, replay truncates it and never returns ErrWALCorrupt.
CrashesNeverBlockOpen == ~up /\ OnlyCrashes => Replay(body).err = "nil"

\* The bytes that the frames of a list of records take.
FramesLength(ks) ==
    LET from[i \in 1..(Len(ks) + 1)] ==
          IF i > Len(ks) THEN 0 ELSE RecordHdrSize + Len(Payloads[ks[i]]) + from[i + 1]
    IN  from[1]

\* What OpenWithOptions leaves on disk is what it loaded: the file is exactly as
\* long as the frames of the applied records, back to back, so that the next
\* append lands where the next replay will look for it.  This holds after every
\* kind of fault.
FileIsMemory == [][Open => Len(body') = FramesLength(mem')]_vars

CutsIntactRecord == \E i \in (Len(body') + 1)..Len(body) : ValidAt(body, i)

\* Damage to checksums and payloads is told from a torn tail: unless a write
\* failed part way, no complete, valid record lies in the part of the file that
\* OpenWithOptions cuts off.
DamageIsDetected == [][Open /\ ~torn => ~CutsIntactRecord]_vars

\* "Corruption that is followed by another valid record fails open": under no
\* circumstances does OpenWithOptions cut off a complete, valid record.
TruncatesOnlyDamage == [][Open => ~CutsIntactRecord]_vars
=============================================================================
