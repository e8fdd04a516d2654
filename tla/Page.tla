-------------------------------- MODULE Page --------------------------------
(***************************************************************************)
(* Bytes and slotted pages (page.go, and encoding/binary as row.go and     *)
(* jsonbin.go use it).  A page is a sequence of PageSize bytes: a header   *)
(* with the slot count and the free offset, payloads upward from the       *)
(* header, the slot directory downward from the end.  Offsets count from   *)
(* 0 as in the code, so byte o of a page is p[o + 1].                      *)
(***************************************************************************)
EXTENDS Integers, Sequences, SequencesExt

CONSTANTS
    Base,       \* values of a byte: 256 in the code
    PageSize    \* 4096 in the code

ASSUME PageFitsOffsets == Base \in Nat /\ PageSize \in Nat /\ PageSize >= 8 /\ PageSize < Base * Base

Bytes == 0..(Base - 1)

\* Two's complement: the unsigned number that has the bits of n.
Unsigned(n, width) == n % Base^width

Signed(u, width) == IF 2 * u >= Base^width THEN u - Base^width ELSE u

\* PutUint16, PutUint32 and PutUint64: the low byte comes first.
LittleEndian(n, width) == [i \in 1..width |-> (n \div Base^(i - 1)) % Base]

\* Uint16, Uint32 and Uint64.
FromLittleEndian(bytes) == FoldRight(LAMBDA b, acc : b + Base * acc, bytes, 0)

Concat(parts) == FoldLeft(LAMBDA acc, part : acc \o part, <<>>, parts)

\* copy(p[off:], bytes)
CopyAt(p, off, bytes) ==
    [i \in DOMAIN p |-> IF i \in (off + 1)..(off + Len(bytes)) THEN bytes[i - off] ELSE p[i]]

At(p, off, n) == SubSeq(p, off + 1, off + n)
Uint16(p, off) == FromLittleEndian(At(p, off, 2))
PutUint16(p, off, n) == CopyAt(p, off, LittleEndian(n, 2))

-----------------------------------------------------------------------------
slotCount(p) == Uint16(p, 0)
freeOff(p) == Uint16(p, 2)

\* reset
EmptyPage == PutUint16([i \in 1..PageSize |-> 0], 2, 4)

FitsIgnoringSlot(p, payload) ==                                      \* mutant
    freeOff(p) + Len(payload) <= PageSize - 4 * slotCount(p)

\* Put returns ErrRowTooLarge unless the payload and its slot fit.
Fits(p, payload) == freeOff(p) + Len(payload) <= PageSize - 4 * (slotCount(p) + 1)

Put(p, payload) ==
    LET n == slotCount(p)
        free == freeOff(p)
        dir == PageSize - 4 * (n + 1)
        copied == CopyAt(p, free, payload)
        entered == PutUint16(PutUint16(copied, dir, free), dir + 2, Len(payload))
    IN PutUint16(PutUint16(entered, 0, n + 1), 2, free + Len(payload))

\* What a decoder returns: a value and the bytes it used, or an error.
Decoded(v, used) == [ok |-> TRUE, v |-> v, used |-> used]
Malformed == [ok |-> FALSE]

Get(p, slot) ==
    LET dir == PageSize - 4 * (slot + 1)
        length == Uint16(p, dir + 2)
    IN IF slot >= slotCount(p) THEN Malformed ELSE Decoded(At(p, Uint16(p, dir), length), length)

EncodeRowPage(payload) == Put(EmptyPage, payload)

\* LoadPage takes whole pages only.
DecodeRowPage(raw) == IF Len(raw) # PageSize \/ slotCount(raw) < 1 THEN Malformed ELSE Get(raw, 0)
=============================================================================
