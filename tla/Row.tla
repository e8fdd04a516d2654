--------------------------------- MODULE Row ---------------------------------
(***************************************************************************)
(* Typed values and rows as bytes (row.go).  A value is a tuple that       *)
(* starts with its kind; TEXT, BLOB and JSON values are byte sequences.    *)
(* Widths are named so that small instances can use small ones.            *)
(***************************************************************************)
EXTENDS Page

CONSTANTS
    IntBytes,   \* bytes of an int64: 8 in the code
    LenBytes    \* bytes of a uint32 length: 4 in the code

ASSUME WidthsPositive == IntBytes \in Nat \ {0} /\ LenBytes \in Nat \ {0}

NULL == <<"NULL">>
Integer(n) == <<"INTEGER", n>>
Text(s) == <<"TEXT", s>>
Blob(b) == <<"BLOB", b>>
JSON(bin) == <<"JSON", bin>>

\* A length-prefixed byte sequence.
Prefixed(bytes) == LittleEndian(Len(bytes), LenBytes) \o bytes

\* Value.encode: a tag and the value.
valueTag(v) ==
    CASE v[1] = "NULL" -> 0 [] v[1] = "INTEGER" -> 1 [] v[1] = "TEXT" -> 2 [] v[1] = "BLOB" -> 3 [] v[1] = "JSON" -> 4

encode(v) ==
    <<valueTag(v)>> \o (CASE v[1] = "NULL" -> <<>>
                          [] v[1] = "INTEGER" -> LittleEndian(Unsigned(v[2], IntBytes), IntBytes)
                          [] OTHER -> Prefixed(v[2]))

Int64At(data, off) == Signed(FromLittleEndian(At(data, off, IntBytes)), IntBytes)
LengthAt(data, off) == FromLittleEndian(At(data, off, LenBytes))

sliceUnchecked(data) ==                                              \* mutant
    LET n == LengthAt(data, 1)
        head == 1 + LenBytes
    IN IF Len(data) < head THEN Malformed
       ELSE Decoded(<< <<"TEXT", "BLOB", "JSON">>[data[1] - 1],
                       SubSeq(data, head + 1, Min({head + n, Len(data)}))>>, head + n)

\* TEXT, BLOB and JSON have the tags 2, 3 and 4.
decodeBytes(data) ==
    LET n == LengthAt(data, 1)
        head == 1 + LenBytes
    IN IF Len(data) < head \/ Len(data) < head + n THEN Malformed
       ELSE Decoded(<< <<"TEXT", "BLOB", "JSON">>[data[1] - 1], At(data, head, n)>>, head + n)

decodeValue(data) ==
    IF data = <<>> THEN Malformed
    ELSE CASE data[1] = 0 -> Decoded(NULL, 1)
           [] data[1] = 1 -> IF Len(data) < 1 + IntBytes THEN Malformed
                             ELSE Decoded(Integer(Int64At(data, 1)), 1 + IntBytes)
           [] data[1] \in {2, 3, 4} -> decodeBytes(data)
           [] OTHER -> Malformed

\* A row is its number of columns, in two bytes, and its values one after another.
encodeRow(values) ==
    LittleEndian(Len(values), 2) \o Concat([i \in DOMAIN values |-> encode(values[i])])

\* One more value after those that were read; the first error stays.
Extended(read, next) ==
    IF next.ok THEN Decoded(Append(read.v, next.v), read.used + next.used) ELSE Malformed

After(data, n) == SubSeq(data, n + 1, Len(data))

RECURSIVE decodeValues(_, _, _)
decodeValues(n, data, read) ==
    IF n = 0 \/ ~read.ok THEN read
    ELSE decodeValues(n - 1, data, Extended(read, decodeValue(After(data, read.used))))

decodeRow(data) ==
    IF Len(data) < 2 THEN Malformed
    ELSE decodeValues(Uint16(data, 0), After(data, 2), Decoded(<<>>, 0))

RowFits(values) == Fits(EmptyPage, encodeRow(values))
packRow(values) == EncodeRowPage(encodeRow(values))

unpackPayload(payload) == IF payload.ok THEN decodeRow(payload.v) ELSE Malformed
unpackRow(page) == unpackPayload(DecodeRowPage(page))
=============================================================================
