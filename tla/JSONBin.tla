------------------------------- MODULE JSONBin -------------------------------
(***************************************************************************)
(* Binary JSON (jsonbin.go): the encoding of documents, its decoder, and   *)
(* path extraction for json_extract and for path indexes.                  *)
(*                                                                         *)
(* JSON text is the document it spells: a tuple that starts with its kind, *)
(* an object being a sequence of members in which a name may come twice.   *)
(* A number is <<"num", h, plain>>: its value in halves, so that there are *)
(* fractions, and whether it is spelled with digits only.  Characters are  *)
(* numbers; a word or a number inside a text is a character of its own,    *)
(* which is all that equality of texts can see of it.                      *)
(***************************************************************************)
EXTENDS Row

CONSTANTS
    Documents,      \* the documents whose texts occur
    JsonMaxDepth,   \* jsonMaxDepth: 32 in the code
    Floats,         \* float64 values, in halves; the bits of one are its position
    FloatOverflow   \* int64(x) of the float one above MaxInt64, on this platform

MinInt == -(Base^IntBytes \div 2)
MaxInt == Base^IntBytes \div 2 - 1

ASSUME DepthIsNat == JsonMaxDepth \in Nat
ASSUME FloatsHaveBits == Floats # <<>> /\ Len(Floats) < Base^IntBytes /\ FloatOverflow \in {MinInt, MaxInt}

\* Strings as the code compares them.
LexLess(a, b) ==
    \E i \in DOMAIN b : /\ \A j \in 1..(i - 1) : j <= Len(a) /\ a[j] = b[j]
                        /\ i > Len(a) \/ a[i] < b[i]

Sorted(names) == SetToSortSeq(names, LexLess)

-----------------------------------------------------------------------------
(* Text. *)

TrueText == <<13>>
FalseText == <<12>>
NumberText(h) == <<16 + Unsigned(h, IntBytes + 1)>>

RECURSIVE TextOf(_)
TextOf(t) ==
    LET memberText(m) == <<9>> \o m[1] \o <<9>> \o TextOf(m[2])
    IN CASE t[1] = "null" -> <<10>>
         [] t[1] = "bool" -> IF t[2] THEN TrueText ELSE FalseText
         [] t[1] = "num" -> NumberText(t[2]) \o (IF t[2] % 2 = 0 /\ ~t[3] THEN <<11>> ELSE <<>>)
         [] t[1] = "str" -> <<9>> \o t[2] \o <<9>>
         [] t[1] = "arr" -> <<-1>> \o Concat([i \in DOMAIN t[2] |-> TextOf(t[2][i])]) \o <<-1>>
         [] t[1] = "obj" -> <<8>> \o Concat([i \in DOMAIN t[2] |-> memberText(t[2][i])]) \o <<8>>

Spelled == [text \in {TextOf(t) : t \in Documents} |-> CHOOSE t \in Documents : TextOf(t) = text]

-----------------------------------------------------------------------------
(* Encoding.  An error is the empty sequence, which encodes no document.   *)

\* json.Number.Int64 takes digits only, and within range.
FitsInt64(v) == v[3] /\ v[2] % 2 = 0 /\ v[2] \div 2 \in MinInt..MaxInt

\* json.Number.Float64 refuses what is beyond the largest float64.
MaxFloat == Max(Range(Floats))
InFloatRange(h) == h \in (-MaxFloat)..MaxFloat

FloatBits(h) == LittleEndian(SelectInSeq(Floats, LAMBDA f : f = h), IntBytes)

encodeNumber(v) ==
    CASE FitsInt64(v) -> <<3>> \o LittleEndian(Unsigned(v[2] \div 2, IntBytes), IntBytes)
      [] ~FitsInt64(v) /\ InFloatRange(v[2]) -> <<4>> \o FloatBits(v[2])
      [] OTHER -> <<>>

encodeContainer(tag, parts) ==
    IF \E i \in DOMAIN parts : parts[i] = <<>> THEN <<>>
    ELSE <<tag>> \o LittleEndian(Len(parts), LenBytes) \o Concat(parts)

\* The decoder of encoding/json keeps the last member of a name.
Member(members, name) == Last(SelectSeq(members, LAMBDA m : m[1] = name))[2]
Names(members) == {members[i][1] : i \in DOMAIN members}

RECURSIVE appendJSONBin(_, _)
appendJSONBin(v, depth) ==
    IF depth > JsonMaxDepth THEN <<>>
    ELSE CASE v[1] = "null" -> <<0>>
           [] v[1] = "bool" -> <<IF v[2] THEN 2 ELSE 1>>
           [] v[1] = "num" -> encodeNumber(v)
           [] v[1] = "str" -> <<5>> \o Prefixed(v[2])
           [] v[1] = "arr" ->
                encodeContainer(6, [i \in DOMAIN v[2] |-> appendJSONBin(v[2][i], depth + 1)])
           [] v[1] = "obj" ->
                LET keys == Sorted(Names(v[2]))
                    member(k) == LET bin == appendJSONBin(Member(v[2], k), depth + 1)
                                 IN IF bin = <<>> THEN <<>> ELSE Prefixed(k) \o bin
                IN encodeContainer(7, [i \in DOMAIN keys |-> member(keys[i])])

encodeJSON(text) == IF text \in DOMAIN Spelled THEN appendJSONBin(Spelled[text], 0) ELSE <<>>

-----------------------------------------------------------------------------
(* Decoding, into null, bool, int, float, str, arr, and obj, whose members *)
(* are a function of their names.                                          *)

DecodedString(data) ==
    IF Len(data) < LenBytes \/ Len(data) < LenBytes + LengthAt(data, 0) THEN Malformed
    ELSE Decoded(At(data, LenBytes, LengthAt(data, 0)), LenBytes + LengthAt(data, 0))

Named(key, val) == IF val.ok THEN Decoded(<<key.v, val.v>>, key.used + val.used) ELSE Malformed

StringNode(str) == IF str.ok THEN Decoded(<<"str", str.v>>, 1 + str.used) ELSE Malformed

Number(tag, body) ==
    IF Len(body) < IntBytes THEN Malformed
    ELSE Decoded(IF tag = 3 THEN <<"int", Int64At(body, 0)>>
                 ELSE <<"float", Floats[FromLittleEndian(At(body, 0, IntBytes))]>>, 1 + IntBytes)

\* An array (6) or an object (7), in which no name is given twice.
Container(tag, members) ==
    IF ~members.ok \/ (tag = 7 /\ Cardinality(Names(members.v)) < Len(members.v)) THEN Malformed
    ELSE Decoded(IF tag = 6 THEN <<"arr", [i \in DOMAIN members.v |-> members.v[i][2]]>>
                 ELSE <<"obj", [k \in Names(members.v) |-> Member(members.v, k)]>>,
                 1 + LenBytes + members.used)

RECURSIVE readJSONBin(_, _), readMember(_, _, _), readMembers(_, _, _, _, _)

\* The value that follows a key.
readMember(data, depth, key) ==
    IF key.ok THEN Named(key, readJSONBin(After(data, key.used), depth)) ELSE Malformed

\* n more pairs, those of an array with an empty key.
readMembers(n, data, depth, named, read) ==
    IF n = 0 \/ ~read.ok THEN read
    ELSE LET rest == After(data, read.used)
             key == IF named THEN DecodedString(rest) ELSE Decoded(<<>>, 0)
         IN readMembers(n - 1, data, depth, named, Extended(read, readMember(rest, depth, key)))

readTagged(tag, body, depth) ==
    CASE tag = 0 -> Decoded(<<"null">>, 1)
      [] tag \in {1, 2} -> Decoded(<<"bool", tag = 2>>, 1)
      [] tag \in {3, 4} -> Number(tag, body)
      [] tag = 5 -> StringNode(DecodedString(body))
      [] tag \in {6, 7} ->
            IF Len(body) < LenBytes THEN Malformed
            ELSE Container(tag, readMembers(LengthAt(body, 0), After(body, LenBytes), depth + 1, tag = 7,
                                            Decoded(<<>>, 0)))
      [] OTHER -> Malformed

readJSONBin(data, depth) ==
    IF depth > JsonMaxDepth \/ data = <<>> THEN Malformed
    ELSE readTagged(data[1], After(data, 1), depth)

\* Nothing may follow the document.
WholeOf(bin, r) == IF r.ok /\ r.used = Len(bin) THEN r ELSE Malformed
decodeJSON(bin) == WholeOf(bin, readJSONBin(bin, 0))

\* json.Marshal of a decoded value: an integral float is spelled with digits only.
RECURSIVE Marshal(_)
Marshal(t) ==
    CASE t[1] = "int" -> <<"num", 2 * t[2], TRUE>>
      [] t[1] = "float" -> <<"num", t[2], t[2] % 2 = 0>>
      [] t[1] = "arr" -> <<"arr", [i \in DOMAIN t[2] |-> Marshal(t[2][i])]>>
      [] t[1] = "obj" -> LET keys == Sorted(DOMAIN t[2])
                         IN <<"obj", [i \in DOMAIN keys |-> <<keys[i], Marshal(t[2][keys[i]])>>]>>
      [] OTHER -> t

jsonToText(bin) == Marshal(decodeJSON(bin).v)

-----------------------------------------------------------------------------
(* Paths. *)

Dollar == 15
Dot == 14

\* Whether a text is $ or $.a.b, and its segments; digits cannot start one.
\* Letters and digits are the characters 1 to 7, and 7 is the digit.
Segments(path) ==
    FoldLeft(LAMBDA segs, c : IF c = Dot THEN Append(segs, <<>>)
                              ELSE [segs EXCEPT ![Len(segs)] = Append(@, c)],
             << <<>> >>, SubSeq(path, 3, Len(path)))

isJSONIdent(s) == s # <<>> /\ s[1] \in 1..6 /\ \A i \in DOMAIN s : s[i] \in 1..7

ValidPath(path) ==
    \/ path = <<Dollar>>
    \/ IsPrefix(<<Dollar, Dot>>, path) /\ \A i \in DOMAIN Segments(path) : isJSONIdent(Segments(path)[i])

parseJSONPath(path) == IF path = <<Dollar>> THEN <<>> ELSE Segments(path)

\* The largest float that passes the test against MaxInt64 is one above it.
jsonLeafToValue(t) ==
    CASE t[1] = "null" -> NULL
      [] t[1] = "bool" -> Text(IF t[2] THEN TrueText ELSE FalseText)
      [] t[1] = "int" -> Integer(t[2])
      [] t[1] = "float" ->
            LET x == t[2] \div 2
            IN IF t[2] % 2 = 0 /\ x \in MinInt..(MaxInt + 1)
               THEN Integer(IF x <= MaxInt THEN x ELSE FloatOverflow)
               ELSE Text(NumberText(t[2]))
      [] t[1] = "str" -> Text(t[2])
      [] OTHER -> Text(TextOf(Marshal(t)))

Missing == <<"missing">>

RECURSIVE walk(_, _)
walk(t, segs) ==
    IF segs = <<>> THEN jsonLeafToValue(t)
    ELSE IF t[1] # "obj" \/ Head(segs) \notin DOMAIN t[2] THEN Missing
    ELSE walk(t[2][Head(segs)], Tail(segs))

jsonExtract(bin, path) == walk(readJSONBin(bin, 0).v, parseJSONPath(path))

NotNull(v) == IF v = NULL THEN Missing ELSE v
indexableExtract(bin, path) == NotNull(jsonExtract(bin, path))
=============================================================================
