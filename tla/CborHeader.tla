----------------------------- MODULE CborHeader -----------------------------
(***************************************************************************)
(* Package cbor, the low level: the header of an item, which is a major    *)
(* type with a number in its one shortest form.  Bytes are the numbers     *)
(* below Base; a decoder is the data and a position in it, and a position  *)
(* below 1 is an error.                                                    *)
(***************************************************************************)
EXTENDS BigEndian, SequencesExt

CONSTANTS
    Infos,      \* additional infos a header byte can hold: 32
    Direct,     \* the infos that are the number itself: 24
    Widths,     \* how many bytes hold the number for the infos from there on: <<1, 2, 4, 8>>
    MaxInt64,   \* the largest int64
    MaxInt      \* the largest int: that of an int64, or of an int32

Base == 8 * Infos

(* The header byte tells the widths apart, which grow. *)
HeaderSizes ==
    /\ Infos \in Nat /\ Direct \in 4..Infos /\ Direct + Len(Widths) <= Infos
    /\ Widths \in Seq(Nat \ {0})
    /\ \A i \in 1..Len(Widths) - 1 : Widths[i] < Widths[i + 1]

ASSUME HeaderAssumption == HeaderSizes

majorUint   == 0
majorNint   == 1
majorBytes  == 2
majorText   == 3
majorArray  == 4
majorMap    == 5
majorSimple == 7

(* The simple values, all below Direct. *)
simpleFalse == 1
simpleTrue  == 2
simpleNull  == 3

head(major, info) == major * Infos + info

(* The numbers below it fit the first i widths. *)
capacity(i) == IF i = 0 THEN Direct ELSE powers(Base)[Widths[i]]

MaxUint64 == capacity(Len(Widths)) - 1
-----------------------------------------------------------------------------
(* Encoder. *)

widthIndex(length) ==
    CHOOSE i \in DOMAIN Widths : length \in capacity(i - 1)..(capacity(i) - 1)

encodeLength(major, length) ==
    IF length < Direct
       THEN <<head(major, length)>>
       ELSE LET i == widthIndex(length)
            IN  <<head(major, Direct + i - 1)>> \o bigEndian(Base, length, Widths[i])

EncodeInt(value) ==
    IF value >= 0 THEN encodeLength(majorUint, value)
                  ELSE encodeLength(majorNint, -1 - value)

EncodeBytes(bytes) == encodeLength(majorBytes, Len(bytes)) \o bytes

EncodeSimple(simple) == <<head(majorSimple, simple)>>
-----------------------------------------------------------------------------
(* Decoder. *)

UnexpectedEOF == 0
Invalid       == -1

NoHeader(error) == [major |-> majorSimple, value |-> 0, next |-> error]

canonicalOffByOne(i, value) ==  \* Mutant: one number too many
    value >= capacity(i - 1) - 1

canonical(i, value) == value >= capacity(i - 1)

decodeHeader(data, pos) ==
    IF pos > Len(data) THEN NoHeader(UnexpectedEOF)
    ELSE LET major == data[pos] \div Infos
             info  == data[pos] % Infos
             i     == info - Direct + 1
             next  == pos + 1 + Widths[i]
             value == bigEndianNumber(Base, SubSeq(data, pos + 1, next - 1))
         IN  CASE info < Direct ->
                    [major |-> major, value |-> info, next |-> pos + 1]
               [] i > Len(Widths) -> NoHeader(Invalid)
               [] i \in DOMAIN Widths ->
                    CASE next > Len(data) + 1 -> NoHeader(UnexpectedEOF)
                      [] next <= Len(data) + 1 ->
                           IF canonical(i, value)
                              THEN [major |-> major, value |-> value, next |-> next]
                              ELSE NoHeader(Invalid)

(* The position behind the next n bytes. *)
readBytes(data, pos, n) ==
    IF n > MaxInt \/ n > Len(data) - pos + 1 THEN UnexpectedEOF ELSE pos + n

PeekSimple(data, pos, simple) ==
    pos <= Len(data) /\ data[pos] = head(majorSimple, simple)

(* The conversion of a uint64 to an int. *)
toInt(length) ==
    ((length + MaxInt + 1) % (2 * (MaxInt + 1))) - (MaxInt + 1)

(* Decoding yields the set of its one result, none if it fails. *)
Result(value, next) == {[value |-> value, next |-> next]}

(* The number behind a header of that major type. *)
DecodeLength(data, pos, major) ==
    LET h == decodeHeader(data, pos)
    IN  IF h.next > 0 /\ h.major = major THEN Result(h.value, h.next) ELSE {}

DecodeInt(data, pos) ==
    LET h == decodeHeader(data, pos)
    IN  IF h.next > 0 /\ h.major \in {majorUint, majorNint} /\ h.value <= MaxInt64
           THEN Result(IF h.major = majorUint THEN h.value ELSE -1 - h.value, h.next)
           ELSE {}

(* DecodeBytes and DecodeText. *)
DecodeBytes(data, pos, major) ==
    UNION {LET end == readBytes(data, h.next, h.value)
           IN  IF end > 0 THEN Result(SubSeq(data, h.next, end - 1), end) ELSE {} :
              h \in DecodeLength(data, pos, major)}

lexicographic(a, b) ==
    \E i \in 1..Len(b) :
        /\ i > Len(a) \/ a[i] < b[i]
        /\ \A j \in 1..i - 1 : j <= Len(a) /\ a[j] = b[j]

mapKeyBefore(a, b) == lexicographic(EncodeInt(a), EncodeInt(b))
=============================================================================
