------------------------------- MODULE MCCbor -------------------------------
(***************************************************************************)
(* What may arrive at a receiver: what a sender marshals, and anything     *)
(* else, byte by byte.                                                     *)
(***************************************************************************)
EXTENDS Cbor, FiniteSets

CONSTANTS
    Alphabet,   \* bound: the bytes that occur
    MaxLen,     \* bound: bytes that arrive from elsewhere
    Types       \* the types marshalled and unmarshalled, a sequence

VARIABLES
    data,       \* what has arrived
    sent        \* <<i, v>> if it is the encoding of v, of type Types[i]

vars == <<data, sent>>
-----------------------------------------------------------------------------
UintType(max)   == [kind |-> "uint", max |-> max]
IntType(max)    == [kind |-> "int", max |-> max]
KindType(kind)  == [kind |-> kind]
FixedType(n)    == [kind |-> "fixed", length |-> n]
PtrType(T)      == [kind |-> "ptr", of |-> T]
OptionType(T)   == [kind |-> "option", of |-> T]
ArrayType(fields) == [kind |-> "array", fields |-> fields]
MapType(fields)   == [kind |-> "map", fields |-> fields]

Field(T)            == [type |-> T, optional |-> FALSE, key |-> <<>>]
OptionalField(T)    == [type |-> T, optional |-> TRUE, key |-> <<>>]
KeyField(key, T)    == [type |-> T, optional |-> FALSE, key |-> key]
OptionalKeyField(key, T) == [type |-> T, optional |-> TRUE, key |-> key]

uint64 == UintType(MaxUint64)
int64  == IntType(MaxInt64)

PlainTypes ==
    <<uint64, UintType(Base - 1), int64, IntType(Base \div 2 - 1), KindType("bool"), KindType("text"),
      KindType("bytes"), FixedType(2), KindType("unit"),
      OptionType(uint64), OptionType(KindType("bytes")), OptionType(PtrType(int64))>>

StructTypes ==
    <<ArrayType(<<>>),
      MapType(<<>>),
      ArrayType(<<Field(uint64), Field(KindType("null"))>>),
      ArrayType(<<OptionalField(KindType("bytes")), OptionalField(PtrType(int64))>>),
      ArrayType(<<Field(ArrayType(<<Field(ArrayType(<<>>))>>))>>),
      MapType(<<KeyField(-1, KindType("bool")), KeyField(Direct, uint64), KeyField(1, int64)>>),
      MapType(<<OptionalKeyField(-1, KindType("bytes")),
                KeyField(-Base - 1, OptionType(uint64))>>),
      ArrayType(<<Field(MapType(<<KeyField(0, PtrType(KindType("text")))>>)),
                  Field(KindType("unit"))>>)>>

RawTypes ==
    <<KindType("raw"), ArrayType(<<Field(KindType("raw")), Field(uint64)>>)>>

WidthBytes == <<1, 2>>

(* Headers of every major type and form, and numbers around the limits.    *)
AlphabetBytes ==
    {head(majorUint, n) : n \in {0, 1, 3, 4, 5}} \cup
    {head(majorNint, n) : n \in {0, 4}} \cup
    {head(majorBytes, 2)} \cup
    {head(majorText, 1)} \cup
    {head(majorArray, n) : n \in {0, 1, 2}} \cup
    {head(majorMap, n) : n \in {1, 2}} \cup
    {head(6, 0)} \cup
    {head(majorSimple, n) : n \in {0, 1, 3}} \cup {Base - 1}

AllTypes  == PlainTypes \o StructTypes \o RawTypes
NullTypes == <<KindType("null")>>

RECURSIVE HasKind(_, _)
HasKind(T, kind) ==
    CASE T.kind = kind -> TRUE
      [] T.kind # kind /\ T.kind \in {"ptr", "option"} -> HasKind(T.of, kind)
      [] T.kind # kind /\ T.kind \in {"array", "map"} ->
            \E i \in DOMAIN T.fields : HasKind(T.fields[i].type, kind)
      [] OTHER -> FALSE

(* An integer of less than 64 bits keeps the low ones of a number that is  *)
(* too large for it.                                                       *)
IsNarrow(T) == T.kind \in {"uint", "int"} /\ T \notin {uint64, int64}

RangeOf(T) == IF T.kind = "uint" THEN 0..T.max ELSE -T.max - 1..T.max

CutTo(T, n, value) ==
    n \notin RangeOf(T) /\ (n - value) % Cardinality(RangeOf(T)) = 0
-----------------------------------------------------------------------------
(* Values at the limits of the widths. *)
Limits == {n + d : n \in {capacity(i) : i \in 0..Len(Widths)}, d \in {-2, -1, 0}} \cup {0}

Numbers(max) == Limits \cap 0..max

ByteStrings == {<<>>, <<0>>, <<Base - 1, 0>>, [k \in 1..Direct |-> k]}

(* Items that other software made, among them a map that is not in order   *)
(* and numbers that fit no integer.                                        *)
Items ==
    {EncodeInt(-1), EncodeSimple(simpleTrue), encodeLength(majorNint, MaxUint64),
     encodeLength(majorArray, 1) \o EncodeInt(Direct),
     encodeLength(majorMap, 2) \o EncodeInt(1) \o EncodeInt(0)
                               \o EncodeInt(0) \o EncodeInt(0)}

RECURSIVE Values(_), FieldValues(_)
Values(T) ==
    CASE T.kind = "uint" -> Numbers(T.max)
      [] T.kind = "int"  -> Numbers(T.max) \cup {-1 - n : n \in Numbers(T.max)}
      [] T.kind = "bool" -> BOOLEAN
      [] T.kind = "text" -> {s \in ByteStrings : ValidUTF8(s)}
      [] T.kind = "bytes" -> {<<>>} \cup {<<s>> : s \in ByteStrings}
      [] T.kind = "fixed" -> {s \in ByteStrings : Len(s) = T.length}
      [] T.kind \in {"unit", "null"} -> {<<>>}
      [] T.kind = "raw" -> Items
      [] T.kind \in {"option", "ptr"} -> {<<>>} \cup {<<v>> : v \in Values(T.of)}
      [] T.kind \in {"array", "map"} -> FieldValues(T.fields)
FieldValues(fields) ==
    IF fields = <<>> THEN {<<>>}
    ELSE {<<v>> \o rest : v \in Values(Head(fields).type), rest \in FieldValues(Tail(fields))}
-----------------------------------------------------------------------------
Init == data = <<>> /\ sent = <<>>

(* More arrives, while what there is is the beginning of an item, or one   *)
(* item.                                                                   *)
Receive(byte) ==
    /\ sent = <<>> /\ Len(data) < MaxLen
    /\ walk(data, 1, MaxLen + 1, FALSE) \in {UnexpectedEOF, Len(data) + 1}
    /\ data' = Append(data, byte)
    /\ UNCHANGED sent

Send(i, value) ==
    /\ data = <<>> /\ sent = <<>>
    /\ data' \in Marshal(Types[i], value)
    /\ sent' = <<i, value>>

Next ==
    \/ \E byte \in Alphabet : Receive(byte)
    \/ \E i \in DOMAIN Types : \E value \in Values(Types[i]) : Send(i, value)

Spec == Init /\ [][Next]_vars
-----------------------------------------------------------------------------
(* A type that holds an item that is verified: the integers and byte       *)
(* strings of 64 bits, and structs of just its fields.  Of a negative      *)
(* number below all int64 it is a Raw, and so there is none of a Null by   *)
(* itself but an Option.                                                   *)
RECURSIVE TypeOf(_, _), TypesOf(_, _, _), KeyedTypesOf(_, _, _)
TypeOf(bytes, pos) ==
    LET h == decodeHeader(bytes, pos)
    IN  CASE h.major = majorUint  -> uint64
          [] h.major = majorNint  -> IF h.value <= MaxInt64 THEN int64 ELSE KindType("raw")
          [] h.major = majorBytes -> KindType("bytes")
          [] h.major = majorText  -> KindType("text")
          [] h.major = majorArray -> ArrayType(TypesOf(bytes, h.next, h.value))
          [] h.major = majorMap   -> MapType(KeyedTypesOf(bytes, h.next, h.value))
          [] h.major = majorSimple ->
                IF h.value = simpleNull THEN OptionType(KindType("unit")) ELSE KindType("bool")
TypesOf(bytes, pos, n) ==
    IF n = 0 THEN <<>>
    ELSE <<Field(TypeOf(bytes, pos))>>
         \o TypesOf(bytes, walk(bytes, pos, maxDepth, TRUE), n - 1)
KeyedTypesOf(bytes, pos, n) ==
    IF n = 0 THEN <<>>
    ELSE LET key == CHOOSE k \in DecodeInt(bytes, pos) : TRUE
         IN  <<KeyField(key.value, TypeOf(bytes, key.next))>>
             \o KeyedTypesOf(bytes, walk(bytes, key.next, maxDepth, TRUE), n - 1)

(* What was marshalled unmarshals to the same value. *)
RoundTrips ==
    sent # <<>> => Unmarshal(data, Types[sent[1]]) = {sent[2]}

(* A value has one encoding: nothing but what Marshal makes of a value     *)
(* unmarshals to it.  The one exception is a number too large for an       *)
(* integer of less than 64 bits, which is cut down to the value, and that  *)
(* number is in its own canonical form, too.                               *)
OneEncoding ==
    \A i \in DOMAIN Types : \A value \in Unmarshal(data, Types[i]) :
        \/ Marshal(Types[i], value) = {data}
        \/ /\ IsNarrow(Types[i])
           /\ \E n \in DecodeInt(data, 1) \cup DecodeLength(data, 1, majorUint) :
                 CutTo(Types[i], n.value, value) /\ EncodeInt(n.value) = data

(* Verify, skipping and decoding are three readers of one format: what     *)
(* Verify accepts is some type's, what any type but one with a Raw takes   *)
(* Verify accepts, and what it accepts can be skipped.                     *)
VerifiedAlike ==
    /\ Verify(data) => /\ walk(data, 1, maxDepth, FALSE) = Len(data) + 1
                       /\ Unmarshal(data, TypeOf(data, 1)) # {}
    /\ \A i \in DOMAIN Types :
          Unmarshal(data, Types[i]) # {} /\ ~HasKind(Types[i], "raw") => Verify(data)
=============================================================================
