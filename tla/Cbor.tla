-------------------------------- MODULE Cbor --------------------------------
(***************************************************************************)
(* Package cbor, the rest: encoding and decoding by reflection.  A type is *)
(* a record of its kind and of what it is made of; its values are          *)
(*   - numbers, Booleans and, for texts, arrays of bytes and Raws, bytes;  *)
(*   - <<>> for a nil pointer or slice and for None, <<v>> for any other;  *)
(*   - the values of the fields for a struct, <<>> for Unit and Null.      *)
(***************************************************************************)
EXTENDS CborItem
-----------------------------------------------------------------------------
(* What encodes and decodes; what fails yields nothing.                    *)

Concat(As, Bs) == {a \o b : a \in As, b \in Bs}

(* The fields of a map in the order of their keys. *)
unsorted(fields) == fields      \* Mutant: in the order of their declaration

sorted(fields) == SortSeq(fields, LAMBDA f, g : mapKeyBefore(f.key, g.key))

RECURSIVE encodeValue(_, _, _), encodeFields(_, _)

encodeValue(T, v, optional) ==
    CASE T.kind = "bool"  -> {EncodeSimple(IF v THEN simpleTrue ELSE simpleFalse)}
      [] T.kind = "uint"  -> {encodeLength(majorUint, v)}
      [] T.kind = "int"   -> {EncodeInt(v)}
      [] T.kind = "text"  ->
           IF ValidUTF8(v) THEN {encodeLength(majorText, Len(v)) \o v} ELSE {}
      [] T.kind = "raw"   -> {v}
      [] T.kind = "fixed" -> {EncodeBytes(v)}
      [] T.kind = "unit"  -> {encodeLength(majorArray, 0)}
      [] T.kind = "null"  -> {EncodeSimple(simpleNull)}
      [] T.kind \in {"bytes", "ptr"} /\ v = <<>> ->
           IF optional THEN {EncodeSimple(simpleNull)} ELSE {}
      [] T.kind = "bytes" /\ v # <<>> -> {EncodeBytes(v[1])}
      [] T.kind = "option" /\ v = <<>> -> {EncodeSimple(simpleNull)}
      [] T.kind \in {"ptr", "option"} /\ v # <<>> -> encodeValue(T.of, v[1], FALSE)
      [] T.kind = "array" ->
           Concat({encodeLength(majorArray, Len(T.fields))},
                  encodeFields(T.fields, v))
      [] T.kind = "map" ->
           LET order == sorted([i \in DOMAIN T.fields |->
                                  [key |-> T.fields[i].key, index |-> i]])
               at(seq) == [k \in DOMAIN order |-> seq[order[k].index]]
           IN  Concat({encodeLength(majorMap, Len(T.fields))},
                      encodeFields([k \in DOMAIN order |->
                                      [at(T.fields)[k] EXCEPT !.key = EncodeInt(@)]], at(v)))

(* One after the other, each behind its key, which is encoded already and  *)
(* <<>> in an array.                                                       *)
encodeFields(fields, v) ==
    IF fields = <<>> THEN {<<>>}
    ELSE Concat(Concat({Head(fields).key},
                       encodeValue(Head(fields).type, Head(v), Head(fields).optional)),
                encodeFields(Tail(fields), Tail(v)))

Marshal(T, v) == encodeValue(T, v, FALSE)

(* SetUint and SetInt keep the low bits. *)
SetUint(T, value) == value % (T.max + 1)
SetInt(T, value)  == ((value + T.max + 1) % (2 * (T.max + 1))) - (T.max + 1)

Map(results, Op(_)) == {[r EXCEPT !.value = Op(@)] : r \in results}

RECURSIVE decodeValue(_, _, _, _), decodeKind(_, _, _, _), decodeFields(_, _, _),
          decodePairs(_, _, _, _, _, _)

(* Up to the switch over the kinds. *)
decodeValue(data, pos, T, optional) ==
    LET isPtr == T.kind = "ptr"
    IN  IF isPtr /\ T.of.kind # "option" /\ PeekSimple(data, pos, simpleNull)
           THEN IF optional THEN Result(<<>>, pos + 1) ELSE {}
           ELSE Map(decodeKind(data, pos, IF isPtr THEN T.of ELSE T, optional /\ ~isPtr),
                    LAMBDA v : IF isPtr THEN <<v>> ELSE v)

decodeKind(data, pos, T, optional) ==
    CASE T.kind = "bool" ->
           {r \in Result(TRUE, pos + 1)  : PeekSimple(data, pos, simpleTrue)} \cup
           {r \in Result(FALSE, pos + 1) : PeekSimple(data, pos, simpleFalse)}
      [] T.kind = "uint" -> Map(DecodeLength(data, pos, majorUint), LAMBDA n : SetUint(T, n))
      [] T.kind = "int"  -> Map(DecodeInt(data, pos), LAMBDA n : SetInt(T, n))
      [] T.kind = "text" -> {r \in DecodeBytes(data, pos, majorText) : ValidUTF8(r.value)}
      [] T.kind = "raw"  ->
           LET end == walk(data, pos, maxDepth, FALSE)
           IN  IF end < 1 THEN {} ELSE Result(SubSeq(data, pos, end - 1), end)
      [] T.kind = "fixed" ->
           IF \E h \in DecodeLength(data, pos, majorBytes) : toInt(h.value) = T.length
              THEN DecodeBytes(data, pos, majorBytes) ELSE {}
      [] T.kind = "unit" -> {[h EXCEPT !.value = <<>>] :
                               h \in {l \in DecodeLength(data, pos, majorArray) : l.value = 0}}
      [] T.kind = "null" -> {r \in Result(<<>>, pos + 1) : PeekSimple(data, pos, simpleNull)}
      [] T.kind = "bytes" ->
           IF PeekSimple(data, pos, simpleNull)
              THEN IF optional THEN Result(<<>>, pos + 1) ELSE {}
              ELSE Map(DecodeBytes(data, pos, majorBytes), LAMBDA bytes : <<bytes>>)
      [] T.kind = "option" ->
           IF PeekSimple(data, pos, simpleNull) THEN Result(<<>>, pos + 1)
           ELSE Map(decodeValue(data, pos, T.of, FALSE), LAMBDA v : <<v>>)
      [] T.kind = "array" ->
           UNION {decodeFields(data, h.next, T.fields) :
                     h \in {l \in DecodeLength(data, pos, majorArray) :
                              toInt(l.value) = Len(T.fields)}}
      [] T.kind = "map" ->
           UNION {decodePairs(data, h.next, T.fields, h.value, {},
                              [i \in DOMAIN T.fields |-> <<>>]) :
                     h \in {l \in DecodeLength(data, pos, majorMap) :
                              toInt(l.value) = Len(T.fields)}}
      [] T.kind = "ptr" -> {}

decodeFields(data, pos, fields) ==
    IF fields = <<>> THEN Result(<<>>, pos)
    ELSE UNION {Map(decodeFields(data, r.next, Tail(fields)), LAMBDA v : <<r.value>> \o v) :
                   r \in decodeValue(data, pos, Head(fields).type, Head(fields).optional)}

(* n more pairs, with the values found so far. *)
decodePairs(data, pos, fields, n, prevKey, found) ==
    IF n = 0 THEN Result(found, pos)
    ELSE UNION {UNION {UNION {decodePairs(data, r.next, fields, n - 1, {key.value},
                                          [found EXCEPT ![i] = r.value]) :
                                 r \in decodeValue(data, key.next, fields[i].type,
                                                   fields[i].optional)} :
                          i \in {k \in DOMAIN fields : fields[k].key = key.value}} :
                   key \in keysAt(data, pos, prevKey)}

(* Into a pointer to a variable of the type. *)
Unmarshal(data, T) ==
    {r.value[1] : r \in {d \in decodeValue(data, 1, [kind |-> "ptr", of |-> T], FALSE) :
                           d.next = Len(data) + 1}}
=============================================================================
