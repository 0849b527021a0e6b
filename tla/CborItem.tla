------------------------------ MODULE CborItem ------------------------------
(***************************************************************************)
(* Package cbor, items of any kind: skipping or verifying one, with the    *)
(* items in it.  As data can be as long and as deep as they like, these    *)
(* are functions, defined by recursion on the depth that is left and the   *)
(* number of items to come.                                                *)
(***************************************************************************)
EXTENDS CborHeader

CONSTANTS
    maxDepth,   \* 32
    NotUTF8     \* bytes that are in no text

ValidUTF8(bytes) == \A k \in DOMAIN bytes : bytes[k] \notin NotUTF8

simpleSupportedRange == 0..simpleNull     \* Mutant: a bound, not the values

simpleSupported == {simpleFalse, simpleTrue, simpleNull}

(* That a key may follow another one, of a set of at most one. *)
mayFollow(key, prevKey) == \A prev \in prevKey : mapKeyBefore(prev, key)

(* The next key, of a set of at most one. *)
keysAt(data, pos, prevKey) ==
    {k \in DecodeInt(data, pos) : mayFollow(k.value, prevKey)}

(* From the position of an item to the one behind it, or an error, leads   *)
(* end; so it does from there past n items, or n pairs.                    *)
walkItems(end) ==
    LET past[n \in Nat] ==
          [pos \in Int |-> IF n = 0 \/ pos < 1 THEN pos ELSE past[n - 1][end[pos]]]
    IN  past

walkPairs(data, end) ==
    LET past[n \in Nat] ==
          [pos \in Int |->
             [prevKey \in SUBSET Int |->
                IF n = 0 \/ pos < 1 THEN pos
                ELSE LET keys == keysAt(data, pos, prevKey)
                         key  == CHOOSE k \in keys : TRUE
                     IN  IF keys = {} THEN Invalid
                                      ELSE past[n - 1][end[key.next]][{key.value}]]]
    IN  past

(* One item at pos, where below leads past those in it. *)
walkOne(data, pos, strict, below) ==
    LET h   == decodeHeader(data, pos)
        end == readBytes(data, h.next, h.value)
        validText == end < 1 \/ ValidUTF8(SubSeq(data, h.next, end - 1))
    IN  IF h.next < 1 THEN h.next
        ELSE CASE h.major \in {majorUint, majorNint} -> h.next
               [] h.major = majorBytes -> end
               [] h.major = majorText  -> IF strict => validText THEN end ELSE Invalid
               [] h.major = majorArray -> walkItems(below)[h.value][h.next]
               [] h.major = majorMap ->
                    IF strict THEN walkPairs(data, below)[h.value][h.next][{}]
                              ELSE walkItems(below)[2 * h.value][h.next]
               [] h.major = majorSimple /\ h.value \in simpleSupported -> h.next
               [] OTHER -> Invalid

(* skipObject, and verifyObject where strict is TRUE. *)
walks(data, strict) ==
    LET ends[depth \in Nat] ==
          [pos \in Nat \ {0} |->
             IF depth = 0 THEN Invalid ELSE walkOne(data, pos, strict, ends[depth - 1])]
    IN  ends

walk(data, pos, depth, strict) == walks(data, strict)[depth][pos]

Verify(data) == walk(data, 1, maxDepth, TRUE) = Len(data) + 1
=============================================================================
