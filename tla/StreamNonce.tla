------------------------------ MODULE StreamNonce ------------------------------
(***************************************************************************)
(* The nonces of package stream as the bytes they are: the big-endian      *)
(* counter that incNonce moves and the index that nonceForChunk writes     *)
(* into the last eight bytes of that counter.  The models of the readers   *)
(* and writers take a nonce for a number and a flag; with this module a    *)
(* run of theirs checks that the bytes tell the same numbers apart.        *)
(***************************************************************************)
EXTENDS BigEndian, FiniteSetsExt

CONSTANTS
    Base,           \* values of a byte (256 in the code)
    CtrBytes,       \* bytes of the counter, the flag follows them (11)
    IndexBytes      \* bytes of them nonceForChunk writes (8)

zeroNonce == [i \in 0..CtrBytes |-> 0]

lastChunkFlag == 1

(* The counter bytes that incNonce does not wrap. *)
Holding(nonce) == {j \in 0..CtrBytes - 1 : nonce[j] # Base - 1}

(* Every byte wraps: incNonce panics. *)
Wraps(nonce) == Holding(nonce) = {}

incNonceNoCarry(nonce) ==           \* Mutant: the bytes that wrap are not reset
    [nonce EXCEPT ![Max(Holding(nonce))] = @ + 1]

(* Increment the last counter byte that does not wrap, and wrap those      *)
(* behind it.                                                              *)
incNonce(nonce) ==
    LET i == Max(Holding(nonce))
    IN  [j \in 0..CtrBytes |-> IF j = i THEN nonce[j] + 1
                               ELSE IF j \in i + 1 .. CtrBytes - 1 THEN 0
                               ELSE nonce[j]]

nonceForChunkShifted(chunkIndex) == \* Mutant: one byte too far left
    [j \in 0..CtrBytes |->
        IF j \in CtrBytes - IndexBytes - 1 .. CtrBytes - 2
           THEN byteOf(Base, chunkIndex, CtrBytes - 2 - j)
           ELSE 0]

nonceForChunk(chunkIndex) ==
    [j \in 0..CtrBytes |->
        IF j \in CtrBytes - IndexBytes .. CtrBytes - 1
           THEN byteOf(Base, chunkIndex, CtrBytes - 1 - j)
           ELSE 0]

setLastChunkFlag(nonce) == [nonce EXCEPT ![CtrBytes] = lastChunkFlag]
-----------------------------------------------------------------------------
(* The nonce of which every counter byte is a digit of n. *)
Spelled(n) ==
    [j \in 0..CtrBytes |->
        IF j < CtrBytes THEN byteOf(Base, n, CtrBytes - 1 - j) ELSE 0]

(* From zero on, incNonce spells the numbers one after the other, flagged  *)
(* or not, and panics at the last and nowhere before; no two are spelled   *)
(* alike; and the streaming side and the random-access side number chunks  *)
(* alike, as long as the index fits the bytes it is written to.            *)
NumbersChunks ==
    LET last == powers(Base)[CtrBytes] - 1
    IN  /\ Spelled(0) = zeroNonce
        /\ \A n \in 0..last :
              /\ Wraps(Spelled(n)) <=> n = last
              /\ n < last =>
                    /\ incNonce(Spelled(n)) = Spelled(n + 1)
                    /\ incNonce(setLastChunkFlag(Spelled(n)))
                          = setLastChunkFlag(Spelled(n + 1))
              /\ n < powers(Base)[IndexBytes] => nonceForChunk(n) = Spelled(n)
              /\ n > 0 => Spelled(n) # zeroNonce
        /\ Cardinality({Spelled(n) : n \in 0..last}) = last + 1
=============================================================================
