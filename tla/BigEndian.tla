------------------------------ MODULE BigEndian ------------------------------
(***************************************************************************)
(* Package encoding/binary, as far as stream and cbor use it: numbers as   *)
(* bytes, the most significant first, where a byte is a number below base. *)
(***************************************************************************)
EXTENDS Integers, Sequences

powers(base) ==
    LET power[k \in Nat] == IF k = 0 THEN 1 ELSE base * power[k - 1]
    IN  power

(* The byte of n that has k others behind it. *)
byteOf(base, n, k) == (n \div powers(base)[k]) % base

bigEndian(base, n, width) == [i \in 1..width |-> byteOf(base, n, width - i)]

bigEndianNumber(base, bytes) ==
    LET number[k \in 0..Len(bytes)] == IF k = 0 THEN 0 ELSE number[k - 1] * base + bytes[k]
    IN  number[Len(bytes)]
=============================================================================
