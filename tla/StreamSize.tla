------------------------------ MODULE StreamSize ------------------------------
(***************************************************************************)
(* The size arithmetic of package stream: how many chunks an encrypted     *)
(* payload of a given size has, in 64-bit integers whose division          *)
(* truncates towards zero.                                                 *)
(***************************************************************************)
EXTENDS StreamChunk

CONSTANT MaxInt64       \* the largest int64, 2^63 - 1 in the code

ASSUME MaxInt64Assumption == MaxInt64 \in Nat /\ encChunkSize < MaxInt64

int64 == (-MaxInt64 - 1)..MaxInt64

(* The value an int64 operation leaves of a result x. *)
Int64(x) ==
    IF x \in int64
       THEN x
       ELSE ((x + MaxInt64 + 1) % (2 * (MaxInt64 + 1))) - (MaxInt64 + 1)

GoDiv(a, b) == IF a >= 0 THEN a \div b ELSE -((-a) \div b)

(* Bytes of encryption in chunks chunks. *)
chunksFor(encryptedSize) ==
    GoDiv(Int64(encryptedSize + encChunkSize - 1), encChunkSize)

plaintextFor(encryptedSize, chunks) ==
    Int64(encryptedSize - Int64(chunks * Overhead))

expChunksNoEmpty(plaintextSize) ==  \* Mutant: an empty plaintext has no chunk
    GoDiv(Int64(plaintextSize + ChunkSize - 1), ChunkSize)

expChunks(plaintextSize) ==
    IF plaintextSize = 0 THEN 1
    ELSE GoDiv(Int64(plaintextSize + ChunkSize - 1), ChunkSize)

(* ok is FALSE where the code returns an error. *)
EncryptedChunkCount(encryptedSize) ==
    LET chunks == chunksFor(encryptedSize)
        ok     == expChunks(plaintextFor(encryptedSize, chunks)) = chunks
    IN  [ok |-> ok, chunks |-> IF ok THEN chunks ELSE 0]

PlaintextSize(encryptedSize) ==
    LET count == EncryptedChunkCount(encryptedSize)
    IN  [ok   |-> count.ok,
         size |-> IF count.ok THEN plaintextFor(encryptedSize, count.chunks) ELSE 0]
-----------------------------------------------------------------------------
(* How long the ciphertext of len bytes is.                                *)
EncryptedSize(len) == len + ChunkCount(len) * Overhead

(* A size is accepted exactly when some plaintext encrypts to it, and then *)
(* the chunk count and the plaintext size are that plaintext's.            *)
SizeInverts(sz) ==
    LET origins == {len \in 0..sz : EncryptedSize(len) = sz}
    IN  /\ EncryptedChunkCount(sz).ok <=> origins # {}
        /\ \A len \in origins :
              /\ EncryptedChunkCount(sz).chunks = ChunkCount(len)
              /\ PlaintextSize(sz).size = len
=============================================================================
