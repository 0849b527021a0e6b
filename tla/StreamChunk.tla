----------------------------- MODULE StreamChunk -----------------------------
(***************************************************************************)
(* The vocabulary shared by the models of package stream: bytes, nonces,   *)
(* sealed chunks and the cells of ciphertext they are stored in.           *)
(*                                                                         *)
(* A plaintext byte is its position in the message, so losing, repeating   *)
(* or reordering bytes shows.  The AEAD is symbolic: a sealed chunk        *)
(* occupies Len(data) + Overhead cells, each of which remembers the chunk  *)
(* and its own place in it, and Open succeeds on the cells of exactly one  *)
(* chunk, whole and in order, under the nonce that sealed it.              *)
(***************************************************************************)
EXTENDS Integers, Sequences, SequencesExt

CONSTANTS
    ChunkSize,      \* plaintext bytes in a full chunk (64 KiB in the code)
    Overhead        \* bytes the AEAD adds to a chunk (16 in the code)

ASSUME ChunkSizeAssumption == ChunkSize \in Nat \ {0}
ASSUME OverheadAssumption  == Overhead \in Nat \ {0}

encChunkSize == ChunkSize + Overhead

Lesser(a, b) == IF a < b THEN a ELSE b

(* The message's bytes from position lo + 1 to position hi. *)
Bytes(lo, hi) == [i \in 1..(hi - lo) |-> lo + i]

-----------------------------------------------------------------------------
(* A nonce is a chunk counter and the last-chunk flag. *)

Nonce == [ctr : Nat, last : BOOLEAN]

zeroNonce == [ctr |-> 0, last |-> FALSE]

nonceForChunk(chunkIndex) == [ctr |-> chunkIndex, last |-> FALSE]

setLastChunkFlag(nonce) == [ctr |-> nonce.ctr, last |-> TRUE]

incNonceStuck(nonce) == nonce       \* Mutant: the counter does not move

(* Only the counter moves: a flag that was set stays set. *)
incNonce(nonce) == [ctr |-> nonce.ctr + 1, last |-> nonce.last]

nonceIsZero(nonce) == nonce = zeroNonce

-----------------------------------------------------------------------------
(* The AEAD.  sealed is one chunk of ciphertext. *)

Seal(nonce, data) == [nonce |-> nonce, data |-> data]

Cells(sealed) ==
    [i \in 1..(Len(sealed.data) + Overhead) |-> [chunk |-> sealed, pos |-> i]]

OpensAnyNonce(nonce, cells) ==      \* Mutant: the nonce does not matter
    cells # <<>> /\ cells = Cells(cells[1].chunk)

(* cipher.AEAD.Open accepts these cells under this nonce ... *)
Opens(nonce, cells) ==
    /\ cells # <<>>
    /\ cells = Cells(cells[1].chunk)
    /\ cells[1].chunk.nonce = nonce

(* ... and then returns this plaintext. *)
Plaintext(cells) == cells[1].chunk.data

(* A cell of any file, sealed under the key or not. *)
Cell == [chunk : [nonce : [ctr : Int, last : BOOLEAN], data : Seq(Nat)], pos : Int]

-----------------------------------------------------------------------------
(* What the format promises for a message of len bytes. *)

(* The k-th chunk (from 0) that has to be sealed before the message ends. *)
FullChunk(k) == Seal(nonceForChunk(k), Bytes(k * ChunkSize, (k + 1) * ChunkSize))

(* The k-th chunk when it closes a message of len bytes. *)
FinalChunk(k, len) ==
    Seal(setLastChunkFlag(nonceForChunk(k)), Bytes(k * ChunkSize, len))

(* len bytes fill k whole chunks and leave a last one, which is empty only *)
(* when the message is.                                                    *)
EndsInChunk(k, len) ==
    /\ k * ChunkSize <= len /\ len <= (k + 1) * ChunkSize
    /\ k * ChunkSize = len => k = 0

(* How many chunks that makes, and the ciphertext they are. *)
ChunkCount(len) == IF len = 0 THEN 1 ELSE (len + ChunkSize - 1) \div ChunkSize

Stream(sealed) == FlattenSeq([i \in DOMAIN sealed |-> Cells(sealed[i])])

ChunksOf(len) ==
    [i \in 1..ChunkCount(len) |->
        IF i < ChunkCount(len) THEN FullChunk(i - 1) ELSE FinalChunk(i - 1, len)]

CiphertextOf(len) == Stream(ChunksOf(len))

(* The same without recursion: the cells are the chunks' in a row, and     *)
(* every chunk but the last is full.                                       *)
IsStreamOf(cells, sealed) ==
    LET n       == Len(sealed)
        from(i) == (i - 1) * encChunkSize
        to(i)   == from(i) + Len(sealed[i].data) + Overhead
    IN  /\ \A i \in 1..n :
              /\ i < n => Len(sealed[i].data) = ChunkSize
              /\ to(i) <= Len(cells)
              /\ SubSeq(cells, from(i) + 1, to(i)) = Cells(sealed[i])
        /\ Len(cells) = IF n = 0 THEN 0 ELSE to(n)

IsCiphertext(cells, len) == IsStreamOf(cells, ChunksOf(len))
=============================================================================
