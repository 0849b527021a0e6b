--------------------------- MODULE DecryptReaderAt ---------------------------
(***************************************************************************)
(* stream.DecryptReaderAt: the constructor authenticates the final chunk   *)
(* and caches it; then any number of goroutines call ReadAt at once.  They *)
(* share the source and one cached chunk behind an atomic pointer, and     *)
(* nothing else: each call reads and decrypts into a buffer of its own,    *)
(* which becomes the cached chunk's memory if the call stores it.          *)
(*                                                                         *)
(* Buffers are explicit, so that a buffer reused while somebody still      *)
(* looks at it shows: a step of ReadAt ends at each access to the cache,   *)
(* the source or a buffer.  The source is a file that may be damaged or    *)
(* repaired between two reads, and reads of it may fail.                   *)
(***************************************************************************)
EXTENDS StreamSize

CONSTANTS
    Callers,        \* goroutines calling ReadAt
    Bufs,           \* chunk buffers, enough that one is always free
    NoBuf,          \* no buffer
    MsgLen,         \* length of the message the file was made from
    Files,          \* the contents the file may have
    Sizes,          \* the sizes the constructor may be given
    Requests,       \* bound: the offsets and lengths ReadAt is called with
    Base,           \* values of a byte of a nonce
    CtrBytes,       \* bytes of a nonce's counter
    IndexBytes      \* bytes of them that nonceForChunk writes

ASSUME MsgLenAssumption == MsgLen \in Nat
ASSUME RequestsAssumption == Requests \subseteq Int \X Nat
ASSUME SizesAssumption == Sizes \subseteq int64
ASSUME NoBufAssumption == NoBuf \notin Bufs
ASSUME NonceAssumption ==
    Base \in Nat \ {0} /\ CtrBytes \in Nat /\ IndexBytes \in 0..CtrBytes

Bytewise == INSTANCE StreamNonce

(* Every cell of a file comes from a chunk of the message, or from none    *)
(* sealed under the key, which then opens under no nonce.                  *)
Genuine(cell) ==
    LET sealed == cell.chunk
        k      == sealed.nonce.ctr
    IN  \/ k = -1
        \/ k \in Nat /\ (k + 1) * ChunkSize < MsgLen /\ sealed = FullChunk(k)
        \/ k \in Nat /\ EndsInChunk(k, MsgLen) /\ sealed = FinalChunk(k, MsgLen)

ASSUME FilesAssumption ==
    \A f \in Files :
        /\ f \in Seq(Cell) /\ \A i \in 1..Len(f) : Genuine(f[i])
        /\ Len(f) <= MaxInt64 - encChunkSize

VARIABLES
    file,           \* the cells of the source
    state,          \* "new", then "open", "failed" or, in make, "panicked"
    size, chunks,   \* fields of the DecryptReaderAt
    cache,          \* what the atomic pointer points at: [off, buf]
    heap,           \* the contents of the buffers
    pc, off0, want, off, buf, view, cacheUpdate, got, ret   \* of each caller

shared == <<file, state, size, chunks>>
vars == <<shared, cache, heap, pc, off0, want, off, buf, view, cacheUpdate, got, ret>>

(* A buffer holds cells read from the source or plaintext decrypted there. *)
Encrypted(cells) == [cells |-> cells, plain |-> <<>>]
Decrypted(plain) == [cells |-> <<>>, plain |-> plain]

NoUpdate == -1      \* the nil cacheUpdate; otherwise its chunk's offset

Init ==
    /\ file \in Files
    /\ state = "new"
    /\ size = 0 /\ chunks = 0
    /\ cache = [off |-> 0, buf |-> NoBuf]
    /\ heap = [b \in Bufs |-> Encrypted(<<>>)]
    /\ pc = [c \in Callers |-> "idle"]
    /\ off0 = [c \in Callers |-> 0]
    /\ want = [c \in Callers |-> 0]
    /\ off = [c \in Callers |-> 0]
    /\ buf = [c \in Callers |-> NoBuf]
    /\ view = [c \in Callers |-> NoBuf]
    /\ cacheUpdate = [c \in Callers |-> NoUpdate]
    /\ got = [c \in Callers |-> <<>>]
    /\ ret = [c \in Callers |-> "none"]

locals == <<pc, off0, want, off, buf, view, cacheUpdate, got, ret>>
-----------------------------------------------------------------------------
(* What the source holds of n bytes at offset o: fewer if it ends there.   *)
Stored(o, n) == SubSeq(file, o + 1, Lesser(o + n, Len(file)))

(* NewDecryptReaderAt fails: the size is none a payload has, the final     *)
(* chunk cannot be read (an EOF that comes with its last byte counts as a  *)
(* failure here), or it does not open.                                     *)
NewFails ==
    /\ state = "new"
    /\ state' = "failed"
    /\ UNCHANGED <<file, size, chunks, cache, heap, locals>>

finalChunkOff(n)      == Int64((n - 1) * encChunkSize)
finalChunkSize(sz, n) == Int64(sz - finalChunkOff(n))

(* A size far below zero, or so large that its sum with a chunk overflows, *)
(* can pass for one of n chunks, and then make is asked for a buffer of    *)
(* negative length.                                                        *)
NewPanics(sz) ==
    LET count == EncryptedChunkCount(sz)
    IN  /\ state = "new"
        /\ count.ok /\ finalChunkSize(sz, count.chunks) < 0
        /\ state' = "panicked"
        /\ UNCHANGED <<file, size, chunks, cache, heap, locals>>

FinalChunkOpensUnflagged(sz, n) ==          \* Mutant: any chunk may be the final
    /\ finalChunkOff(n) >= 0
    /\ Opens(nonceForChunk(n - 1), Stored(finalChunkOff(n), finalChunkSize(sz, n)))

(* The source refuses to read at a negative offset. *)
FinalChunkOpens(sz, n) ==
    LET cells == Stored(finalChunkOff(n), finalChunkSize(sz, n))
    IN  /\ finalChunkOff(n) >= 0
        /\ Len(cells) = finalChunkSize(sz, n)
        /\ Opens(setLastChunkFlag(nonceForChunk(n - 1)), cells)

New(sz) ==
    LET count == EncryptedChunkCount(sz)
        o     == finalChunkOff(count.chunks)
    IN  /\ state = "new"
        /\ count.ok /\ FinalChunkOpens(sz, count.chunks)
        /\ state' = "open"
        /\ size' = plaintextFor(sz, count.chunks)
        /\ chunks' = count.chunks
        /\ \E b \in Bufs :
              /\ heap' = [heap EXCEPT ![b] =
                    Decrypted(Plaintext(Stored(o, finalChunkSize(sz, count.chunks))))]
              /\ cache' = [off |-> o, buf |-> b]
        /\ UNCHANGED <<file, locals>>

(* The file is damaged, cut or put back, by whoever owns it. *)
Rewrite ==
    /\ file' \in Files \ {file}
    /\ UNCHANGED <<state, size, chunks, cache, heap, locals>>
-----------------------------------------------------------------------------
(* A buffer nobody refers to: freshly allocated, or collected. *)
Fresh(b) == b # cache.buf /\ \A c \in Callers : b # buf[c] /\ b # view[c]

(* The loop of ReadAt goes on, or ends and stores. *)
Loop(n, wanted, at) == IF n < wanted /\ at < size THEN "load" ELSE "store"

inRangeOffByOne(o) == o \in 0..size + 1     \* Mutant

inRange(o) == o \in 0..size

(* ReadAt(p, o) with len(p) = n. *)
CallRefused(c, o, n) ==
    /\ pc[c] = "idle" /\ state = "open"
    /\ ~inRange(o) \/ n = 0
    /\ off0' = [off0 EXCEPT ![c] = o]
    /\ want' = [want EXCEPT ![c] = n]
    /\ off' = [off EXCEPT ![c] = o]
    /\ got' = [got EXCEPT ![c] = <<>>]
    /\ ret' = [ret EXCEPT ![c] = IF inRange(o) THEN "nil" ELSE "range"]
    /\ UNCHANGED <<shared, cache, heap, pc, buf, view, cacheUpdate>>

Call(c, o, n) ==
    /\ pc[c] = "idle" /\ state = "open"
    /\ inRange(o) /\ n > 0
    /\ \E b \in Bufs :
          /\ Fresh(b)
          /\ buf' = [buf EXCEPT ![c] = b]
          /\ heap' = [heap EXCEPT ![b] = Encrypted(<<>>)]
    /\ off0' = [off0 EXCEPT ![c] = o]
    /\ want' = [want EXCEPT ![c] = n]
    /\ off' = [off EXCEPT ![c] = o]
    /\ got' = [got EXCEPT ![c] = <<>>]
    /\ ret' = [ret EXCEPT ![c] = "none"]
    /\ pc' = [pc EXCEPT ![c] = Loop(0, n, o)]
    /\ UNCHANGED <<shared, cache, view, cacheUpdate>>

chunkIndexEnc(c) == off[c] \div encChunkSize        \* Mutant: the wrong unit

chunkIndex(c) == off[c] \div ChunkSize
chunkOff(c)   == chunkIndex(c) * encChunkSize
chunkSize(c)  == Lesser(size + chunks * Overhead - chunkOff(c), encChunkSize)

(* Look at the cache; a hit drops the update of an earlier turn. *)
Hit(c) ==
    /\ pc[c] = "load" /\ cache.off = chunkOff(c)
    /\ view' = [view EXCEPT ![c] = cache.buf]
    /\ cacheUpdate' = [cacheUpdate EXCEPT ![c] = NoUpdate]
    /\ pc' = [pc EXCEPT ![c] = "copy"]
    /\ UNCHANGED <<shared, cache, heap, off0, want, off, buf, got, ret>>

Miss(c) ==
    /\ pc[c] = "load" /\ cache.off # chunkOff(c)
    /\ pc' = [pc EXCEPT ![c] = "read"]
    /\ UNCHANGED <<shared, cache, heap, off0, want, off, buf, view, cacheUpdate, got, ret>>

(* The call ends; its local variables are gone. *)
Return(c, e) ==
    /\ ret' = [ret EXCEPT ![c] = e]
    /\ pc' = [pc EXCEPT ![c] = "idle"]
    /\ buf' = [buf EXCEPT ![c] = NoBuf]
    /\ view' = [view EXCEPT ![c] = NoBuf]
    /\ cacheUpdate' = [cacheUpdate EXCEPT ![c] = NoUpdate]
    /\ UNCHANGED <<off0, want, off, got>>

(* The chunk is read whole: an EOF that comes with its last byte is fine.  *)
Read(c) ==
    LET cells == Stored(chunkOff(c), chunkSize(c))
    IN  /\ pc[c] = "read" /\ Len(cells) = chunkSize(c)
        /\ heap' = [heap EXCEPT ![buf[c]] = Encrypted(cells)]
        /\ pc' = [pc EXCEPT ![c] = "open"]
        /\ UNCHANGED <<shared, cache, off0, want, off, buf, view, cacheUpdate, got, ret>>

(* The source is too short or fails, having filled part of the buffer.     *)
ReadFails(c) ==
    /\ pc[c] = "read"
    /\ heap' = [heap EXCEPT ![buf[c]] = Encrypted(<<>>)]
    /\ Return(c, "source")
    /\ UNCHANGED <<shared, cache>>

chunkNonceUnflagged(c) == nonceForChunk(chunkIndex(c))  \* Mutant: no last chunk

chunkNonce(c) ==
    IF chunkIndex(c) = chunks - 1
       THEN setLastChunkFlag(nonceForChunk(chunkIndex(c)))
       ELSE nonceForChunk(chunkIndex(c))

OpenPublishes(c) ==                 \* Mutant: cached before the call is done
    LET cells == heap[buf[c]].cells
    IN  /\ pc[c] = "open" /\ Opens(chunkNonce(c), cells)
        /\ heap' = [heap EXCEPT ![buf[c]] = Decrypted(Plaintext(cells))]
        /\ view' = [view EXCEPT ![c] = buf[c]]
        /\ cache' = [off |-> chunkOff(c), buf |-> buf[c]]
        /\ pc' = [pc EXCEPT ![c] = "copy"]
        /\ UNCHANGED <<shared, off0, want, off, buf, cacheUpdate, got, ret>>

(* Decryption happens in place. *)
Open(c) ==
    LET cells == heap[buf[c]].cells
    IN  /\ pc[c] = "open" /\ Opens(chunkNonce(c), cells)
        /\ heap' = [heap EXCEPT ![buf[c]] = Decrypted(Plaintext(cells))]
        /\ view' = [view EXCEPT ![c] = buf[c]]
        /\ cacheUpdate' = [cacheUpdate EXCEPT ![c] = chunkOff(c)]
        /\ pc' = [pc EXCEPT ![c] = "copy"]
        /\ UNCHANGED <<shared, cache, off0, want, off, buf, got, ret>>

OpenFails(c) ==
    /\ pc[c] = "open" /\ ~Opens(chunkNonce(c), heap[buf[c]].cells)
    /\ Return(c, "auth")
    /\ UNCHANGED <<shared, cache, heap>>

plainChunkOff(c) == off[c] - chunkIndex(c) * ChunkSize
copySize(c) ==
    Lesser(Len(heap[view[c]].plain) - plainChunkOff(c), want[c] - Len(got[c]))

Copy(c) ==
    LET from == plainChunkOff(c)
        n    == copySize(c)
    IN  /\ pc[c] = "copy"
        /\ got' = [got EXCEPT ![c] = @ \o SubSeq(heap[view[c]].plain, from + 1, from + n)]
        /\ off' = [off EXCEPT ![c] = @ + n]
        /\ view' = [view EXCEPT ![c] = NoBuf]
        /\ pc' = [pc EXCEPT ![c] = Loop(Len(got[c]) + n, want[c], off[c] + n)]
        /\ UNCHANGED <<shared, cache, heap, off0, want, buf, cacheUpdate, ret>>

resultNil(c) == "nil"               \* Mutant: the end is not reported

result(c) == IF off[c] = size THEN "EOF" ELSE "nil"

(* Publish the chunk decrypted last, and return. *)
Store(c) ==
    /\ pc[c] = "store"
    /\ cache' = IF cacheUpdate[c] = NoUpdate THEN cache
                ELSE [off |-> cacheUpdate[c], buf |-> buf[c]]
    /\ Return(c, result(c))
    /\ UNCHANGED <<shared, heap>>

Step(c) ==
    \/ Hit(c) \/ Miss(c)
    \/ Read(c) \/ ReadFails(c) \/ Open(c) \/ OpenFails(c)
    \/ Copy(c) \/ Store(c)

Next ==
    \/ NewFails
    \/ \E sz \in Sizes : New(sz) \/ NewPanics(sz)
    \/ Rewrite
    \/ \E c \in Callers :
          \/ \E r \in Requests : CallRefused(c, r[1], r[2]) \/ Call(c, r[1], r[2])
          \/ Step(c)

Spec == Init /\ [][Next]_vars
-----------------------------------------------------------------------------
Running(c) == pc[c] # "idle"

(* The plaintext of the chunk that starts at offset o of the file. *)
ChunkData(o) ==
    LET k == o \div encChunkSize
    IN  Bytes(k * ChunkSize, Lesser((k + 1) * ChunkSize, MsgLen))

TypeOK ==
    /\ file \in Files
    /\ state \in {"new", "open", "failed", "panicked"}
    /\ state = "open" => cache.buf \in Bufs
    /\ \A c \in Callers : Running(c) =>
          state = "open" /\ off[c] \in 0..size /\ buf[c] \in Bufs
    /\ size \in Nat /\ chunks \in Nat
    /\ cache \in [off : Nat, buf : Bufs \cup {NoBuf}]
    /\ heap \in [Bufs -> [cells : Seq(Cell), plain : Seq(Nat)]]
    /\ pc \in [Callers -> {"idle", "load", "read", "open", "copy", "store"}]
    /\ off0 \in [Callers -> Int] /\ off \in [Callers -> Int]
    /\ want \in [Callers -> Nat]
    /\ buf \in [Callers -> Bufs \cup {NoBuf}]
    /\ view \in [Callers -> Bufs \cup {NoBuf}]
    /\ cacheUpdate \in [Callers -> Nat \cup {NoUpdate}]
    /\ got \in [Callers -> Seq(Nat)]
    /\ ret \in [Callers -> {"none", "nil", "EOF", "range", "source", "auth"}]

(* A reader that could be opened knows the true length of the message.     *)
OpenedIsGenuine ==
    state = "open" => size = MsgLen /\ chunks = ChunkCount(MsgLen)

(* Whoever looks at the cache finds the plaintext of the chunk it names,   *)
(* whatever the callers are doing with their buffers.                      *)
CacheCoherent ==
    state = "open" => heap[cache.buf].plain = ChunkData(cache.off)

(* The buffer a call writes to is its own: neither the cache nor another   *)
(* call is looking at it.                                                  *)
NoRace ==
    \A c \in Callers : Running(c) =>
        /\ buf[c] # cache.buf
        /\ \A d \in Callers \ {c} : buf[c] # buf[d] /\ buf[c] # view[d]

(* What a call has copied is the message from its offset on, also when the *)
(* file is damaged under it or the call ends in an error.                  *)
ReadsMessage ==
    \A c \in Callers : got[c] = Bytes(off0[c], off0[c] + Len(got[c]))

(* The contract of io.ReaderAt: a call that returns less than it was asked *)
(* for says why, and EOF means the end of the message and nothing else.    *)
Contract ==
    \A c \in Callers : ~Running(c) /\ ret[c] # "none" =>
        /\ Len(got[c]) <= want[c]
        /\ ret[c] = "nil" => Len(got[c]) = want[c]
        /\ ret[c] = "EOF" => off0[c] + Len(got[c]) = MsgLen
        /\ want[c] > 0 /\ off0[c] + Len(got[c]) = MsgLen => ret[c] # "nil"

(* The states of a call that make the above hold step by step: what it is  *)
(* about to copy and to publish is the plaintext of the chunk it is at,    *)
(* what it is about to open came from the file, and off keeps count.       *)
LocalRight(c) ==
    /\ Len(got[c]) <= want[c]
    /\ Running(c) => off[c] = off0[c] + Len(got[c]) /\ want[c] > 0
    /\ ~Running(c) =>
          buf[c] = NoBuf /\ view[c] = NoBuf /\ cacheUpdate[c] = NoUpdate
    /\ pc[c] \in {"load", "read", "open", "copy"} =>
          Len(got[c]) < want[c] /\ off[c] < size
    /\ pc[c] = "store" => Len(got[c]) = want[c] \/ off[c] = size
    /\ pc[c] = "open" =>
          \A i \in 1..Len(heap[buf[c]].cells) : Genuine(heap[buf[c]].cells[i])
    /\ pc[c] = "copy" =>
          view[c] \in Bufs /\ heap[view[c]].plain = ChunkData(chunkOff(c))
    /\ pc[c] \in {"load", "copy", "store"} /\ cacheUpdate[c] # NoUpdate =>
          heap[buf[c]].plain = ChunkData(cacheUpdate[c])

LocalsRight == \A c \in Callers : LocalRight(c)

(* Every turn of the loop copies something: it neither spins nor slices a  *)
(* chunk past its end.                                                     *)
Advances == \A c \in Callers : pc[c] = "copy" => copySize(c) >= 1

(* An intact file reads: its own size opens it, its chunks are where a     *)
(* call looks for them, and each opens once it is in the call's buffer.    *)
IntactReads ==
    LET intact   == IsCiphertext(file, MsgLen)
        count    == EncryptedChunkCount(Len(file))
        chunk(c) == Cells(ChunksOf(MsgLen)[chunkIndex(c) + 1])
    IN  /\ state = "new" /\ intact =>
              count.ok /\ FinalChunkOpens(Len(file), count.chunks)
        /\ \A c \in Callers :
              /\ pc[c] = "read" /\ intact =>
                    /\ Len(Stored(chunkOff(c), chunkSize(c))) = chunkSize(c)
                    /\ Stored(chunkOff(c), chunkSize(c)) = chunk(c)
              /\ pc[c] = "open" /\ heap[buf[c]].cells = chunk(c) =>
                    Opens(chunkNonce(c), heap[buf[c]].cells)

(* Of the sizes the constructor may be asked to check, those whose sum     *)
(* with a chunk overflows aside, EncryptedChunkCount and PlaintextSize     *)
(* accept those of encrypted payloads and no others, and undo them.        *)
SizesInvert == state = "new" => \A sz \in 0..MaxInt64 - encChunkSize : SizeInverts(sz)

(* Nonces that are numbers in the model are bytes in the code, which tell  *)
(* the same numbers apart.                                                 *)
NoncesCount == state = "new" => Bytewise!NumbersChunks
=============================================================================
