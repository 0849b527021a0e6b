------------------------ MODULE DecryptReaderAtProofs ------------------------
(***************************************************************************)
(* Proofs about DecryptReaderAt, for any number of callers, any file made  *)
(* of the message's chunks and junk, every chunk size and every message:   *)
(* no buffer is shared while it is written, the cache is what it says, and *)
(* a call returns the message from its offset on.  At the end, what the    *)
(* sizes and the bytes of the nonces promise, as arithmetic.               *)
(***************************************************************************)
EXTENDS DecryptReaderAt, FormatProofs, FiniteSetTheorems

USE ChunkSizeAssumption, OverheadAssumption, MsgLenAssumption

(* The inductive invariant: what the runs check, and what a call's locals  *)
(* hold at each of its steps.                                              *)
Inv ==
    /\ TypeOK
    /\ OpenedIsGenuine
    /\ CacheCoherent
    /\ NoRace
    /\ ReadsMessage
    /\ Contract
    /\ LocalsRight
-----------------------------------------------------------------------------
LEMMA ChunkOfOffset ==
    ASSUME NEW o \in Nat
    PROVE  /\ o \div ChunkSize \in Nat
           /\ (o \div ChunkSize) * ChunkSize <= o
           /\ o < ((o \div ChunkSize) + 1) * ChunkSize
BY DivFacts

LEMMA IndexOfChunk ==
    ASSUME NEW k \in Nat
    PROVE  k * encChunkSize \in Nat /\ (k * encChunkSize) \div encChunkSize = k
<1>1. encChunkSize \in Nat \ {0}
  BY DEF encChunkSize
<1>2. k * encChunkSize \in Nat /\ k * encChunkSize < (k + 1) * encChunkSize
  BY <1>1
<1> QED
  BY <1>1, <1>2, DivUnique

(* Cells of the file that open under a nonce are the message's chunk of    *)
(* that number, the last one if the nonce is flagged.                      *)
LEMMA OpenedChunk ==
    ASSUME NEW cells \in Seq(Cell), \A i \in 1..Len(cells) : Genuine(cells[i]),
           NEW k \in Nat, NEW last \in BOOLEAN,
           Opens([ctr |-> k, last |-> last], cells)
    PROVE  /\ Plaintext(cells) \in Seq(Nat)
           /\ Len(cells) = Len(Plaintext(cells)) + Overhead
           /\ last => /\ EndsInChunk(k, MsgLen)
                      /\ Plaintext(cells) = Bytes(k * ChunkSize, MsgLen)
           /\ ~last => /\ (k + 1) * ChunkSize < MsgLen
                       /\ Plaintext(cells) = Bytes(k * ChunkSize, (k + 1) * ChunkSize)
<1> DEFINE chunk == cells[1].chunk
<1>1. /\ cells # <<>> /\ cells = Cells(chunk)
      /\ chunk.nonce = [ctr |-> k, last |-> last]
  BY DEF Opens
<1>2. 1 \in 1..Len(cells) /\ cells[1] \in Cell
  BY <1>1
<1>3. chunk.data \in Seq(Nat)
  BY <1>2 DEF Cell
<1>4. Len(Cells(chunk)) = Len(chunk.data) + Overhead
  BY <1>3 DEF Cells
<1>5. Genuine(cells[1])
  BY <1>2
<1>6. chunk.nonce.ctr = k
  BY <1>1
<1>7. \/ (k + 1) * ChunkSize < MsgLen /\ chunk = FullChunk(k)
      \/ EndsInChunk(k, MsgLen) /\ chunk = FinalChunk(k, MsgLen)
  BY <1>5, <1>6 DEF Genuine
<1>8. /\ FullChunk(k).nonce.last = FALSE
      /\ FullChunk(k).data = Bytes(k * ChunkSize, (k + 1) * ChunkSize)
      /\ FinalChunk(k, MsgLen).nonce.last = TRUE
      /\ FinalChunk(k, MsgLen).data = Bytes(k * ChunkSize, MsgLen)
  BY DEF FullChunk, FinalChunk, Seal, nonceForChunk, setLastChunkFlag
<1>9. chunk.nonce.last = last
  BY <1>1
<1>10. Plaintext(cells) = chunk.data
  BY DEF Plaintext
<1> HIDE DEF chunk
<1> QED
  BY <1>1, <1>3, <1>4, <1>7, <1>8, <1>9, <1>10

(* What is read of a file made of genuine cells is genuine.                *)
LEMMA StoredGenuine ==
    ASSUME file \in Files, NEW o \in Nat, NEW n \in Int
    PROVE  /\ Stored(o, n) \in Seq(Cell)
           /\ \A i \in 1..Len(Stored(o, n)) : Genuine(Stored(o, n)[i])
<1>1. file \in Seq(Cell) /\ \A i \in 1..Len(file) : Genuine(file[i])
  BY FilesAssumption
<1> DEFINE m == Lesser(o + n, Len(file))
<1>2. m \in Int /\ m <= Len(file) /\ Len(file) \in Nat
  BY <1>1 DEF Lesser
<1> HIDE DEF m
<1>3. /\ SubSeq(file, o + 1, m) \in Seq(Cell)
      /\ \A i \in 1..Len(SubSeq(file, o + 1, m)) :
            o + i \in 1..Len(file) /\ SubSeq(file, o + 1, m)[i] = file[o + i]
  BY <1>1, <1>2
<1>4. Stored(o, n) = SubSeq(file, o + 1, m)
  BY DEF Stored, m
<1> QED
  BY <1>1, <1>3, <1>4
-----------------------------------------------------------------------------
(* What wraps in an int64 is off by a multiple of 2^64.                    *)
LEMMA Int64Congruent ==
    ASSUME NEW x \in Int
    PROVE  /\ Int64(x) \in int64
           /\ \E k \in Int : Int64(x) = x + k * (2 * (MaxInt64 + 1))
<1> DEFINE w == 2 * (MaxInt64 + 1)
           y == x + MaxInt64 + 1
<1>1. MaxInt64 \in Nat /\ w \in Nat \ {0} /\ y \in Int
  BY MaxInt64Assumption
<1>2. CASE x \in int64
  <2>1. Int64(x) = x
    BY <1>2 DEF Int64
  <2>2. x = x + 0 * w
    BY <1>1
  <2>3. \E k \in Int : Int64(x) = x + k * w
    <3> HIDE DEF w
    <3> QED
      BY <2>1, <2>2
  <2> QED
    BY <1>2, <2>1, <2>3
<1>3. CASE x \notin int64
  <2>1. Int64(x) = (y % w) - (MaxInt64 + 1)
    BY <1>3 DEF Int64
  <2> HIDE DEF y
  <2>2. PICK q \in Int : y % w = y + q * w /\ y % w \in 0..(w - 1)
    <3> HIDE DEF w
    <3>1. /\ y % w \in 0..(w - 1) /\ y \div w \in Int
          /\ y = w * (y \div w) + (y % w)
      BY <1>1, SMT
    <3>2. /\ -(y \div w) \in Int
          /\ y % w = y + (-(y \div w)) * w
      BY <1>1, <3>1
    <3> QED
      BY <3>1, <3>2
  <2>3. Int64(x) = x + q * w
    BY <1>1, <2>1, <2>2 DEF y
  <2>4. Int64(x) \in int64
    BY <1>1, <2>1, <2>2 DEF int64
  <2> QED
    BY <2>2, <2>3, <2>4
<1> QED
  BY <1>2, <1>3

LEMMA Int64Same ==
    ASSUME NEW x \in 0..MaxInt64
    PROVE  Int64(x) = x
BY MaxInt64Assumption DEF Int64, int64

(* Every size has a count, below zero perhaps.                             *)
LEMMA CountInteger ==
    ASSUME NEW sz \in int64
    PROVE  chunksFor(sz) \in Int
<1>1. encChunkSize \in Nat \ {0} /\ MaxInt64 \in Nat
  BY MaxInt64Assumption DEF encChunkSize
<1> DEFINE a == Int64(sz + encChunkSize - 1)
<1>2. a \in Int
  BY <1>1, Int64Congruent DEF int64
<1> HIDE DEF a
<1>3. CASE a >= 0
  <2>1. a \in Nat
    BY <1>2, <1>3
  <2>2. a \div encChunkSize \in Nat
    BY <1>1, <2>1, DivFacts
  <2>3. GoDiv(a, encChunkSize) \in Int
    BY <1>3, <2>2 DEF GoDiv
  <2> QED
    BY <2>3 DEF chunksFor, a
<1>4. CASE ~(a >= 0)
  <2>1. -a \in Nat
    BY <1>2, <1>4
  <2>2. (-a) \div encChunkSize \in Nat
    BY <1>1, <2>1, DivFacts
  <2>3. GoDiv(a, encChunkSize) \in Int
    BY <1>4, <2>2 DEF GoDiv
  <2> QED
    BY <2>3 DEF chunksFor, a
<1> QED
  BY <1>3, <1>4

(* A size that passes and whose sum with a chunk is an int64 has a chunk,  *)
(* the last of which begins before its end.                                *)
LEMMA CountPositive ==
    ASSUME NEW sz \in 0..(MaxInt64 - encChunkSize), EncryptedChunkCount(sz).ok,
           NEW n, n = EncryptedChunkCount(sz).chunks
    PROVE  /\ n \in Nat \ {0}
           /\ finalChunkOff(n) = (n - 1) * encChunkSize
<1>1. encChunkSize \in Nat \ {0} /\ MaxInt64 \in Nat /\ encChunkSize < MaxInt64
  BY MaxInt64Assumption DEF encChunkSize
<1>2. /\ sz \in Nat /\ sz <= MaxInt64
      /\ sz + encChunkSize - 1 \in 0..MaxInt64 /\ sz + encChunkSize - 1 \in Nat
  BY <1>1
<1>3. n = chunksFor(sz) /\ expChunks(plaintextFor(sz, n)) = n
  BY DEF EncryptedChunkCount
<1>4. n = (sz + encChunkSize - 1) \div encChunkSize
  BY <1>1, <1>2, <1>3, Int64Same DEF chunksFor, GoDiv
<1>5. /\ n \in Nat
      /\ n * encChunkSize <= sz + encChunkSize - 1
      /\ sz + encChunkSize - 1 < (n + 1) * encChunkSize
  BY <1>1, <1>2, <1>4, DivFacts
<1>6. n # 0
  <2> SUFFICES ASSUME n = 0 PROVE FALSE
    OBVIOUS
  <2>1. sz = 0
    BY <1>1, <1>2, <1>5
  <2>2. plaintextFor(sz, n) = 0
    BY <1>1, <2>1, Int64Same DEF plaintextFor
  <2>3. expChunks(0) = 1
    BY DEF expChunks
  <2> QED
    BY <1>3, <2>2, <2>3
<1>7. /\ (n - 1) * encChunkSize = n * encChunkSize - encChunkSize
      /\ (n - 1) * encChunkSize \in Nat
  BY <1>1, <1>5, <1>6
<1>8. (n - 1) * encChunkSize \in 0..MaxInt64
  BY <1>1, <1>2, <1>5, <1>7
<1> QED
  BY <1>5, <1>6, <1>8, Int64Same DEF finalChunkOff

(* Where the bytes asked for were read, the file holds as many as the size *)
(* says, so that no sum in the computation of the size wrapped.            *)
LEMMA NewInRange ==
    ASSUME file \in Files, NEW sz \in int64, NEW n \in Int, FinalChunkOpens(sz, n)
    PROVE  /\ sz \in 0..(MaxInt64 - encChunkSize)
           /\ finalChunkSize(sz, n) = sz - finalChunkOff(n)
<1> DEFINE o == finalChunkOff(n)
           m == finalChunkSize(sz, n)
           w == 2 * (MaxInt64 + 1)
<1>1. encChunkSize \in Nat \ {0} /\ MaxInt64 \in Nat
  BY MaxInt64Assumption DEF encChunkSize
<1>2. /\ file \in Seq(Cell) /\ Len(file) \in Nat
      /\ Len(file) <= MaxInt64 - encChunkSize
  BY FilesAssumption
<1>3. o \in Int /\ o >= 0
  BY <1>1, Int64Congruent DEF finalChunkOff, FinalChunkOpens, int64
<1>4. PICK k \in Int : m = sz - o + k * w
  <2>1. sz - o \in Int
    BY <1>1, <1>3 DEF int64
  <2> HIDE DEF o
  <2> QED
    BY <2>1, Int64Congruent DEF finalChunkSize, o
<1>5. m \in int64
  <2>1. sz - o \in Int
    BY <1>1, <1>3 DEF int64
  <2> HIDE DEF o
  <2> QED
    BY <2>1, Int64Congruent DEF finalChunkSize, o
<1> DEFINE cells == Stored(o, m)
<1>6. Len(cells) = m /\ cells # <<>> /\ (cells = <<>> => m = 0)
  BY DEF FinalChunkOpens, Opens
<1>7. cells = SubSeq(file, o + 1, Lesser(o + m, Len(file)))
  BY DEF Stored
<1> HIDE DEF o, m
<1>8. Lesser(o + m, Len(file)) \in Int /\ Lesser(o + m, Len(file)) <= Len(file)
  BY <1>1, <1>2, <1>3, <1>5 DEF Lesser, int64
<1>9. m > 0 /\ Lesser(o + m, Len(file)) = o + m
  <2>1. m \in Int
    BY <1>1, <1>5 DEF int64
  <2> DEFINE hi == Lesser(o + m, Len(file))
  <2>2. /\ hi >= o + 1 => Len(SubSeq(file, o + 1, hi)) = hi - o
        /\ hi < o + 1 => SubSeq(file, o + 1, hi) = <<>>
    <3> HIDE DEF hi
    <3>1. hi \in Int /\ hi <= Len(file)
      BY <1>8 DEF hi
    <3> QED
      BY <1>2, <1>3, <3>1
  <2> HIDE DEF hi
  <2>3. hi \in Int /\ hi >= o + 1 /\ m = hi - o
    <3>1. hi \in Int /\ cells = SubSeq(file, o + 1, hi)
      BY <1>7, <1>8 DEF hi
    <3> HIDE DEF cells
    <3> QED
      BY <1>3, <1>6, <2>2, <3>1
  <2> QED
    BY <1>3, <2>1, <2>3 DEF hi
<1>10. o + m <= Len(file)
  BY <1>8, <1>9
<1>11. k = 0
  <2>1. o + m - sz = k * w
    BY <1>1, <1>3, <1>4, <1>5 DEF int64
  <2>2. o + m - sz < w /\ -w < o + m - sz
    <3>1. /\ sz \in Int /\ m \in Int
          /\ -(MaxInt64 + 1) <= sz /\ sz <= MaxInt64
      BY <1>1, <1>5 DEF int64
    <3>2. 0 < o + m /\ o + m <= MaxInt64
      BY <1>1, <1>2, <1>3, <1>9, <1>10, <3>1
    <3> QED
      BY <1>1, <1>3, <3>1, <3>2
  <2>3. w \in Nat \ {0}
    BY <1>1
  <2> HIDE DEF w
  <2>4. k >= 1 => k * w >= w
    BY <2>3
  <2>5. k <= -1 => k * w <= -w
    BY <2>3
  <2> QED
    BY <1>1, <1>3, <1>5, <2>1, <2>2, <2>3, <2>4, <2>5 DEF int64
<1>12. m = sz - o
  BY <1>1, <1>3, <1>4, <1>11 DEF int64
<1>13. sz \in Int /\ sz = o + m
  BY <1>1, <1>3, <1>12 DEF int64
<1> QED
  BY <1>1, <1>2, <1>3, <1>9, <1>10, <1>12, <1>13 DEF o, m

(* What the constructor caches is the message's last chunk, and it has the *)
(* message's size.                                                         *)
LEMMA NewGenuine ==
    ASSUME file \in Files, NEW sz \in Sizes, EncryptedChunkCount(sz).ok,
           NEW n, n = EncryptedChunkCount(sz).chunks,
           FinalChunkOpens(sz, n)
    PROVE  LET plain == Plaintext(Stored(finalChunkOff(n), finalChunkSize(sz, n)))
           IN  /\ finalChunkOff(n) \in Nat
               /\ plain \in Seq(Nat)
               /\ plain = ChunkData(finalChunkOff(n))
               /\ plaintextFor(sz, n) = MsgLen
               /\ n = ChunkCount(MsgLen) /\ n \in Nat
<1> DEFINE k     == n - 1
           o     == k * encChunkSize
           cells == Stored(o, sz - o)
           plain == Plaintext(cells)
<1>0. /\ sz \in 0..(MaxInt64 - encChunkSize)
      /\ finalChunkSize(sz, n) = sz - finalChunkOff(n)
  <2>1. sz \in int64
    BY SizesAssumption
  <2>2. n \in Int
    BY <2>1, CountInteger DEF EncryptedChunkCount
  <2> QED
    BY <2>1, <2>2, NewInRange
<1>1. /\ sz \in Nat /\ k \in Nat /\ n = k + 1 /\ n \in Nat
      /\ finalChunkOff(n) = o /\ finalChunkSize(sz, n) = sz - o
  <2>1. MaxInt64 \in Nat /\ encChunkSize \in Nat
    BY MaxInt64Assumption DEF encChunkSize
  <2> QED
    BY <1>0, <2>1, CountPositive
<1>2. o \in Nat /\ o \div encChunkSize = k /\ sz - o \in Int
  BY <1>1, IndexOfChunk
<1>3. /\ Len(cells) = sz - o
      /\ Opens([ctr |-> k, last |-> TRUE], cells)
  BY <1>1 DEF FinalChunkOpens, nonceForChunk, setLastChunkFlag
<1>4. /\ cells \in Seq(Cell)
      /\ \A i \in 1..Len(cells) : Genuine(cells[i])
  <2> HIDE DEF o
  <2> QED
    BY <1>2, StoredGenuine
<1>5. /\ plain \in Seq(Nat)
      /\ Len(cells) = Len(plain) + Overhead
      /\ EndsInChunk(k, MsgLen)
      /\ plain = Bytes(k * ChunkSize, MsgLen)
  <2> HIDE DEF cells
  <2> QED
    BY <1>1, <1>3, <1>4, OpenedChunk
<1>6. /\ k * ChunkSize \in Nat /\ k * ChunkSize <= MsgLen
      /\ MsgLen <= (k + 1) * ChunkSize /\ (k + 1) * ChunkSize \in Nat
  <2>1. k \in Nat /\ EndsInChunk(k, MsgLen)
    BY <1>1, <1>5
  <2> HIDE DEF k
  <2> QED
    BY <2>1 DEF EndsInChunk
<1>7. Len(plain) = MsgLen - k * ChunkSize
  BY <1>5, <1>6, BytesType
<1>8. sz - (k + 1) * Overhead = MsgLen
  <2> DEFINE kc == k * ChunkSize
             ko == k * Overhead
  <2>1. o = kc + ko /\ kc \in Nat /\ ko \in Nat
    BY <1>1 DEF encChunkSize
  <2>2. (k + 1) * Overhead = ko + Overhead
    BY <1>1
  <2>3. Len(cells) = sz - o /\ Len(cells) = (MsgLen - kc) + Overhead
    BY <1>3, <1>5, <1>7
  <2> HIDE DEF o, kc, ko, cells
  <2>4. sz - ko - Overhead = MsgLen
    BY <1>1, <2>1, <2>3
  <2> QED
    BY <1>1, <2>1, <2>2, <2>4
<1>9. plain = ChunkData(o)
  <2>1. Lesser((k + 1) * ChunkSize, MsgLen) = MsgLen
    BY <1>6 DEF Lesser
  <2> HIDE DEF o, plain
  <2> QED
    BY <1>2, <1>5, <2>1 DEF ChunkData
<1>10. ChunkCount(MsgLen) = k + 1
  BY <1>1, <1>5, CountOfLast
<1>11. plaintextFor(sz, n) = MsgLen
  <2>1. n * Overhead \in Nat /\ MsgLen \in Nat /\ sz - n * Overhead = MsgLen
    BY <1>1, <1>8
  <2>2. n * Overhead \in 0..MaxInt64 /\ MsgLen \in 0..MaxInt64
    BY <1>0, <1>1, <2>1, MaxInt64Assumption DEF encChunkSize
  <2> QED
    BY <2>1, <2>2, Int64Same DEF plaintextFor
<1>12. /\ Stored(finalChunkOff(n), finalChunkSize(sz, n)) = cells
      /\ finalChunkOff(n) = o
  BY <1>1
<1> HIDE DEF o, plain, cells, k
<1> QED
  BY <1>1, <1>2, <1>5, <1>9, <1>10, <1>11, <1>12 DEF plain
-----------------------------------------------------------------------------
(* Where a running call is in the message.                                 *)
LEMMA ChunkAt ==
    ASSUME Inv, NEW c \in Callers, Running(c),
           NEW k, k = chunkIndex(c), NEW hi, hi = Lesser((k + 1) * ChunkSize, MsgLen)
    PROVE  /\ k \in Nat /\ chunkOff(c) \in Nat
           /\ k * ChunkSize \in Nat /\ hi \in Nat
           /\ k * ChunkSize <= off[c]
           /\ off[c] < size => off[c] < hi
           /\ ChunkData(chunkOff(c)) = Bytes(k * ChunkSize, hi)
<1>1. off[c] \in Nat /\ size = MsgLen
  BY DEF Inv, TypeOK, OpenedIsGenuine
<1>2. k \in Nat /\ k * ChunkSize <= off[c] /\ off[c] < (k + 1) * ChunkSize
  BY <1>1, ChunkOfOffset DEF chunkIndex
<1>3. k * ChunkSize \in Nat /\ (k + 1) * ChunkSize \in Nat
  BY <1>2
<1>4. hi \in Nat /\ off[c] < size => off[c] < hi
  BY <1>1, <1>2, <1>3 DEF Lesser
<1>5. hi \in Nat
  BY <1>3 DEF Lesser
<1>6. chunkOff(c) = k * encChunkSize
  BY DEF chunkOff
<1>7. chunkOff(c) \in Nat /\ chunkOff(c) \div encChunkSize = k
  BY <1>2, <1>6, IndexOfChunk
<1>8. ChunkData(chunkOff(c)) = Bytes(k * ChunkSize, hi)
  BY <1>7 DEF ChunkData
<1> QED
  BY <1>1, <1>2, <1>3, <1>4, <1>5, <1>7, <1>8

(* What a call does not touch stays right.                                 *)
LEMMA Untouched ==
    ASSUME Inv, NEW d \in Callers, LocalRight(d),
           UNCHANGED <<size, chunks>>,
           UNCHANGED <<pc[d], off0[d], want[d], off[d], buf[d], view[d],
                       cacheUpdate[d], got[d]>>,
           Running(d) => heap'[buf[d]] = heap[buf[d]],
           view[d] \in Bufs => heap'[view[d]] = heap[view[d]]
    PROVE  LocalRight(d)'
<1>1. pc[d] = "copy" => chunkOff(d)' = chunkOff(d)
  BY DEF chunkOff, chunkIndex
<1>2. \A o : ChunkData(o)' = ChunkData(o)
  BY DEF ChunkData
<1> QED
  BY <1>1, <1>2 DEF LocalRight, Running

(* No race comes of a step in which one call moves a reference to a buffer  *)
(* of its own or of the cache, or lets go of it, or publishes its buffer    *)
(* and ends.                                                                *)
LEMMA OwnBuffers ==
    ASSUME NoRace, NEW c \in Callers, Running(c), NoBuf \notin Bufs,
           \A d \in Callers : Running(d) => buf[d] \in Bufs,
           \A d \in Callers \ {c} : pc'[d] = pc[d] /\ buf'[d] = buf[d] /\ view'[d] = view[d],
           cache'.buf \in {cache.buf, buf[c]},
           buf'[c] \in {buf[c], NoBuf},
           view'[c] \in {view[c], cache.buf, buf[c], NoBuf},
           Running(c)' => buf'[c] = buf[c] /\ cache'.buf = cache.buf
    PROVE  NoRace'
<1> SUFFICES ASSUME NEW d \in Callers, Running(d)'
             PROVE  /\ buf'[d] # cache'.buf
                    /\ \A e \in Callers \ {d} : buf'[d] # buf'[e] /\ buf'[d] # view'[e]
  BY DEF NoRace
<1>1. CASE d = c
  BY <1>1 DEF NoRace
<1>2. CASE d # c
  <2>1. Running(d) /\ buf'[d] = buf[d] /\ buf[d] \in Bufs
    BY <1>2 DEF Running
  <2>2. buf[d] # cache.buf /\ \A e \in Callers \ {d} : buf[d] # buf[e] /\ buf[d] # view[e]
    BY <2>1 DEF NoRace
  <2> QED
    BY <1>2, <2>1, <2>2
<1> QED
  BY <1>1, <1>2

LEMMA InitInv == Init => Inv
<1> SUFFICES ASSUME Init PROVE Inv
  OBVIOUS
<1>1. Bytes(0, 0) = <<>>
  BY BytesType
<1>2. TypeOK
  BY DEF Init, TypeOK, Running, Encrypted, NoUpdate
<1>3. OpenedIsGenuine /\ CacheCoherent /\ NoRace
  BY DEF Init, OpenedIsGenuine, CacheCoherent, NoRace, Running
<1>4. ReadsMessage /\ Contract
  BY <1>1 DEF Init, ReadsMessage, Contract
<1>5. LocalsRight
  BY DEF Init, LocalsRight, LocalRight, Running
<1> QED
  BY <1>2, <1>3, <1>4, <1>5 DEF Inv

(* The steps, one lemma each.                                              *)
LEMMA RewriteInv ==
    ASSUME Inv, NewFails \/ (\E sz \in Sizes : NewPanics(sz)) \/ Rewrite
    PROVE  Inv'
<1> USE DEF Inv
<1>1. /\ UNCHANGED <<size, chunks, cache, heap, locals>>
      /\ file' \in Files
      /\ \/ state' = state
         \/ state = "new" /\ state' \in {"failed", "panicked"}
  BY DEF NewFails, NewPanics, Rewrite, TypeOK
<1>2. TypeOK'
  BY <1>1 DEF TypeOK, Running, locals
<1>3. OpenedIsGenuine' /\ CacheCoherent' /\ NoRace' /\ ReadsMessage' /\ Contract'
  BY <1>1 DEF OpenedIsGenuine, CacheCoherent, NoRace, ReadsMessage, Contract,
              Running, locals, ChunkData
<1>4. LocalsRight'
  BY <1>1, Untouched DEF LocalsRight, locals
<1> QED
  BY <1>2, <1>3, <1>4

LEMMA NewInv ==
    ASSUME Inv, NEW sz \in Sizes, New(sz)
    PROVE  Inv'
<1> USE DEF Inv
<1> DEFINE n == EncryptedChunkCount(sz).chunks
           o == finalChunkOff(n)
           plain == Plaintext(Stored(o, finalChunkSize(sz, n)))
<1>1. /\ file \in Files /\ state = "new"
      /\ \A c \in Callers : ~Running(c)
  BY DEF New, TypeOK
<1>2. EncryptedChunkCount(sz).ok /\ FinalChunkOpens(sz, n)
  BY DEF New
<1>3. PICK b \in Bufs : /\ heap' = [heap EXCEPT ![b] = Decrypted(plain)]
                        /\ cache' = [off |-> o, buf |-> b]
  BY DEF New
<1>4. /\ state' = "open"
      /\ size' = plaintextFor(sz, n)
      /\ chunks' = n
      /\ UNCHANGED <<file, locals>>
  BY DEF New
<1> HIDE DEF n
<1>5. /\ o \in Nat /\ plain \in Seq(Nat) /\ plain = ChunkData(o)
      /\ size' = MsgLen
      /\ chunks' = ChunkCount(MsgLen) /\ chunks' \in Nat
  BY <1>1, <1>2, <1>4, NewGenuine DEF n
<1> HIDE DEF o, plain
<1>6. TypeOK'
  BY <1>1, <1>3, <1>4, <1>5 DEF TypeOK, Running, locals, Decrypted
<1>7. OpenedIsGenuine'
  BY <1>5 DEF OpenedIsGenuine
<1>8. CacheCoherent'
  BY <1>3, <1>5 DEF CacheCoherent, Decrypted, TypeOK, ChunkData
<1>9. NoRace' /\ ReadsMessage' /\ Contract'
  BY <1>1, <1>4 DEF NoRace, ReadsMessage, Contract, Running, locals
<1>10. LocalsRight'
  BY <1>1, <1>4 DEF LocalsRight, LocalRight, Running, locals
<1> QED
  BY <1>6, <1>7, <1>8, <1>9, <1>10

LEMMA CallRefusedInv ==
    ASSUME Inv, NEW c \in Callers, NEW o \in Int, NEW n \in Nat, CallRefused(c, o, n)
    PROVE  Inv'
<1> USE DEF Inv
<1>1. /\ pc[c] = "idle" /\ state = "open"
      /\ off0' = [off0 EXCEPT ![c] = o]
      /\ want' = [want EXCEPT ![c] = n]
      /\ off' = [off EXCEPT ![c] = o]
      /\ got' = [got EXCEPT ![c] = <<>>]
      /\ ret' = [ret EXCEPT ![c] = IF inRange(o) THEN "nil" ELSE "range"]
      /\ inRange(o) => n = 0
      /\ UNCHANGED <<shared, cache, heap, pc, buf, view, cacheUpdate>>
  BY DEF CallRefused
<1>2. TypeOK'
  <2>1. /\ off0' \in [Callers -> Int] /\ off' \in [Callers -> Int]
        /\ want' \in [Callers -> Nat] /\ got' \in [Callers -> Seq(Nat)]
        /\ ret' \in [Callers -> {"none", "nil", "EOF", "range", "source", "auth"}]
    BY <1>1 DEF TypeOK
  <2>2. \A d \in Callers : Running(d)' =>
            /\ Running(d) /\ d # c /\ off'[d] = off[d] /\ buf'[d] = buf[d]
    BY <1>1 DEF TypeOK, Running
  <2>3. UNCHANGED <<file, state, size, chunks, cache, heap, pc, buf, view, cacheUpdate>>
    BY <1>1 DEF shared
  <2>4. \A d \in Callers : Running(d)' =>
            state' = "open" /\ off'[d] \in 0..size' /\ buf'[d] \in Bufs
    BY <2>2, <2>3 DEF TypeOK
  <2> QED
    BY <2>1, <2>3, <2>4 DEF TypeOK
<1>3. OpenedIsGenuine' /\ CacheCoherent' /\ NoRace'
  BY <1>1 DEF OpenedIsGenuine, CacheCoherent, NoRace, Running, shared, ChunkData
<1>4. Bytes(o, o) = <<>>
  BY DEF Bytes
<1>5. ReadsMessage'
  <2>1. \A d \in Callers : d # c => got'[d] = got[d] /\ off0'[d] = off0[d]
    BY <1>1 DEF TypeOK
  <2>2. got'[c] = <<>> /\ off0'[c] = o /\ o + Len(<<>>) = o
    BY <1>1 DEF TypeOK
  <2> QED
    BY <1>4, <2>1, <2>2 DEF ReadsMessage
<1>6. Contract'
  BY <1>1 DEF Contract, Running, TypeOK
<1>7. LocalsRight'
  <2>1. ASSUME NEW d \in Callers, d # c PROVE LocalRight(d)'
    BY <1>1, <2>1, Untouched DEF LocalsRight, shared, TypeOK
  <2>2. LocalRight(c)'
    BY <1>1 DEF LocalsRight, LocalRight, Running, TypeOK
  <2> QED
    BY <2>1, <2>2 DEF LocalsRight
<1> QED
  BY <1>2, <1>3, <1>5, <1>6, <1>7

LEMMA CallInv ==
    ASSUME Inv, NEW c \in Callers, NEW o \in Int, NEW n \in Nat, Call(c, o, n)
    PROVE  Inv'
<1> USE DEF Inv
<1>1. PICK b \in Bufs : /\ Fresh(b)
                        /\ buf' = [buf EXCEPT ![c] = b]
                        /\ heap' = [heap EXCEPT ![b] = Encrypted(<<>>)]
  BY DEF Call
<1>2. /\ pc[c] = "idle" /\ state = "open"
      /\ o \in 0..size /\ n > 0
      /\ off0' = [off0 EXCEPT ![c] = o]
      /\ want' = [want EXCEPT ![c] = n]
      /\ off' = [off EXCEPT ![c] = o]
      /\ got' = [got EXCEPT ![c] = <<>>]
      /\ ret' = [ret EXCEPT ![c] = "none"]
      /\ pc' = [pc EXCEPT ![c] = IF o < size THEN "load" ELSE "store"]
      /\ UNCHANGED <<shared, cache, view, cacheUpdate>>
  BY DEF Call, inRange, Loop
<1>3. /\ view[c] = NoBuf /\ cache.buf \in Bufs /\ b # cache.buf
      /\ \A d \in Callers : b # buf[d] /\ b # view[d]
  BY <1>1, <1>2 DEF LocalsRight, LocalRight, Running, TypeOK, Fresh
<1>4. TypeOK'
  <2>1. heap' \in [Bufs -> [cells : Seq(Cell), plain : Seq(Nat)]]
    BY <1>1 DEF TypeOK, Encrypted
  <2>2. ASSUME NEW d \in Callers, Running(d)'
        PROVE  state' = "open" /\ off'[d] \in 0..size' /\ buf'[d] \in Bufs
    <3>1. CASE d = c
      BY <1>1, <1>2, <3>1 DEF TypeOK, shared
    <3>2. CASE d # c
      BY <1>1, <1>2, <2>2, <3>2 DEF TypeOK, Running, shared
    <3> QED
      BY <3>1, <3>2
  <2>3. /\ buf' \in [Callers -> Bufs \cup {NoBuf}]
        /\ off' \in [Callers -> Int] /\ off0' \in [Callers -> Int]
        /\ want' \in [Callers -> Nat] /\ got' \in [Callers -> Seq(Nat)]
    BY <1>1, <1>2 DEF TypeOK
  <2>4. /\ pc' \in [Callers -> {"idle", "load", "read", "open", "copy", "store"}]
        /\ ret' \in [Callers -> {"none", "nil", "EOF", "range", "source", "auth"}]
    BY <1>2 DEF TypeOK
  <2> QED
    BY <1>2, <2>1, <2>2, <2>3, <2>4 DEF TypeOK, shared
<1>5. OpenedIsGenuine' /\ CacheCoherent'
  BY <1>1, <1>2, <1>3 DEF OpenedIsGenuine, CacheCoherent, shared, ChunkData, TypeOK
<1>6. NoRace'
  <2>1. /\ buf'[c] = b /\ cache' = cache /\ view' = view
        /\ \A d \in Callers \ {c} : buf'[d] = buf[d] /\ Running(d)' = Running(d)
    BY <1>1, <1>2 DEF Running, TypeOK
  <2>2. ASSUME NEW d \in Callers, Running(d)'
        PROVE  /\ buf'[d] # cache'.buf
               /\ \A e \in Callers \ {d} : buf'[d] # buf'[e] /\ buf'[d] # view'[e]
    <3>1. CASE d = c
      BY <1>3, <2>1, <3>1
    <3>2. CASE d # c
      BY <1>3, <2>1, <2>2, <3>2 DEF NoRace
    <3> QED
      BY <3>1, <3>2
  <2> QED
    BY <2>2 DEF NoRace
<1>7. Bytes(o, o) = <<>>
  BY DEF Bytes
<1>8. ReadsMessage'
  <2>1. off0'[c] = o /\ got'[c] = <<>>
    BY <1>2 DEF TypeOK
  <2>2. \A d \in Callers \ {c} : off0'[d] = off0[d] /\ got'[d] = got[d]
    BY <1>2 DEF TypeOK
  <2> QED
    BY <1>7, <2>1, <2>2 DEF ReadsMessage
<1>9. Contract'
  BY <1>2 DEF Contract, Running, TypeOK
<1>10. LocalsRight'
  <2>1. ASSUME NEW d \in Callers, d # c PROVE LocalRight(d)'
    BY <1>1, <1>2, <1>3, <2>1, Untouched DEF LocalsRight, shared, TypeOK, Running
  <2>2. cacheUpdate[c] = NoUpdate
    BY <1>2 DEF LocalsRight, LocalRight, Running
  <2>3. LocalRight(c)'
    BY <1>1, <1>2, <1>3, <2>2 DEF LocalRight, Running, TypeOK, shared
  <2> QED
    BY <2>1, <2>3 DEF LocalsRight
<1> QED
  BY <1>4, <1>5, <1>6, <1>8, <1>9, <1>10

LEMMA LookupInv ==
    ASSUME Inv, NEW c \in Callers, Hit(c) \/ Miss(c)
    PROVE  Inv'
<1> USE DEF Inv
<1>1. /\ pc[c] = "load" /\ state = "open" /\ cache.buf \in Bufs
      /\ heap[cache.buf].plain = ChunkData(cache.off)
  BY DEF Hit, Miss, TypeOK, Running, CacheCoherent
<1>2. /\ UNCHANGED <<shared, cache, heap, off0, want, off, buf, got, ret>>
      /\ \/ /\ cache.off = chunkOff(c)
            /\ view' = [view EXCEPT ![c] = cache.buf]
            /\ cacheUpdate' = [cacheUpdate EXCEPT ![c] = NoUpdate]
            /\ pc' = [pc EXCEPT ![c] = "copy"]
         \/ /\ UNCHANGED <<view, cacheUpdate>>
            /\ pc' = [pc EXCEPT ![c] = "read"]
  BY DEF Hit, Miss
<1>3. TypeOK'
  BY <1>1, <1>2 DEF TypeOK, Running, shared
<1>4. OpenedIsGenuine' /\ CacheCoherent' /\ ReadsMessage'
  BY <1>2 DEF OpenedIsGenuine, CacheCoherent, ReadsMessage, shared, ChunkData
<1>5. NoRace'
  <2>1. /\ Running(c) /\ \A d \in Callers : Running(d) => buf[d] \in Bufs
        /\ \A d \in Callers \ {c} : pc'[d] = pc[d] /\ buf'[d] = buf[d] /\ view'[d] = view[d]
    BY <1>1, <1>2 DEF TypeOK, Running
  <2>2. cache' = cache /\ buf'[c] = buf[c] /\ view'[c] \in {view[c], cache.buf, buf[c]}
    BY <1>2 DEF TypeOK
  <2> QED
    BY <2>1, <2>2, NoBufAssumption, OwnBuffers
<1>6. Contract'
  BY <1>1, <1>2 DEF Contract, Running, TypeOK
<1>7. LocalsRight'
  <2>1. ASSUME NEW d \in Callers, d # c PROVE LocalRight(d)'
    BY <1>2, <2>1, Untouched DEF LocalsRight, shared, TypeOK
  <2>2. chunkOff(c)' = chunkOff(c) /\ \A q : ChunkData(q)' = ChunkData(q)
    BY <1>2 DEF chunkOff, chunkIndex, ChunkData, shared
  <2>3. LocalRight(c)'
    BY <1>1, <1>2, <2>2 DEF LocalsRight, LocalRight, Running, TypeOK, shared
  <2> QED
    BY <2>1, <2>3 DEF LocalsRight
<1> QED
  BY <1>3, <1>4, <1>5, <1>6, <1>7

(* A call that ends in an error.                                           *)
LEMMA FailsInv ==
    ASSUME Inv, NEW c \in Callers, ReadFails(c) \/ OpenFails(c)
    PROVE  Inv'
<1> USE DEF Inv
<1>1. /\ pc[c] \in {"read", "open"} /\ state = "open"
      /\ buf[c] \in Bufs /\ buf[c] # cache.buf /\ cache.buf \in Bufs
      /\ \A d \in Callers \ {c} : buf[c] # buf[d] /\ buf[c] # view[d]
  BY DEF ReadFails, OpenFails, TypeOK, NoRace, Running
<1>2. /\ UNCHANGED <<shared, cache, off0, want, off, got>>
      /\ heap' = heap \/ heap' = [heap EXCEPT ![buf[c]] = Encrypted(<<>>)]
      /\ pc' = [pc EXCEPT ![c] = "idle"]
      /\ buf' = [buf EXCEPT ![c] = NoBuf]
      /\ view' = [view EXCEPT ![c] = NoBuf]
      /\ cacheUpdate' = [cacheUpdate EXCEPT ![c] = NoUpdate]
      /\ \/ ret' = [ret EXCEPT ![c] = "source"]
         \/ ret' = [ret EXCEPT ![c] = "auth"]
  BY DEF ReadFails, OpenFails, Return
<1>3. TypeOK'
  <2>1. heap' \in [Bufs -> [cells : Seq(Cell), plain : Seq(Nat)]]
    <3>1. Encrypted(<<>>) \in [cells : Seq(Cell), plain : Seq(Nat)]
      BY DEF Encrypted
    <3> QED
      BY <1>2, <3>1 DEF TypeOK
  <2>2. ret' \in [Callers -> {"none", "nil", "EOF", "range", "source", "auth"}]
    BY <1>2 DEF TypeOK
  <2> QED
    BY <1>1, <1>2, <2>1, <2>2 DEF TypeOK, Running, shared
<1>4. OpenedIsGenuine' /\ ReadsMessage'
  BY <1>2 DEF OpenedIsGenuine, ReadsMessage, shared
<1>5. CacheCoherent'
  BY <1>1, <1>2 DEF CacheCoherent, shared, ChunkData, TypeOK
<1>6. NoRace'
  <2>1. /\ Running(c) /\ \A d \in Callers : Running(d) => buf[d] \in Bufs
        /\ \A d \in Callers \ {c} : pc'[d] = pc[d] /\ buf'[d] = buf[d] /\ view'[d] = view[d]
    BY <1>1, <1>2 DEF TypeOK, Running
  <2>2. /\ cache'.buf \in {cache.buf, buf[c]} /\ buf'[c] = NoBuf
        /\ view'[c] = NoBuf /\ ~Running(c)'
    BY <1>2 DEF TypeOK, Running
  <2> QED
    BY <2>1, <2>2, NoBufAssumption, OwnBuffers
<1>7. Contract'
  <2>1. ASSUME NEW d \in Callers, d # c, ~Running(d)', ret'[d] # "none"
        PROVE  ~Running(d) /\ ret[d] = ret'[d] /\ ret[d] # "none"
    BY <1>2, <2>1 DEF Running, TypeOK
  <2>2. ret'[c] \in {"source", "auth"} /\ Len(got[c]) <= want[c]
    BY <1>2 DEF TypeOK, LocalsRight, LocalRight
  <2> QED
    BY <1>2, <2>1, <2>2 DEF Contract
<1>8. LocalsRight'
  <2>1. ASSUME NEW d \in Callers, d # c PROVE LocalRight(d)'
    BY <1>1, <1>2, <2>1, Untouched DEF LocalsRight, shared, TypeOK, Running
  <2>2. LocalRight(c)'
    BY <1>1, <1>2 DEF LocalsRight, LocalRight, Running, TypeOK
  <2> QED
    BY <2>1, <2>2 DEF LocalsRight
<1> QED
  BY <1>3, <1>4, <1>5, <1>6, <1>7, <1>8

LEMMA ReadInv ==
    ASSUME Inv, NEW c \in Callers, Read(c)
    PROVE  Inv'
<1> USE DEF Inv
<1> DEFINE cells == Stored(chunkOff(c), chunkSize(c))
<1>1. /\ pc[c] = "read" /\ state = "open"
      /\ buf[c] \in Bufs /\ buf[c] # cache.buf /\ cache.buf \in Bufs
      /\ \A d \in Callers \ {c} : buf[c] # buf[d] /\ buf[c] # view[d]
  BY DEF Read, TypeOK, NoRace, Running
<1>2. /\ heap' = [heap EXCEPT ![buf[c]] = Encrypted(cells)]
      /\ pc' = [pc EXCEPT ![c] = "open"]
      /\ UNCHANGED <<shared, cache, off0, want, off, buf, view, cacheUpdate, got, ret>>
  BY DEF Read
<1>3. cells \in Seq(Cell) /\ \A i \in 1..Len(cells) : Genuine(cells[i])
  <2>1. Running(c) /\ file \in Files /\ size \in Nat /\ chunks \in Nat
    BY <1>1 DEF Running, TypeOK
  <2>2. chunkOff(c) \in Nat
    BY <2>1, ChunkAt
  <2>3. chunkSize(c) \in Int
    BY <2>1, <2>2 DEF chunkSize, Lesser, encChunkSize
  <2> QED
    BY <2>1, <2>2, <2>3, StoredGenuine
<1> HIDE DEF cells
<1>4. TypeOK'
  <2>1. heap' \in [Bufs -> [cells : Seq(Cell), plain : Seq(Nat)]]
    BY <1>1, <1>2, <1>3 DEF TypeOK, Encrypted
  <2>2. pc' \in [Callers -> {"idle", "load", "read", "open", "copy", "store"}]
    BY <1>2 DEF TypeOK
  <2>3. \A d \in Callers : Running(d)' => Running(d)
    BY <1>1, <1>2 DEF TypeOK, Running
  <2> QED
    BY <1>2, <2>1, <2>2, <2>3 DEF TypeOK, shared
<1>5. OpenedIsGenuine' /\ ReadsMessage'
  BY <1>2 DEF OpenedIsGenuine, ReadsMessage, shared
<1>6. CacheCoherent'
  BY <1>1, <1>2 DEF CacheCoherent, shared, ChunkData, TypeOK
<1>7. NoRace'
  <2>1. /\ Running(c) /\ \A d \in Callers : Running(d) => buf[d] \in Bufs
        /\ \A d \in Callers \ {c} : pc'[d] = pc[d] /\ buf'[d] = buf[d] /\ view'[d] = view[d]
    BY <1>1, <1>2 DEF TypeOK, Running
  <2>2. cache' = cache /\ buf'[c] = buf[c] /\ view'[c] \in {view[c], cache.buf, buf[c]}
    BY <1>2 DEF TypeOK
  <2> QED
    BY <2>1, <2>2, NoBufAssumption, OwnBuffers
<1>8. Contract'
  BY <1>1, <1>2 DEF Contract, Running, TypeOK
<1>9. LocalsRight'
  <2>1. ASSUME NEW d \in Callers, d # c PROVE LocalRight(d)'
    BY <1>1, <1>2, <2>1, Untouched DEF LocalsRight, shared, TypeOK, Running
  <2>2. \A i \in 1..Len(heap'[buf'[c]].cells) : Genuine(heap'[buf'[c]].cells[i])
    BY <1>1, <1>2, <1>3 DEF Encrypted, TypeOK
  <2>3. LocalRight(c)'
    BY <1>1, <1>2, <2>2 DEF LocalsRight, LocalRight, Running, TypeOK, shared, Genuine
  <2> QED
    BY <2>1, <2>3 DEF LocalsRight
<1> QED
  BY <1>4, <1>5, <1>6, <1>7, <1>8, <1>9

(* A chunk that opens is the message's, although the file may be anything: *)
(* the nonce names it, and the flag is right because the size is.          *)
LEMMA OpenedRight ==
    ASSUME Inv, NEW c \in Callers, pc[c] = "open",
           Opens(chunkNonce(c), heap[buf[c]].cells)
    PROVE  /\ Plaintext(heap[buf[c]].cells) \in Seq(Nat)
           /\ Plaintext(heap[buf[c]].cells) = ChunkData(chunkOff(c))
<1> USE DEF Inv
<1> DEFINE k     == chunkIndex(c)
           hi    == Lesser((k + 1) * ChunkSize, MsgLen)
           cells == heap[buf[c]].cells
           last  == k = chunks - 1
<1>1. /\ Running(c) /\ buf[c] \in Bufs /\ chunks = ChunkCount(MsgLen)
      /\ cells \in Seq(Cell) /\ \A i \in 1..Len(cells) : Genuine(cells[i])
  BY DEF TypeOK, Running, OpenedIsGenuine, LocalsRight, LocalRight
<1>2. /\ k \in Nat /\ k * ChunkSize \in Nat
      /\ ChunkData(chunkOff(c)) = Bytes(k * ChunkSize, hi)
  BY <1>1, ChunkAt
<1>3. last \in BOOLEAN /\ Opens([ctr |-> k, last |-> last], cells)
  BY DEF chunkNonce, setLastChunkFlag, nonceForChunk
<1> HIDE DEF k, cells, last
<1>4. /\ Plaintext(cells) \in Seq(Nat)
      /\ last => /\ EndsInChunk(k, MsgLen)
                 /\ Plaintext(cells) = Bytes(k * ChunkSize, MsgLen)
      /\ ~last => /\ (k + 1) * ChunkSize < MsgLen
                  /\ Plaintext(cells) = Bytes(k * ChunkSize, (k + 1) * ChunkSize)
  BY <1>1, <1>2, <1>3, OpenedChunk
<1>5. last => hi = MsgLen
  BY <1>2, <1>4 DEF EndsInChunk, Lesser
<1>6. ~last => hi = (k + 1) * ChunkSize
  BY <1>2, <1>4 DEF Lesser
<1> HIDE DEF hi
<1>7. Plaintext(cells) = Bytes(k * ChunkSize, hi)
  BY <1>4, <1>5, <1>6
<1> QED
  BY <1>2, <1>4, <1>7 DEF cells

LEMMA OpenInv ==
    ASSUME Inv, NEW c \in Callers, Open(c)
    PROVE  Inv'
<1> USE DEF Inv
<1> DEFINE plain == Plaintext(heap[buf[c]].cells)
<1>1. /\ pc[c] = "open" /\ state = "open"
      /\ buf[c] \in Bufs /\ buf[c] # cache.buf /\ cache.buf \in Bufs
      /\ \A d \in Callers \ {c} : buf[c] # buf[d] /\ buf[c] # view[d]
  BY DEF Open, TypeOK, NoRace, Running
<1>2. /\ heap' = [heap EXCEPT ![buf[c]] = Decrypted(plain)]
      /\ view' = [view EXCEPT ![c] = buf[c]]
      /\ cacheUpdate' = [cacheUpdate EXCEPT ![c] = chunkOff(c)]
      /\ pc' = [pc EXCEPT ![c] = "copy"]
      /\ UNCHANGED <<shared, cache, off0, want, off, buf, got, ret>>
  BY DEF Open
<1>3. plain \in Seq(Nat) /\ plain = ChunkData(chunkOff(c))
  BY <1>1, OpenedRight DEF Open
<1>4. chunkOff(c) \in Nat
  BY <1>1, ChunkAt DEF Running
<1> HIDE DEF plain
<1>5. TypeOK'
  <2>1. heap' \in [Bufs -> [cells : Seq(Cell), plain : Seq(Nat)]]
    BY <1>1, <1>2, <1>3 DEF TypeOK, Decrypted
  <2>2. cacheUpdate' \in [Callers -> Nat \cup {NoUpdate}]
    BY <1>2, <1>4 DEF TypeOK
  <2> QED
    BY <1>1, <1>2, <2>1, <2>2 DEF TypeOK, Running, shared
<1>6. OpenedIsGenuine' /\ ReadsMessage'
  BY <1>2 DEF OpenedIsGenuine, ReadsMessage, shared
<1>7. CacheCoherent'
  BY <1>1, <1>2 DEF CacheCoherent, shared, ChunkData, TypeOK
<1>8. NoRace'
  <2>1. /\ Running(c) /\ \A d \in Callers : Running(d) => buf[d] \in Bufs
        /\ \A d \in Callers \ {c} : pc'[d] = pc[d] /\ buf'[d] = buf[d] /\ view'[d] = view[d]
    BY <1>1, <1>2 DEF TypeOK, Running
  <2>2. cache' = cache /\ buf'[c] = buf[c] /\ view'[c] \in {view[c], cache.buf, buf[c]}
    BY <1>2 DEF TypeOK
  <2> QED
    BY <2>1, <2>2, NoBufAssumption, OwnBuffers
<1>9. Contract'
  BY <1>1, <1>2 DEF Contract, Running, TypeOK
<1>10. LocalsRight'
  <2>1. ASSUME NEW d \in Callers, d # c PROVE LocalRight(d)'
    BY <1>1, <1>2, <2>1, Untouched DEF LocalsRight, shared, TypeOK, Running
  <2>2. chunkOff(c)' = chunkOff(c) /\ \A q : ChunkData(q)' = ChunkData(q)
    BY <1>2 DEF chunkOff, chunkIndex, ChunkData, shared
  <2>3. heap'[buf[c]].plain = ChunkData(chunkOff(c))
    BY <1>1, <1>2, <1>3 DEF Decrypted, TypeOK
  <2>4. LocalRight(c)'
    BY <1>1, <1>2, <2>2, <2>3 DEF LocalsRight, LocalRight, Running, TypeOK, shared
  <2> QED
    BY <2>1, <2>4 DEF LocalsRight
<1> QED
  BY <1>5, <1>6, <1>7, <1>8, <1>9, <1>10

(* What a turn of the loop copies: at least a byte, and the message's next *)
(* bytes from where the call is.                                           *)
LEMMA Copied ==
    ASSUME Inv, NEW c \in Callers, pc[c] = "copy",
           NEW from, from = plainChunkOff(c), NEW n, n = copySize(c)
    PROVE  /\ n \in Nat /\ n > 0 /\ Len(got[c]) + n <= want[c]
           /\ off[c] + n <= size
           /\ SubSeq(heap[view[c]].plain, from + 1, from + n)
                = Bytes(off[c], off[c] + n)
<1> USE DEF Inv
<1> DEFINE k   == chunkIndex(c)
           kc  == k * ChunkSize
           top == Lesser((k + 1) * ChunkSize, MsgLen)
<1>1. /\ Running(c) /\ off[c] < size /\ size = MsgLen
      /\ off[c] \in Nat /\ Len(got[c]) \in Nat /\ want[c] \in Nat
      /\ Len(got[c]) < want[c]
      /\ heap[view[c]].plain = ChunkData(chunkOff(c))
  BY DEF TypeOK, Running, OpenedIsGenuine, LocalsRight, LocalRight
<1>2. /\ k \in Nat /\ kc \in Nat /\ top \in Nat /\ kc <= off[c] /\ off[c] < top
      /\ ChunkData(chunkOff(c)) = Bytes(kc, top)
  BY <1>1, ChunkAt
<1>3. top <= MsgLen
  BY <1>2 DEF Lesser
<1>4. from = off[c] - kc
  BY DEF plainChunkOff
<1> DEFINE at  == off[c]
           had == Len(got[c])
<1> HIDE DEF k, kc, top
<1>5. Len(heap[view[c]].plain) = top - kc
  <2>1. kc <= top
    BY <1>1, <1>2
  <2> QED
    BY <1>1, <1>2, <2>1, BytesType
<1>6. n = Lesser((top - kc) - from, want[c] - had)
  BY <1>5 DEF copySize
<1> HIDE DEF at, had
<1>7. /\ from \in Nat /\ kc + from = off[c]
      /\ (top - kc) - from = top - off[c]
  <2>1. kc \in Nat /\ top \in Nat /\ at \in Nat /\ kc <= at /\ from = at - kc
    BY <1>1, <1>2, <1>4 DEF at
  <2> QED
    BY <2>1 DEF at
<1>8. /\ n \in Nat /\ n > 0 /\ Len(got[c]) + n <= want[c]
      /\ off[c] + n <= top
  <2>a. top - off[c] \in Nat \ {0}
    BY <1>1, <1>2
  <2>b. want[c] - had \in Nat \ {0}
    BY <1>1 DEF had
  <2>1. top - off[c] \in Nat \ {0} /\ want[c] - had \in Nat \ {0}
    BY <2>a, <2>b
  <2>2. /\ n \in Nat /\ n > 0
        /\ n <= top - off[c] /\ n <= want[c] - had
    BY <1>6, <1>7, <2>1 DEF Lesser
  <2> QED
    BY <1>1, <1>2, <2>2 DEF had
<1> DEFINE first == from + 1
           last  == from + n
           end   == off[c] + n
<1>9. SubSeq(Bytes(kc, top), first, last) = Bytes(off[c], end)
  <2>1. /\ kc \in Nat /\ top \in Nat /\ off[c] \in Nat /\ from \in Nat /\ n \in Nat
        /\ kc + from = off[c] /\ off[c] + n <= top
    BY <1>1, <1>2, <1>7, <1>8
  <2>2. /\ first \in Nat /\ last \in Nat /\ end \in Nat
        /\ first = off[c] - kc + 1 /\ last = end - kc
        /\ kc <= off[c] /\ off[c] <= end /\ end <= top
    BY <2>1
  <2> HIDE DEF first, last, end
  <2> DEFINE In(lo, hi, a, b, i, j) ==
                lo <= a /\ a <= b /\ b <= hi /\ i = a - lo + 1 /\ j = b - lo
             Part(lo, hi, a, b, i, j) == SubSeq(Bytes(lo, hi), i, j) = Bytes(a, b)
  <2>3. \A lo, hi, a, b, i, j \in Nat : In(lo, hi, a, b, i, j) => Part(lo, hi, a, b, i, j)
    BY BytesPart
  <2>4. In(kc, top, off[c], end, first, last)
    BY <2>2
  <2> HIDE DEF In, Part
  <2>5. Part(kc, top, off[c], end, first, last)
    BY <2>1, <2>2, <2>3, <2>4
  <2> QED
    BY <2>5 DEF Part
<1>10. off[c] + n <= size
  BY <1>1, <1>3, <1>2, <1>8
<1>11. heap[view[c]].plain = Bytes(kc, top)
  BY <1>1, <1>2
<1> QED
  BY <1>8, <1>9, <1>10, <1>11

LEMMA CopyInv ==
    ASSUME Inv, NEW c \in Callers, Copy(c)
    PROVE  Inv'
<1> USE DEF Inv
<1> DEFINE from == plainChunkOff(c)
           n    == copySize(c)
           part == SubSeq(heap[view[c]].plain, from + 1, from + n)
<1>1. pc[c] = "copy" /\ state = "open"
  BY DEF Copy, TypeOK, Running
<1>2. /\ got' = [got EXCEPT ![c] = got[c] \o part]
      /\ off' = [off EXCEPT ![c] = off[c] + n]
      /\ view' = [view EXCEPT ![c] = NoBuf]
      /\ pc' = [pc EXCEPT ![c] = Loop(Len(got[c]) + n, want[c], off[c] + n)]
      /\ UNCHANGED <<shared, cache, heap, off0, want, buf, cacheUpdate, ret>>
  BY DEF Copy, TypeOK
<1>3. /\ n \in Nat /\ n > 0 /\ Len(got[c]) + n <= want[c]
      /\ off[c] + n <= size
      /\ part = Bytes(off[c], off[c] + n)
  BY <1>1, Copied
<1>4. /\ off[c] \in Nat /\ off0[c] \in Int /\ Len(got[c]) \in Nat
      /\ size \in Nat /\ want[c] \in Nat /\ want[c] > 0
      /\ off[c] = off0[c] + Len(got[c])
      /\ got[c] \in Seq(Nat)
      /\ buf[c] \in Bufs /\ view[c] \in Bufs
  BY <1>1 DEF TypeOK, Running, LocalsRight, LocalRight
<1>5. got[c] = Bytes(off0[c], off[c])
  BY <1>4 DEF ReadsMessage
<1> DEFINE end == off[c] + n
           all == got[c] \o part
<1>n. n \in Nat /\ Len(got[c]) + n <= want[c] /\ off[c] + n <= size
  BY <1>3
<1>o. /\ off[c] \in Nat /\ off0[c] \in Int /\ Len(got[c]) \in Nat
      /\ size \in Nat /\ want[c] \in Nat
      /\ off[c] = off0[c] + Len(got[c])
  BY <1>4
<1>6. /\ end \in Nat /\ off[c] <= end /\ end - off[c] = n
      /\ off0[c] <= off[c] /\ end = off0[c] + (Len(got[c]) + n)
  <2> HIDE DEF n
  <2>1. end \in Nat /\ off[c] <= end /\ end - off[c] = n
    <3> DEFINE o == off[c]
    <3>1. o \in Nat /\ n \in Nat
      BY <1>n, <1>o
    <3> HIDE DEF o
    <3>2. o + n \in Nat /\ o <= o + n /\ (o + n) - o = n
      BY <3>1
    <3> QED
      BY <3>2 DEF o
  <2>2. off0[c] <= off[c]
    BY <1>o
  <2>3. end = off0[c] + (Len(got[c]) + n)
    BY <1>n, <1>o
  <2> QED
    BY <2>1, <2>2, <2>3
<1>7. all \in Seq(Nat) /\ Len(all) = Len(got[c]) + n
  <2>1. part = Bytes(off[c], end) /\ off[c] \in Nat
    BY <1>3, <1>4
  <2> HIDE DEF part, end
  <2>2. part \in Seq(Nat) /\ Len(part) = end - off[c]
    BY <1>6, <2>1, BytesType
  <2>3. got[c] \in Seq(Nat)
    BY <1>4
  <2>4. Len(part) = n
    BY <1>6, <2>2
  <2>5. all \in Seq(Nat) /\ Len(all) = Len(got[c]) + Len(part)
    BY <2>2, <2>3, ConcatProperties
  <2> QED
    BY <2>4, <2>5
<1>8. all = Bytes(off0[c], end)
  <2>1. part = Bytes(off[c], end)
    BY <1>3
  <2> HIDE DEF part, end
  <2>2. off0[c] \in Int /\ off[c] \in Int /\ end \in Int
        /\ off0[c] <= off[c] /\ off[c] <= end
    BY <1>6, <1>o
  <2> DEFINE Join(lo, mid, hi) ==
                lo <= mid /\ mid <= hi => Bytes(lo, mid) \o Bytes(mid, hi) = Bytes(lo, hi)
  <2>3. \A lo, mid, hi \in Int : Join(lo, mid, hi)
    BY BytesJoin
  <2> HIDE DEF Join
  <2>4. Join(off0[c], off[c], end)
    BY <2>2, <2>3
  <2> QED
    BY <1>5, <2>1, <2>2, <2>4 DEF Join
<1> DEFINE total == Len(got[c]) + n
<1>a. /\ total \in Nat /\ total <= want[c] /\ end <= size
      /\ Len(all) = total /\ end = off0[c] + total
  <2>1. Len(all) = total
    BY <1>7
  <2>2. total \in Nat /\ total <= want[c]
    BY <1>n, <1>o
  <2>3. end <= size /\ end = off0[c] + total
    BY <1>n, <1>6
  <2> QED
    BY <2>1, <2>2, <2>3
<1>b. /\ got'[c] = all /\ off'[c] = end
      /\ pc'[c] = Loop(total, want[c], end)
  BY <1>2 DEF TypeOK
<1> HIDE DEF n, part, end, all, total
<1>c. /\ pc'[c] \in {"load", "store"}
      /\ pc'[c] = "load" => total < want[c] /\ end < size
      /\ pc'[c] = "store" => total = want[c] \/ end = size
  <2>1. /\ total \in Nat /\ want[c] \in Nat /\ end \in Nat /\ size \in Nat
        /\ total <= want[c] /\ end <= size
    BY <1>o, <1>6, <1>a
  <2> QED
    BY <1>b, <2>1 DEF Loop
<1>9. TypeOK'
  <2>1. got' \in [Callers -> Seq(Nat)] /\ off' \in [Callers -> Int]
    <3>1. got' = [got EXCEPT ![c] = all] /\ off' = [off EXCEPT ![c] = end]
      BY <1>2 DEF all, end
    <3>2. all \in Seq(Nat) /\ end \in Int
      BY <1>6, <1>7
    <3> QED
      BY <3>1, <3>2 DEF TypeOK
  <2>2. pc' \in [Callers -> {"idle", "load", "read", "open", "copy", "store"}]
    BY <1>2 DEF TypeOK, Loop
  <2>3. view' \in [Callers -> Bufs \cup {NoBuf}]
    BY <1>2 DEF TypeOK
  <2>4. ASSUME NEW d \in Callers, Running(d)'
        PROVE  state' = "open" /\ off'[d] \in 0..size' /\ buf'[d] \in Bufs
    <3>1. CASE d = c
      BY <1>1, <1>2, <1>4, <1>6, <1>a, <1>b, <3>1 DEF shared
    <3>2. CASE d # c
      BY <1>2, <2>4, <3>2 DEF TypeOK, Running, shared
    <3> QED
      BY <3>1, <3>2
  <2> QED
    BY <1>1, <1>2, <2>1, <2>2, <2>3, <2>4 DEF TypeOK, shared
<1>10. OpenedIsGenuine' /\ CacheCoherent'
  BY <1>2 DEF OpenedIsGenuine, CacheCoherent, shared, ChunkData
<1>11. ReadsMessage'
  <2>1. got'[c] = Bytes(off0'[c], off0'[c] + Len(got'[c]))
    BY <1>2, <1>8, <1>a, <1>b
  <2> QED
    BY <1>2, <2>1 DEF ReadsMessage, TypeOK
<1>12. NoRace'
  <2>1. /\ Running(c) /\ \A d \in Callers : Running(d) => buf[d] \in Bufs
        /\ \A d \in Callers \ {c} : pc'[d] = pc[d] /\ buf'[d] = buf[d] /\ view'[d] = view[d]
    BY <1>1, <1>2 DEF TypeOK, Running
  <2>2. cache' = cache /\ buf'[c] = buf[c] /\ view'[c] = NoBuf
    BY <1>2 DEF TypeOK
  <2> QED
    BY <2>1, <2>2, NoBufAssumption, OwnBuffers
<1>13. Contract'
  BY <1>1, <1>2, <1>c DEF Contract, Running, TypeOK
<1>14. LocalsRight'
  <2>1. ASSUME NEW d \in Callers, d # c PROVE LocalRight(d)'
    BY <1>2, <2>1, Untouched DEF LocalsRight, shared, TypeOK
  <2>2. \A q : ChunkData(q)' = ChunkData(q)
    BY DEF ChunkData
  <2>3. /\ Len(got'[c]) = total /\ off'[c] = end
        /\ off0' = off0 /\ want' = want /\ size' = size /\ heap' = heap
        /\ buf' = buf /\ cacheUpdate' = cacheUpdate
    BY <1>2, <1>a, <1>b DEF shared
  <2>4. cacheUpdate[c] # NoUpdate => heap[buf[c]].plain = ChunkData(cacheUpdate[c])
    BY <1>1 DEF LocalsRight, LocalRight
  <2>5. LocalRight(c)'
    BY <1>4, <1>a, <1>c, <2>2, <2>3, <2>4 DEF LocalRight, Running
  <2> QED
    BY <2>1, <2>5 DEF LocalsRight
<1> QED
  BY <1>9, <1>10, <1>11, <1>12, <1>13, <1>14

LEMMA StoreInv ==
    ASSUME Inv, NEW c \in Callers, Store(c)
    PROVE  Inv'
<1> USE DEF Inv
<1>1. /\ pc[c] = "store" /\ state = "open"
      /\ buf[c] \in Bufs /\ buf[c] # cache.buf /\ cache.buf \in Bufs
      /\ \A d \in Callers \ {c} : buf[c] # buf[d] /\ buf[c] # view[d]
  BY DEF Store, TypeOK, NoRace, Running
<1>2. /\ cache' = IF cacheUpdate[c] = NoUpdate THEN cache
                  ELSE [off |-> cacheUpdate[c], buf |-> buf[c]]
      /\ ret' = [ret EXCEPT ![c] = result(c)]
      /\ pc' = [pc EXCEPT ![c] = "idle"]
      /\ buf' = [buf EXCEPT ![c] = NoBuf]
      /\ view' = [view EXCEPT ![c] = NoBuf]
      /\ cacheUpdate' = [cacheUpdate EXCEPT ![c] = NoUpdate]
      /\ UNCHANGED <<shared, heap, off0, want, off, got>>
  BY DEF Store, Return
<1>3. /\ cacheUpdate[c] # NoUpdate =>
            heap[buf[c]].plain = ChunkData(cacheUpdate[c]) /\ cacheUpdate[c] \in Nat
      /\ off[c] = off0[c] + Len(got[c]) /\ Len(got[c]) <= want[c] /\ want[c] > 0
      /\ Len(got[c]) = want[c] \/ off[c] = size
      /\ size = MsgLen
  BY <1>1 DEF TypeOK, LocalsRight, LocalRight, Running, OpenedIsGenuine
<1>4. TypeOK'
  <2>1. ret' \in [Callers -> {"none", "nil", "EOF", "range", "source", "auth"}]
    BY <1>2 DEF TypeOK, result
  <2>2. cache' \in [off : Nat, buf : Bufs \cup {NoBuf}] /\ cache'.buf \in Bufs
    BY <1>1, <1>2, <1>3 DEF TypeOK
  <2> QED
    BY <1>1, <1>2, <2>1, <2>2 DEF TypeOK, Running, shared
<1>5. OpenedIsGenuine' /\ ReadsMessage'
  BY <1>2 DEF OpenedIsGenuine, ReadsMessage, shared
<1>6. CacheCoherent'
  BY <1>1, <1>2, <1>3 DEF CacheCoherent, ChunkData, shared
<1>7. NoRace'
  <2>1. /\ Running(c) /\ \A d \in Callers : Running(d) => buf[d] \in Bufs
        /\ \A d \in Callers \ {c} : pc'[d] = pc[d] /\ buf'[d] = buf[d] /\ view'[d] = view[d]
    BY <1>1, <1>2 DEF TypeOK, Running
  <2>2. /\ cache'.buf \in {cache.buf, buf[c]} /\ buf'[c] = NoBuf
        /\ view'[c] = NoBuf /\ ~Running(c)'
    BY <1>2 DEF TypeOK, Running
  <2> QED
    BY <2>1, <2>2, NoBufAssumption, OwnBuffers
<1>8. Contract'
  <2>1. ASSUME NEW d \in Callers, d # c, ~Running(d)', ret'[d] # "none"
        PROVE  ~Running(d) /\ ret[d] = ret'[d] /\ ret[d] # "none"
    BY <1>2, <2>1 DEF Running, TypeOK
  <2>2. ret'[c] = IF off[c] = size THEN "EOF" ELSE "nil"
    BY <1>2 DEF result, TypeOK
  <2> QED
    BY <1>2, <1>3, <2>1, <2>2 DEF Contract, TypeOK
<1>9. LocalsRight'
  <2>1. ASSUME NEW d \in Callers, d # c PROVE LocalRight(d)'
    BY <1>1, <1>2, <2>1, Untouched DEF LocalsRight, shared, TypeOK, Running
  <2>2. LocalRight(c)'
    BY <1>1, <1>2 DEF LocalsRight, LocalRight, Running, TypeOK
  <2> QED
    BY <2>1, <2>2 DEF LocalsRight
<1> QED
  BY <1>4, <1>5, <1>6, <1>7, <1>8, <1>9

LEMMA NextInv == Inv /\ [Next]_vars => Inv'
<1> SUFFICES ASSUME Inv, [Next]_vars PROVE Inv'
  OBVIOUS
<1>1. CASE NewFails \/ (\E sz \in Sizes : NewPanics(sz)) \/ Rewrite
  BY <1>1, RewriteInv
<1>2. ASSUME NEW sz \in Sizes, New(sz) PROVE Inv'
  BY <1>2, NewInv
<1>3. ASSUME NEW c \in Callers, NEW r \in Requests,
             CallRefused(c, r[1], r[2]) \/ Call(c, r[1], r[2])
      PROVE  Inv'
  <2>1. r[1] \in Int /\ r[2] \in Nat
    BY RequestsAssumption
  <2> QED
    BY <1>3, <2>1, CallRefusedInv, CallInv
<1>4. ASSUME NEW c \in Callers, Step(c) PROVE Inv'
  BY <1>4, LookupInv, ReadInv, FailsInv, OpenInv, CopyInv, StoreInv DEF Step
<1>5. CASE UNCHANGED vars
  <2>1. /\ UNCHANGED <<file, state, size, chunks, cache, heap, pc, off0, want>>
        /\ UNCHANGED <<off, buf, view, cacheUpdate, got, ret>>
    BY <1>5 DEF vars, shared
  <2>2. TypeOK' /\ OpenedIsGenuine'
    BY <2>1 DEF Inv, TypeOK, OpenedIsGenuine, Running
  <2>3. CacheCoherent' /\ NoRace'
    BY <2>1 DEF Inv, CacheCoherent, NoRace, Running, ChunkData
  <2>4. ReadsMessage' /\ Contract'
    BY <2>1 DEF Inv, ReadsMessage, Contract, Running
  <2>5. ASSUME NEW c \in Callers, LocalRight(c) PROVE LocalRight(c)'
    BY <2>1, <2>5 DEF LocalRight, Running, ChunkData, chunkOff, chunkIndex, Genuine
  <2>6. LocalsRight'
    BY <2>5 DEF Inv, LocalsRight
  <2> QED
    BY <2>2, <2>3, <2>4, <2>6 DEF Inv
<1> QED
  BY <1>1, <1>2, <1>3, <1>4, <1>5 DEF Next

LEMMA Invariance == Spec => []Inv
<1>1. Init => Inv
  BY InitInv
<1>2. Inv /\ [Next]_vars => Inv'
  BY NextInv
<1> QED
  BY <1>1, <1>2, PTL DEF Spec
-----------------------------------------------------------------------------
(* The variables stay in their types.  In particular a call runs only on   *)
(* an opened reader, within its size and on a buffer of its own.           *)
THEOREM TypeCorrect == Spec => []TypeOK
<1>1. Inv => TypeOK
  BY DEF Inv
<1> QED
  BY <1>1, Invariance, PTL

(* NewDecryptReaderAt opens only with the size and the chunk count of the  *)
(* message, whatever the file and the size it was given: the flag on the   *)
(* chunk it takes for the last is what a truncated file cannot have.       *)
THEOREM OpenedCorrect == Spec => []OpenedIsGenuine
<1>1. Inv => OpenedIsGenuine
  BY DEF Inv
<1> QED
  BY <1>1, Invariance, PTL

(* The chunk behind ReadAt's atomic pointer is always the plaintext of the *)
(* chunk it is filed under, although its buffer was a call's a moment ago. *)
THEOREM CacheCorrect == Spec => []CacheCoherent
<1>1. Inv => CacheCoherent
  BY DEF Inv
<1> QED
  BY <1>1, Invariance, PTL

(* No goroutine in ReadAt writes into a buffer another one, or the cache,  *)
(* refers to, for any number of them.                                      *)
THEOREM RaceFree == Spec => []NoRace
<1>1. Inv => NoRace
  BY DEF Inv
<1> QED
  BY <1>1, Invariance, PTL

(* ReadAt hands out the message's bytes from the offset on and no others,  *)
(* however the file is damaged between two reads of it.                    *)
THEOREM ReadsOnlyMessage == Spec => []ReadsMessage
<1>1. Inv => ReadsMessage
  BY DEF Inv
<1> QED
  BY <1>1, Invariance, PTL

(* What ReadAt returns keeps the contract of io.ReaderAt.                  *)
THEOREM KeepsContract == Spec => []Contract
<1>1. Inv => Contract
  BY DEF Inv
<1> QED
  BY <1>1, Invariance, PTL

(* The loop of ReadAt copies a byte or more each time round: it cannot     *)
(* spin, and cannot slice a chunk past its end.                            *)
THEOREM AlwaysAdvances == Spec => []Advances
<1>1. Inv => Advances
  <2> SUFFICES ASSUME Inv, NEW c \in Callers, pc[c] = "copy"
               PROVE  copySize(c) >= 1
    BY DEF Advances
  <2> DEFINE n == copySize(c)
  <2>1. n \in Nat /\ n > 0
    BY Copied
  <2> HIDE DEF n
  <2>2. n >= 1
    BY <2>1
  <2> QED
    BY <2>2 DEF n
<1> QED
  BY <1>1, Invariance, PTL
-----------------------------------------------------------------------------
(* The size arithmetic.  Of a size whose sum with a chunk is an int64 no   *)
(* operation wraps.                                                        *)
LEMMA Int64Itself ==
    ASSUME NEW x \in int64
    PROVE  Int64(x) = x
BY DEF Int64

LEMMA SizeArithmetic ==
    ASSUME NEW sz \in 0..(MaxInt64 - encChunkSize), NEW n, NEW p,
           n = (sz + encChunkSize - 1) \div encChunkSize, p = sz - n * Overhead
    PROVE  /\ n \in Nat /\ p \in Int /\ p <= sz
           /\ chunksFor(sz) = n /\ plaintextFor(sz, n) = p
           /\ expChunks(p) = IF p = 0 THEN 1 ELSE GoDiv(p + ChunkSize - 1, ChunkSize)
<1> DEFINE e == encChunkSize
<1>1. /\ e \in Nat \ {0} /\ e = ChunkSize + Overhead /\ MaxInt64 \in Nat
      /\ sz \in Nat /\ sz + e - 1 \in Nat /\ sz + e - 1 <= MaxInt64
  BY MaxInt64Assumption DEF encChunkSize
<1>2. n \in Nat /\ n * e <= sz + e - 1
  BY <1>1, DivFacts
<1>3. chunksFor(sz) = n
  <2>1. Int64(sz + e - 1) = sz + e - 1
    BY <1>1, Int64Itself DEF int64
  <2> QED
    BY <1>1, <2>1 DEF chunksFor, GoDiv
<1> HIDE DEF e
<1>4. n * Overhead \in Nat /\ n * Overhead <= n * e /\ n * e \in Nat
  <2>1. n * e = n * ChunkSize + n * Overhead /\ n * ChunkSize \in Nat /\ n * Overhead \in Nat
    BY <1>1, <1>2
  <2> QED
    BY <2>1
<1> DEFINE o == n * Overhead
           m == n * e
<1>5. o \in Nat /\ o <= m /\ m \in Nat /\ m <= sz + e - 1 /\ p = sz - o
  BY <1>2, <1>4
<1> HIDE DEF o, m
<1>6. o <= MaxInt64 /\ p \in int64 /\ p \in Int /\ p <= sz /\ o \in int64
  BY <1>1, <1>5 DEF int64
<1>7. plaintextFor(sz, n) = p
  <2>1. Int64(n * Overhead) = o
    BY <1>6, Int64Itself DEF o
  <2> QED
    BY <1>5, <1>6, <2>1, Int64Itself DEF plaintextFor
<1>8. Int64(p + ChunkSize - 1) = p + ChunkSize - 1
  <2>1. p + ChunkSize - 1 \in int64
    BY <1>1, <1>6 DEF int64, e
  <2> QED
    BY <2>1, Int64Itself
<1> QED
  BY <1>2, <1>3, <1>6, <1>7, <1>8 DEF expChunks

(* The size of a payload is accepted, and undone.                          *)
LEMMA OriginAccepted ==
    ASSUME NEW sz \in 0..(MaxInt64 - encChunkSize), NEW len \in 0..sz,
           EncryptedSize(len) = sz
    PROVE  /\ EncryptedChunkCount(sz).ok
           /\ EncryptedChunkCount(sz).chunks = ChunkCount(len)
           /\ PlaintextSize(sz).size = len
<1> DEFINE m == ChunkCount(len)
           e == encChunkSize
<1>1. e \in Nat \ {0} /\ e = ChunkSize + Overhead /\ len \in Nat /\ sz \in Nat
  BY MaxInt64Assumption DEF encChunkSize
<1>2. /\ m \in Nat \ {0} /\ len <= m * ChunkSize
      /\ IF len = 0 THEN m = 1
         ELSE (m - 1) * ChunkSize < len /\ m = (len + ChunkSize - 1) \div ChunkSize
  BY <1>1, CountBounds
<1>3. sz = len + m * Overhead
  BY DEF EncryptedSize
<1> HIDE DEF m, e
<1> DEFINE a == m * ChunkSize
           o == m * Overhead
<1>4. /\ a \in Nat /\ o \in Nat /\ m * e = a + o /\ (m + 1) * e = a + o + e
      /\ (m - 1) * ChunkSize = a - ChunkSize
      /\ o >= Overhead
  <2>1. /\ a \in Nat /\ o \in Nat /\ m * e = a + o
        /\ (m - 1) * ChunkSize = a - ChunkSize
    BY <1>1, <1>2
  <2>2. (m + 1) * e = m * e + e
    BY <1>1, <1>2
  <2>3. o >= Overhead
    BY <1>2
  <2> QED
    BY <2>1, <2>2, <2>3
<1>5. m = 1 => a = ChunkSize /\ o = Overhead
  OBVIOUS
<1> HIDE DEF a, o
<1>6. m * e <= sz + e - 1 /\ sz + e - 1 < (m + 1) * e /\ sz + e - 1 \in Nat
  BY <1>1, <1>2, <1>3, <1>4, <1>5 DEF a, o
<1>7. (sz + e - 1) \div e = m
  BY <1>1, <1>2, <1>6, DivUnique
<1>8. len = sz - m * Overhead
  BY <1>1, <1>3, <1>4 DEF o
<1>9. /\ chunksFor(sz) = m /\ plaintextFor(sz, m) = len
      /\ expChunks(len) = IF len = 0 THEN 1 ELSE GoDiv(len + ChunkSize - 1, ChunkSize)
  BY <1>7, <1>8, SizeArithmetic DEF e
<1>10. expChunks(len) = m
  BY <1>1, <1>2, <1>9 DEF GoDiv
<1> QED
  BY <1>9, <1>10 DEF EncryptedChunkCount, PlaintextSize, m

(* A size that is accepted is that of a payload.                           *)
LEMMA AcceptedHasOrigin ==
    ASSUME NEW sz \in 0..(MaxInt64 - encChunkSize), EncryptedChunkCount(sz).ok
    PROVE  \E len \in 0..sz : EncryptedSize(len) = sz
<1> DEFINE n == (sz + encChunkSize - 1) \div encChunkSize
           p == sz - n * Overhead
<1>1. /\ n \in Nat /\ p \in Int /\ p <= sz /\ sz \in Nat
      /\ chunksFor(sz) = n /\ plaintextFor(sz, n) = p
      /\ expChunks(p) = IF p = 0 THEN 1 ELSE GoDiv(p + ChunkSize - 1, ChunkSize)
  BY SizeArithmetic
<1>2. expChunks(p) = n
  BY <1>1 DEF EncryptedChunkCount
<1>3. n * Overhead \in Nat /\ sz = p + n * Overhead
  BY <1>1
<1> HIDE DEF n, p
<1>4. CASE p = 0
  <2>1. n = 1 /\ sz = Overhead
    BY <1>1, <1>2, <1>3, <1>4
  <2>2. EncryptedSize(0) = Overhead
    BY DEF EncryptedSize, ChunkCount
  <2> QED
    BY <1>1, <2>1, <2>2
<1>5. CASE p > 0
  <2>1. n = (p + ChunkSize - 1) \div ChunkSize
    BY <1>1, <1>2, <1>5 DEF GoDiv
  <2>2. EncryptedSize(p) = sz
    BY <1>1, <1>3, <1>5, <2>1 DEF EncryptedSize, ChunkCount
  <2> QED
    BY <1>1, <1>5, <2>2
<1>6. CASE p < 0
  <2>1. n # 0
    <3> SUFFICES ASSUME n = 0 PROVE FALSE
      OBVIOUS
    <3>1. n * Overhead = 0
      OBVIOUS
    <3> QED
      BY <1>1, <1>3, <1>6, <3>1
  <2> DEFINE x == p + ChunkSize - 1
  <2>2. n = GoDiv(x, ChunkSize) /\ x \in Int /\ x < ChunkSize
    BY <1>1, <1>2, <1>6
  <2> HIDE DEF x
  <2>3. CASE x >= 0
    <3>1. x \in Nat /\ 0 * ChunkSize <= x /\ x < (0 + 1) * ChunkSize
      BY <2>2, <2>3
    <3>2. x \div ChunkSize = 0
      BY <3>1, DivUnique
    <3> QED
      BY <2>1, <2>2, <2>3, <3>2 DEF GoDiv
  <2>4. CASE ~(x >= 0)
    <3>1. -x \in Nat
      BY <2>2, <2>4
    <3>2. (-x) \div ChunkSize \in Nat
      BY <3>1, DivFacts
    <3> QED
      BY <1>1, <2>1, <2>2, <2>4, <3>2 DEF GoDiv
  <2> QED
    BY <2>3, <2>4
<1> QED
  BY <1>1, <1>4, <1>5, <1>6

(* For every chunk size, overhead and width of int64, EncryptedChunkCount  *)
(* accepts exactly the sizes of encrypted payloads, and it and             *)
(* PlaintextSize undo them.                                                *)
THEOREM SizesAlwaysInvert == Spec => []SizesInvert
<1>1. SizesInvert
  BY OriginAccepted, AcceptedHasOrigin DEF SizesInvert, SizeInverts
<1> QED
  BY <1>1, PTL
-----------------------------------------------------------------------------
(* An intact file.  It is as long as the size arithmetic says.             *)
LEMMA IntactSize ==
    ASSUME file \in Files, IsCiphertext(file, MsgLen)
    PROVE  EncryptedSize(MsgLen) = Len(file)
<1> DEFINE m == ChunkCount(MsgLen)
           k == m - 1
           chunk == ChunksOf(MsgLen)[k + 1]
<1>0. m \in Nat \ {0}
  BY CountBounds
<1> HIDE DEF m
<1>1. m \in Nat \ {0} /\ k \in Nat /\ k < m /\ m = ChunkCount(MsgLen)
  BY <1>0 DEF m
<1>2. /\ chunk.data \in Seq(Nat)
      /\ Len(chunk.data) = MsgLen - k * ChunkSize
  <2>1. IsChunkOf(MsgLen, k, chunk)
    BY <1>1, ChunkOfMessage
  <2> QED
    BY <1>1, <2>1 DEF IsChunkOf
<1>3. Len(Cells(chunk)) = Len(chunk.data) + Overhead
  BY <1>2, CellsOf
<1>4. k * encChunkSize + Len(Cells(chunk)) = Len(file)
  <2>1. LiesAt(file, k, chunk, MsgLen)
    BY <1>1, ChunkInPlace
  <2> QED
    BY <1>1, <2>1 DEF LiesAt
<1>5. m = k + 1
  BY <1>1
<1> HIDE DEF k, chunk
<1> DEFINE a == k * ChunkSize
           b == k * Overhead
<1>6. /\ k * encChunkSize = a + b /\ a \in Nat /\ b \in Nat
      /\ m * Overhead = b + Overhead
  BY <1>1, <1>5 DEF encChunkSize
<1>7. Len(chunk.data) = MsgLen - a
  BY <1>2
<1> HIDE DEF a, b
<1>8. a + b + (MsgLen - a + Overhead) = Len(file)
  BY <1>3, <1>4, <1>6, <1>7
<1>9. MsgLen + m * Overhead = Len(file)
  BY <1>6, <1>8
<1> QED
  BY <1>9 DEF EncryptedSize, m

(* A part of the file that lies within it is read whole.                   *)
LEMMA StoredWithin ==
    ASSUME NEW o \in Nat, NEW n \in Int, Len(file) \in Nat, o + n <= Len(file)
    PROVE  Stored(o, n) = SubSeq(file, o + 1, o + n)
BY DEF Stored, Lesser

(* Its own size opens an intact file.                                      *)
LEMMA IntactOpens ==
    ASSUME file \in Files, IsCiphertext(file, MsgLen),
           NEW count, count = EncryptedChunkCount(Len(file))
    PROVE  count.ok /\ FinalChunkOpens(Len(file), count.chunks)
<1> DEFINE sz == Len(file)
           m == ChunkCount(MsgLen)
           k == m - 1
           o == k * encChunkSize
           chunk == ChunksOf(MsgLen)[k + 1]
<1>1. /\ file \in Seq(Cell) /\ sz \in Nat
      /\ sz \in 0..(MaxInt64 - encChunkSize)
      /\ encChunkSize \in Nat /\ MaxInt64 \in Nat
  BY FilesAssumption, MaxInt64Assumption DEF encChunkSize
<1>0. m \in Nat \ {0}
  BY CountBounds
<1> HIDE DEF m
<1>2. m \in Nat \ {0} /\ k \in Nat /\ k < m /\ o \in Nat /\ m = ChunkCount(MsgLen)
  <2>1. m \in Nat \ {0} /\ k \in Nat /\ k < m
    BY <1>0
  <2> HIDE DEF k
  <2>2. o \in Nat
    BY <2>1, IndexOfChunk
  <2> QED
    BY <2>1, <2>2 DEF m
<1>3. EncryptedSize(MsgLen) = sz /\ MsgLen \in 0..sz
  <2>1. EncryptedSize(MsgLen) = sz /\ m * Overhead \in Nat
    BY <1>2, IntactSize
  <2>2. MsgLen + m * Overhead = sz
    BY <1>2, <2>1 DEF EncryptedSize
  <2> QED
    BY <1>1, <2>1, <2>2
<1>4. count.ok /\ count.chunks = m
  BY <1>1, <1>3, OriginAccepted DEF m
<1>5. finalChunkOff(m) = o
  BY <1>1, <1>4, CountPositive
<1>6. /\ chunk.data \in Seq(Nat)
      /\ chunk.nonce = setLastChunkFlag(nonceForChunk(k))
  <2>1. IsChunkOf(MsgLen, k, chunk)
    BY <1>2, ChunkOfMessage
  <2> QED
    BY <1>2, <2>1 DEF IsChunkOf
<1> HIDE DEF chunk
<1>7. /\ Len(Cells(chunk)) \in Nat
      /\ o + Len(Cells(chunk)) = sz
      /\ SubSeq(file, o + 1, sz) = Cells(chunk)
  <2>1. k = m - 1
    OBVIOUS
  <2>2. /\ SubSeq(file, o + 1, o + Len(Cells(chunk))) = Cells(chunk)
        /\ o + Len(Cells(chunk)) = sz
    <3>1. chunk = ChunksOf(MsgLen)[k + 1]
      BY DEF chunk
    <3> HIDE DEF k
    <3>2. LiesAt(file, k, chunk, MsgLen)
      BY <1>2, <3>1, ChunkInPlace
    <3> QED
      BY <1>2, <2>1, <3>2 DEF LiesAt
  <2>3. Len(Cells(chunk)) \in Nat
    BY <1>6, CellsOf
  <2> QED
    BY <2>2, <2>3
<1> HIDE DEF sz, k, o
<1>8. finalChunkSize(sz, m) = Len(Cells(chunk))
  <2>1. sz - o = Len(Cells(chunk)) /\ sz - o \in 0..MaxInt64
    BY <1>1, <1>2, <1>7
  <2> QED
    BY <1>5, <2>1, Int64Same DEF finalChunkSize
<1>9. Stored(finalChunkOff(m), finalChunkSize(sz, m)) = Cells(chunk)
  <2>1. Stored(o, Len(Cells(chunk))) = SubSeq(file, o + 1, o + Len(Cells(chunk)))
    <3>1. /\ Len(file) \in Nat /\ Len(Cells(chunk)) \in Int
          /\ o + Len(Cells(chunk)) <= Len(file)
      BY <1>1, <1>7 DEF sz
    <3> QED
      BY <1>2, <3>1, StoredWithin, Zenon
  <2> QED
    BY <1>5, <1>7, <1>8, <2>1
<1>10. Opens(setLastChunkFlag(nonceForChunk(m - 1)), Cells(chunk))
  BY <1>6, SealedChunkOpens DEF k
<1>11. FinalChunkOpens(sz, m)
  BY <1>2, <1>5, <1>8, <1>9, <1>10 DEF FinalChunkOpens
<1> QED
  BY <1>4, <1>11 DEF sz

(* A call that is to read or to open a chunk is at one of the message.     *)
LEMMA ChunkWanted ==
    ASSUME Inv, NEW c \in Callers, pc[c] \in {"read", "open"}
    PROVE  /\ size = MsgLen /\ chunks = ChunkCount(MsgLen)
           /\ chunkIndex(c) \in Nat /\ chunkIndex(c) < chunks /\ chunks \in Nat
<1> DEFINE k == chunkIndex(c)
<1>1. /\ size = MsgLen /\ chunks = ChunkCount(MsgLen)
      /\ off[c] \in Nat /\ off[c] < MsgLen
  BY DEF Inv, TypeOK, OpenedIsGenuine, LocalsRight, LocalRight, Running
<1>2. k \in Nat /\ k * ChunkSize <= off[c]
  BY <1>1, ChunkOfOffset DEF chunkIndex
<1>3. chunks \in Nat /\ MsgLen <= chunks * ChunkSize
  BY <1>1, CountBounds
<1> HIDE DEF k
<1>4. ~(chunks <= k)
  <2> SUFFICES ASSUME chunks <= k PROVE FALSE
    OBVIOUS
  <2>1. chunks * ChunkSize <= k * ChunkSize
    BY <1>2, <1>3
  <2> QED
    BY <1>1, <1>2, <1>3, <2>1
<1> QED
  BY <1>1, <1>2, <1>3, <1>4 DEF k

(* In an intact file a call reads its chunk, whole.                        *)
LEMMA IntactRead ==
    ASSUME Inv, NEW c \in Callers, pc[c] = "read", IsCiphertext(file, MsgLen),
           NEW chunk, chunk = ChunksOf(MsgLen)[chunkIndex(c) + 1]
    PROVE  /\ Len(Stored(chunkOff(c), chunkSize(c))) = chunkSize(c)
           /\ Stored(chunkOff(c), chunkSize(c)) = Cells(chunk)
<1> DEFINE k == chunkIndex(c)
           m == ChunkCount(MsgLen)
           o == k * encChunkSize
           left == MsgLen + m * Overhead - o
<1>1. size = MsgLen /\ chunks = m /\ k \in Nat /\ k < m /\ m \in Nat
  BY ChunkWanted
<1>2. file \in Files /\ file \in Seq(Cell) /\ Len(file) \in Nat
  BY FilesAssumption DEF Inv, TypeOK
<1>3. /\ chunkOff(c) = o /\ o \in Nat
      /\ encChunkSize \in Nat /\ encChunkSize = ChunkSize + Overhead
  BY <1>1, IndexOfChunk DEF chunkOff, encChunkSize
<1>a. IsChunkOf(MsgLen, k, chunk)
  BY <1>1, ChunkOfMessage
<1>4. /\ Len(Cells(chunk)) = Len(chunk.data) + Overhead
      /\ Len(Cells(chunk)) \in Nat /\ Len(chunk.data) \in Nat
  BY <1>a, CellsOf DEF IsChunkOf
<1>5. MsgLen + m * Overhead = Len(file)
  BY <1>2, IntactSize DEF EncryptedSize
<1>6. /\ o + Len(Cells(chunk)) <= Len(file)
      /\ SubSeq(file, o + 1, o + Len(Cells(chunk))) = Cells(chunk)
      /\ k = m - 1 => o + Len(Cells(chunk)) = Len(file)
  <2>1. LiesAt(file, k, chunk, MsgLen)
    BY <1>1, <1>2, ChunkInPlace
  <2> QED
    BY <2>1 DEF LiesAt
<1>7. chunkSize(c) = Lesser(left, encChunkSize)
  BY <1>1, <1>3 DEF chunkSize
<1> HIDE DEF o
<1>8. left = Len(file) - o
  <2> HIDE DEF m
  <2>1. m * Overhead \in Nat /\ MsgLen + m * Overhead = Len(file)
    BY <1>1, <1>5
  <2> DEFINE a == m * Overhead
  <2>2. a \in Nat /\ MsgLen + a = Len(file)
    BY <2>1
  <2> HIDE DEF a
  <2>3. MsgLen + a - o = Len(file) - o
    BY <1>2, <1>3, <2>2
  <2> QED
    BY <2>3 DEF a
<1> HIDE DEF left
<1>9. Lesser(left, encChunkSize) = Len(Cells(chunk))
  <2>1. CASE k = m - 1
    <3>1. /\ Len(chunk.data) = MsgLen - k * ChunkSize
          /\ MsgLen - k * ChunkSize <= ChunkSize
      <4> HIDE DEF k, m
      <4> QED
        BY <1>a, <2>1 DEF IsChunkOf, m
    <3>2. left = Len(Cells(chunk)) /\ left <= encChunkSize
      BY <1>2, <1>3, <1>4, <1>6, <1>8, <2>1, <3>1
    <3> QED
      BY <1>3, <1>4, <3>2 DEF Lesser
  <2>2. CASE k < m - 1
    <3>1. Len(chunk.data) = ChunkSize
      <4> HIDE DEF k, m
      <4> QED
        BY <1>a, <2>2 DEF IsChunkOf, m
    <3>2. Len(Cells(chunk)) = encChunkSize
      BY <1>3, <1>4, <3>1
    <3>3. left >= encChunkSize /\ left \in Int
      BY <1>2, <1>3, <1>6, <1>8, <3>2
    <3> QED
      BY <1>3, <3>2, <3>3 DEF Lesser
  <2> QED
    BY <1>1, <2>1, <2>2
<1>10. Stored(o, Len(Cells(chunk))) = SubSeq(file, o + 1, o + Len(Cells(chunk)))
  <2> DEFINE n == Len(Cells(chunk))
  <2>1. n \in Int /\ o + n <= Len(file)
    BY <1>4, <1>6
  <2> HIDE DEF n
  <2>2. Stored(o, n) = SubSeq(file, o + 1, o + n)
    BY <1>2, <1>3, <2>1, StoredWithin
  <2> QED
    BY <2>2 DEF n
<1> QED
  BY <1>3, <1>6, <1>7, <1>9, <1>10

(* A call opens the chunk that is the message's under the nonce it tries.  *)
LEMMA IntactOpen ==
    ASSUME Inv, NEW c \in Callers, pc[c] = "open",
           NEW chunk, chunk = ChunksOf(MsgLen)[chunkIndex(c) + 1]
    PROVE  Opens(chunkNonce(c), Cells(chunk))
<1> DEFINE k == chunkIndex(c)
<1>1. chunks = ChunkCount(MsgLen) /\ k \in Nat /\ k < chunks /\ chunks \in Nat
  BY ChunkWanted
<1>2. /\ chunk.data \in Seq(Nat)
      /\ k < chunks - 1 => chunk.nonce = nonceForChunk(k)
      /\ k = chunks - 1 => chunk.nonce = setLastChunkFlag(nonceForChunk(k))
  <2>1. IsChunkOf(MsgLen, k, chunk)
    BY <1>1, ChunkOfMessage
  <2> QED
    BY <1>1, <2>1 DEF IsChunkOf
<1>3. chunk.nonce = chunkNonce(c)
  BY <1>1, <1>2 DEF chunkNonce
<1> QED
  BY <1>2, <1>3, SealedChunkOpens

(* An undamaged file can be opened with its size, and whatever a call asks *)
(* for it finds at the offset it computes and opens with the nonce it      *)
(* computes: no reader of an intact file ever fails of its own doing.      *)
THEOREM IntactAlwaysReads == Spec => []IntactReads
<1>1. Inv => IntactReads
  <2> SUFFICES ASSUME Inv PROVE IntactReads
    OBVIOUS
  <2>1. file \in Files
    BY DEF Inv, TypeOK
  <2> QED
    BY <2>1, IntactOpens, IntactRead, IntactOpen DEF IntactReads
<1> QED
  BY <1>1, Invariance, PTL
-----------------------------------------------------------------------------
USE NonceAssumption

(* The nonce with n in its counter bytes, and a flag behind them.          *)
Flagged(n, flag) == [Bytewise!Spelled(n) EXCEPT ![CtrBytes] = flag]

LEMMA SameBytewise ==
    /\ \A base : Bytewise!powers(base) = powers(base)
    /\ \A base, n, k : Bytewise!byteOf(base, n, k) = byteOf(base, n, k)
    /\ \A S : Bytewise!Cardinality(S) = Cardinality(S)
<1>1. \A base : Bytewise!powers(base) = powers(base)
  BY DEF powers, Bytewise!powers
<1>2. \A base, n, k : Bytewise!byteOf(base, n, k) = byteOf(base, n, k)
  BY <1>1 DEF byteOf, Bytewise!byteOf
<1>3. \A S : Bytewise!Cardinality(S) = Cardinality(S)
  BY DEF Cardinality, Bytewise!Cardinality
<1> QED
  BY <1>1, <1>2, <1>3

LEMMA SpelledByte ==
    ASSUME NEW n \in Nat, NEW flag
    PROVE  /\ \A j \in 0..CtrBytes : Flagged(n, flag)[j] =
                 IF j < CtrBytes THEN byteOf(Base, n, CtrBytes - 1 - j) ELSE flag
           /\ DOMAIN Flagged(n, flag) = 0..CtrBytes
           /\ Flagged(n, flag) = [j \in 0..CtrBytes |-> Flagged(n, flag)[j]]
           /\ Bytewise!Spelled(n) = Flagged(n, 0)
<1>1. Bytewise!Spelled(n) = [j \in 0..CtrBytes |->
                               IF j < CtrBytes THEN byteOf(Base, n, CtrBytes - 1 - j) ELSE 0]
  BY SameBytewise DEF Bytewise!Spelled
<1> DEFINE spelled == Bytewise!Spelled(n)
           f       == Flagged(n, flag)
<1>2. CtrBytes \in Nat /\ CtrBytes \in 0..CtrBytes
  OBVIOUS
<1>3. f = [j \in 0..CtrBytes |-> IF j = CtrBytes THEN flag ELSE spelled[j]]
  BY <1>1 DEF Flagged
<1>4. \A j \in 0..CtrBytes :
         f[j] = IF j < CtrBytes THEN byteOf(Base, n, CtrBytes - 1 - j) ELSE flag
  BY <1>1, <1>2, <1>3
<1>5. spelled = [j \in 0..CtrBytes |-> IF j = CtrBytes THEN 0 ELSE spelled[j]]
  BY <1>1, <1>2
<1>6. spelled = Flagged(n, 0)
  BY <1>1, <1>5 DEF Flagged
<1> QED
  BY <1>3, <1>4, <1>6

(* The carry of incNonce is that of adding one.                            *)
LEMMA Increments ==
    ASSUME NEW n \in Nat, n + 1 < powers(Base)[CtrBytes], NEW flag
    PROVE  Bytewise!incNonce(Flagged(n, flag)) = Flagged(n + 1, flag)
<1> DEFINE f == Flagged(n, flag)
           g == Flagged(n + 1, flag)
           holding == Bytewise!Holding(f)
           place(j) == CtrBytes - 1 - j
<1>1. /\ powers(Base)[CtrBytes] \in Nat /\ n < powers(Base)[CtrBytes]
      /\ n + 1 \in Nat /\ ~Full(Base, n, CtrBytes)
  <2>1. powers(Base)[CtrBytes] \in Nat /\ n < powers(Base)[CtrBytes]
    <3> DEFINE p == powers(Base)[CtrBytes]
    <3>1. p \in Nat \ {0} /\ n + 1 < p
      BY PowersRecur
    <3> HIDE DEF p
    <3>2. p \in Nat /\ n < p
      BY <3>1
    <3> QED
      BY <3>2 DEF p
  <2> QED
    BY <2>1, FullIsLast
<1>2. PICK k \in 0..CtrBytes - 1 : Full(Base, n, k) /\ byteOf(Base, n, k) # Base - 1
  BY <1>1, FirstHolding
<1> DEFINE i == place(k)
<1>3. i \in 0..CtrBytes - 1 /\ k \in Nat /\ place(i) = k
  OBVIOUS
<1>4. /\ \A j \in 0..CtrBytes : f[j] = IF j < CtrBytes THEN byteOf(Base, n, place(j)) ELSE flag
      /\ \A j \in 0..CtrBytes : g[j] = IF j < CtrBytes THEN byteOf(Base, n + 1, place(j)) ELSE flag
      /\ g = [j \in 0..CtrBytes |-> g[j]]
  BY <1>1, SpelledByte
<1> HIDE DEF f, g
<1>5. i \in holding /\ \A j \in holding : i >= j
  <2>1. i \in holding
    <3>1. i \in 0..CtrBytes /\ i < CtrBytes
      BY <1>3
    <3>2. f[i] = byteOf(Base, n, k)
      BY <1>3, <1>4, <3>1
    <3> QED
      BY <1>2, <1>3, <3>2 DEF Bytewise!Holding
  <2>2. ASSUME NEW j \in holding, j > i PROVE FALSE
    <3>1. j \in 0..CtrBytes - 1 /\ f[j] # Base - 1 /\ place(j) \in 0..k - 1
      BY <2>2, <1>3 DEF Bytewise!Holding
    <3>2. j \in 0..CtrBytes /\ j < CtrBytes
      BY <3>1
    <3>3. f[j] = byteOf(Base, n, place(j))
      BY <1>4, <3>2
    <3> QED
      BY <1>2, <3>1, <3>3 DEF Full
  <2> QED
    BY <2>1, <2>2, <1>3 DEF Bytewise!Holding
<1>6. Bytewise!Max(holding) = i
  <2>1. \A x \in holding : x \in Int
    BY DEF Bytewise!Holding
  <2> HIDE DEF holding, i
  <2>2. \A x \in holding : (\A y \in holding : x >= y) => x = i
    BY <1>5, <2>1
  <2> QED
    BY <1>5, <2>2 DEF Bytewise!Max
<1>7. ASSUME NEW j \in 0..CtrBytes
      PROVE  g[j] = IF j = i THEN f[j] + 1
                    ELSE IF j \in i + 1 .. CtrBytes - 1 THEN 0 ELSE f[j]
  <2>1. CASE j = i
    BY <2>1, <1>1, <1>2, <1>3, <1>4, CarryEnds, SMTT(30)
  <2>2. CASE j \in i + 1 .. CtrBytes - 1
    <3>1. place(j) \in 0..k - 1 /\ j < CtrBytes /\ j # i
      BY <2>2, <1>3
    <3>2. byteOf(Base, n + 1, place(j)) = 0
      BY <1>2, <1>3, <3>1, CarryOn
    <3> QED
      BY <1>4, <2>2, <3>1, <3>2
  <2>3. CASE j < i
    <3>1. place(j) \in Nat /\ place(j) > k /\ j < CtrBytes /\ j # i
      BY <2>3, <1>3
    <3>2. byteOf(Base, n + 1, place(j)) = byteOf(Base, n, place(j))
      BY <1>2, <1>3, <3>1, CarryEnds
    <3> QED
      BY <1>3, <1>4, <2>3, <3>1, <3>2
  <2>4. CASE j = CtrBytes
    BY <1>3, <1>4, <2>4
  <2> QED
    BY <1>3, <2>1, <2>2, <2>3, <2>4
<1> HIDE DEF i
<1> QED
  BY <1>4, <1>6, <1>7 DEF Bytewise!incNonce, f, g

(* incNonce panics at the last number only.                                *)
LEMMA WrapsAtLast ==
    ASSUME NEW n \in Nat, n < powers(Base)[CtrBytes]
    PROVE  Bytewise!Wraps(Bytewise!Spelled(n)) <=> n + 1 = powers(Base)[CtrBytes]
<1> DEFINE f == Flagged(n, 0)
           place(j) == CtrBytes - 1 - j
<1>1. /\ Bytewise!Spelled(n) = f
      /\ \A j \in 0..CtrBytes : f[j] = IF j < CtrBytes THEN byteOf(Base, n, place(j)) ELSE 0
  BY SpelledByte
<1> HIDE DEF f
<1>2. ASSUME Bytewise!Wraps(f), NEW k \in 0..CtrBytes - 1
      PROVE  byteOf(Base, n, k) = Base - 1
  <2>1. place(k) \in 0..CtrBytes - 1 /\ place(k) \in 0..CtrBytes /\ place(k) < CtrBytes
        /\ place(place(k)) = k
    OBVIOUS
  <2>2. f[place(k)] = Base - 1
    BY <1>2, <2>1 DEF Bytewise!Wraps, Bytewise!Holding
  <2>3. f[place(k)] = byteOf(Base, n, place(place(k)))
    BY <1>1, <2>1
  <2> QED
    BY <2>1, <2>2, <2>3
<1>3. ASSUME Full(Base, n, CtrBytes), NEW j \in 0..CtrBytes - 1
      PROVE  f[j] = Base - 1
  <2>1. place(j) \in 0..CtrBytes - 1 /\ j \in 0..CtrBytes /\ j < CtrBytes
    OBVIOUS
  <2> QED
    BY <1>1, <1>3, <2>1 DEF Full
<1>4. Bytewise!Wraps(f) <=> Full(Base, n, CtrBytes)
  BY <1>2, <1>3 DEF Full, Bytewise!Wraps, Bytewise!Holding
<1> QED
  BY <1>1, <1>4, FullIsLast

(* The index of a chunk is spelled the same way.                           *)
LEMMA IndexSpelled ==
    ASSUME NEW n \in Nat, n < powers(Base)[IndexBytes]
    PROVE  Bytewise!nonceForChunk(n) = Bytewise!Spelled(n)
<1> DEFINE place(j) == CtrBytes - 1 - j
           f == Flagged(n, 0)
<1>1. /\ Bytewise!Spelled(n) = f
      /\ f = [j \in 0..CtrBytes |-> f[j]]
      /\ \A j \in 0..CtrBytes : f[j] = IF j < CtrBytes THEN byteOf(Base, n, place(j)) ELSE 0
  BY SpelledByte
<1> HIDE DEF f
<1>2. ASSUME NEW j \in 0..CtrBytes
      PROVE  f[j] = IF j \in CtrBytes - IndexBytes .. CtrBytes - 1
                       THEN byteOf(Base, n, place(j)) ELSE 0
  <2>1. CASE j < CtrBytes - IndexBytes
    <3>1. place(j) \in Nat /\ IndexBytes \in Nat /\ IndexBytes <= place(j) /\ j < CtrBytes
      BY <2>1
    <3>2. restOf(Base, n, IndexBytes) = 0
      BY <3>1, FitsBytes
    <3>3. byteOf(Base, n, place(j)) = 0
      BY <3>1, <3>2, RestFits
    <3> QED
      BY <1>1, <2>1, <3>1, <3>3
  <2>2. CASE ~(j < CtrBytes - IndexBytes)
    BY <1>1, <2>2
  <2> QED
    BY <2>1, <2>2
<1>3. Bytewise!nonceForChunk(n) =
        [j \in 0..CtrBytes |->
           IF j \in CtrBytes - IndexBytes .. CtrBytes - 1 THEN byteOf(Base, n, place(j)) ELSE 0]
  BY SameBytewise DEF Bytewise!nonceForChunk
<1> QED
  BY <1>1, <1>2, <1>3

(* No two numbers are spelled alike.                                       *)
LEMMA SpelledInjective ==
    ASSUME NEW m \in Nat, NEW n \in Nat,
           m < powers(Base)[CtrBytes], n < powers(Base)[CtrBytes],
           Bytewise!Spelled(m) = Bytewise!Spelled(n)
    PROVE  m = n
<1> DEFINE place(j) == CtrBytes - 1 - j
<1>1. ASSUME NEW k \in 0..CtrBytes - 1 PROVE byteOf(Base, m, k) = byteOf(Base, n, k)
  <2>1. place(k) \in 0..CtrBytes /\ place(k) < CtrBytes /\ place(place(k)) = k
    OBVIOUS
  <2>2. /\ Flagged(m, 0)[place(k)] = byteOf(Base, m, place(place(k)))
        /\ Flagged(n, 0)[place(k)] = byteOf(Base, n, place(place(k)))
        /\ Flagged(m, 0) = Flagged(n, 0)
    BY <2>1, SpelledByte
  <2> QED
    BY <2>1, <2>2
<1>2. restOf(Base, m, CtrBytes) = 0 /\ restOf(Base, n, CtrBytes) = 0
  BY FitsBytes
<1> QED
  BY <1>1, <1>2, SameBytes

LEMMA CountsNonces == Bytewise!NumbersChunks
<1> DEFINE p == powers(Base)[CtrBytes]
           last == p - 1
           spelled(n) == Bytewise!Spelled(n)
<1>1. p \in Nat \ {0}
  BY PowersRecur
<1> HIDE DEF p
<1>2. last \in Nat /\ \A n \in 0..last : n \in Nat /\ n < p /\ (n = last <=> n + 1 = p)
  BY <1>1
<1>3. spelled(0) = Bytewise!zeroNonce
  <2>1. ASSUME NEW k \in Nat PROVE byteOf(Base, 0, k) = 0
    <3>1. restOf(Base, 0, 0) = 0 /\ 0 \in Nat /\ 0 <= k
      BY RestRecurs
    <3> QED
      BY <3>1, RestFits
  <2>2. spelled(0) = [j \in 0..CtrBytes |->
                        IF j < CtrBytes THEN byteOf(Base, 0, CtrBytes - 1 - j) ELSE 0]
    BY SameBytewise DEF Bytewise!Spelled
  <2>3. \A j \in 0..CtrBytes : j < CtrBytes => CtrBytes - 1 - j \in Nat
    OBVIOUS
  <2> QED
    BY <2>1, <2>2, <2>3 DEF Bytewise!zeroNonce
<1>4. ASSUME NEW n \in 0..last
      PROVE  /\ Bytewise!Wraps(spelled(n)) <=> n = last
             /\ n < last =>
                   /\ Bytewise!incNonce(spelled(n)) = spelled(n + 1)
                   /\ Bytewise!incNonce(Bytewise!setLastChunkFlag(spelled(n)))
                         = Bytewise!setLastChunkFlag(spelled(n + 1))
             /\ n < powers(Base)[IndexBytes] => Bytewise!nonceForChunk(n) = spelled(n)
             /\ n > 0 => spelled(n) # Bytewise!zeroNonce
  <2>1. n \in Nat /\ n < p /\ (n = last <=> n + 1 = p) /\ 0 \in Nat /\ 0 < p
        /\ (n < last => n + 1 < p) /\ n + 1 \in Nat
    BY <1>1, <1>2
  <2>2. Bytewise!Wraps(spelled(n)) <=> n = last
    BY <2>1, WrapsAtLast DEF p
  <2>3. ASSUME n < last
        PROVE  /\ Bytewise!incNonce(spelled(n)) = spelled(n + 1)
               /\ Bytewise!incNonce(Bytewise!setLastChunkFlag(spelled(n)))
                     = Bytewise!setLastChunkFlag(spelled(n + 1))
    <3>1. \A flag : Bytewise!incNonce(Flagged(n, flag)) = Flagged(n + 1, flag)
      BY <2>1, <2>3, Increments DEF p
    <3>2. spelled(n) = Flagged(n, 0) /\ spelled(n + 1) = Flagged(n + 1, 0)
      BY <2>1, SpelledByte
    <3>3. /\ Bytewise!setLastChunkFlag(spelled(n)) = Flagged(n, 1)
          /\ Bytewise!setLastChunkFlag(spelled(n + 1)) = Flagged(n + 1, 1)
      BY DEF Bytewise!setLastChunkFlag, Bytewise!lastChunkFlag, Flagged
    <3> QED
      BY <3>1, <3>2, <3>3
  <2>4. n < powers(Base)[IndexBytes] => Bytewise!nonceForChunk(n) = spelled(n)
    BY <2>1, IndexSpelled
  <2>5. n > 0 => spelled(n) # Bytewise!zeroNonce
    BY <1>3, <2>1, SpelledInjective DEF p
  <2> QED
    BY <2>2, <2>3, <2>4, <2>5
<1>5. Cardinality({spelled(n) : n \in 0..last}) = last + 1
  <2> DEFINE S == 0..last
             T == {spelled(n) : n \in S}
             f == [n \in S |-> spelled(n)]
  <2>1. \A m, n \in S : spelled(m) = spelled(n) => m = n
    BY <1>2, SpelledInjective DEF p
  <2>2. f \in Bijection(S, T)
    BY <2>1 DEF Bijection, Injection, Surjection, IsInjective
  <2>3. ExistsBijection(S, T)
    BY <2>2 DEF ExistsBijection
  <2>4. IsFiniteSet(S) /\ Cardinality(S) = last + 1
    BY <1>2, FS_Interval
  <2> HIDE DEF S, T
  <2> QED
    BY <2>3, <2>4, FS_Bijection DEF T, S
<1> QED
  BY <1>3, <1>4, <1>5, SameBytewise DEF Bytewise!NumbersChunks, p

(* From the first chunk to the last that can be numbered, the bytes of     *)
(* the nonces count: incNonce adds one, panics only at the last, and gives *)
(* what nonceForChunk makes of the same index; no two are alike.           *)
THEOREM AlwaysNoncesCount == Spec => []NoncesCount
<1>1. NoncesCount
  BY CountsNonces DEF NoncesCount
<1> QED
  BY <1>1, PTL
=============================================================================
