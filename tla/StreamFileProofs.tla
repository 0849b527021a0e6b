-------------------------- MODULE StreamFileProofs --------------------------
(***************************************************************************)
(* Proofs about a writer and a reader of one file, for every chunk size,   *)
(* message, sequence of calls, failure and crash: what comes out is a      *)
(* beginning of what went in, and an EOF means that all of it did and that *)
(* the writer had got to Close.                                            *)
(*                                                                         *)
(* Each component keeps the inductive invariant it has by itself, which is *)
(* taken from its own proofs.  The reader's speaks of a file that does not *)
(* change; here it grows, and what the writer adds must not disturb it.    *)
(***************************************************************************)
EXTENDS StreamFile, FormatProofs

USE ChunkSizeAssumption, OverheadAssumption, BoundsAssumption

WP == INSTANCE EncryptWriterProofs WITH
    pc <- wpc, nonce <- wnonce, err <- werr, ret <- wret

RP == INSTANCE DecryptReaderProofs WITH
    Files <- {<<>>}, Quirks <- {}, quirks <- {}, file <- dst,
    pc <- rpc, nonce <- rnonce, err <- rerr, ret <- rret

(* The proof modules speak of the same components and the same format.     *)
LEMMA SameWriter ==
    /\ W!Init <=> WP!Init
    /\ W!Next <=> WP!Next
BY DEF W!Init, WP!Init, W!Next, WP!Next, W!Ret, WP!Ret, W!zeroNonce, WP!zeroNonce,
       W!Refused, WP!Refused, W!WriteEmpty, WP!WriteEmpty, W!WriteCall, WP!WriteCall,
       W!WriteFill, WP!WriteFill, W!WriteFlush, WP!WriteFlush, W!Close, WP!Close,
       W!Crash, WP!Crash, W!flushChunk, WP!flushChunk, W!chunkNonce, WP!chunkNonce,
       W!DstWrite, WP!DstWrite, W!errAfter, WP!errAfter, W!room, WP!room,
       W!Lesser, WP!Lesser, W!Bytes, WP!Bytes, W!Seal, WP!Seal, W!Cells, WP!Cells,
       W!incNonce, WP!incNonce, W!setLastChunkFlag, WP!setLastChunkFlag

LEMMA SameReader ==
    /\ R!Init <=> RP!Init
    /\ R!Next <=> RP!Next
    /\ R!OnlyMessageLeaves <=> RP!OnlyMessageLeaves
BY DEF R!Init, RP!Init, R!Next, RP!Next, R!Ret, RP!Ret, R!zeroNonce, RP!zeroNonce,
       R!ReadUnread, RP!ReadUnread, R!ReadRefused, RP!ReadRefused,
       R!ReadEmpty, RP!ReadEmpty, R!ReadCall, RP!ReadCall,
       R!ReadChunk, RP!ReadChunk, R!Probe, RP!Probe, R!ReadFull, RP!ReadFull,
       R!Deliver, RP!Deliver, R!ChunkError, RP!ChunkError,
       R!ChunkOpened, RP!ChunkOpened, R!afterOpen, RP!afterOpen,
       R!EmptyLast, RP!EmptyLast, R!avail, RP!avail, R!source, RP!source,
       R!encChunkSize, RP!encChunkSize, R!Opens, RP!Opens, R!Cells, RP!Cells,
       R!Plaintext, RP!Plaintext, R!Lesser, RP!Lesser, R!Bytes, RP!Bytes,
       R!incNonce, RP!incNonce, R!setLastChunkFlag, RP!setLastChunkFlag,
       R!nonceIsZero, RP!nonceIsZero,
       R!OnlyMessageLeaves, RP!OnlyMessageLeaves

LEMMA SameFormat ==
    ASSUME NEW k, NEW n
    PROVE  /\ WP!FullChunk(k) = FullChunk(k) /\ RP!FullChunk(k) = FullChunk(k)
           /\ WP!FinalChunk(k, n) = FinalChunk(k, n) /\ RP!FinalChunk(k, n) = FinalChunk(k, n)
           /\ WP!EndsInChunk(k, n) <=> EndsInChunk(k, n)
           /\ RP!EndsInChunk(k, n) <=> EndsInChunk(k, n)
           /\ WP!Cells(k) = Cells(k) /\ RP!Cells(k) = Cells(k)
           /\ WP!Seal(k, n) = Seal(k, n)
           /\ RP!Bytes(k, n) = Bytes(k, n)
           /\ RP!FullChunkAt(n, k) <=> FullChunkAt(n, k)
           /\ RP!encChunkSize = encChunkSize
BY DEF WP!FullChunk, RP!FullChunk, FullChunk, WP!FinalChunk, RP!FinalChunk, FinalChunk,
       WP!EndsInChunk, RP!EndsInChunk, EndsInChunk, WP!Cells, RP!Cells, Cells,
       WP!Seal, RP!Seal, Seal, WP!Bytes, RP!Bytes, Bytes,
       WP!nonceForChunk, RP!nonceForChunk, nonceForChunk,
       WP!setLastChunkFlag, RP!setLastChunkFlag, setLastChunkFlag,
       RP!FullChunkAt, FullChunkAt, RP!encChunkSize, encChunkSize
-----------------------------------------------------------------------------
(* What the writer does to the file.  Every cell of it is one of a chunk   *)
(* that was sealed, and a chunk with the flag is sealed by Close only,     *)
(* which leaves the flag in the writer's nonce.                            *)
Cut == IsCut(sealed, given, WP!status)

FromSealed(cells) ==
    /\ cells \in Seq(WP!Stored)
    /\ \A i \in 1..Len(cells) : \E j \in 1..Len(sealed) : cells[i].chunk = sealed[j]

FlagKept == \A j \in 1..Len(sealed) : sealed[j].nonce.last => wnonce.last

WriterInv == WP!Inv /\ Cut /\ FromSealed(dst) /\ FlagKept

(* The reader's own invariant, and what an EOF says of the writer.  That   *)
(* it has got behind the last chunk says as much already.                  *)
AllRead == RP!returned = given /\ wnonce.last

ReaderInv ==
    /\ RP!Inv
    /\ RP!returned <= given
    /\ rpc = "probe" \/ rerr = "EOF" => AllRead

Inv == WriterInv /\ ReaderInv
-----------------------------------------------------------------------------
LEMMA SameCut ==
    ASSUME NEW chunks, NEW n, NEW s
    PROVE  WP!IsCut(chunks, n, s) <=> IsCut(chunks, n, s)
BY SameFormat DEF WP!IsCut, IsCut, WP!SealedChunk, SealedChunk, WP!Nonce, Nonce

LEMMA WriterInit == Init => WP!Inv /\ Cut
<1> SUFFICES ASSUME Init PROVE WP!Inv /\ Cut
  OBVIOUS
<1>1. WP!Init
  BY SameWriter DEF Init
<1>2. WP!BoundsAssumption
  BY BoundsAssumption
<1> QED
  BY <1>1, <1>2, SameCut, WP!InitInv, WP!InitCut, WP!ChunkSizeAssumption, WP!OverheadAssumption
     DEF Cut

(* The writer keeps what it keeps without a reader.                        *)
LEMMA WriterKeeps == ASSUME WP!Inv, Cut, W!Next PROVE WP!Inv' /\ Cut'
<1>1. [WP!Next]_(WP!vars)
  BY SameWriter
<1>2. WP!BoundsAssumption
  BY BoundsAssumption
<1>3. WP!Inv'
  BY <1>1, <1>2, WP!NextInv, WP!ChunkSizeAssumption, WP!OverheadAssumption
<1>4. WP!IsCut(sealed, given, WP!status)'
  BY <1>1, <1>2, SameCut, WP!NextCut, WP!ChunkSizeAssumption, WP!OverheadAssumption DEF Cut
<1> QED
  BY <1>3, <1>4, SameCut DEF Cut

LEMMA ReaderAssumptions == RP!FilesAssumption /\ RP!QuirksAssumption /\ RP!MaxReadAssumption
BY DEF RP!FilesAssumption, RP!QuirksAssumption, RP!MaxReadAssumption

LEMMA ReaderInit == Init => RP!Inv
<1> SUFFICES ASSUME Init PROVE RP!Inv
  OBVIOUS
<1>1. RP!Init
  BY SameReader DEF Init
<1> QED
  BY <1>1, ReaderAssumptions, RP!InitInv, RP!ChunkSizeAssumption, RP!OverheadAssumption

(* And the reader what it keeps while the file rests.                      *)
LEMMA ReaderKeeps == ASSUME RP!Inv, R!Next PROVE RP!Inv'
<1>1. [RP!Next]_(RP!vars)
  BY SameReader
<1> QED
  BY <1>1, ReaderAssumptions, RP!NextInv, RP!ChunkSizeAssumption, RP!OverheadAssumption
-----------------------------------------------------------------------------
(* What one step of the writer does to what the reader may see of it.      *)
Sealing(last, e) ==
    /\ last \in BOOLEAN /\ given' = given
    /\ WP!flushChunk(last, e)

Resting == given' \in Nat /\ given <= given' /\ UNCHANGED <<sealed, dst, wnonce>>

LEMMA WriterDoes ==
    ASSUME WP!Inv, WP!Next
    PROVE  /\ Resting \/ \E last, e : Sealing(last, e)
           /\ wnonce.last => UNCHANGED <<given, sealed, dst, wnonce>>
<1>1. given \in Nat /\ (wpc \in {"fill", "flush"} => werr = "nil")
  BY DEF WP!Inv, WP!TypeOK, WP!NeverPanics
<1>2. werr = "nil" => ~wnonce.last
  BY DEF WP!Inv, WP!NothingLost, WP!nonceForChunk
<1>3. CASE WP!Refused \/ WP!WriteEmpty \/ WP!WriteFill \/ WP!Crash
  BY <1>1, <1>3 DEF WP!Refused, WP!WriteEmpty, WP!WriteFill, WP!Crash, Resting
<1>4. ASSUME NEW n \in 1..WP!Lesser(MaxWrite, MaxLen - given), WP!WriteCall(n)
      PROVE  Resting /\ werr = "nil"
  BY <1>1, <1>4 DEF WP!WriteCall, Resting
<1>5. CASE WP!WriteFlush
  BY <1>1, <1>2, <1>5 DEF WP!WriteFlush, Sealing
<1>6. CASE WP!Close
  BY <1>1, <1>2, <1>6 DEF WP!Close, Sealing
<1> QED
  BY <1>2, <1>3, <1>4, <1>5, <1>6 DEF WP!Next

(* A sealed chunk's cells, or the first of them, go behind the others.     *)
LEMMA SealingAppends ==
    ASSUME WP!Inv, FromSealed(dst), FlagKept, NEW last, NEW e, Sealing(last, e)
    PROVE  /\ FromSealed(dst)' /\ FlagKept'
           /\ \E more \in Seq(WP!Stored) : dst' = dst \o more
<1> DEFINE chunk == Seal(WP!chunkNonce(last), buf)
           cells == Cells(chunk)
           n     == Len(sealed)
<1>1. /\ chunk \in WP!Sealed /\ sealed \in Seq(WP!Sealed) /\ sealed' = Append(sealed, chunk)
      /\ wnonce' = WP!incNonce(WP!chunkNonce(last))
  <2>1. /\ WP!chunkNonce(last) \in WP!Nonce /\ sealed' = Append(sealed, chunk)
        /\ wnonce' = WP!incNonce(WP!chunkNonce(last))
    BY SameFormat, WP!FlushTypes, WP!ChunkSizeAssumption, WP!OverheadAssumption,
       WP!BoundsAssumption DEF Sealing, WP!Inv, WP!flushChunk
  <2> QED
    BY <2>1 DEF Seal, WP!Sealed, WP!Inv, WP!TypeOK
<1>2. PICK k \in 0..Len(cells) : dst' = dst \o SubSeq(cells, 1, k)
  BY SameFormat DEF Sealing, WP!flushChunk, WP!DstWrite
<1>3. /\ n \in Nat /\ Len(sealed') = n + 1 /\ sealed'[n + 1] = chunk
      /\ \A j \in 1..n : sealed'[j] = sealed[j]
  BY <1>1
<1>4. \A i \in 1..Len(cells) : cells[i].chunk = chunk
  BY DEF Cells
<1>5. cells \in Seq(WP!Stored) /\ Len(cells) \in Nat
  <2>1. /\ WP!Cells(chunk) \in Seq(WP!Stored)
    BY <1>1, WP!StoredCells, WP!ChunkSizeAssumption, WP!OverheadAssumption, WP!BoundsAssumption
  <2> QED
    BY <2>1, SameFormat
<1> HIDE DEF chunk, cells, n
<1> DEFINE more == SubSeq(cells, 1, k)
<1>6. /\ more \in Seq(WP!Stored) /\ Len(more) = k /\ k \in Nat
      /\ \A i \in 1..k : more[i].chunk = chunk
  BY <1>4, <1>5
<1> HIDE DEF more
<1>7. dst' = dst \o more /\ dst \in Seq(WP!Stored)
  BY <1>2 DEF FromSealed, more
<1>8. /\ dst' \in Seq(WP!Stored) /\ Len(dst') = Len(dst) + k /\ Len(dst) \in Nat
      /\ \A i \in 1..Len(dst) : dst'[i] = dst[i]
      /\ \A i \in 1..Len(dst') : i \notin 1..Len(dst) =>
            i - Len(dst) \in 1..k /\ dst'[i] = more[i - Len(dst)]
  <2>1. Len(dst) \in Nat
    BY <1>7
  <2>2. /\ dst \o more \in Seq(WP!Stored) /\ Len(dst \o more) = Len(dst) + k
        /\ \A i \in 1..Len(dst) + k :
              (dst \o more)[i] = IF i <= Len(dst) THEN dst[i] ELSE more[i - Len(dst)]
    BY <1>6, <1>7, ConcatProperties
  <2>3. \A i \in 1..Len(dst) + k : i \notin 1..Len(dst) =>
            ~(i <= Len(dst)) /\ i - Len(dst) \in 1..k
    BY <1>6, <2>1
  <2>4. \A i \in 1..Len(dst) : i \in 1..Len(dst) + k /\ i <= Len(dst)
    BY <1>6, <2>1
  <2> QED
    BY <1>7, <2>1, <2>2, <2>3, <2>4, Zenon
<1>9. ASSUME NEW i \in 1..Len(dst') PROVE \E j \in 1..Len(sealed') : dst'[i].chunk = sealed'[j]
  <2>1. CASE i \in 1..Len(dst)
    <3>1. PICK j \in 1..n : dst[i].chunk = sealed[j]
      BY <2>1 DEF FromSealed, n
    <3>2. j \in 1..Len(sealed') /\ sealed'[j] = sealed[j] /\ dst'[i] = dst[i]
      BY <1>3, <1>8, <2>1, <3>1
    <3> QED
      BY <3>1, <3>2
  <2>2. CASE i \notin 1..Len(dst)
    <3>1. dst'[i].chunk = chunk
      BY <1>6, <1>8, <2>2
    <3>2. n + 1 \in 1..Len(sealed') /\ sealed'[n + 1] = chunk
      BY <1>3
    <3> QED
      BY <3>1, <3>2
  <2> QED
    BY <2>1, <2>2
<1>10. FlagKept'
  <2>1. /\ wnonce.last => wnonce'.last
        /\ chunk.nonce.last => wnonce'.last
    BY <1>1 DEF WP!incNonce, WP!chunkNonce, WP!setLastChunkFlag, chunk, Seal
  <2>2. ASSUME NEW j \in 1..Len(sealed'), sealed'[j].nonce.last PROVE wnonce'.last
    <3>1. j \in 1..n \/ j = n + 1
      BY <1>3
    <3>2. CASE j \in 1..n
      BY <1>3, <2>1, <2>2, <3>2 DEF FlagKept, n
    <3>3. CASE j = n + 1
      BY <1>3, <2>1, <2>2, <3>3
    <3> QED
      BY <3>1, <3>2, <3>3
  <2> QED
    BY <2>2 DEF FlagKept
<1> QED
  BY <1>6, <1>7, <1>8, <1>9, <1>10 DEF FromSealed

(* The writer's step keeps all that is said of it, lets the file grow at   *)
(* its end only, and does nothing the reader could see once it has used    *)
(* the flag.                                                               *)
LEMMA WriterStepKeeps ==
    ASSUME WriterInv, W!Next
    PROVE  /\ WriterInv'
           /\ \E more \in Seq(WP!Stored) : dst' = dst \o more
           /\ given' \in Nat /\ given <= given'
           /\ wnonce.last => UNCHANGED <<given, dst, wnonce>>
<1>1. WP!Inv /\ Cut /\ FromSealed(dst) /\ FlagKept /\ given \in Nat
  BY DEF WriterInv, WP!Inv, WP!TypeOK
<1>2. WP!Inv' /\ Cut'
  BY <1>1, WriterKeeps
<1>3. /\ Resting \/ \E last, e : Sealing(last, e)
      /\ wnonce.last => UNCHANGED <<given, sealed, dst, wnonce>>
  BY <1>1, SameWriter, WriterDoes
<1>4. CASE Resting
  <2>1. dst \o <<>> = dst /\ <<>> \in Seq(WP!Stored)
    BY <1>1 DEF FromSealed
  <2>2. FromSealed(dst)' /\ FlagKept'
    BY <1>1, <1>4 DEF Resting, FromSealed, FlagKept
  <2> QED
    BY <1>2, <1>3, <1>4, <2>1, <2>2 DEF Resting, WriterInv
<1>5. ASSUME NEW last, NEW e, Sealing(last, e)
      PROVE  /\ FromSealed(dst)' /\ FlagKept' /\ given' = given
             /\ \E more \in Seq(WP!Stored) : dst' = dst \o more
  <2>1. given' = given
    BY <1>5 DEF Sealing
  <2> QED
    BY <1>1, <1>5, <2>1, SealingAppends
<1> QED
  BY <1>1, <1>2, <1>3, <1>4, <1>5 DEF WriterInv
-----------------------------------------------------------------------------
(* What the reader found in the file is there because the writer sealed    *)
(* it.                                                                     *)
LEMMA SealedAs ==
    ASSUME WriterInv, NEW i \in 1..Len(dst)
    PROVE  \E k \in Nat :
              /\ k * ChunkSize \in Nat /\ (k + 1) * ChunkSize \in Nat
              /\ \/ dst[i].chunk = FullChunk(k) /\ (k + 1) * ChunkSize < given
                 \/ /\ EndsInChunk(k, given)
                    /\ dst[i].chunk = FinalChunk(k, given) /\ wnonce.last
<1>1. PICK j \in 1..Len(sealed) : dst[i].chunk = sealed[j]
  BY DEF WriterInv, FromSealed
<1>2. /\ j - 1 \in Nat /\ (j - 1) + 1 = j
      /\ (j - 1) * ChunkSize \in Nat /\ j * ChunkSize \in Nat
  <2>1. j \in Nat /\ j >= 1
    BY <1>1 DEF WriterInv, Cut, IsCut
  <2> QED
    BY <2>1
<1>3. \/ sealed[j] = FullChunk(j - 1) /\ j * ChunkSize < given
      \/ EndsInChunk(j - 1, given) /\ sealed[j] = FinalChunk(j - 1, given)
  BY DEF WriterInv, Cut, IsCut
<1>4. ASSUME sealed[j] = FinalChunk(j - 1, given) PROVE wnonce.last
  <2>1. sealed[j].nonce.last
    BY <1>4 DEF FinalChunk, Seal, setLastChunkFlag
  <2> QED
    BY <2>1 DEF WriterInv, FlagKept
<1> QED
  BY <1>1, <1>2, <1>3, <1>4

(* A reader between two chunks has not got further than the writer ...     *)
LEMMA BoundaryWithin ==
    WriterInv /\ RP!TypeOK /\ RP!AtBoundary => RP!returned <= given
<1> SUFFICES ASSUME WriterInv, RP!TypeOK, RP!AtBoundary PROVE RP!returned <= given
  OBVIOUS
<1> DEFINE n == rnonce.ctr
<1>1. /\ RP!returned = n * ChunkSize /\ n \in Nat /\ given \in Nat
      /\ \A j \in 0..(n - 1) : FullChunkAt(dst, j)
  BY SameFormat DEF RP!AtBoundary, RP!TypeOK, RP!Nonce, WriterInv, WP!Inv, WP!TypeOK
<1> HIDE DEF n
<1>2. CASE n = 0
  BY <1>1, <1>2
<1>3. CASE n # 0
  <2> DEFINE k == n - 1
             at == k * encChunkSize + 1
  <2>1. k \in Nat /\ k + 1 = n /\ FullChunkAt(dst, k)
    BY <1>1, <1>3
  <2> HIDE DEF k
  <2>2. /\ at \in 1..Len(dst) /\ dst[at].chunk = FullChunk(k)
    <3>1. Starts(dst, k * encChunkSize, FullChunk(k))
      BY <2>1, FullChunkCell DEF WriterInv, FromSealed
    <3> QED
      BY <3>1 DEF Starts
  <2>3. PICK l \in Nat :
            /\ l * ChunkSize \in Nat /\ (l + 1) * ChunkSize \in Nat
            /\ \/ dst[at].chunk = FullChunk(l) /\ (l + 1) * ChunkSize < given
               \/ dst[at].chunk = FinalChunk(l, given)
    BY <2>2, SealedAs
  <2>4. dst[at].chunk = FullChunk(l) /\ (l + 1) * ChunkSize < given /\ l = k
    BY <2>1, <2>2, <2>3, ChunksDiffer
  <2>5. n * ChunkSize < given
    BY <2>1, <2>4
  <2> QED
    BY <1>1, <2>3, <2>4, <2>5
<1> QED
  BY <1>2, <1>3

(* ... and one that is behind the last chunk has come as far.              *)
LEMMA CompleteIsAll ==
    WriterInv /\ RP!TypeOK /\ RP!CompleteUpTo(pos, RP!returned) => AllRead
<1> SUFFICES ASSUME WriterInv, RP!TypeOK, RP!CompleteUpTo(pos, RP!returned) PROVE AllRead
  OBVIOUS
<1> DEFINE r == RP!returned
<1>1. r \in Nat /\ given \in Nat /\ pos \in Nat /\ pos <= Len(dst) /\ Len(dst) \in Nat
      /\ dst \in Seq(WP!Stored)
  BY DEF RP!returned, RP!TypeOK, WriterInv, WP!Inv, WP!TypeOK, FromSealed
<1> HIDE DEF r
<1>2. PICK k \in 0..r :
        /\ EndsInChunk(k, r)
        /\ SubSeq(dst, k * encChunkSize + 1, pos) = Cells(FinalChunk(k, r))
  BY SameFormat DEF RP!CompleteUpTo, r
<1> DEFINE a == k * encChunkSize
<1>3. k \in Nat /\ a \in Nat
  BY <1>1 DEF encChunkSize
<1>4. FinalChunk(k, r) \in SealedChunk
  BY <1>1, <1>2, <1>3, ChunkTypes
<1>5. FinalChunk(k, r).data \in Seq(Nat)
  BY <1>4 DEF SealedChunk
<1>6. Holds(dst, a, pos, FinalChunk(k, r))
  BY <1>1, <1>2, <1>5 DEF Holds
<1> HIDE DEF a
<1>7. a + 1 \in 1..Len(dst) /\ dst[a + 1].chunk = FinalChunk(k, r)
  <2>1. Starts(dst, a, FinalChunk(k, r))
    BY <1>1, <1>3, <1>6, FirstCell
  <2> QED
    BY <2>1 DEF Starts
<1>8. PICK l \in Nat :
        \/ dst[a + 1].chunk = FullChunk(l)
        \/ /\ EndsInChunk(l, given)
           /\ dst[a + 1].chunk = FinalChunk(l, given) /\ wnonce.last
  BY <1>7, SealedAs
<1>9. /\ EndsInChunk(l, given) /\ wnonce.last
      /\ FinalChunk(k, r) = FinalChunk(l, given) /\ k = l
  BY <1>3, <1>7, <1>8, ChunksDiffer
<1>10. r = given
  BY <1>1, <1>2, <1>3, <1>9, LastIsWhole
<1> QED
  BY <1>9, <1>10 DEF AllRead, r
-----------------------------------------------------------------------------
(* The cells of the file are what the reader's proofs ask of a file.       *)
LEMMA StoredIsGenuine == WriterInv => RP!GenuineFile
<1> SUFFICES ASSUME WriterInv PROVE RP!GenuineFile
  OBVIOUS
<1>1. dst \in Seq(WP!Stored) /\ given \in Nat
  BY DEF WriterInv, FromSealed, WP!Inv, WP!TypeOK
<1>2. WP!Stored \subseteq RP!Cell
  BY DEF WP!Stored, WP!Sealed, WP!Nonce, RP!Cell
<1>3. dst \in Seq(RP!Cell)
  BY <1>1, <1>2
<1>4. ASSUME NEW i \in 1..Len(dst) PROVE RP!Genuine(dst[i])
  <2>1. PICK k \in Nat :
            /\ k * ChunkSize \in Nat /\ (k + 1) * ChunkSize \in Nat
            /\ \/ dst[i].chunk = FullChunk(k)
               \/ EndsInChunk(k, given) /\ dst[i].chunk = FinalChunk(k, given)
    BY SealedAs
  <2>2. CASE dst[i].chunk = FullChunk(k)
    <3>1. FullChunk(k).nonce.ctr = k
      BY DEF FullChunk, Seal, nonceForChunk
    <3> QED
      BY <2>2, <3>1, SameFormat DEF RP!Genuine
  <2>3. CASE EndsInChunk(k, given) /\ dst[i].chunk = FinalChunk(k, given)
    <3> DEFINE data == Bytes(k * ChunkSize, given)
    <3>1. /\ FinalChunk(k, given).nonce.ctr = k
          /\ FinalChunk(k, given).data = data
      BY DEF FinalChunk, Seal, setLastChunkFlag, nonceForChunk
    <3>2. /\ k * ChunkSize <= given /\ given <= (k + 1) * ChunkSize
          /\ (k + 1) * ChunkSize = k * ChunkSize + ChunkSize
      BY <2>3 DEF EndsInChunk
    <3>3. Len(data) = given - k * ChunkSize
      BY <1>1, <2>1, <3>2, BytesType
    <3> HIDE DEF data
    <3>4. Len(data) <= ChunkSize /\ k * ChunkSize + Len(data) = given
      BY <1>1, <2>1, <3>2, <3>3
    <3> QED
      BY <2>3, <3>1, <3>4, SameFormat DEF RP!Genuine
  <2> QED
    BY <2>1, <2>2, <2>3
<1> QED
  BY <1>3, <1>4 DEF RP!GenuineFile

(* What the reader found in a file stays there when more is written.       *)
LEMMA GrowthKeeps ==
    ASSUME ReaderInv, WriterInv, WriterInv', given \in Nat, given' \in Nat, given <= given',
           wnonce.last => UNCHANGED <<given, dst, wnonce>>,
           NEW more \in Seq(WP!Stored), dst' = dst \o more,
           UNCHANGED rvars
    PROVE  ReaderInv'
<1>1. UNCHANGED <<rpc, pos, want, unread, rnonce, rerr, rret, out>>
  BY DEF rvars
<1>2. /\ RP!Inv /\ RP!returned <= given /\ (rpc = "probe" \/ rerr = "EOF" => AllRead)
  BY DEF ReaderInv
<1>3. RP!returned' = RP!returned /\ RP!returned \in Nat
  BY <1>1, <1>2 DEF RP!returned, RP!Inv, RP!TypeOK
<1>a. RP!GenuineFile'
  BY StoredIsGenuine, PTL
<1>4. CASE wnonce.last
  <2>1. UNCHANGED <<given, dst, wnonce>>
    BY <1>4
  <2>2. RP!TypeOK' /\ RP!OnlyMessageLeaves' /\ RP!PlainEOF'
    BY <1>1, <1>2, <1>3, <2>1 DEF RP!Inv, RP!TypeOK, RP!OnlyMessageLeaves, RP!PlainEOF
  <2>3. RP!AtBoundary => RP!AtBoundary'
    BY <1>1, <1>3, <2>1 DEF RP!AtBoundary, RP!FullChunkAt
  <2>4. RP!CompleteUpTo(pos, RP!returned) => RP!CompleteUpTo(pos, RP!returned)'
    BY <1>1, <1>3, <2>1 DEF RP!CompleteUpTo, RP!FullChunkAt
  <2>5. RP!Inv'
    BY <1>1, <1>2, <1>a, <2>2, <2>3, <2>4 DEF RP!Inv
  <2> QED
    BY <1>1, <1>2, <1>3, <2>1, <2>5 DEF ReaderInv, AllRead
<1>5. CASE ~wnonce.last
  <2>1. rpc # "probe" /\ rerr # "EOF"
    BY <1>2, <1>5 DEF AllRead
  <2>2. /\ dst \in Seq(WP!Stored) /\ pos \in Nat /\ pos <= Len(dst)
        /\ Len(dst) \in Nat /\ Len(dst) <= Len(dst')
        /\ \A b \in Nat : b <= Len(dst) =>
              \A a \in Nat \ {0} : SubSeq(dst', a, b) = SubSeq(dst, a, b)
    <3>1. dst \in Seq(WP!Stored) /\ pos \in 0..Len(dst)
      BY <1>2 DEF WriterInv, FromSealed, RP!Inv, RP!TypeOK
    <3>2. Len(dst') = Len(dst) + Len(more)
      BY <3>1
    <3> QED
      BY <3>1, <3>2, SubSeqOfFirst
  <2>3. RP!TypeOK' /\ RP!OnlyMessageLeaves' /\ RP!PlainEOF'
    <3>1. pos' \in 0..Len(dst')
      BY <1>1, <2>2
    <3> QED
      BY <1>1, <1>2, <2>1, <3>1 DEF RP!Inv, RP!TypeOK, RP!OnlyMessageLeaves, RP!PlainEOF
  <2>4. ASSUME NEW j \in Nat, FullChunkAt(dst, j) PROVE FullChunkAt(dst', j)
    <3> DEFINE a == j * encChunkSize
               b == (j + 1) * encChunkSize
    <3>1. a \in Nat /\ b \in Nat
      <4>1. encChunkSize \in Nat
        BY DEF encChunkSize
      <4> QED
        BY <4>1
    <3>2. b <= Len(dst) /\ SubSeq(dst, a + 1, b) = Cells(FullChunk(j))
      BY <2>4 DEF FullChunkAt
    <3> HIDE DEF a, b
    <3>3. b <= Len(dst') /\ SubSeq(dst', a + 1, b) = Cells(FullChunk(j))
      BY <2>2, <3>1, <3>2
    <3> QED
      BY <3>3 DEF FullChunkAt, a, b
  <2>5. RP!AtBoundary => RP!AtBoundary'
    <3> SUFFICES ASSUME RP!AtBoundary PROVE RP!AtBoundary'
      OBVIOUS
    <3>1. rnonce.ctr \in Nat
      BY <1>2 DEF RP!Inv, RP!TypeOK, RP!Nonce
    <3>2. \A j \in 0..(rnonce.ctr - 1) : RP!FullChunkAt(dst', j)
      BY <2>4, <3>1, SameFormat DEF RP!AtBoundary
    <3> QED
      BY <1>1, <1>3, <3>2 DEF RP!AtBoundary
  <2>6. RP!Inv'
    BY <1>1, <1>2, <1>a, <2>1, <2>3, <2>5 DEF RP!Inv
  <2> QED
    BY <1>1, <1>2, <1>3, <2>1, <2>6 DEF ReaderInv
<1> QED
  BY <1>4, <1>5

LEMMA ReaderStepKeeps == ASSUME Inv, R!Next, UNCHANGED wvars PROVE Inv'
<1>1. WriterInv /\ RP!Inv /\ RP!returned <= given /\ (rpc = "probe" \/ rerr = "EOF" => AllRead)
  BY DEF Inv, ReaderInv
<1>2. RP!Inv'
  BY <1>1, ReaderKeeps
<1>3. /\ dst' = dst
      /\ \/ rpc' \in {"idle", "probe"} /\ rerr' = "nil"
         \/ /\ RP!returned' = RP!returned
            /\ rpc' = "probe" \/ rerr' = "EOF" => rpc = "probe" \/ rerr = "EOF"
  <2>1. RP!Probe => rpc = "probe"
    BY DEF RP!Probe
  <2> QED
    BY <1>1, <2>1, SameReader, ReaderAssumptions, RP!NextDoes,
       RP!ChunkSizeAssumption, RP!OverheadAssumption
<1>4. UNCHANGED <<wpc, given, p, total, buf, wnonce, werr, wret, sealed>>
  BY DEF wvars
<1>5. WriterInv'
  <2>1. WP!Inv' = WP!Inv /\ WP!status' = WP!status
    BY <1>4 DEF WP!Inv, WP!TypeOK, WP!NothingLost, WP!NeverPanics, WP!status
  <2> QED
    BY <1>1, <1>3, <1>4, <2>1 DEF WriterInv, Cut, FromSealed, FlagKept
<1>6. CASE rpc' \in {"idle", "probe"} /\ rerr' = "nil"
  <2>1. RP!TypeOK' /\ (rpc' = "probe" => RP!CompleteUpTo(pos, RP!returned)')
        /\ (rpc' # "probe" => RP!AtBoundary')
    BY <1>2, <1>6 DEF RP!Inv
  <2>2. WriterInv' /\ RP!TypeOK' /\ RP!AtBoundary' => (RP!returned <= given)'
    BY BoundaryWithin, PTL
  <2>3. WriterInv' /\ RP!TypeOK' /\ RP!CompleteUpTo(pos, RP!returned)' => AllRead'
    BY CompleteIsAll, PTL
  <2>4. given \in Nat /\ given' = given
    BY <1>1, <1>4 DEF WriterInv, WP!Inv, WP!TypeOK
  <2>5. rpc' = "probe" => AllRead'
    BY <1>5, <2>1, <2>3
  <2>6. RP!returned' <= given'
    BY <1>5, <2>1, <2>2, <2>4, <2>5 DEF AllRead
  <2> QED
    BY <1>2, <1>5, <1>6, <2>5, <2>6 DEF Inv, ReaderInv
<1>7. CASE /\ RP!returned' = RP!returned
           /\ rpc' = "probe" \/ rerr' = "EOF" => rpc = "probe" \/ rerr = "EOF"
  BY <1>1, <1>2, <1>4, <1>5, <1>7 DEF Inv, ReaderInv, AllRead
<1> QED
  BY <1>3, <1>6, <1>7
-----------------------------------------------------------------------------
LEMMA InitInv == Init => Inv
<1> SUFFICES ASSUME Init PROVE Inv
  OBVIOUS
<1>1. /\ WP!Inv /\ Cut /\ RP!Inv
  BY WriterInit, ReaderInit
<1>2. /\ dst = <<>> /\ sealed = <<>> /\ given = 0
      /\ rpc = "idle" /\ rerr = "nil" /\ out = <<>> /\ unread = <<>>
  BY DEF Init, W!Init, R!Init
<1>3. WriterInv
  BY <1>1, <1>2 DEF WriterInv, FromSealed, FlagKept
<1>4. RP!returned = 0
  BY <1>2 DEF RP!returned
<1> QED
  BY <1>1, <1>2, <1>3, <1>4 DEF Inv, ReaderInv

LEMMA NextInv == Inv /\ [Next]_vars => Inv'
<1> SUFFICES ASSUME Inv, [Next]_vars PROVE Inv'
  OBVIOUS
<1>1. CASE WriterStep
  <2>1. WriterInv /\ ReaderInv /\ W!Next /\ UNCHANGED rvars /\ given \in Nat
    BY <1>1 DEF Inv, WriterStep, WriterInv, WP!Inv, WP!TypeOK
  <2>2. /\ WriterInv' /\ given' \in Nat /\ given <= given'
        /\ wnonce.last => UNCHANGED <<given, dst, wnonce>>
    BY <2>1, WriterStepKeeps
  <2>3. PICK more \in Seq(WP!Stored) : dst' = dst \o more
    BY <2>1, WriterStepKeeps
  <2>4. ReaderInv'
    BY <2>1, <2>2, <2>3, GrowthKeeps
  <2> QED
    BY <2>2, <2>4 DEF Inv
<1>2. CASE ReaderStep
  BY <1>2, ReaderStepKeeps DEF ReaderStep
<1>3. CASE UNCHANGED vars
  <2>1. /\ UNCHANGED <<wpc, given, p, total, buf, wnonce, werr, wret, sealed, dst>>
        /\ UNCHANGED <<rpc, pos, want, unread, rnonce, rerr, rret, out>>
    BY <1>3 DEF vars, wvars, rvars
  <2>2. WriterInv'
    BY <2>1 DEF Inv, WriterInv, Cut, FromSealed, FlagKept, WP!Inv, WP!TypeOK,
                WP!NothingLost, WP!NeverPanics, WP!status
  <2>3. RP!Inv' /\ RP!returned' = RP!returned
    BY <2>1, ReaderAssumptions, RP!NextInv, RP!ChunkSizeAssumption, RP!OverheadAssumption
       DEF Inv, ReaderInv, RP!vars, RP!source, RP!returned
  <2> QED
    BY <2>1, <2>2, <2>3 DEF Inv, ReaderInv, AllRead
<1> QED
  BY <1>1, <1>2, <1>3 DEF Next

(* Whenever the file is read, and whatever has become of its writer, what  *)
(* comes out is a beginning of what the writer was given.                  *)
THEOREM ReadsBackPrefix == Spec => []ReadBackIsPrefix
<1>1. Inv => ReadBackIsPrefix
  BY SameReader DEF Inv, ReaderInv, RP!Inv, RP!returned, ReadBackIsPrefix
<1> QED
  BY <1>1, InitInv, NextInv, PTL DEF Spec

(* A reader that reports EOF has returned all that the writer was given,   *)
(* and the writer had got to Close: no crash, failed write or early read   *)
(* leaves a file that passes for a complete one.                           *)
THEOREM EOFOnlyAfterClose == Spec => []EOFMeansClosed
<1>1. Inv => EOFMeansClosed
  <2> SUFFICES ASSUME Inv, rerr = "EOF" PROVE out \o unread = Bytes(0, given) /\ wnonce.last
    BY DEF EOFMeansClosed
  <2>1. RP!OnlyMessageLeaves /\ AllRead
    BY DEF Inv, ReaderInv, RP!Inv
  <2>2. out \o unread = RP!Bytes(0, RP!returned)
    BY <2>1 DEF RP!OnlyMessageLeaves, RP!returned
  <2> QED
    BY <2>1, <2>2, SameFormat DEF AllRead
<1> QED
  BY <1>1, InitInv, NextInv, PTL DEF Spec
-----------------------------------------------------------------------------
(* What has been closed without an error is the whole ciphertext.          *)
LEMMA ClosedFile ==
    ASSUME WriterInv, WP!Delivered, werr = "closed"
    PROVE  RP!IsCiphertext(dst, given) /\ given \in Nat
<1>1. WP!Inv /\ WP!IsCut(sealed, given, WP!status) /\ given \in Nat
  BY SameCut DEF WriterInv, Cut, WP!Inv, WP!TypeOK
<1>2. WP!BoundsAssumption
  BY BoundsAssumption
<1>3. WP!IsCiphertext(dst, given)
  BY <1>1, <1>2, WP!ClosedWhole, WP!ChunkSizeAssumption, WP!OverheadAssumption
<1>4. WP!ChunksOf(given) = RP!ChunksOf(given)
  <2>1. WP!ChunkCount(given) = RP!ChunkCount(given)
    BY DEF WP!ChunkCount, RP!ChunkCount
  <2>2. \A k, n : WP!FullChunk(k) = RP!FullChunk(k) /\ WP!FinalChunk(k, n) = RP!FinalChunk(k, n)
    BY SameFormat
  <2> QED
    BY <2>1, <2>2, Zenon DEF WP!ChunksOf, RP!ChunksOf
<1>5. ASSUME NEW chunks PROVE WP!IsStreamOf(dst, chunks) <=> RP!IsStreamOf(dst, chunks)
  <2>1. \A c : WP!Cells(c) = RP!Cells(c)
    BY SameFormat
  <2> QED
    BY <2>1 DEF WP!IsStreamOf, RP!IsStreamOf, WP!encChunkSize, RP!encChunkSize
<1> QED
  BY <1>1, <1>3, <1>4, <1>5 DEF WP!IsCiphertext, RP!IsCiphertext

(* A reader that is healthy when the stream has been closed stays so up to *)
(* the end, however early it began to read the growing file.               *)
StaysReadable ==
    [][werr = "closed" /\ rerr = "nil" => rerr' \in {"nil", "EOF"}]_vars

LEMMA ReaderStaysHealthy ==
    ASSUME Inv, WP!Delivered, werr = "closed", rerr = "nil", R!Next
    PROVE  rerr' \in {"nil", "EOF"}
<1>1. RP!IsCiphertext(dst, given) /\ given \in Nat
  BY ClosedFile DEF Inv
<1>2. RP!Inv /\ RP!Next /\ RP!Faultless
  BY SameReader DEF Inv, ReaderInv, RP!Faultless
<1> QED
  BY <1>1, <1>2, ReaderAssumptions, RP!IntactStep,
     RP!ChunkSizeAssumption, RP!OverheadAssumption

LEMMA DeliveredKept ==
    /\ Init => WP!Delivered
    /\ Inv /\ WP!Delivered /\ [Next]_vars => WP!Delivered'
<1>1. WP!BoundsAssumption
  BY BoundsAssumption
<1>2. ASSUME Init PROVE WP!Delivered
  <2>1. WP!Init
    BY <1>2, SameWriter DEF Init
  <2> QED
    BY <1>1, <2>1, WP!InitDelivered, WP!ChunkSizeAssumption, WP!OverheadAssumption
<1>3. ASSUME Inv, WP!Delivered, [Next]_vars PROVE WP!Delivered'
  <2>1. CASE WriterStep
    <3>1. WP!Inv /\ WP!Next
      BY <1>3, <2>1, SameWriter DEF Inv, WriterInv, WriterStep
    <3> QED
      BY <1>1, <1>3, <3>1, WP!NextDelivered, WP!ChunkSizeAssumption, WP!OverheadAssumption
  <2>2. CASE ReaderStep \/ UNCHANGED vars
    <3>1. dst' = dst /\ UNCHANGED wvars
      BY <1>3, <2>2, SameReader, ReaderAssumptions, RP!NextDoes,
         RP!ChunkSizeAssumption, RP!OverheadAssumption
         DEF Inv, ReaderInv, ReaderStep, vars
    <3>2. sealed' = sealed /\ werr' = werr
      BY <3>1 DEF wvars
    <3> QED
      BY <1>3, <3>1, <3>2 DEF WP!Delivered, WP!DstIsPrefix
  <2> QED
    BY <1>3, <2>1, <2>2 DEF Next
<1> QED
  BY <1>2, <1>3

(* Once a stream has been closed without an error, no reader of it that is *)
(* not in error yet will ever be, though it began while the file was still *)
(* being written and stopped anywhere between two chunks: what Close adds  *)
(* never contradicts what the reader has already taken.                    *)
THEOREM ClosedStaysReadable == Spec => StaysReadable
<1>1. ASSUME Inv, WP!Delivered, [Next]_vars
      PROVE  [werr = "closed" /\ rerr = "nil" => rerr' \in {"nil", "EOF"}]_vars
  <2>1. CASE WriterStep \/ UNCHANGED vars
    BY <2>1 DEF WriterStep, vars, rvars
  <2>2. CASE ReaderStep
    BY <1>1, <2>2, ReaderStaysHealthy DEF ReaderStep
  <2> QED
    BY <1>1, <2>1, <2>2 DEF Next
<1> QED
  BY <1>1, InitInv, NextInv, DeliveredKept, PTL DEF Spec, StaysReadable
=============================================================================
