------------------------- MODULE DecryptReaderProofs -------------------------
(***************************************************************************)
(* Proofs about DecryptReader, for every chunk size, any file whose cells  *)
(* come from chunks of messages or from none, and any source: only the     *)
(* message comes out, and EOF is reported for a complete file only.        *)
(***************************************************************************)
EXTENDS DecryptReader, FormatProofs

USE ChunkSizeAssumption, OverheadAssumption, MaxReadAssumption

returned == Len(out) + Len(unread)

(* What every file the source may have is made of: all the proofs need.    *)
GenuineFile == file \in Seq(Cell) /\ \A i \in 1..Len(file) : Genuine(file[i])

(* Between two chunks the reader has passed as many full ones as its       *)
(* counter says, and returned or kept what was in them.                    *)
AtBoundary ==
    LET n == nonce.ctr
    IN  /\ nonce = nonceForChunk(n)
        /\ returned = n * ChunkSize
        /\ pos = n * encChunkSize
        /\ \A j \in 0..(n - 1) : FullChunkAt(file, j)

(* The file's first p cells are the whole ciphertext of len bytes.         *)
CompleteUpTo(p, len) ==
    \E k \in 0..len :
        /\ EndsInChunk(k, len)
        /\ \A j \in 0..(k - 1) : FullChunkAt(file, j)
        /\ k * encChunkSize <= p
        /\ SubSeq(file, k * encChunkSize + 1, p) = Cells(FinalChunk(k, len))

(* Behind a source that never returns a byte together with the EOF.        *)
PlainEOF == "dataWithEOF" \notin quirks /\ err = "EOF" => IsCiphertext(file, returned)

(* The inductive invariant: what has been returned is the message, and     *)
(* where in the file the reader is.                                        *)
Inv ==
    /\ TypeOK
    /\ OnlyMessageLeaves
    /\ GenuineFile /\ quirks \subseteq Quirks
    /\ pc # "idle" => err = "nil"
    /\ pc = "chunk" => unread = <<>> /\ want <= MaxRead
    /\ pc # "probe" /\ err = "nil" => AtBoundary
    /\ pc = "probe" => CompleteUpTo(pos, returned)
    /\ PlainEOF
-----------------------------------------------------------------------------
(* Cells that open under a nonce are the chunk of that number, the last of *)
(* some message if the nonce is flagged.                                   *)
LEMMA OpenedChunk ==
    ASSUME NEW cells \in Seq(Cell), \A i \in 1..Len(cells) : Genuine(cells[i]),
           NEW k \in Nat, NEW last \in BOOLEAN,
           Opens([ctr |-> k, last |-> last], cells)
    PROVE  LET plain == Plaintext(cells)
               to    == k * ChunkSize + Len(plain)
           IN  /\ plain \in Seq(Nat) /\ Len(plain) <= ChunkSize
               /\ plain = Bytes(k * ChunkSize, to)
               /\ Len(cells) = Len(plain) + Overhead
               /\ last => cells = Cells(FinalChunk(k, to))
               /\ ~last => Len(plain) = ChunkSize /\ cells = Cells(FullChunk(k))
<1> DEFINE chunk == cells[1].chunk
           plain == Plaintext(cells)
           base  == k * ChunkSize
<1>1. /\ cells # <<>> /\ cells = Cells(chunk)
      /\ chunk.nonce = [ctr |-> k, last |-> last]
  BY DEF Opens
<1>2. 1 \in 1..Len(cells) /\ cells[1] \in Cell
  BY <1>1
<1>3. plain \in Seq(Nat) /\ plain = chunk.data
  BY <1>2 DEF Cell, Plaintext
<1>4. Len(cells) = Len(plain) + Overhead
  <2>1. Len(Cells(chunk)) = Len(chunk.data) + Overhead
    BY <1>3 DEF Cells
  <2> QED
    BY <1>1, <1>3, <2>1
<1>5. chunk.nonce.ctr = k /\ chunk.nonce.last = last
  BY <1>1
<1>6. \/ chunk = FullChunk(k)
      \/ Len(plain) <= ChunkSize /\ chunk = FinalChunk(k, base + Len(plain))
  <2>1. Genuine(cells[1])
    BY <1>2
  <2> QED
    BY <1>3, <1>5, <2>1 DEF Genuine
<1>7. base \in Nat /\ Len(plain) \in Nat /\ (k + 1) * ChunkSize = base + ChunkSize
  BY <1>3
<1>8. /\ FullChunk(k).nonce.last = FALSE
      /\ FullChunk(k).data = Bytes(base, base + ChunkSize)
      /\ FinalChunk(k, base + Len(plain)).nonce.last = TRUE
      /\ FinalChunk(k, base + Len(plain)).data = Bytes(base, base + Len(plain))
  BY <1>7 DEF FullChunk, FinalChunk, Seal, nonceForChunk, setLastChunkFlag
<1> HIDE DEF base
<1>9. Len(Bytes(base, base + ChunkSize)) = ChunkSize
  BY <1>7 DEF Bytes
<1> HIDE DEF chunk, plain
<1> DEFINE OpenedRight ==
             /\ Len(plain) <= ChunkSize
             /\ plain = Bytes(base, base + Len(plain))
             /\ last => cells = Cells(FinalChunk(k, base + Len(plain)))
             /\ ~last => Len(plain) = ChunkSize /\ cells = Cells(FullChunk(k))
<1>10. ASSUME ~last PROVE OpenedRight
  <2>1. chunk = FullChunk(k)
    BY <1>5, <1>6, <1>8, <1>10
  <2>2. plain = Bytes(base, base + ChunkSize) /\ Len(plain) = ChunkSize
    BY <1>3, <1>8, <1>9, <2>1
  <2> QED
    BY <1>1, <1>7, <1>10, <2>1, <2>2
<1>11. ASSUME last PROVE OpenedRight
  <2>1. Len(plain) <= ChunkSize /\ chunk = FinalChunk(k, base + Len(plain))
    BY <1>5, <1>6, <1>8, <1>11
  <2>2. plain = Bytes(base, base + Len(plain))
    BY <1>3, <1>8, <2>1
  <2> QED
    BY <1>1, <1>11, <2>1, <2>2
<1> QED
  BY <1>3, <1>4, <1>10, <1>11, Zenon DEF base, plain

(* Delivering loses nothing and keeps the order.                           *)
LEMMA DeliverKeeps ==
    ASSUME NEW n \in 0..MaxRead, NEW plain \in Seq(Nat), out \in Seq(Nat),
           Deliver(n, plain)
    PROVE  /\ out' \in Seq(Nat) /\ unread' \in Seq(Nat) /\ Len(unread') <= Len(plain)
           /\ out' \o unread' = out \o plain
           /\ returned' = Len(out) + Len(plain)
           /\ ret' \in [n : 0..MaxRead, err : Errors]
<1> DEFINE k == Lesser(n, Len(plain))
           a == SubSeq(plain, 1, k)
           b == SubSeq(plain, k + 1, Len(plain))
<1>1. k \in Nat /\ k <= n /\ k <= Len(plain) /\ n \in Nat /\ Len(plain) \in Nat
  BY DEF Lesser
<1>2. out' = out \o a /\ unread' = b /\ ret' = Ret(k, "nil")
  BY DEF Deliver
<1>3. ret' \in [n : 0..MaxRead, err : Errors]
  <2>1. k \in 0..MaxRead
    BY <1>1
  <2> HIDE DEF k
  <2> QED
    BY <1>2, <2>1 DEF Ret, Errors
<1> HIDE DEF k
<1>4. /\ a \in Seq(Nat) /\ Len(a) = k /\ b \in Seq(Nat) /\ Len(b) = Len(plain) - k
  BY <1>1
<1>5. a \o b = plain
  <2>1. k \in 0..Len(plain)
    BY <1>1
  <2> HIDE DEF k
  <2> QED
    BY <2>1, SplitJoins
<1> HIDE DEF a, b
<1>6. /\ out \o a \in Seq(Nat) /\ Len(out \o a) = Len(out) + k
  BY <1>4, ConcatProperties
<1>7. (out \o a) \o b = out \o plain
  <2>1. (out \o a) \o b = out \o (a \o b)
    <3>1. out \in Seq(Nat) /\ a \in Seq(Nat) /\ b \in Seq(Nat)
      BY <1>4
    <3>2. Associates(out, a, b)
      BY <3>1, ConcatAssociates
    <3> QED
      BY <3>2 DEF Associates
  <2> QED
    BY <1>5, <2>1
<1>8. Len(out) \in Nat
  OBVIOUS
<1>9. Len(out') + Len(unread') = Len(out) + Len(plain) /\ Len(unread') <= Len(plain)
  BY <1>1, <1>2, <1>4, <1>6, <1>8
<1> QED
  BY <1>2, <1>3, <1>4, <1>6, <1>7, <1>9 DEF returned

(* What of the file is read as a chunk.                                    *)
LEMMA FileCells ==
    ASSUME GenuineFile, pos \in 0..Len(file), NEW k \in Nat, k <= Len(file) - pos
    PROVE  LET cells == SubSeq(file, pos + 1, pos + k)
           IN  /\ cells \in Seq(Cell) /\ Len(cells) = k
               /\ \A i \in 1..Len(cells) : Genuine(cells[i])
<1> DEFINE cells == SubSeq(file, pos + 1, pos + k)
<1>1. file \in Seq(Cell) /\ \A i \in 1..Len(file) : Genuine(file[i])
  BY DEF GenuineFile
<1>2. pos \in Nat /\ Len(file) \in Nat /\ pos + k <= Len(file)
  BY <1>1
<1>3. /\ cells \in Seq(Cell) /\ Len(cells) = k
      /\ \A i \in 1..k : pos + i \in 1..Len(file) /\ cells[i] = file[pos + i]
  BY <1>1, <1>2
<1> QED
  BY <1>1, <1>3

(* No step changes the file.                                               *)
LEMMA SameFile == ASSUME GenuineFile, file' = file PROVE GenuineFile'
BY DEF GenuineFile
-----------------------------------------------------------------------------
LEMMA InitInv == Init => Inv
<1> SUFFICES ASSUME Init PROVE Inv
  OBVIOUS
<1>1. zeroNonce = nonceForChunk(0) /\ zeroNonce \in Nonce /\ zeroNonce.ctr = 0
  BY DEF zeroNonce, nonceForChunk, Nonce
<1>2. Bytes(0, 0) = <<>>
  BY DEF Bytes
<1>3. GenuineFile /\ file \in Seq(Cell)
  BY FilesAssumption DEF Init, GenuineFile
<1>4. TypeOK
  BY <1>1, <1>3 DEF Init, TypeOK, Ret, Errors
<1>5. returned = 0
  BY DEF Init, returned
<1>6. OnlyMessageLeaves
  BY <1>2 DEF Init, OnlyMessageLeaves
<1>7. AtBoundary
  BY <1>1, <1>5 DEF Init, AtBoundary, encChunkSize
<1> QED
  BY <1>3, <1>4, <1>6, <1>7 DEF Init, Inv, PlainEOF

(* A call that returns plaintext at hand moves it from one place to the    *)
(* other.                                                                  *)
LEMMA UnreadKeeps ==
    ASSUME Inv, NEW n \in 0..MaxRead, ReadUnread(n)
    PROVE  Inv'
<1>1. /\ Deliver(n, unread) /\ UNCHANGED <<pc, file, quirks, pos, want, nonce, err>>
      /\ pc = "idle"
  BY DEF ReadUnread, source
<1>2. unread \in Seq(Nat) /\ Len(unread) <= ChunkSize /\ out \in Seq(Nat)
  BY DEF Inv, TypeOK
<1>3. /\ out' \in Seq(Nat) /\ unread' \in Seq(Nat) /\ Len(unread') <= Len(unread)
      /\ out' \o unread' = out \o unread
      /\ returned' = Len(out) + Len(unread)
      /\ ret' \in [n : 0..MaxRead, err : Errors]
  BY <1>1, <1>2, DeliverKeeps
<1>4. Len(unread') <= ChunkSize
  <2>1. Len(unread') \in Nat /\ Len(unread) \in Nat
    BY <1>2, <1>3
  <2> QED
    BY <1>2, <1>3, <2>1
<1>5. TypeOK'
  BY <1>1, <1>3, <1>4 DEF Inv, TypeOK
<1>6. returned' = returned
  BY <1>3 DEF returned
<1>7. OnlyMessageLeaves'
  BY <1>3, <1>6 DEF Inv, OnlyMessageLeaves, returned
<1>8. AtBoundary' = AtBoundary /\ PlainEOF' = PlainEOF
  BY <1>1, <1>6 DEF AtBoundary, PlainEOF, FullChunkAt
<1> QED
  BY <1>1, <1>5, <1>7, <1>8, SameFile DEF Inv

(* readChunk fails.                                                        *)
LEMMA ErrorKeeps ==
    ASSUME Inv, pc = "chunk", pos' \in 0..Len(file), UNCHANGED <<source, want>>,
           NEW e \in Errors \ {"nil", "EOF"}, NEW used \in Nonce, ChunkError(e, used)
    PROVE  Inv'
<1>1. /\ err' = e /\ ret' = Ret(0, e) /\ nonce' = used /\ pc' = "idle"
      /\ UNCHANGED <<unread, out, file, quirks, want>>
  BY DEF ChunkError, source
<1>2. TypeOK'
  BY <1>1 DEF Inv, TypeOK, Ret
<1>3. OnlyMessageLeaves' /\ PlainEOF'
  BY <1>1 DEF Inv, OnlyMessageLeaves, PlainEOF
<1> QED
  BY <1>1, <1>2, <1>3, SameFile DEF Inv

(* readChunk opens the n-th chunk and returns the bytes after those it has *)
(* returned.                                                               *)
LEMMA OpenedKeeps ==
    ASSUME Inv, pc = "chunk", UNCHANGED <<source, want>>,
           NEW k \in Nat, k <= Len(file) - pos, pos' = pos + k,
           NEW last \in BOOLEAN, NEW used,
           used = [ctr |-> nonce.ctr, last |-> last],
           Opens(used, SubSeq(file, pos + 1, pos + k)),
           ChunkOpened(SubSeq(file, pos + 1, pos + k), used, last)
    PROVE  /\ TypeOK' /\ OnlyMessageLeaves'
           /\ nonce' = incNonce(used) /\ err' = "nil"
           /\ pc' = IF last THEN "probe" ELSE "idle"
           /\ LET n     == nonce.ctr
                  cells == SubSeq(file, n * encChunkSize + 1, pos')
              IN  /\ last => /\ returned' <= n * ChunkSize + ChunkSize
                             /\ cells = Cells(FinalChunk(n, returned'))
                  /\ ~last => /\ returned' = n * ChunkSize + ChunkSize
                              /\ k = encChunkSize /\ cells = Cells(FullChunk(n))
           /\ returned' = nonce.ctr * ChunkSize + (k - Overhead)
           /\ nonce.ctr * ChunkSize <= returned'
<1> DEFINE n     == nonce.ctr
           base  == n * ChunkSize
           cells == SubSeq(file, pos + 1, pos + k)
           plain == Plaintext(cells)
<1>1. /\ unread = <<>> /\ want \in 0..MaxRead /\ err = "nil" /\ AtBoundary
      /\ out \in Seq(Nat) /\ n \in Nat /\ pos \in 0..Len(file) /\ GenuineFile
  BY DEF Inv, TypeOK, Nonce
<1>2. /\ Len(out) = base /\ base \in Nat /\ out = Bytes(0, base)
  <2>1. returned = base /\ returned = Len(out)
    BY <1>1 DEF AtBoundary, returned
  <2>2. out \o unread = out
    BY <1>1
  <2>3. out \o unread = Bytes(0, returned)
    BY DEF Inv, OnlyMessageLeaves, returned
  <2>4. base \in Nat
    BY <1>1
  <2> HIDE DEF base
  <2> QED
    BY <2>1, <2>2, <2>3, <2>4
<1>3. /\ cells \in Seq(Cell) /\ Len(cells) = k
      /\ \A i \in 1..Len(cells) : Genuine(cells[i])
  BY <1>1, FileCells
<1>4. /\ plain \in Seq(Nat) /\ Len(plain) <= ChunkSize
      /\ plain = Bytes(base, base + Len(plain))
      /\ Len(cells) = Len(plain) + Overhead
      /\ last => cells = Cells(FinalChunk(n, base + Len(plain)))
      /\ ~last => Len(plain) = ChunkSize /\ cells = Cells(FullChunk(n))
  <2>1. Opens([ctr |-> n, last |-> last], cells)
    OBVIOUS
  <2> HIDE DEF cells
  <2> QED
    BY <1>1, <1>3, <2>1, OpenedChunk
<1>5. /\ nonce' = incNonce(used) /\ Deliver(want, plain) /\ err' = err
      /\ pc' = IF last THEN "probe" ELSE "idle"
  BY DEF ChunkOpened, afterOpen
<1>6. UNCHANGED <<file, quirks, want>>
  BY DEF source
<1> HIDE DEF plain
<1>7. /\ out' \in Seq(Nat) /\ unread' \in Seq(Nat) /\ Len(unread') <= Len(plain)
      /\ out' \o unread' = out \o plain
      /\ returned' = base + Len(plain)
      /\ ret' \in [n : 0..MaxRead, err : Errors]
  BY <1>1, <1>2, <1>4, <1>5, DeliverKeeps
<1>8. Len(plain) \in Nat /\ Len(plain) = k - Overhead
  BY <1>3, <1>4
<1>9. TypeOK'
  <2>1. Len(unread') <= ChunkSize
    <3>1. Len(unread') \in Nat
      BY <1>7
    <3> QED
      BY <1>4, <1>7, <1>8, <3>1
  <2>2. pos' \in 0..Len(file')
    <3>1. Len(file) \in Nat /\ pos \in Nat
      BY <1>1 DEF GenuineFile
    <3> QED
      BY <1>6, <3>1
  <2>3. nonce' \in Nonce
    BY <1>1, <1>5 DEF incNonce, Nonce
  <2> QED
    BY <1>1, <1>5, <1>6, <1>7, <2>1, <2>2, <2>3 DEF TypeOK, Errors
<1>10. OnlyMessageLeaves'
  <2> HIDE DEF base
  <2>1. /\ base \in Int /\ base + Len(plain) \in Int
        /\ base <= base + Len(plain) /\ 0 <= base
    BY <1>2, <1>8
  <2>2. Bytes(0, base) \o Bytes(base, base + Len(plain)) = Bytes(0, base + Len(plain))
    BY ONLY <2>1, BytesJoin
  <2>3. out' \o unread' = Bytes(0, base + Len(plain))
    BY <1>2, <1>4, <1>7, <2>2
  <2> QED
    BY <1>7, <2>3 DEF OnlyMessageLeaves, returned
<1>11. cells = SubSeq(file, n * encChunkSize + 1, pos')
  BY <1>1 DEF AtBoundary
<1> HIDE DEF cells
<1>12. /\ last => /\ returned' <= base + ChunkSize
                  /\ cells = Cells(FinalChunk(n, returned'))
       /\ ~last => /\ returned' = base + ChunkSize
                   /\ k = encChunkSize /\ cells = Cells(FullChunk(n))
       /\ returned' = base + (k - Overhead) /\ base <= returned'
  <2> HIDE DEF base, n
  <2> QED
    BY <1>2, <1>3, <1>4, <1>7, <1>8 DEF encChunkSize
<1> QED
  BY <1>1, <1>5, <1>9, <1>10, <1>11, <1>12

LEMMA ReadChunkKeeps == ASSUME Inv, ReadChunk PROVE Inv'
<1>1. PICK k \in 0..encChunkSize, e \in {"nil", "EOF", "ErrUnexpectedEOF", "src"} :
          LET cells   == SubSeq(file, pos + 1, pos + k)
              flagged == setLastChunkFlag(nonce)
          IN  /\ ReadFull(k, e)
              /\ pos' = pos + k
              /\ \/ e = "EOF" /\ ChunkError("ErrUnexpectedEOF", nonce)
                 \/ EmptyLast(k, e) /\ ChunkError("empty", nonce)
                 \/ e = "src" /\ ChunkError("src", nonce)
                 \/ /\ e = "nil" /\ Opens(nonce, cells)
                    /\ ChunkOpened(cells, nonce, FALSE)
                 \/ /\ \/ e = "nil" /\ ~Opens(nonce, cells)
                       \/ e = "ErrUnexpectedEOF" /\ ~EmptyLast(k, e)
                    /\ IF Opens(flagged, cells)
                          THEN ChunkOpened(cells, flagged, TRUE)
                          ELSE ChunkError("auth", flagged)
  BY DEF ReadChunk
<1> DEFINE cells   == SubSeq(file, pos + 1, pos + k)
           flagged == setLastChunkFlag(nonce)
           n       == nonce.ctr
<1>2. pc = "chunk" /\ UNCHANGED <<source, want>>
  BY DEF ReadChunk
<1>3. /\ pos \in 0..Len(file) /\ Len(file) \in Nat /\ k \in Nat /\ encChunkSize \in Nat
      /\ nonce \in Nonce /\ n \in Nat /\ flagged \in Nonce /\ GenuineFile
  BY DEF Inv, GenuineFile, TypeOK, encChunkSize, Nonce, setLastChunkFlag
<1>4. k <= Len(file) - pos
  BY <1>1, <1>3 DEF ReadFull, avail
<1>5. pos' \in 0..Len(file)
  BY <1>1, <1>3, <1>4
<1>6. AtBoundary
  BY <1>2 DEF Inv
<1>7. nonce = [ctr |-> n, last |-> FALSE] /\ flagged = [ctr |-> n, last |-> TRUE]
  BY <1>6 DEF AtBoundary, nonceForChunk, setLastChunkFlag
<1>8. CASE \/ e = "EOF" /\ ChunkError("ErrUnexpectedEOF", nonce)
           \/ EmptyLast(k, e) /\ ChunkError("empty", nonce)
           \/ e = "src" /\ ChunkError("src", nonce)
           \/ ChunkError("auth", flagged)
  BY <1>2, <1>3, <1>5, <1>8, ErrorKeeps DEF Errors
<1>9. CASE e = "nil" /\ Opens(nonce, cells) /\ ChunkOpened(cells, nonce, FALSE)
  <2>1. /\ TypeOK' /\ OnlyMessageLeaves' /\ nonce' = incNonce(nonce)
        /\ err' = "nil" /\ pc' = "idle"
        /\ returned' = n * ChunkSize + ChunkSize /\ k = encChunkSize
        /\ SubSeq(file, n * encChunkSize + 1, pos') = Cells(FullChunk(n))
    BY <1>1, <1>2, <1>3, <1>4, <1>7, <1>9, OpenedKeeps
  <2>2. nonce' = nonceForChunk(n + 1)
    <3>1. nonce.last = FALSE
      BY <1>7
    <3> QED
      BY <2>1, <3>1 DEF incNonce, nonceForChunk
  <2>3. pos = n * encChunkSize /\ \A j \in 0..(n - 1) : FullChunkAt(file, j)
    BY <1>6 DEF AtBoundary
  <2>4. /\ n * encChunkSize + encChunkSize = (n + 1) * encChunkSize
        /\ n * ChunkSize + ChunkSize = (n + 1) * ChunkSize
    BY <1>3
  <2>5. pos' = (n + 1) * encChunkSize
    BY <1>1, <2>1, <2>3, <2>4
  <2>6. FullChunkAt(file, n)
    BY <1>5, <2>1, <2>5 DEF FullChunkAt
  <2>7. \A j \in 0..n : FullChunkAt(file, j)
    BY <1>3, <2>3, <2>6
  <2>8. AtBoundary'
    <3>1. nonce'.ctr = n + 1 /\ (n + 1) - 1 = n /\ file' = file
      BY <1>2, <1>3, <2>2 DEF nonceForChunk, source
    <3>2. \A j \in 0..((n + 1) - 1) : FullChunkAt(file, j)'
      BY <2>7, <3>1 DEF FullChunkAt
    <3> QED
      BY <2>1, <2>2, <2>4, <2>5, <3>1, <3>2 DEF AtBoundary
  <2> QED
    BY <1>2, <2>1, <2>8, SameFile DEF Inv, PlainEOF, source
<1>10. CASE /\ \/ e = "nil" /\ ~Opens(nonce, cells)
               \/ e = "ErrUnexpectedEOF" /\ ~EmptyLast(k, e)
            /\ Opens(flagged, cells) /\ ChunkOpened(cells, flagged, TRUE)
  <2> DEFINE base == n * ChunkSize
  <2>1. /\ TypeOK' /\ OnlyMessageLeaves' /\ err' = "nil" /\ pc' = "probe"
        /\ returned' <= base + ChunkSize /\ base <= returned'
        /\ returned' = base + (k - Overhead)
        /\ SubSeq(file, n * encChunkSize + 1, pos') = Cells(FinalChunk(n, returned'))
    BY <1>1, <1>2, <1>3, <1>4, <1>7, <1>10, OpenedKeeps
  <2>2. base = returned' => n = 0
    <3> SUFFICES ASSUME base = returned' PROVE n = 0
      OBVIOUS
    <3>1. base \in Nat
      BY <1>3
    <3> HIDE DEF base
    <3>2. k = Overhead
      BY <1>3, <2>1, <3>1
    <3>3. e = "ErrUnexpectedEOF" /\ ~EmptyLast(k, e)
      BY <1>1, <1>10, <3>2 DEF ReadFull, encChunkSize
    <3> QED
      BY <3>2, <3>3 DEF EmptyLast, nonceIsZero, zeroNonce
  <2>3. /\ base \in Nat /\ returned' \in Nat /\ (n + 1) * ChunkSize = base + ChunkSize
        /\ n <= base
    <3>1. base \in Nat /\ (n + 1) * ChunkSize = base + ChunkSize /\ n <= base
      BY <1>3
    <3>2. k - Overhead \in Int
      BY <1>3
    <3> HIDE DEF base
    <3> QED
      BY <2>1, <3>1, <3>2
  <2>4. EndsInChunk(n, returned')
    BY <2>1, <2>2, <2>3 DEF EndsInChunk
  <2>5. n \in 0..returned'
    <3> HIDE DEF base
    <3> QED
      BY <1>3, <2>1, <2>3
  <2>6. \A j \in 0..(n - 1) : FullChunkAt(file, j)
    BY <1>6 DEF AtBoundary
  <2>7. file' = file /\ quirks' = quirks
    BY <1>2 DEF source
  <2>8. CompleteUpTo(pos, returned)'
    <3>1. \A j \in 0..(n - 1) : FullChunkAt(file', j)
      BY <2>6, <2>7
    <3>2. SubSeq(file', n * encChunkSize + 1, pos') = Cells(FinalChunk(n, returned'))
      BY <2>1, <2>7
    <3>3. n * encChunkSize <= pos'
      <4>1. pos = n * encChunkSize /\ pos \in Nat
        BY <1>3, <1>6 DEF AtBoundary
      <4> QED
        BY <1>1, <1>3, <4>1
    <3> QED
      BY <2>4, <2>5, <3>1, <3>2, <3>3 DEF CompleteUpTo
  <2> QED
    BY <1>3, <2>1, <2>7, <2>8, SameFile DEF Inv, PlainEOF
<1> QED
  BY <1>1, <1>8, <1>9, <1>10

LEMMA ProbeKeeps == ASSUME Inv, Probe PROVE Inv'
<1>1. /\ pc = "probe" /\ pc' = "idle"
      /\ UNCHANGED <<file, quirks, want, unread, nonce, ret, out>>
  BY DEF Probe, source
<1>2. \/ err' \in {"trailing", "src"} /\ pos' \in {pos, pos + 1} /\ pos' <= Len(file)
      \/ /\ err' = "EOF" /\ pos' = Len(file)
         /\ pos = Len(file) \/ "dataWithEOF" \in quirks
  <2>1. pos \in 0..Len(file) /\ Len(file) \in Nat
    BY DEF Inv, GenuineFile, TypeOK
  <2> QED
    BY <2>1 DEF Probe, avail
<1>3. TypeOK'
  <2>1. pos' \in 0..Len(file')
    <3>1. pos \in 0..Len(file) /\ Len(file) \in Nat
      BY DEF Inv, GenuineFile, TypeOK
    <3> QED
      BY <1>1, <1>2, <3>1
  <2> QED
    BY <1>1, <1>2, <2>1 DEF Inv, TypeOK, Errors
<1>4. OnlyMessageLeaves'
  BY <1>1 DEF Inv, OnlyMessageLeaves
<1>5. PlainEOF'
  <2> SUFFICES ASSUME "dataWithEOF" \notin quirks, err' = "EOF"
               PROVE  IsCiphertext(file, returned)
    BY <1>1 DEF PlainEOF, returned
  <2>1. pos = Len(file) /\ CompleteUpTo(pos, returned)
    BY <1>1, <1>2 DEF Inv
  <2>2. file \in Seq(Cell) /\ returned \in Nat
    BY DEF Inv, GenuineFile, TypeOK, returned
  <2>3. PICK k \in 0..returned :
            /\ EndsInChunk(k, returned)
            /\ \A j \in 0..(k - 1) : FullChunkAt(file, j)
            /\ k * encChunkSize <= pos
            /\ SubSeq(file, k * encChunkSize + 1, pos) = Cells(FinalChunk(k, returned))
    BY <2>1 DEF CompleteUpTo
  <2>4. /\ k \in Nat /\ k * encChunkSize <= Len(file)
        /\ SubSeq(file, k * encChunkSize + 1, Len(file)) = Cells(FinalChunk(k, returned))
    BY <2>1, <2>2, <2>3
  <2> QED
    BY <2>2, <2>3, <2>4, CiphertextFromChunks, Zenon
<1>6. err' # "nil"
  BY <1>2
<1> QED
  BY <1>1, <1>3, <1>4, <1>5, <1>6, SameFile DEF Inv

LEMMA NextInv == Inv /\ [Next]_vars => Inv'
<1> SUFFICES ASSUME Inv, [Next]_vars PROVE Inv'
  OBVIOUS
<1>1. ASSUME UNCHANGED <<source, pos, unread, nonce, err, out>>
      PROVE  /\ OnlyMessageLeaves' = OnlyMessageLeaves /\ PlainEOF' = PlainEOF
             /\ AtBoundary' = AtBoundary /\ file' = file /\ quirks' = quirks
             /\ CompleteUpTo(pos, returned)' = CompleteUpTo(pos, returned)
  BY <1>1 DEF OnlyMessageLeaves, PlainEOF, AtBoundary, CompleteUpTo, returned, source,
              FullChunkAt
<1>2. ASSUME NEW n \in 0..MaxRead, ReadUnread(n) PROVE Inv'
  BY <1>2, UnreadKeeps
<1>3. CASE ReadRefused \/ ReadEmpty
  <2>1. /\ UNCHANGED <<pc, source, pos, want, unread, nonce, err, out>>
        /\ ret' = Ret(0, err)
    BY <1>3 DEF ReadRefused, ReadEmpty
  <2>2. TypeOK'
    BY <2>1 DEF Inv, TypeOK, Ret, source
  <2> QED
    BY <1>1, <2>1, <2>2, SameFile DEF Inv
<1>4. ASSUME NEW n \in 1..MaxRead, ReadCall(n) PROVE Inv'
  <2>1. /\ UNCHANGED <<source, pos, unread, nonce, err, ret, out>>
        /\ pc = "idle" /\ pc' = "chunk" /\ want' = n /\ unread = <<>> /\ err = "nil"
    BY <1>4 DEF ReadCall
  <2>2. TypeOK'
    BY <2>1 DEF Inv, TypeOK, source
  <2>3. want' <= MaxRead
    BY <2>1
  <2> QED
    BY <1>1, <2>1, <2>2, <2>3, SameFile DEF Inv
<1>5. CASE ReadChunk
  BY <1>5, ReadChunkKeeps
<1>6. CASE Probe
  BY <1>6, ProbeKeeps
<1>7. CASE UNCHANGED vars
  <2>1. UNCHANGED <<pc, source, pos, want, unread, nonce, err, ret, out>>
    BY <1>7 DEF vars
  <2>2. TypeOK'
    BY <2>1 DEF Inv, TypeOK, source
  <2> QED
    BY <1>1, <2>1, <2>2, SameFile DEF Inv
<1> QED
  BY <1>2, <1>3, <1>4, <1>5, <1>6, <1>7 DEF Next
-----------------------------------------------------------------------------
(* A reader's state is well typed: it never keeps more than a chunk of     *)
(* plaintext, nor returns more than it was asked for.                      *)
THEOREM TypeCorrect == Spec => []TypeOK
<1>1. Inv => TypeOK
  BY DEF Inv
<1> QED
  BY <1>1, InitInv, NextInv, PTL DEF Spec

(* Whatever was done to the file and however the source behaves, what      *)
(* comes out is a beginning of the message.                                *)
THEOREM ReturnsOnlyMessage == Spec => []OnlyMessageLeaves
<1>1. Inv => OnlyMessageLeaves
  BY DEF Inv
<1> QED
  BY <1>1, InitInv, NextInv, PTL DEF Spec

(* Behind sources that return no byte together with the EOF, the reader    *)
(* reports EOF only when the file is the complete ciphertext of what was   *)
(* returned: no truncation, extension, exchange or repetition of chunks    *)
(* passes for a message.                                                   *)
THEOREM EOFOnlyComplete ==
    ASSUME "dataWithEOF" \notin Quirks
    PROVE  Spec => []EOFMeansComplete
<1>1. Inv => EOFMeansComplete
  BY DEF Inv, PlainEOF, EOFMeansComplete, returned
<1> QED
  BY <1>1, InitInv, NextInv, PTL DEF Spec
-----------------------------------------------------------------------------
(* An intact file is never refused.  What the reader has passed of it and  *)
(* what it has found at its end are what the message says.                 *)
Faultless == quirks \subseteq {"dataWithEOF"}

LEMMA BoundaryInIntact ==
    ASSUME Inv, AtBoundary, NEW len \in Nat, IsCiphertext(file, len)
    PROVE  nonce.ctr < ChunkCount(len)
<1>1. file \in Seq(Cell) /\ nonce.ctr \in Nat
  BY DEF Inv, GenuineFile, TypeOK, Nonce
<1>2. \A j \in 0..(nonce.ctr - 1) : FullChunkAt(file, j)
  BY DEF AtBoundary
<1> QED
  BY <1>1, <1>2, FullsBeforeLast

LEMMA CompleteInIntact ==
    ASSUME Inv, CompleteUpTo(pos, returned), NEW len \in Nat, IsCiphertext(file, len)
    PROVE  pos = Len(file) /\ returned = len
<1>1. /\ file \in Seq(Cell) /\ Len(file) \in Nat /\ returned \in Nat
      /\ pos \in Nat /\ pos <= Len(file)
  BY DEF Inv, GenuineFile, TypeOK, returned
<1>2. PICK k \in 0..returned :
        /\ EndsInChunk(k, returned)
        /\ \A j \in 0..(k - 1) : FullChunkAt(file, j)
        /\ k * encChunkSize <= pos
        /\ SubSeq(file, k * encChunkSize + 1, pos) = Cells(FinalChunk(k, returned))
  BY DEF CompleteUpTo
<1> HIDE DEF returned
<1>3. k \in Nat
  BY <1>1
<1>4. k < ChunkCount(len)
  BY <1>1, <1>2, <1>3, FullsBeforeLast
<1> DEFINE chunk == ChunksOf(len)[k + 1]
           final == FinalChunk(k, returned)
           a     == k * encChunkSize
<1>5. LiesAt(file, k, chunk, len) /\ IsChunkOf(len, k, chunk)
  BY <1>3, <1>4, ChunkInPlace, ChunkOfMessage
<1> HIDE DEF chunk
<1>6. a \in Nat /\ Starts(file, a, chunk)
  <2>1. Starts(file, a, chunk)
    BY <1>1, <1>3, <1>5, LiesStarts
  <2> QED
    BY <1>5, <2>1 DEF LiesAt
<1>7. final.data \in Seq(Nat)
  BY <1>1, <1>2, <1>3, ChunkTypes DEF SealedChunk
<1> HIDE DEF a
<1>8. Starts(file, a, final)
  <2>1. Holds(file, a, pos, final)
    BY <1>1, <1>2, <1>7 DEF Holds, a
  <2> QED
    BY <1>1, <1>6, <2>1, FirstCell
<1>9. chunk = final
  BY <1>6, <1>8 DEF Starts
<1>10. k = ChunkCount(len) - 1 /\ chunk = FinalChunk(k, len) /\ EndsInChunk(k, len)
  <2>1. ChunkCount(len) \in Nat
    BY CountBounds
  <2>2. ~(k < ChunkCount(len) - 1)
    <3> SUFFICES ASSUME k < ChunkCount(len) - 1 PROVE FALSE
      OBVIOUS
    <3>1. FullChunk(k) = FinalChunk(k, returned)
      BY <1>5, <1>9 DEF IsChunkOf
    <3> QED
      BY <1>3, <3>1, ChunksDiffer
  <2>3. k = ChunkCount(len) - 1
    BY <1>3, <1>4, <2>1, <2>2
  <2> QED
    BY <1>5, <2>3 DEF IsChunkOf
<1>11. returned = len
  BY <1>1, <1>2, <1>3, <1>9, <1>10, LastIsWhole
<1>12. pos = Len(file)
  <2>1. a + Len(Cells(chunk)) = Len(file)
    BY <1>5, <1>10 DEF LiesAt, a
  <2>2. Len(SubSeq(file, a + 1, pos)) = pos - a
    BY <1>1, <1>2, <1>6 DEF a
  <2>3. SubSeq(file, a + 1, pos) = Cells(chunk)
    BY <1>2, <1>9 DEF a
  <2>4. Len(Cells(chunk)) \in Nat
    BY <1>5, CellsOf DEF IsChunkOf
  <2>5. Len(Cells(chunk)) = pos - a
    BY <2>2, <2>3, Zenon
  <2> DEFINE sz == Len(Cells(chunk))
  <2> HIDE DEF sz
  <2>6. sz \in Nat /\ a + sz = Len(file) /\ sz = pos - a
    BY <2>1, <2>4, <2>5 DEF sz
  <2> QED
    BY <1>1, <1>6, <2>6
<1> QED
  BY <1>11, <1>12

(* Wherever the reader stands between two chunks of an intact file, the    *)
(* next one is read whole and opens.                                       *)
LEMMA IntactChunkOpens ==
    ASSUME Inv, ReadChunk, Faultless, NEW len \in Nat, IsCiphertext(file, len)
    PROVE  err' = "nil"
<1>1. PICK k \in 0..encChunkSize, e \in {"nil", "EOF", "ErrUnexpectedEOF", "src"} :
          LET cells   == SubSeq(file, pos + 1, pos + k)
              flagged == setLastChunkFlag(nonce)
          IN  /\ ReadFull(k, e)
              /\ pos' = pos + k
              /\ \/ e = "EOF" /\ ChunkError("ErrUnexpectedEOF", nonce)
                 \/ EmptyLast(k, e) /\ ChunkError("empty", nonce)
                 \/ e = "src" /\ ChunkError("src", nonce)
                 \/ /\ e = "nil" /\ Opens(nonce, cells)
                    /\ ChunkOpened(cells, nonce, FALSE)
                 \/ /\ \/ e = "nil" /\ ~Opens(nonce, cells)
                       \/ e = "ErrUnexpectedEOF" /\ ~EmptyLast(k, e)
                    /\ IF Opens(flagged, cells)
                          THEN ChunkOpened(cells, flagged, TRUE)
                          ELSE ChunkError("auth", flagged)
  BY DEF ReadChunk
<1> DEFINE cells   == SubSeq(file, pos + 1, pos + k)
           flagged == setLastChunkFlag(nonce)
           n       == nonce.ctr
           m       == ChunkCount(len)
           chunk   == ChunksOf(len)[n + 1]
           sz      == Len(Cells(chunk))
<1>2. /\ err = "nil" /\ AtBoundary
      /\ pos \in Nat /\ Len(file) \in Nat /\ n \in Nat
  BY DEF ReadChunk, Inv, GenuineFile, TypeOK, Nonce
<1>3. n < m /\ m \in Nat
  <2>1. m \in Nat \ {0}
    BY CountBounds
  <2> QED
    BY <1>2, <2>1, BoundaryInIntact
<1>4. LiesAt(file, n, chunk, len) /\ IsChunkOf(len, n, chunk)
  BY <1>2, <1>3, ChunkInPlace, ChunkOfMessage
<1> HIDE DEF chunk
<1>5. nonce = nonceForChunk(n) /\ pos = n * encChunkSize
  BY <1>2 DEF AtBoundary
<1>6. /\ sz \in Nat /\ sz = Len(chunk.data) + Overhead /\ Len(chunk.data) \in Nat
      /\ chunk.data \in Seq(Nat) /\ encChunkSize \in Nat /\ encChunkSize = ChunkSize + Overhead
  BY <1>4, CellsOf DEF IsChunkOf, encChunkSize
<1>7. /\ SubSeq(file, pos + 1, pos + sz) = Cells(chunk)
      /\ pos + sz <= Len(file) /\ (n = m - 1 => pos + sz = Len(file))
  BY <1>4, <1>5 DEF LiesAt
<1>8. /\ Opens(chunk.nonce, Cells(chunk))
      /\ \A other : Opens(other, Cells(chunk)) => other = chunk.nonce
  BY <1>6, SealedChunkOpens, SealedUnderOne
<1> HIDE DEF sz, m
<1>9. ReadFull(k, e) /\ quirks \cap {"fails", "unexpectedEOF"} = {}
  BY <1>1 DEF Faultless
<1>10. ASSUME NEW used, NEW last \in BOOLEAN, ChunkOpened(cells, used, last)
       PROVE  err' = "nil"
  BY <1>2, <1>10 DEF ChunkOpened
<1>11. CASE n < m - 1
  <2>1. sz = encChunkSize /\ chunk.nonce = nonce
    BY <1>4, <1>5, <1>6, <1>11 DEF IsChunkOf, m
  <2>2. e = "nil" /\ k = encChunkSize
    BY <1>2, <1>6, <1>7, <1>9, <2>1 DEF ReadFull, avail
  <2>3. Opens(nonce, cells)
    BY <1>7, <1>8, <2>1, <2>2
  <2>4. ChunkOpened(cells, nonce, FALSE)
    BY <1>1, <2>2, <2>3 DEF EmptyLast
  <2> QED
    BY <1>10, <2>4
<1>12. CASE n = m - 1
  <2>1. /\ sz <= encChunkSize /\ chunk.nonce = flagged /\ flagged # nonce
        /\ Len(chunk.data) = 0 => n = 0
    <3>1. /\ Len(chunk.data) = len - n * ChunkSize /\ Len(chunk.data) <= ChunkSize
          /\ chunk.nonce = setLastChunkFlag(nonceForChunk(n)) /\ EndsInChunk(n, len)
      BY <1>4, <1>12 DEF IsChunkOf, m
    <3>2. n * ChunkSize \in Nat
      BY <1>2
    <3>3. Len(chunk.data) = 0 => n = 0
      BY <3>1, <3>2 DEF EndsInChunk
    <3>4. flagged # nonce
      BY <1>5 DEF nonceForChunk, setLastChunkFlag
    <3> QED
      BY <1>5, <1>6, <3>1, <3>3, <3>4
  <2>2. /\ k = sz /\ e \in {"nil", "ErrUnexpectedEOF"}
        /\ e = "ErrUnexpectedEOF" => k < encChunkSize
    BY <1>2, <1>6, <1>7, <1>9, <1>12, <2>1 DEF ReadFull, avail
  <2>3. ~EmptyLast(k, e)
    <3> SUFFICES ASSUME k = Overhead PROVE nonceIsZero(nonce)
      BY DEF EmptyLast
    <3>1. n = 0
      BY <1>6, <2>1, <2>2
    <3> QED
      BY <1>5, <3>1 DEF nonceIsZero, nonceForChunk, zeroNonce
  <2>4. Opens(flagged, cells) /\ ~Opens(nonce, cells)
    BY <1>7, <1>8, <2>1, <2>2
  <2>5. ChunkOpened(cells, flagged, TRUE)
    BY <1>1, <2>2, <2>3, <2>4
  <2> QED
    BY <1>10, <2>5
<1> QED
  BY <1>2, <1>3, <1>11, <1>12

(* What a step does to what was returned and to the error: nothing, unless *)
(* it reads a chunk or looks behind the last one.                          *)
LEMMA NextDoes ==
    ASSUME Inv, Next
    PROVE  /\ file' = file /\ quirks' = quirks
           /\ \/ /\ ReadChunk
                 /\ \/ pc' \in {"idle", "probe"} /\ err' = "nil"
                    \/ pc' = "idle" /\ err' \notin {"nil", "EOF"} /\ returned' = returned
              \/ Probe /\ returned' = returned /\ pc' = "idle"
              \/ /\ returned' = returned /\ err' = err
                 /\ pc' # "probe" /\ pc # "probe"
<1>1. /\ pc # "idle" => err = "nil"
      /\ unread \in Seq(Nat) /\ out \in Seq(Nat)
  BY DEF Inv, TypeOK
<1>2. ASSUME NEW n \in 0..MaxRead, ReadUnread(n)
      PROVE  /\ file' = file /\ quirks' = quirks /\ returned' = returned
             /\ pc = "idle" /\ UNCHANGED <<pc, err>>
  <2>1. /\ Deliver(n, unread) /\ UNCHANGED <<pc, file, quirks, err>>
        /\ pc = "idle"
    BY <1>2 DEF ReadUnread, source
  <2>2. returned' = Len(out) + Len(unread)
    BY <1>1, <2>1, DeliverKeeps
  <2> QED
    BY <2>1, <2>2 DEF returned
<1>3. CASE ReadRefused \/ ReadEmpty
  BY <1>3 DEF ReadRefused, ReadEmpty, source, returned
<1>4. ASSUME NEW n \in 1..MaxRead, ReadCall(n)
      PROVE  /\ file' = file /\ quirks' = quirks /\ returned' = returned
             /\ pc = "idle" /\ pc' = "chunk" /\ err' = err
  BY <1>4 DEF ReadCall, source, returned
<1>5. CASE ReadChunk
  <2>1. err = "nil" /\ file' = file /\ quirks' = quirks
    BY <1>1, <1>5 DEF ReadChunk, source
  <2>2. \/ \E cells, used : \E last \in BOOLEAN : ChunkOpened(cells, used, last)
        \/ \E used : \E e \in {"ErrUnexpectedEOF", "empty", "src", "auth"} :
              ChunkError(e, used)
    BY <1>5 DEF ReadChunk
  <2>3. ASSUME NEW cells, NEW used, NEW last \in BOOLEAN, ChunkOpened(cells, used, last)
        PROVE  pc' \in {"idle", "probe"} /\ err' = err
    BY <2>3 DEF ChunkOpened, afterOpen
  <2>4. ASSUME NEW used, NEW e \in {"ErrUnexpectedEOF", "empty", "src", "auth"},
               ChunkError(e, used)
        PROVE  returned' = returned /\ pc' = "idle" /\ err' \notin {"nil", "EOF"}
    BY <2>4 DEF ChunkError, returned
  <2> QED
    BY <1>5, <2>1, <2>2, <2>3, <2>4
<1>6. CASE Probe
  BY <1>6 DEF Probe, source, returned
<1> QED
  BY <1>2, <1>3, <1>4, <1>5, <1>6 DEF Next

(* An intact file behind a source that never fails is not refused, and its *)
(* EOF comes when all of the message has been returned.                    *)
NeverRefused ==
    \A len \in Nat : IsCiphertext(file, len) /\ Faultless =>
        err \in {"nil", "EOF"} /\ (err = "EOF" => returned = len)

LEMMA IntactStep ==
    ASSUME Inv, Next, NEW len \in Nat, IsCiphertext(file, len), Faultless,
           err \in {"nil", "EOF"}, err = "EOF" => returned = len
    PROVE  err' \in {"nil", "EOF"} /\ (err' = "EOF" => returned' = len)
<1>1. CASE ReadChunk
  <2>1. err' = "nil"
    BY <1>1, IntactChunkOpens
  <2> QED
    BY <2>1
<1>2. CASE Probe
  <2>1. pc = "probe" /\ CompleteUpTo(pos, returned) /\ returned' = returned
    BY <1>2 DEF Probe, Inv, returned
  <2>2. pos = Len(file) /\ returned = len /\ Len(file) \in Nat
    BY <2>1, CompleteInIntact DEF Inv, GenuineFile
  <2>3. err' = "EOF"
    BY <1>2, <2>2 DEF Probe, avail, Faultless
  <2> QED
    BY <2>1, <2>2, <2>3
<1>3. CASE returned' = returned /\ err' = err
  BY <1>3
<1> QED
  BY <1>1, <1>2, <1>3, NextDoes

(* A reader of the complete ciphertext of a message, over a source that    *)
(* never fails, nor returns no byte without an error, meets no error but   *)
(* EOF, and EOF only at the message's end: nothing that Read checks        *)
(* refuses what the format allows.                                         *)
THEOREM IntactNeverRefused == Spec => []NeverRefused
<1>1. Init => NeverRefused
  BY DEF Init, NeverRefused
<1>2. Inv /\ NeverRefused /\ [Next]_vars => NeverRefused'
  <2> SUFFICES ASSUME Inv, NeverRefused, [Next]_vars, NEW len \in Nat,
                      IsCiphertext(file', len), Faultless'
               PROVE  err' \in {"nil", "EOF"} /\ (err' = "EOF" => returned' = len)
    BY DEF NeverRefused
  <2>1. CASE Next
    <3>1. IsCiphertext(file, len) /\ Faultless
      BY <2>1, NextDoes DEF Faultless
    <3>2. err \in {"nil", "EOF"} /\ (err = "EOF" => returned = len)
      BY <3>1 DEF NeverRefused
    <3> QED
      BY <2>1, <3>1, <3>2, IntactStep
  <2>2. CASE UNCHANGED vars
    BY <2>2 DEF vars, source, NeverRefused, Faultless, returned
  <2> QED
    BY <2>1, <2>2
<1> QED
  BY <1>1, <1>2, InitInv, NextInv, PTL DEF Spec
=============================================================================
