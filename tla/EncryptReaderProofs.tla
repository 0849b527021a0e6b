------------------------- MODULE EncryptReaderProofs -------------------------
(***************************************************************************)
(* Proofs about EncryptReader, for every chunk size, message and sequence  *)
(* of reads: what lies in the buffer behind the ciphertext is exactly what *)
(* was pulled and not sealed, and the abstract encryptor is implemented,   *)
(* as EncryptWriter does (EncryptWriterProofs).  The last section is about *)
(* that abstract encryptor.                                                *)
(***************************************************************************)
EXTENDS EncryptReader, FormatProofs

USE ChunkSizeAssumption, OverheadAssumption, BoundsAssumption

(* What the buffer holds: cells of ciphertext and bytes of plaintext.      *)
Sealed == [nonce : Nonce, data : Seq(Nat)]
Item   == [chunk : Sealed, pos : Nat] \cup [byte : Nat]

held == SubSeq(buf, ready + 1, Len(buf))
done == Len(sealed) * ChunkSize

(* Behind the ciphertext lies what was pulled and not yet sealed.          *)
HeldIsUnsealed == err # "EOF" => held = Plain(done, pulled)

(* The inductive invariant.  While the stream is open all but one byte of  *)
(* what was pulled has been sealed when Read returns, and that byte shows  *)
(* that the message goes on behind the chunks sealed.                      *)
Inv ==
    /\ TypeOK
    /\ buf \in Seq(Item)
    /\ HeldIsUnsealed
    /\ err # "EOF" => done <= pulled
    /\ pc # "idle" => ready = 0 /\ err = "nil"
    /\ err = "nil" =>
          /\ nonce = nonceForChunk(Len(sealed))
          /\ pulled <= done + ChunkSize + 1
          /\ pc # "seal" => pulled <= done + 1
          /\ sealed # <<>> => done < pulled
-----------------------------------------------------------------------------
LEMMA PlainType ==
    ASSUME NEW lo \in Nat, NEW hi \in Nat, lo <= hi
    PROVE  Plain(lo, hi) \in Seq(Item) /\ Len(Plain(lo, hi)) = hi - lo
<1>1. \A i \in 1..(hi - lo) : [byte |-> lo + i] \in Item
  BY DEF Item
<1> QED
  BY <1>1 DEF Plain

LEMMA PlainJoin ==
    ASSUME NEW a \in Nat, NEW b \in Nat, NEW c \in Nat, a <= b, b <= c
    PROVE  Plain(a, b) \o Plain(b, c) = Plain(a, c)
BY DEF Plain

CutsPlain(a, n, c) ==
    /\ SubSeq(Plain(a, c), 1, n) = Plain(a, a + n)
    /\ SubSeq(Plain(a, c), n + 1, Len(Plain(a, c))) = Plain(a + n, c)

LEMMA PlainSplit ==
    ASSUME NEW a \in Nat, NEW n \in Nat, NEW c \in Nat, a + n <= c
    PROVE  CutsPlain(a, n, c)
BY PlainType DEF CutsPlain, Plain

LEMMA OneItem ==
    ASSUME NEW s \in Seq(Item), NEW i \in 1..Len(s)
    PROVE  SubSeq(s, i, i) = <<s[i]>>
<1>1. /\ SubSeq(s, i, i) \in Seq(Item) /\ Len(SubSeq(s, i, i)) = 1
      /\ SubSeq(s, i, i)[1] = s[i]
  OBVIOUS
<1>2. /\ <<s[i]>> \in Seq(Item) /\ Len(<<s[i]>>) = 1
      /\ <<s[i]>>[1] = s[i]
  OBVIOUS
<1> DEFINE t == SubSeq(s, i, i)
           u == <<s[i]>>
<1>3. \A j \in 1..Len(t) : t[j] = u[j]
  BY <1>1, <1>2
<1>4. t \in Seq(Item) /\ u \in Seq(Item) /\ Len(t) = Len(u)
  BY <1>1, <1>2
<1> HIDE DEF t, u
<1>5. t = u
  BY <1>3, <1>4, SeqEqual
<1> QED
  BY <1>5 DEF t, u

(* Sealing takes the bytes out of the buffer's items.                      *)
LEMMA DataOfPlain ==
    ASSUME NEW lo \in Nat, NEW hi \in Nat, lo <= hi
    PROVE  DataOf(Plain(lo, hi)) = Bytes(lo, hi) /\ Bytes(lo, hi) \in Seq(Nat)
<1>1. Len(Plain(lo, hi)) = hi - lo
  BY PlainType
<1>2. \A i \in 1..(hi - lo) : Plain(lo, hi)[i].byte = lo + i
  BY DEF Plain
<1> QED
  BY <1>1, <1>2 DEF DataOf, Bytes

LEMMA CellsType ==
    ASSUME NEW chunk \in Sealed
    PROVE  /\ Cells(chunk) \in Seq(Item)
           /\ Len(Cells(chunk)) = Len(chunk.data) + Overhead
<1>1. Len(chunk.data) + Overhead \in Nat
  BY DEF Sealed
<1>2. \A i \in 1..(Len(chunk.data) + Overhead) : [chunk |-> chunk, pos |-> i] \in Item
  BY <1>1 DEF Item
<1> QED
  BY <1>1, <1>2 DEF Cells

(* Delivering moves the boundary and nothing behind it.                    *)
LEMMA DeliverKeeps ==
    ASSUME NEW n \in Nat, NEW s \in Seq(Item), NEW a \in 0..Len(s), Deliver(n, s, a)
    PROVE  /\ buf' \in Seq(Item)
           /\ ready' \in 0..Len(buf')
           /\ SubSeq(buf', ready' + 1, Len(buf')) = SubSeq(s, a + 1, Len(s))
           /\ ret' \in [n : Nat, err : {"nil", "src", "EOF"}]
<1> DEFINE k == Lesser(n, a)
<1>1. k \in Nat /\ k <= a /\ a <= Len(s) /\ Len(s) \in Nat
  BY DEF Lesser
<1>2. /\ buf' = SubSeq(s, k + 1, Len(s)) /\ ready' = a - k /\ ret' = Ret(k, "nil")
  BY DEF Deliver
<1> HIDE DEF k
<1>3. buf' \in Seq(Item) /\ Len(buf') = Len(s) - k
  BY <1>1, <1>2
<1>4. \A i \in 1..(Len(s) - k) : buf'[i] = s[k + i]
  BY <1>1, <1>2
<1>5. SubSeq(buf', ready' + 1, Len(buf')) = SubSeq(s, a + 1, Len(s))
  BY <1>1, <1>2, <1>3, <1>4
<1> QED
  BY <1>1, <1>2, <1>3, <1>5 DEF Ret
-----------------------------------------------------------------------------
LEMMA InitInv == Init => Inv
<1> SUFFICES ASSUME Init PROVE Inv
  OBVIOUS
<1>1. zeroNonce = nonceForChunk(0) /\ zeroNonce \in Nonce
  BY DEF zeroNonce, nonceForChunk, Nonce
<1>2. Plain(0, 0) = <<>>
  BY PlainType
<1>3. TypeOK
  BY <1>1 DEF Init, TypeOK, Ret
<1>4. done = 0 /\ held = <<>>
  BY DEF Init, done, held
<1> QED
  BY <1>1, <1>2, <1>3, <1>4 DEF Init, Inv, HeldIsUnsealed

(* What holds wherever the invariant does.                                 *)
LEMMA Facts ==
    ASSUME Inv
    PROVE  /\ Len(sealed) \in Nat /\ done \in Nat /\ pulled \in Nat /\ size \in Nat
           /\ Len(buf) \in Nat /\ ready \in Nat /\ ready <= Len(buf)
           /\ pulled <= size /\ want \in Nat
           /\ (Len(sealed) + 1) * ChunkSize = done + ChunkSize
           /\ sealed = <<>> <=> Len(sealed) = 0
BY DEF Inv, TypeOK, done

(* Inside feedBuffer the buffer is all plaintext.                          *)
LEMMA Feeding ==
    ASSUME Inv, pc # "idle"
    PROVE  /\ err = "nil" /\ ready = 0 /\ held = buf
           /\ buf = Plain(done, pulled) /\ done + Len(buf) = pulled
<1>1. err = "nil" /\ ready = 0 /\ buf \in Seq(Item)
  BY DEF Inv
<1>2. held = buf
  BY <1>1 DEF held
<1>3. buf = Plain(done, pulled) /\ done <= pulled
  BY <1>1, <1>2 DEF Inv, HeldIsUnsealed
<1>4. Len(Plain(done, pulled)) = pulled - done
  BY <1>3, Facts, PlainType
<1>5. Len(buf) = pulled - done
  BY <1>3, <1>4
<1> QED
  BY <1>1, <1>2, <1>3, <1>5, Facts

(* More bytes are appended to it.                                          *)
LEMMA CopyKeeps ==
    ASSUME Inv, pc = "copy", NEW k \in Nat, pulled + k <= size,
           pulled' = pulled + k, buf' = buf \o Plain(pulled, pulled + k),
           UNCHANGED <<size, ready, sealed>>
    PROVE  /\ buf' \in Seq(Item) /\ Len(buf') = Len(buf) + k
           /\ ready' \in 0..Len(buf') /\ pulled' \in 0..size'
           /\ held' = Plain(done', pulled')
           /\ done' = done /\ done' <= pulled'
<1>1. buf = Plain(done, pulled) /\ done + Len(buf) = pulled /\ ready = 0
  BY Feeding
<1>2. /\ pulled \in Nat /\ pulled + k \in Nat /\ done \in Nat /\ done <= pulled
      /\ Len(buf) \in Nat /\ size \in Nat
  BY <1>1, Facts
<1>a. pulled <= pulled + k /\ (pulled + k) - pulled = k
  BY <1>2
<1>3. /\ Plain(pulled, pulled + k) \in Seq(Item)
      /\ Len(Plain(pulled, pulled + k)) = k
  BY <1>2, <1>a, PlainType
<1>4. buf' = Plain(done, pulled + k)
  <2>1. Plain(done, pulled) \o Plain(pulled, pulled + k) = Plain(done, pulled + k)
    BY <1>2, <1>a, PlainJoin
  <2> QED
    BY <1>1, <2>1
<1>5. buf' \in Seq(Item) /\ Len(buf') = Len(buf) + k
  <2>1. buf \in Seq(Item)
    BY DEF Inv
  <2> QED
    BY <1>3, <2>1, ConcatProperties
<1>6. done' = done
  BY DEF done
<1>7. held' = buf'
  BY <1>1, <1>5 DEF held
<1> QED
  BY <1>1, <1>2, <1>4, <1>5, <1>6, <1>7
-----------------------------------------------------------------------------
(* The two chunks that feedBuffer can seal, and what stays in the buffer.  *)
LEMMA LastChunk ==
    ASSUME Inv, SealLast
    PROVE  /\ Len(sealed') = Len(sealed) + 1
           /\ sealed' = Append(sealed, FinalChunk(Len(sealed), pulled))
           /\ sealed' \in Seq(Sealed)
           /\ EndsInChunk(Len(sealed), pulled)
           /\ nonce' \in Nonce
           /\ buf' \in Seq(Item) /\ ready' \in 0..Len(buf')
           /\ ret' \in [n : Nat, err : {"nil", "src", "EOF"}]
<1> DEFINE used  == setLastChunkFlag(nonce)
           chunk == Seal(used, DataOf(buf))
<1>1. /\ pc = "seal" /\ Len(buf) <= ChunkSize /\ sealed' = Append(sealed, chunk)
      /\ nonce' = incNonce(used) /\ Deliver(want, Cells(chunk), Len(Cells(chunk)))
  BY DEF SealLast
<1>2. /\ err = "nil" /\ buf = Plain(done, pulled) /\ done + Len(buf) = pulled
  BY <1>1, Feeding
<1>3. done <= pulled /\ pulled <= done + ChunkSize
  BY <1>1, <1>2, Facts
<1>4. DataOf(buf) = Bytes(done, pulled) /\ DataOf(buf) \in Seq(Nat)
  <2>1. done \in Nat /\ pulled \in Nat /\ done <= pulled
    BY <1>3, Facts
  <2>2. /\ DataOf(Plain(done, pulled)) = Bytes(done, pulled)
        /\ Bytes(done, pulled) \in Seq(Nat)
    BY ONLY <2>1, DataOfPlain, Zenon
  <2> QED
    BY <1>2, <2>2
<1>5. nonce = nonceForChunk(Len(sealed)) /\ nonce \in Nonce
  BY <1>2 DEF Inv, TypeOK
<1>6. used \in Nonce /\ nonce' \in Nonce
  BY <1>1, <1>5 DEF setLastChunkFlag, incNonce, Nonce
<1>7. chunk \in Sealed
  BY <1>4, <1>6 DEF Seal, Sealed
<1>8. chunk = FinalChunk(Len(sealed), pulled)
  BY <1>4, <1>5 DEF FinalChunk, done
<1>9. EndsInChunk(Len(sealed), pulled)
  <2>1. done = pulled => Len(sealed) = 0
    BY <1>2, Facts DEF Inv
  <2>2. Len(sealed) * ChunkSize = done
    BY DEF done
  <2> QED
    BY <1>3, <2>1, <2>2, Facts DEF EndsInChunk
<1>10. sealed \in Seq(Sealed)
  BY DEF Inv, TypeOK, Sealed
<1>11. Cells(chunk) \in Seq(Item) /\ Len(Cells(chunk)) \in 0..Len(Cells(chunk))
  BY <1>7, CellsType
<1> HIDE DEF chunk, used
<1>12. /\ buf' \in Seq(Item) /\ ready' \in 0..Len(buf')
       /\ ret' \in [n : Nat, err : {"nil", "src", "EOF"}]
  BY <1>1, <1>11, Facts, DeliverKeeps
<1> QED
  BY <1>1, <1>6, <1>7, <1>8, <1>9, <1>10, <1>12

LEMMA OneFullChunk ==
    ASSUME Inv, SealFull
    PROVE  /\ Len(sealed') = Len(sealed) + 1
           /\ sealed' = Append(sealed, FullChunk(Len(sealed)))
           /\ sealed' \in Seq(Sealed)
           /\ nonce' \in Nonce /\ nonce' = nonceForChunk(Len(sealed'))
           /\ done' = done + ChunkSize /\ done' < pulled /\ pulled <= done' + 1
           /\ buf' \in Seq(Item) /\ ready' \in 0..Len(buf')
           /\ held' = Plain(done', pulled)
           /\ ret' \in [n : Nat, err : {"nil", "src", "EOF"}]
<1> DEFINE chunk == Seal(nonce, DataOf(SubSeq(buf, 1, ChunkSize)))
           tail  == buf[ChunkSize + 1]
<1>1. /\ pc = "seal" /\ Len(buf) > ChunkSize /\ sealed' = Append(sealed, chunk)
      /\ nonce' = incNonce(nonce)
      /\ Deliver(want, Append(Cells(chunk), tail), readyAfterFull)
  BY DEF SealFull
<1>2. /\ err = "nil" /\ buf = Plain(done, pulled) /\ done + Len(buf) = pulled
      /\ Len(buf) <= ChunkSize + 1
  BY <1>1, Feeding DEF Inv, TypeOK
<1>a. done \in Nat /\ pulled \in Nat /\ Len(buf) \in Nat /\ ChunkSize \in Nat
  BY Facts
<1>3. /\ Len(buf) = ChunkSize + 1 /\ pulled = (done + ChunkSize) + 1
      /\ done + ChunkSize \in Nat /\ done + ChunkSize <= pulled
  BY <1>1, <1>2, <1>a
<1>4. /\ SubSeq(buf, 1, ChunkSize) = Plain(done, done + ChunkSize)
      /\ SubSeq(buf, ChunkSize + 1, Len(buf)) = Plain(done + ChunkSize, pulled)
  <2>1. /\ SubSeq(Plain(done, pulled), 1, ChunkSize) = Plain(done, done + ChunkSize)
        /\ SubSeq(Plain(done, pulled), ChunkSize + 1, Len(Plain(done, pulled)))
              = Plain(done + ChunkSize, pulled)
    <3>1. CutsPlain(done, ChunkSize, pulled)
      BY <1>3, <1>a, PlainSplit
    <3> QED
      BY <3>1 DEF CutsPlain
  <2> QED
    BY <1>2, <2>1
<1>5. /\ DataOf(SubSeq(buf, 1, ChunkSize)) = Bytes(done, done + ChunkSize)
      /\ Bytes(done, done + ChunkSize) \in Seq(Nat)
      /\ Len(Bytes(done, done + ChunkSize)) = ChunkSize
  <2>1. done <= done + ChunkSize /\ (done + ChunkSize) - done = ChunkSize
    BY <1>a
  <2> QED
    <3>1. done + ChunkSize \in Nat
      BY <1>3
    <3>2. /\ DataOf(Plain(done, done + ChunkSize)) = Bytes(done, done + ChunkSize)
          /\ Bytes(done, done + ChunkSize) \in Seq(Nat)
      BY ONLY <1>a, <2>1, <3>1, DataOfPlain
    <3>3. Len(Bytes(done, done + ChunkSize)) = ChunkSize
      BY <1>a, <2>1 DEF Bytes
    <3> QED
      BY <1>4, <3>2, <3>3
<1>6. nonce = nonceForChunk(Len(sealed)) /\ nonce \in Nonce
  BY <1>2 DEF Inv, TypeOK
<1>7. nonce' \in Nonce /\ nonce' = nonceForChunk(Len(sealed) + 1)
  BY <1>1, <1>6 DEF incNonce, nonceForChunk, Nonce
<1>8. chunk \in Sealed /\ Len(chunk.data) = ChunkSize
  BY <1>5, <1>6 DEF Seal, Sealed
<1>9. chunk = FullChunk(Len(sealed))
  BY <1>5, <1>6, Facts DEF FullChunk, done
<1>10. sealed \in Seq(Sealed)
  BY DEF Inv, TypeOK, Sealed
<1>11. /\ Len(sealed') = Len(sealed) + 1 /\ sealed' \in Seq(Sealed)
  BY <1>1, <1>8, <1>10
<1>12. done' = done + ChunkSize
  BY <1>11, Facts DEF done
<1>13. /\ tail \in Item
       /\ SubSeq(buf, ChunkSize + 1, Len(buf)) = <<tail>>
  <2>1. buf \in Seq(Item)
    BY DEF Inv
  <2>2. /\ ChunkSize + 1 \in 1..Len(buf)
        /\ buf[ChunkSize + 1] \in Item
    BY <1>3, <1>a, <2>1
  <2>3. SubSeq(buf, ChunkSize + 1, ChunkSize + 1) = <<buf[ChunkSize + 1]>>
    BY <2>1, <2>2, OneItem
  <2> QED
    BY <1>3, <2>2, <2>3
<1>14. Cells(chunk) \in Seq(Item) /\ Len(Cells(chunk)) = readyAfterFull
  BY <1>8, CellsType DEF readyAfterFull
<1> DEFINE s == Append(Cells(chunk), tail)
<1> HIDE DEF chunk, tail
<1>15. /\ s \in Seq(Item) /\ Len(s) = readyAfterFull + 1
       /\ readyAfterFull \in Nat /\ readyAfterFull \in 0..Len(s)
       /\ SubSeq(s, readyAfterFull + 1, Len(s)) = <<tail>>
  <2>1. readyAfterFull \in Nat
    BY DEF readyAfterFull
  <2>2. /\ s \in Seq(Item) /\ Len(s) = readyAfterFull + 1
        /\ s[readyAfterFull + 1] = tail
    BY <1>13, <1>14, <2>1
  <2> HIDE DEF s
  <2>3. SubSeq(s, readyAfterFull + 1, readyAfterFull + 1) = <<s[readyAfterFull + 1]>>
    <3>1. readyAfterFull + 1 \in 1..Len(s)
      BY <2>1, <2>2
    <3> QED
      BY <2>2, <3>1, OneItem
  <2> QED
    BY <2>1, <2>2, <2>3
<1> HIDE DEF s
<1>16. /\ buf' \in Seq(Item) /\ ready' \in 0..Len(buf')
       /\ SubSeq(buf', ready' + 1, Len(buf')) = <<tail>>
       /\ ret' \in [n : Nat, err : {"nil", "src", "EOF"}]
  <2>1. Deliver(want, s, readyAfterFull)
    BY <1>1 DEF s
  <2> QED
    BY <2>1, <1>15, Facts, DeliverKeeps
<1>17. held' = Plain(done', pulled)
  BY <1>4, <1>12, <1>13, <1>16 DEF held
<1> QED
  <2>1. done' < pulled /\ pulled <= done' + 1
    BY <1>3, <1>12, <1>a
  <2> QED
    BY <1>1, <1>7, <1>9, <1>11, <1>12, <1>16, <1>17, <2>1
-----------------------------------------------------------------------------
LEMMA NextInv == Inv /\ [Next]_vars => Inv'
<1> SUFFICES ASSUME Inv, [Next]_vars PROVE Inv'
  OBVIOUS
<1>1. ASSUME NEW n \in 0..MaxRead, ReadReady(n) PROVE Inv'
  <2>1. /\ Deliver(n, buf, ready) /\ buf \in Seq(Item) /\ ready \in 0..Len(buf)
        /\ n \in Nat /\ pc = "idle"
    BY <1>1 DEF ReadReady, Inv, TypeOK
  <2>2. /\ buf' \in Seq(Item) /\ ready' \in 0..Len(buf') /\ held' = held
        /\ ret' \in [n : Nat, err : {"nil", "src", "EOF"}]
    BY <2>1, DeliverKeeps DEF held
  <2>3. UNCHANGED <<pc, size, pulled, want, nonce, err, sealed>> /\ done' = done
    BY <1>1 DEF ReadReady, done
  <2>4. TypeOK'
    BY <2>1, <2>2, <2>3 DEF Inv, TypeOK
  <2> QED
    BY <2>1, <2>2, <2>3, <2>4 DEF Inv, HeldIsUnsealed
<1>2. CASE ReadRefused \/ ReadEmpty
  <2>1. /\ UNCHANGED <<pc, size, pulled, want, ready, buf, nonce, err, sealed>>
        /\ ret' = Ret(0, err)
    BY <1>2 DEF ReadRefused, ReadEmpty
  <2>2. TypeOK'
    BY <2>1 DEF Inv, TypeOK, Ret
  <2> QED
    BY <2>1, <2>2 DEF Inv, HeldIsUnsealed, held, done
<1>3. ASSUME NEW n \in 1..MaxRead, ReadCall(n) PROVE Inv'
  <2>1. /\ UNCHANGED <<size, pulled, ready, buf, nonce, err, ret, sealed>>
        /\ pc = "idle" /\ pc' = "copy" /\ want' \in Nat /\ ready = 0 /\ err = "nil"
    BY <1>3 DEF ReadCall
  <2>2. TypeOK'
    BY <2>1 DEF Inv, TypeOK
  <2> QED
    BY <2>1, <2>2 DEF Inv, HeldIsUnsealed, held, done
<1>4. CASE Copy
  <2>1. PICK k \in {Lesser(copyLen, size - pulled)} :
          pulled' = pulled + k /\ buf' = buf \o Plain(pulled, pulled + k)
    BY <1>4 DEF Copy
  <2>2. /\ pc = "copy" /\ pc' = "seal"
        /\ UNCHANGED <<size, want, ready, nonce, err, ret, sealed>>
    BY <1>4 DEF Copy
  <2>3. /\ err = "nil" /\ ready = 0 /\ done + Len(buf) = pulled /\ pulled <= done + 1
    BY <2>2, Feeding DEF Inv
  <2>a. /\ done \in Nat /\ pulled \in Nat /\ size \in Nat /\ Len(buf) \in Nat
        /\ ChunkSize \in Nat /\ pulled <= size /\ ChunkSize > 0
    BY Facts
  <2>4. /\ k \in Nat /\ pulled + k <= size /\ Len(buf) + k <= ChunkSize + 1
    BY <2>1, <2>3, <2>a DEF Lesser, copyLen
  <2>5. /\ buf' \in Seq(Item) /\ Len(buf') = Len(buf) + k
        /\ ready' \in 0..Len(buf') /\ pulled' \in 0..size'
        /\ held' = Plain(done', pulled') /\ done' = done /\ done' <= pulled'
    BY <2>1, <2>2, <2>4, CopyKeeps
  <2>6. TypeOK'
    BY <2>2, <2>4, <2>5 DEF Inv, TypeOK
  <2>7. pulled' <= done' + ChunkSize + 1 /\ (done < pulled => done' < pulled')
    <3>1. pulled' = pulled + k /\ done' = done
      BY <2>1, <2>5
    <3> QED
      BY <2>3, <2>4, <2>a, <3>1
  <2> QED
    BY <2>2, <2>3, <2>5, <2>6, <2>7 DEF Inv, HeldIsUnsealed
<1>5. CASE CopyFails
  <2>1. PICK k \in 0..Lesser(copyLen - 1, size - pulled) :
          pulled' = pulled + k /\ buf' = buf \o Plain(pulled, pulled + k)
    BY <1>5 DEF CopyFails
  <2>2. /\ pc = "copy" /\ pc' = "idle" /\ err' = "src" /\ ret' = Ret(0, "src")
        /\ UNCHANGED <<size, want, ready, nonce, sealed>>
    BY <1>5 DEF CopyFails
  <2>3. /\ ready = 0 /\ done + Len(buf) = pulled /\ pulled <= done + 1
    BY <2>2, Feeding DEF Inv
  <2>a. /\ pulled \in Nat /\ size \in Nat /\ Len(buf) \in Nat
        /\ ChunkSize \in Nat /\ pulled <= size
    BY Facts
  <2>4. /\ k \in Nat /\ pulled + k <= size
    BY ONLY <2>1, <2>a DEF Lesser, copyLen
  <2>5. /\ buf' \in Seq(Item) /\ Len(buf') = Len(buf) + k
        /\ ready' \in 0..Len(buf') /\ pulled' \in 0..size'
        /\ held' = Plain(done', pulled') /\ done' = done /\ done' <= pulled'
    BY <2>1, <2>2, <2>4, CopyKeeps
  <2>6. TypeOK'
    BY <2>2, <2>5 DEF Inv, TypeOK, Ret
  <2> QED
    BY <2>2, <2>5, <2>6 DEF Inv, HeldIsUnsealed
<1>6. CASE SealLast
  <2>1. /\ pc' = "idle" /\ err' = "EOF" /\ UNCHANGED <<size, pulled, want>>
    BY <1>6 DEF SealLast
  <2>2. TypeOK'
    BY <1>6, <2>1, LastChunk DEF Inv, TypeOK, Sealed
  <2> QED
    BY <1>6, <2>1, <2>2, LastChunk DEF Inv, HeldIsUnsealed
<1>7. CASE SealFull
  <2>1. /\ pc' = "idle" /\ UNCHANGED <<size, pulled, want, err>> /\ pc = "seal"
    BY <1>7 DEF SealFull
  <2>2. TypeOK'
    BY <1>7, <2>1, OneFullChunk DEF Inv, TypeOK, Sealed
  <2>3. /\ err' = "nil" /\ pulled' = pulled
    BY <2>1, Feeding
  <2>4. /\ done' \in Nat /\ pulled \in Nat /\ ChunkSize \in Nat
        /\ done' < pulled /\ pulled <= done' + 1
    <3>1. done' = done + ChunkSize /\ done' < pulled /\ pulled <= done' + 1
      BY <1>7, OneFullChunk
    <3>2. done \in Nat /\ pulled \in Nat
      BY Facts
    <3> QED
      BY <3>1, <3>2
  <2>5. done' <= pulled' /\ pulled' <= done' + ChunkSize + 1 /\ pulled' <= done' + 1
    <3> DEFINE d == done'
    <3>1. d \in Nat /\ d < pulled /\ pulled <= d + 1 /\ pulled' = pulled
      BY <2>3, <2>4
    <3> HIDE DEF d
    <3>2. d <= pulled' /\ pulled' <= d + ChunkSize + 1 /\ pulled' <= d + 1
      BY <2>4, <3>1
    <3> QED
      BY <3>2 DEF d
  <2> QED
    BY <1>7, <2>1, <2>2, <2>3, <2>4, <2>5, OneFullChunk DEF Inv, HeldIsUnsealed
<1>8. CASE UNCHANGED vars
  <2>1. TypeOK'
    BY <1>8 DEF Inv, TypeOK, vars
  <2> QED
    BY <1>8, <2>1 DEF Inv, HeldIsUnsealed, held, done, vars
<1> QED
  BY <1>1, <1>2, <1>3, <1>4, <1>5, <1>6, <1>7, <1>8 DEF Next

(* A reader's state is well typed: in particular no more is ever marked    *)
(* ready than the buffer holds, and no more than a chunk and a byte is     *)
(* pulled before a chunk is sealed.                                        *)
THEOREM TypeCorrect == Spec => []TypeOK
<1>1. Inv => TypeOK
  BY DEF Inv
<1> QED
  BY <1>1, InitInv, NextInv, PTL DEF Spec

(* No byte that feedBuffer pulls is lost or sealed twice: until the stream *)
(* is complete, behind the ciphertext lie exactly the bytes pulled and not *)
(* sealed, also after the source failed half way through a chunk.          *)
THEOREM NoByteLost == Spec => []HeldIsUnsealed
<1>1. Inv => HeldIsUnsealed
  BY DEF Inv
<1> QED
  BY <1>1, InitInv, NextInv, PTL DEF Spec
-----------------------------------------------------------------------------
(* What leaves.  Chunks are sealed only when nothing is ready, and only    *)
(* full ones before the last, so each lies at the end of the stream.       *)
Leaves ==
    /\ out \in Seq(Item)
    /\ IsStreamOf(out \o SubSeq(buf, 1, ready), sealed)
    /\ err # "EOF" => \A i \in 1..Len(sealed) : Len(sealed[i].data) = ChunkSize

(* Delivering moves cells from the buffer to the caller.                   *)
LEMMA DeliverMoves ==
    ASSUME NEW n \in Nat, NEW s \in Seq(Item), NEW a \in 0..Len(s), Deliver(n, s, a),
           out \in Seq(Item)
    PROVE  /\ out' \in Seq(Item)
           /\ out' \o SubSeq(buf', 1, ready') = out \o SubSeq(s, 1, a)
<1> DEFINE k     == Lesser(n, a)
           first  == SubSeq(s, 1, k)
           second == SubSeq(s, k + 1, a)
<1>1. k \in Nat /\ k <= a /\ a <= Len(s) /\ Len(s) \in Nat /\ a \in Nat
  BY DEF Lesser
<1>2. /\ out' = out \o first
      /\ buf' = SubSeq(s, k + 1, Len(s)) /\ ready' = a - k
  BY DEF Deliver
<1> HIDE DEF k
<1>3. /\ first \in Seq(Item) /\ second \in Seq(Item)
      /\ SubSeq(buf', 1, ready') = second
  BY <1>1, <1>2
<1>4. first \o second = SubSeq(s, 1, a)
  <2>1. /\ 1 \in 1..Len(s) + 1 /\ k \in (1 - 1)..Len(s) /\ a \in k..Len(s)
    BY <1>1
  <2> QED
    BY <2>1, ConcatAdjacentSubSeq
<1> HIDE DEF first, second
<1>5. (out \o first) \o second = out \o (first \o second)
  <2>1. out \in Seq(Item) /\ first \in Seq(Item) /\ second \in Seq(Item)
    BY <1>3
  <2>2. Associates(out, first, second)
    BY <2>1, ConcatAssociates
  <2> QED
    BY <2>2 DEF Associates
<1>6. out' \in Seq(Item)
  BY <1>2, <1>3, ConcatProperties
<1> QED
  BY <1>2, <1>3, <1>4, <1>5, <1>6

(* A chunk sealed behind full ones joins the stream.                       *)
LEMMA SealedLeaves ==
    ASSUME Inv, Leaves, pc = "seal", NEW chunk \in Sealed, sealed' = Append(sealed, chunk),
           NEW s \in Seq(Item), Len(Cells(chunk)) <= Len(s),
           SubSeq(s, 1, Len(Cells(chunk))) = Cells(chunk),
           Deliver(want, s, Len(Cells(chunk)))
    PROVE  out' \in Seq(Item) /\ IsStreamOf(out' \o SubSeq(buf', 1, ready'), sealed')
<1>1. /\ sealed \in Seq(Sealed) /\ want \in Nat /\ ready = 0 /\ err = "nil"
      /\ buf \in Seq(Item) /\ out \in Seq(Item)
  BY Feeding, Facts DEF Inv, TypeOK, Sealed, Leaves
<1>2. IsStreamOf(out, sealed)
  <2>1. SubSeq(buf, 1, 0) = <<>> /\ out \o <<>> = out
    BY <1>1
  <2>2. IsStreamOf(out \o SubSeq(buf, 1, ready), sealed)
    BY DEF Leaves
  <2> QED
    BY <1>1, <2>1, <2>2
<1>3. Cells(chunk) \in Seq(Item) /\ Len(Cells(chunk)) \in 0..Len(s)
  BY CellsType
<1>4. IsStreamOf(out \o Cells(chunk), Append(sealed, chunk))
  <2>1. \A c \in Sealed : c.data \in Seq(Nat)
    BY DEF Sealed
  <2>2. \A i \in 1..Len(sealed) : Len(sealed[i].data) = ChunkSize
    BY <1>1 DEF Leaves
  <2> QED
    BY <1>1, <1>2, <1>3, <2>1, <2>2, StreamAppend
<1>5. /\ out' \in Seq(Item)
      /\ out' \o SubSeq(buf', 1, ready') = out \o SubSeq(s, 1, Len(Cells(chunk)))
  BY <1>1, <1>3, DeliverMoves
<1> QED
  BY <1>4, <1>5

LEMMA NextLeaves == Inv /\ Leaves /\ [Next]_vars => Leaves'
<1> SUFFICES ASSUME Inv, Leaves, [Next]_vars PROVE Leaves'
  OBVIOUS
<1>a. sealed \in Seq(Sealed) /\ want \in Nat /\ buf \in Seq(Item) /\ ready \in 0..Len(buf)
  BY Facts DEF Inv, TypeOK, Sealed
<1>1. ASSUME NEW n \in 0..MaxRead, ReadReady(n) PROVE Leaves'
  <2>1. Deliver(n, buf, ready) /\ n \in Nat /\ UNCHANGED <<sealed, err>>
    BY <1>1 DEF ReadReady
  <2>2. /\ out' \in Seq(Item)
        /\ out' \o SubSeq(buf', 1, ready') = out \o SubSeq(buf, 1, ready)
    BY <1>a, <2>1, DeliverMoves DEF Leaves
  <2> QED
    BY <2>1, <2>2 DEF Leaves
<1>2. CASE Copy \/ CopyFails
  <2>1. /\ UNCHANGED <<ready, sealed, out>> /\ pc = "copy" /\ err' \in {err, "src"}
    BY <1>2 DEF Copy, CopyFails
  <2>2. ready = 0 /\ err = "nil"
    BY <2>1, Feeding
  <2>3. PICK t : buf' = buf \o t
    BY <1>2 DEF Copy, CopyFails
  <2>4. SubSeq(buf', 1, 0) = <<>> /\ SubSeq(buf, 1, 0) = <<>>
    BY <1>a
  <2> QED
    BY <2>1, <2>2, <2>4 DEF Leaves
<1>3. CASE SealLast
  <2> DEFINE chunk == Seal(setLastChunkFlag(nonce), DataOf(buf))
  <2>1. /\ pc = "seal" /\ err' = "EOF" /\ sealed' = Append(sealed, chunk)
        /\ Deliver(want, Cells(chunk), Len(Cells(chunk)))
    BY <1>3 DEF SealLast
  <2>2. chunk \in Sealed
    BY <1>3, <2>1, <1>a, LastChunk
  <2> HIDE DEF chunk
  <2>3. /\ Cells(chunk) \in Seq(Item) /\ Len(Cells(chunk)) <= Len(Cells(chunk))
        /\ SubSeq(Cells(chunk), 1, Len(Cells(chunk))) = Cells(chunk)
    BY <2>2, CellsType, SubSeqFull
  <2>4. out' \in Seq(Item) /\ IsStreamOf(out' \o SubSeq(buf', 1, ready'), sealed')
    BY <2>1, <2>2, <2>3, SealedLeaves
  <2> QED
    BY <2>1, <2>4 DEF Leaves
<1>4. CASE SealFull
  <2> DEFINE chunk == Seal(nonce, DataOf(SubSeq(buf, 1, ChunkSize)))
             tail  == buf[ChunkSize + 1]
             s     == Append(Cells(chunk), tail)
  <2>1. /\ pc = "seal" /\ err' = err /\ sealed' = Append(sealed, chunk)
        /\ Deliver(want, s, readyAfterFull) /\ Len(buf) > ChunkSize
    BY <1>4 DEF SealFull
  <2>2. /\ chunk \in Sealed /\ chunk = FullChunk(Len(sealed)) /\ Len(chunk.data) = ChunkSize
    <3>1. sealed' \in Seq(Sealed) /\ Len(sealed') = Len(sealed) + 1
          /\ sealed' = Append(sealed, FullChunk(Len(sealed)))
      BY <1>4, OneFullChunk
    <3>2. chunk = FullChunk(Len(sealed)) /\ chunk \in Sealed
      BY <1>a, <2>1, <3>1
    <3> QED
      BY <3>2, Facts, FullChunkData
  <2>3. tail \in Item
    BY <1>a, <2>1
  <2> HIDE DEF chunk, tail
  <2>4. /\ Cells(chunk) \in Seq(Item) /\ Len(Cells(chunk)) = readyAfterFull
        /\ s \in Seq(Item) /\ Len(Cells(chunk)) <= Len(s)
        /\ SubSeq(s, 1, Len(Cells(chunk))) = Cells(chunk)
    <3>1. Cells(chunk) \in Seq(Item) /\ Len(Cells(chunk)) = readyAfterFull
      BY <2>2, CellsType DEF readyAfterFull
    <3> DEFINE t == Cells(chunk)
    <3> HIDE DEF t
    <3>2. t \in Seq(Item) => /\ Append(t, tail) \in Seq(Item) /\ Len(t) <= Len(Append(t, tail))
                             /\ SubSeq(Append(t, tail), 1, Len(t)) = t
      BY <2>3
    <3> QED
      BY <3>1, <3>2 DEF t
  <2> HIDE DEF s
  <2>5. out' \in Seq(Item) /\ IsStreamOf(out' \o SubSeq(buf', 1, ready'), sealed')
    BY <2>1, <2>2, <2>4, SealedLeaves
  <2>6. \A i \in 1..Len(sealed') : Len(sealed'[i].data) = ChunkSize
    <3>1. \A i \in 1..Len(sealed) : Len(sealed[i].data) = ChunkSize
      BY <2>1, Feeding DEF Leaves
    <3> QED
      BY <1>a, <2>1, <2>2, <3>1
  <2> QED
    BY <2>5, <2>6 DEF Leaves
<1>5. CASE UNCHANGED <<ready, buf, err, sealed, out>>
  BY <1>5 DEF Leaves
<1> QED
  BY <1>1, <1>2, <1>3, <1>4, <1>5 DEF Next, ReadRefused, ReadEmpty, ReadCall, vars

(* Read hands out the sealed chunks and nothing else: neither the byte of  *)
(* plaintext over-read nor what a failing source left, though both lie in  *)
(* the buffer that Read copies from.                                     *)
THEOREM OnlyCiphertext == Spec => []OnlyCiphertextLeaves
<1>1. Init => Leaves
  <2> SUFFICES ASSUME Init PROVE Leaves
    OBVIOUS
  <2>1. out \o SubSeq(buf, 1, ready) = <<>> /\ sealed = <<>> /\ out \in Seq(Item)
    BY DEF Init
  <2>2. IsStreamOf(<<>>, <<>>)
    BY EmptyStream
  <2>3. \A i \in 1..Len(sealed) : Len(sealed[i].data) = ChunkSize
    BY <2>1
  <2>4. IsStreamOf(out \o SubSeq(buf, 1, ready), sealed)
    BY ONLY <2>1, <2>2, Zenon
  <2> QED
    BY <2>1, <2>3, <2>4 DEF Leaves
<1>2. Inv /\ Leaves => OnlyCiphertextLeaves
  BY DEF Leaves, Inv, HeldIsUnsealed, held, done, OnlyCiphertextLeaves
<1> QED
  BY <1>1, <1>2, InitInv, NextInv, NextLeaves, PTL DEF Spec
-----------------------------------------------------------------------------
(* The refinement: every step of the reader is a step of the abstract      *)
(* encryptor or leaves it as it is.                                        *)

(* The two specifications speak of the same format.                        *)
LEMMA SameFormat ==
    ASSUME NEW k, NEW n
    PROVE  /\ Abstract!FullChunk(k) = FullChunk(k)
           /\ Abstract!FinalChunk(k, n) = FinalChunk(k, n)
           /\ Abstract!EndsInChunk(k, n) <=> EndsInChunk(k, n)
BY DEF Abstract!FullChunk, FullChunk, Abstract!FinalChunk, FinalChunk,
       Abstract!EndsInChunk, EndsInChunk, Abstract!Seal, Seal, Abstract!Bytes, Bytes,
       Abstract!nonceForChunk, nonceForChunk,
       Abstract!setLastChunkFlag, setLastChunkFlag

LEMMA RefineInit == Init => Abstract!Init
BY DEF Init, Abstract!Init

LEMMA RefineNext == Inv /\ [Next]_vars => [Abstract!Next]_(Abstract!vars)
<1> SUFFICES ASSUME Inv, [Next]_vars PROVE [Abstract!Next]_(Abstract!vars)
  OBVIOUS
<1>1. ASSUME UNCHANGED <<pulled, sealed, err>> PROVE UNCHANGED Abstract!vars
  BY <1>1 DEF Abstract!vars
<1>2. CASE \/ \E n \in 0..MaxRead : ReadReady(n)
           \/ ReadRefused \/ ReadEmpty
           \/ \E n \in 1..MaxRead : ReadCall(n)
           \/ UNCHANGED vars
  BY <1>1, <1>2 DEF ReadReady, ReadRefused, ReadEmpty, ReadCall, vars
<1>3. CASE Copy
  <2>1. PICK k \in {Lesser(copyLen, size - pulled)} : pulled' = pulled + k
    BY <1>3 DEF Copy
  <2>2. /\ pc = "copy" /\ err = "nil" /\ done + Len(buf) = pulled /\ pulled <= done + 1
        /\ UNCHANGED <<err, sealed>>
    BY <1>3, Feeding DEF Copy, Inv
  <2>3. k \in Nat /\ pulled \in Nat
    <3>1. /\ Len(buf) \in Nat /\ pulled \in Nat /\ size \in Nat /\ pulled <= size
          /\ done \in Nat /\ Len(buf) <= 1
      BY <2>2, Facts
    <3>2. copyLen \in Nat
      BY <3>1 DEF copyLen
    <3> QED
      BY <3>1, <3>2 DEF Lesser
  <2>4. CASE k = 0
    BY <1>1, <2>1, <2>2, <2>3, <2>4
  <2>5. CASE k # 0
    BY <2>1, <2>2, <2>3, <2>5 DEF Abstract!Next, Abstract!Accept
  <2> QED
    BY <2>4, <2>5
<1>4. CASE CopyFails
  <2>1. PICK k \in 0..Lesser(copyLen - 1, size - pulled) : pulled' = pulled + k
    BY <1>4 DEF CopyFails
  <2>2. /\ err = "nil" /\ err' = "src" /\ sealed' = sealed /\ pulled \in Nat
    BY <1>4, Feeding, Facts DEF CopyFails
  <2> QED
    BY <2>1, <2>2 DEF Abstract!Next, Abstract!Fail
<1>5. CASE SealLast
  <2>1. /\ err = "nil" /\ err' = "EOF" /\ pulled' = pulled
    BY <1>5, Feeding DEF SealLast
  <2> QED
    BY <1>5, <2>1, LastChunk, SameFormat DEF Abstract!Next, Abstract!SealLast, Abstract!ends
<1>6. CASE SealFull
  <2>1. /\ err = "nil" /\ err' = "nil" /\ pulled' = pulled
    BY <1>6, Feeding DEF SealFull
  <2>2. Abstract!goesOn(Len(sealed))
    BY <1>6, Facts, OneFullChunk DEF Abstract!goesOn
  <2> QED
    BY <1>6, <2>1, <2>2, OneFullChunk, SameFormat DEF Abstract!Next, Abstract!SealFull
<1> QED
  BY <1>2, <1>3, <1>4, <1>5, <1>6 DEF Next

(* EncryptReader implements the abstract encryptor, so what is proved of   *)
(* that holds of it: pulled by reads, the message comes out in the same    *)
(* chunks as pushed by writes, and no counter is used twice.               *)
THEOREM ReaderImplementsAbstract == Spec => ImplementsAbstract
BY InitInv, NextInv, RefineInit, RefineNext, PTL
DEF Spec, Abstract!Spec, ImplementsAbstract
-----------------------------------------------------------------------------
(* What the refinement is good for.                                        *)
status == CASE err = "nil"    -> "open"
            [] err = "EOF" -> "closed"
            [] OTHER          -> "failed"

LEMMA SameCut == IsCut(sealed, pulled, status) => Abstract!Canonical
BY SameFormat DEF Abstract!Canonical, IsCut, status

LEMMA InitCut == Init => IsCut(sealed, pulled, status)
BY DEF Init, IsCut, status

LEMMA NextCut ==
    ASSUME Inv, [Next]_vars, IsCut(sealed, pulled, status)
    PROVE  IsCut(sealed, pulled, status)'
<1>1. [Abstract!Next]_(Abstract!vars)
  BY RefineNext
<1>2. pulled \in Nat
  BY DEF Inv, TypeOK
<1>3. CASE Abstract!Next
  <2>1. CutStep(sealed, pulled, status, sealed', pulled', status')
    <3>1. CASE Abstract!Accept \/ Abstract!Fail
      BY <1>2, <3>1 DEF Abstract!Accept, Abstract!Fail, CutStep, status
    <3>2. CASE Abstract!SealFull
      BY <3>2, SameFormat DEF Abstract!SealFull, Abstract!goesOn, CutStep, status
    <3>3. CASE Abstract!SealLast
      BY <3>3, SameFormat DEF Abstract!SealLast, Abstract!ends, CutStep, status
    <3> QED
      BY <1>3, <3>1, <3>2, <3>3 DEF Abstract!Next
  <2> QED
    BY <1>2, <2>1, CutGoesOn
<1>4. CASE UNCHANGED Abstract!vars
  BY <1>4 DEF Abstract!vars, status
<1> QED
  BY <1>1, <1>3, <1>4

(* However the message is pulled out of it, the chunks a reader seals are  *)
(* the format's cut of what it took from its source: the same that a       *)
(* writer seals of the same message.                                       *)
THEOREM SealsCanonically == Spec => []Abstract!Canonical
BY InitInv, NextInv, InitCut, NextCut, SameCut, PTL DEF Spec

(* No counter is used for two chunks of a stream.                          *)
THEOREM NoncesNeverRepeat == Spec => []Abstract!NonceUnique
<1>1. Inv /\ IsCut(sealed, pulled, status) => Abstract!NonceUnique
  <2> SUFFICES ASSUME Inv, IsCut(sealed, pulled, status) PROVE Abstract!NonceUnique
    OBVIOUS
  <2>1. pulled \in Nat
    BY DEF Inv, TypeOK
  <2>2. \A i \in 1..Len(sealed) : sealed[i].nonce.ctr = i - 1
    BY <2>1, CutNumbers
  <2> QED
    BY <2>2 DEF Abstract!NonceUnique
<1> QED
  BY <1>1, InitInv, NextInv, InitCut, NextCut, PTL DEF Spec
-----------------------------------------------------------------------------
(* The abstract encryptor by itself: whatever implements it has these      *)
(* properties, and it may take in and seal a message of any length.        *)
VARIABLES len, chunks, state

AnyEncryptor == INSTANCE ChunkedEncryption WITH sealed <- chunks, status <- state

(* Its inductive invariant: what is sealed is the cut of what was taken.   *)
AnyInv ==
    /\ len \in Nat
    /\ state \in {"open", "closed", "failed"}
    /\ IsCut(chunks, len, state)

LEMMA AnySameFormat ==
    ASSUME NEW k, NEW n
    PROVE  /\ AnyEncryptor!FullChunk(k) = FullChunk(k)
           /\ AnyEncryptor!FinalChunk(k, n) = FinalChunk(k, n)
           /\ AnyEncryptor!EndsInChunk(k, n) <=> EndsInChunk(k, n)
BY DEF AnyEncryptor!FullChunk, FullChunk, AnyEncryptor!FinalChunk, FinalChunk,
       AnyEncryptor!EndsInChunk, EndsInChunk, AnyEncryptor!Seal, Seal,
       AnyEncryptor!Bytes, Bytes, AnyEncryptor!nonceForChunk, nonceForChunk,
       AnyEncryptor!setLastChunkFlag, setLastChunkFlag

LEMMA AnyInit == AnyEncryptor!Init => AnyInv
BY DEF AnyEncryptor!Init, AnyInv, IsCut

LEMMA AnyNext == AnyInv /\ [AnyEncryptor!Next]_(AnyEncryptor!vars) => AnyInv'
<1> SUFFICES ASSUME AnyInv, [AnyEncryptor!Next]_(AnyEncryptor!vars) PROVE AnyInv'
  OBVIOUS
<1>1. len \in Nat /\ IsCut(chunks, len, state)
  BY DEF AnyInv
<1>2. CASE UNCHANGED AnyEncryptor!vars
  BY <1>2 DEF AnyEncryptor!vars, AnyInv
<1>3. CASE AnyEncryptor!Next
  <2>1. /\ CutStep(chunks, len, state, chunks', len', state')
        /\ len' \in Nat /\ state' \in {"open", "closed", "failed"}
    <3>1. CASE AnyEncryptor!Accept \/ AnyEncryptor!Fail
      BY <1>1, <3>1 DEF AnyEncryptor!Accept, AnyEncryptor!Fail, CutStep
    <3>2. CASE AnyEncryptor!SealFull
      BY <1>1, <3>2, AnySameFormat DEF AnyEncryptor!SealFull, AnyEncryptor!goesOn, CutStep
    <3>3. CASE AnyEncryptor!SealLast
      BY <1>1, <3>3, AnySameFormat DEF AnyEncryptor!SealLast, AnyEncryptor!ends, CutStep
    <3> QED
      BY <1>3, <3>1, <3>2, <3>3 DEF AnyEncryptor!Next
  <2> QED
    BY <1>1, <2>1, CutGoesOn DEF AnyInv
<1> QED
  BY <1>2, <1>3

(* An encryptor's state is well typed, and no chunk is longer than a chunk *)
(* may be.                                                                 *)
THEOREM AnyTypeCorrect == AnyEncryptor!Spec => []AnyEncryptor!TypeOK
<1>1. AnyInv => AnyEncryptor!TypeOK
  <2> SUFFICES ASSUME AnyInv PROVE AnyEncryptor!TypeOK
    OBVIOUS
  <2>1. chunks \in Seq([nonce : AnyEncryptor!Nonce, data : Seq(Nat)])
    BY DEF AnyInv, IsCut, SealedChunk, Nonce, AnyEncryptor!Nonce
  <2>2. \A i \in 1..Len(chunks) : Len(chunks[i].data) <= ChunkSize
    BY CutNumbers DEF AnyInv
  <2> QED
    BY <2>1, <2>2 DEF AnyInv, AnyEncryptor!TypeOK
<1> QED
  BY <1>1, AnyInit, AnyNext, PTL DEF AnyEncryptor!Spec

(* At every moment the chunks sealed are the format's cut of the message:  *)
(* this is what the decryptors rely on.                                    *)
THEOREM CanonicalOutput == AnyEncryptor!Spec => []AnyEncryptor!Canonical
<1>1. AnyInv => AnyEncryptor!Canonical
  BY AnySameFormat DEF AnyInv, AnyEncryptor!Canonical, IsCut
<1> QED
  BY <1>1, AnyInit, AnyNext, PTL DEF AnyEncryptor!Spec

(* No counter is ever used for two chunks of a stream.                     *)
THEOREM AnyNoncesDiffer == AnyEncryptor!Spec => []AnyEncryptor!NonceUnique
<1>1. AnyInv => AnyEncryptor!NonceUnique
  <2> SUFFICES ASSUME AnyInv PROVE AnyEncryptor!NonceUnique
    OBVIOUS
  <2>1. \A i \in 1..Len(chunks) : chunks[i].nonce.ctr = i - 1
    BY CutNumbers DEF AnyInv
  <2> QED
    BY <2>1 DEF AnyEncryptor!NonceUnique
<1> QED
  BY <1>1, AnyInit, AnyNext, PTL DEF AnyEncryptor!Spec
=============================================================================
