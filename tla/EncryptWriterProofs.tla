------------------------- MODULE EncryptWriterProofs -------------------------
(***************************************************************************)
(* Proofs about EncryptWriter for every chunk size and every sequence of   *)
(* writes: no byte is lost, and the abstract encryptor is implemented, so  *)
(* that what is proved of that holds of this one.                          *)
(***************************************************************************)
EXTENDS EncryptWriter, FormatProofs

USE ChunkSizeAssumption, OverheadAssumption, BoundsAssumption

Sealed == [nonce : Nonce, data : Seq(Nat)]

(* The inductive invariant.  NothingLost alone does not tell the flush     *)
(* that its chunk is full and that more of the message follows.            *)
Inv == TypeOK /\ NothingLost /\ NeverPanics

LEMMA InitInv == Init => Inv
<1> SUFFICES ASSUME Init PROVE Inv
  OBVIOUS
<1>1. Bytes(0, 0) = <<>>
  BY BytesEmpty
<1>2. zeroNonce = nonceForChunk(0) /\ zeroNonce \in Nonce
  BY DEF zeroNonce, nonceForChunk, Nonce
<1>3. TypeOK
  BY <1>2 DEF Init, TypeOK, Ret
<1>4. NothingLost
  BY <1>1, <1>2 DEF Init, NothingLost
<1>5. NeverPanics
  BY DEF Init, NeverPanics
<1> QED
  BY <1>3, <1>4, <1>5 DEF Inv

(* What flushChunk does to the counter and the chunks, both for a chunk    *)
(* that is followed by more and for the last.                              *)
LEMMA FlushTypes ==
    ASSUME TypeOK, NEW last \in BOOLEAN, NEW e, flushChunk(last, e)
    PROVE  /\ chunkNonce(last) \in Nonce /\ nonce' \in Nonce
           /\ buf' = <<>>
           /\ sealed' = Append(sealed, Seal(chunkNonce(last), buf))
           /\ sealed' \in Seq(Sealed) /\ Len(sealed') = Len(sealed) + 1
           /\ sealed' # <<>>
<1>1. chunkNonce(last) \in Nonce
  BY DEF chunkNonce, setLastChunkFlag, Nonce, TypeOK
<1>2. incNonce(chunkNonce(last)) \in Nonce
  BY <1>1 DEF incNonce, Nonce
<1>3. Seal(chunkNonce(last), buf) \in Sealed
  BY <1>1 DEF Seal, Sealed, TypeOK
<1>4. sealed \in Seq(Sealed)
  BY DEF TypeOK, Sealed
<1> QED
  BY <1>1, <1>2, <1>3, <1>4 DEF flushChunk

LEMMA NextInv == Inv /\ [Next]_vars => Inv'
<1> SUFFICES ASSUME Inv, [Next]_vars PROVE Inv'
  OBVIOUS
<1> USE DEF Inv
<1> DEFINE done == Len(sealed) * ChunkSize
<1>a. Len(sealed) \in Nat /\ done \in Nat /\ Len(buf) \in Nat
      /\ done + ChunkSize = (Len(sealed) + 1) * ChunkSize
  BY DEF TypeOK
<1>b. err = "nil" =>
        /\ done + Len(buf) <= given
        /\ buf = Bytes(done, done + Len(buf))
        /\ p = Bytes(done + Len(buf), given)
        /\ nonce = nonceForChunk(Len(sealed))
        /\ sealed # <<>> => done < given
  BY DEF NothingLost
<1>c. sealed' = sealed => Len(sealed') * ChunkSize = done
  OBVIOUS
<1>d. Len(sealed') = Len(sealed) + 1 => Len(sealed') * ChunkSize = done + ChunkSize
  BY <1>a
<1> HIDE DEF done
<1>1. CASE Refused \/ WriteEmpty
  <2>1. TypeOK'
    BY <1>1 DEF Refused, WriteEmpty, TypeOK, Ret
  <2>2. NothingLost' /\ NeverPanics'
    BY <1>1 DEF Refused, WriteEmpty, NothingLost, NeverPanics
  <2> QED
    BY <2>1, <2>2
<1>2. ASSUME NEW n \in 1..Lesser(MaxWrite, MaxLen - given), WriteCall(n)
      PROVE  Inv'
  <2>1. n \in Nat /\ n > 0 /\ given \in Nat
    BY <1>2 DEF TypeOK, Lesser
  <2>2. p = <<>> /\ err = "nil" /\ pc = "idle"
    BY <1>2 DEF WriteCall, NeverPanics
  <2>3. done + Len(buf) = given
    BY <1>a, <1>b, <2>1, <2>2, BytesEmpty
  <2>4. p' = Bytes(given, given + n) /\ p' \in Seq(Nat) /\ p' # <<>>
    <3>1. given + n \in Nat /\ given <= given + n /\ given # given + n
      BY <2>1
    <3>2. p' = Bytes(given, given + n)
      BY <1>2 DEF WriteCall
    <3> QED
      BY <2>1, <3>1, <3>2, BytesType, BytesEmpty
  <2>5. TypeOK'
    BY <1>2, <2>1, <2>4 DEF WriteCall, TypeOK
  <2>6. NothingLost'
    <3>1. /\ given' = given + n /\ sealed' = sealed
          /\ UNCHANGED <<buf, nonce, err>>
      BY <1>2 DEF WriteCall
    <3> QED
      BY <1>b, <1>c, <2>1, <2>2, <2>3, <2>4, <3>1 DEF NothingLost
  <2>7. NeverPanics'
    BY <1>2, <2>2, <2>4 DEF WriteCall, NeverPanics
  <2> QED
    BY <2>5, <2>6, <2>7
<1>3. CASE WriteFill
  <2> DEFINE n    == Lesser(Len(p), room)
             from == done + Len(buf)
             rest == SubSeq(p, n + 1, Len(p))
  <2>1. err = "nil" /\ p # <<>> /\ given \in Nat
    BY <1>3 DEF WriteFill, NeverPanics, TypeOK
  <2>2. /\ from \in Nat /\ from <= given
        /\ p = Bytes(from, given) /\ Len(p) = given - from
        /\ buf = Bytes(done, from)
    <3>1. from \in Nat /\ from <= given
      BY <1>a, <1>b, <2>1
    <3>2. p = Bytes(from, given) /\ buf = Bytes(done, from)
      BY <1>b, <2>1
    <3> HIDE DEF from
    <3> QED
      BY <2>1, <3>1, <3>2, BytesType
  <2> HIDE DEF from
  <2>3. /\ n \in Nat /\ n <= Len(p) /\ Len(buf) + n <= ChunkSize
        /\ n = Len(p) \/ Len(buf) + n = ChunkSize
    BY <1>a, <2>2 DEF Lesser, room, TypeOK
  <2>4. SubSeq(p, 1, n) = Bytes(from, from + n) /\ rest = Bytes(from + n, given)
    <3>1. /\ from \in Nat /\ given \in Nat /\ n \in Nat
          /\ from + n <= given
      BY <2>1, <2>2, <2>3
    <3> HIDE DEF n
    <3>2. /\ SubSeq(Bytes(from, given), 1, n) = Bytes(from, from + n)
          /\ SubSeq(Bytes(from, given), n + 1, Len(Bytes(from, given)))
                = Bytes(from + n, given)
      <4>1. CutsBytes(from, n, given)
        BY ONLY <3>1, BytesSplit
      <4> QED
        BY <4>1 DEF CutsBytes
    <3> QED
      BY <2>2, <3>2
  <2>5. /\ buf' = Bytes(done, from + n)
        /\ p' = Bytes(from + n, given)
        /\ rest = <<>> <=> from + n = given
    <3>1. buf' = buf \o SubSeq(p, 1, n) /\ p' = rest
      BY <1>3 DEF WriteFill
    <3>2. /\ from + n \in Nat /\ from + n <= given
          /\ from <= from + n /\ done <= from
      BY <1>a, <2>1, <2>2, <2>3 DEF from
    <3> HIDE DEF n
    <3>3. Bytes(done, from) \o Bytes(from, from + n) = Bytes(done, from + n)
      <4>1. done \in Int /\ from \in Int /\ from + n \in Int
        BY <1>a, <2>2, <3>2
      <4> QED
        BY ONLY <3>2, <4>1, BytesJoin, Zenon
    <3>4. Bytes(from + n, given) = <<>> <=> from + n = given
      BY ONLY <2>1, <3>2, BytesEmpty, Zenon
    <3> QED
      BY <2>2, <2>4, <3>1, <3>3, <3>4
  <2>6. /\ buf' \in Seq(Nat) /\ Len(buf') = Len(buf) + n
        /\ p' \in Seq(Nat)
    <3>1. /\ from + n \in Nat /\ from + n <= given /\ done <= from + n
          /\ from = done + Len(buf)
      BY <1>a, <2>1, <2>2, <2>3 DEF from
    <3> HIDE DEF n
    <3>2. /\ Bytes(done, from + n) \in Seq(Nat)
          /\ Len(Bytes(done, from + n)) = (from + n) - done
      BY <1>a, <3>1, BytesType
    <3>3. Bytes(from + n, given) \in Seq(Nat)
      BY <2>1, <3>1, BytesType
    <3>4. (from + n) - done = Len(buf) + n
      BY <1>a, <2>3, <3>1
    <3> QED
      BY <2>5, <3>2, <3>3, <3>4
  <2>7. /\ UNCHANGED <<given, total, nonce, err, sealed>>
        /\ \/ rest = <<>> /\ pc' = "idle" /\ ret' = Ret(total, "nil")
           \/ rest # <<>> /\ pc' = "flush" /\ ret' = ret
    BY <1>3 DEF WriteFill
  <2>8. TypeOK'
    BY <2>3, <2>6, <2>7 DEF TypeOK, Ret
  <2>9. NothingLost'
    <3>1. done + Len(buf') = from + n /\ from + n <= given
      <4> HIDE DEF n
      <4>1. from = done + Len(buf)
        BY DEF from
      <4>2. from + n <= given
        BY <2>1, <2>2, <2>3
      <4> QED
        BY <1>a, <2>3, <2>6, <4>1, <4>2
    <3> HIDE DEF n
    <3> QED
      BY <1>b, <1>c, <2>1, <2>5, <2>7, <3>1 DEF NothingLost
  <2>10. NeverPanics'
    <3>1. rest # <<>> => Len(buf') = ChunkSize
      <4>1. rest # <<>> => n # Len(p)
        BY <2>1, <2>2, <2>5
      <4> QED
        BY <2>3, <2>6, <4>1
    <3>2. p' = rest
      BY <1>3 DEF WriteFill
    <3> HIDE DEF rest
    <3> QED
      BY <2>1, <2>7, <3>1, <3>2 DEF NeverPanics
  <2> QED
    BY <2>8, <2>9, <2>10
<1>4. CASE WriteFlush
  <2>1. err = "nil" /\ p # <<>> /\ Len(buf) = ChunkSize /\ given \in Nat
    BY <1>4 DEF WriteFlush, NeverPanics, TypeOK
  <2>2. PICK e \in {"nil", "write"} :
          /\ flushChunk(FALSE, e)
          /\ UNCHANGED <<given, total>>
          /\ e = "nil" => pc' = "fill" /\ UNCHANGED <<err, ret, p>>
          /\ e = "write" => /\ pc' = "idle" /\ err' = "write" /\ p' = <<>>
                            /\ ret' = Ret(0, "write")
    BY <1>4 DEF WriteFlush
  <2>3. /\ nonce' \in Nonce /\ buf' = <<>>
        /\ sealed' \in Seq(Sealed) /\ Len(sealed') = Len(sealed) + 1
    BY <2>2, FlushTypes
  <2>4. nonce' = incNonce(nonce)
    BY <2>2 DEF flushChunk, chunkNonce
  <2>5. TypeOK'
    <3>1. /\ UNCHANGED <<given, total>> /\ pc' \in {"fill", "idle"}
          /\ p' \in Seq(Nat) /\ err' \in {"nil", "write"}
          /\ ret' \in [n : Nat, err : {"nil", "write", "closed"}]
      <4>1. CASE e = "nil"
        BY <2>1, <2>2, <4>1 DEF TypeOK
      <4>2. CASE e = "write"
        BY <2>2, <4>2 DEF Ret
      <4> QED
        BY <4>1, <4>2
    <3> QED
      BY <2>3, <3>1 DEF TypeOK, Sealed
  <2>6. done + ChunkSize < given
    BY <1>a, <1>b, <2>1, BytesEmpty
  <2>7. NothingLost'
    <3> SUFFICES ASSUME e = "nil" PROVE NothingLost'
      BY <2>2 DEF NothingLost
    <3>1. nonce' = nonceForChunk(Len(sealed'))
      <4>1. nonce = [ctr |-> Len(sealed), last |-> FALSE]
        BY <1>b, <2>1 DEF nonceForChunk
      <4> QED
        BY <1>a, <2>3, <2>4, <4>1 DEF nonceForChunk, incNonce
    <3>2. Bytes(done + ChunkSize, done + ChunkSize) = <<>>
      BY <1>a, BytesEmpty
    <3>3. /\ Len(sealed') * ChunkSize = done + ChunkSize
          /\ p' = Bytes(done + ChunkSize, given)
          /\ given' = given
      BY <1>a, <1>b, <1>d, <2>1, <2>2, <2>3
    <3> QED
      BY <1>a, <2>1, <2>3, <2>6, <3>1, <3>2, <3>3 DEF NothingLost, TypeOK
  <2>8. NeverPanics'
    BY <2>1, <2>2 DEF NeverPanics
  <2> QED
    BY <2>5, <2>7, <2>8
<1>5. CASE Close
  <2>1. PICK e \in {"nil", "write"} :
          /\ flushChunk(TRUE, e)
          /\ err' = errAfter(e)
          /\ ret' = Ret(0, e)
    BY <1>5 DEF Close
  <2>2. err' \in {"closed", "write"} /\ pc' = "idle" /\ UNCHANGED <<given, p, total>>
    BY <1>5, <2>1 DEF Close, errAfter
  <2>3. /\ nonce' \in Nonce /\ buf' = <<>>
        /\ sealed' \in Seq(Sealed)
    BY <2>1, FlushTypes
  <2>4. TypeOK'
    BY <2>1, <2>2, <2>3 DEF TypeOK, Sealed, Ret
  <2>5. NothingLost' /\ NeverPanics'
    BY <2>2 DEF NothingLost, NeverPanics
  <2> QED
    BY <2>4, <2>5
<1>6. CASE Crash
  <2>1. TypeOK'
    BY <1>6 DEF Crash, TypeOK
  <2>2. NothingLost' /\ NeverPanics'
    BY <1>6 DEF Crash, NothingLost, NeverPanics
  <2> QED
    BY <2>1, <2>2
<1>7. CASE UNCHANGED vars
  <2>1. TypeOK'
    BY <1>7 DEF vars, TypeOK
  <2>2. NothingLost' /\ NeverPanics'
    BY <1>7 DEF vars, NothingLost, NeverPanics
  <2> QED
    BY <2>1, <2>2
<1> QED
  BY <1>1, <1>2, <1>3, <1>4, <1>5, <1>6, <1>7 DEF Next

(* A writer's state is well typed, and it never buffers more than a chunk. *)
THEOREM TypeCorrect == Spec => []TypeOK
<1>1. Inv => TypeOK
  BY DEF Inv
<1> QED
  BY <1>1, InitInv, NextInv, PTL DEF Spec

(* However the bytes are cut into Writes, each of them is in its place in  *)
(* exactly one chunk, in the buffer, or still with the running Write.      *)
THEOREM NoByteLost == Spec => []NothingLost
<1>1. Inv => NothingLost
  BY DEF Inv
<1> QED
  BY <1>1, InitInv, NextInv, PTL DEF Spec

(* flushChunk is never called with a partial chunk, on which it panics.    *)
THEOREM FlushNeverPanics == Spec => []NeverPanics
<1>1. Inv => NeverPanics
  BY DEF Inv
<1> QED
  BY <1>1, InitInv, NextInv, PTL DEF Spec
-----------------------------------------------------------------------------
(* The refinement: every step of the writer is a step of the abstract      *)
(* encryptor or leaves it as it is.                                        *)

(* The two specifications speak of the same format. *)
LEMMA SameFormat ==
    ASSUME NEW k, NEW n
    PROVE  /\ Abstract!FullChunk(k) = FullChunk(k)
           /\ Abstract!FinalChunk(k, n) = FinalChunk(k, n)
           /\ Abstract!EndsInChunk(k, n) <=> EndsInChunk(k, n)
BY DEF Abstract!FullChunk, FullChunk, Abstract!FinalChunk, FinalChunk,
       Abstract!EndsInChunk, EndsInChunk, Abstract!Seal, Seal, Abstract!Bytes, Bytes,
       Abstract!nonceForChunk, nonceForChunk,
       Abstract!setLastChunkFlag, setLastChunkFlag

LEMMA RefineInit == Init => Abstract!Init
BY DEF Init, Abstract!Init

LEMMA RefineNext == Inv /\ [Next]_vars => [Abstract!Next]_(Abstract!vars)
<1> SUFFICES ASSUME Inv, [Next]_vars PROVE [Abstract!Next]_(Abstract!vars)
  OBVIOUS
<1> DEFINE k == Len(sealed)
           done == k * ChunkSize
<1>a. /\ k \in Nat /\ done \in Nat /\ given \in Nat /\ Len(buf) \in Nat
      /\ (k + 1) * ChunkSize = done + ChunkSize
      /\ Len(buf) <= ChunkSize
  BY DEF Inv, TypeOK
<1>b. err = "nil" =>
        /\ done + Len(buf) <= given
        /\ buf = Bytes(done, done + Len(buf))
        /\ p = Bytes(done + Len(buf), given)
        /\ nonce = nonceForChunk(k)
        /\ sealed # <<>> => done < given
  BY DEF Inv, NothingLost
<1>c. sealed = <<>> <=> k = 0
  BY DEF Inv, TypeOK
<1>1. CASE Refused \/ WriteEmpty \/ WriteFill \/ Crash \/ UNCHANGED vars
  BY <1>1 DEF Refused, WriteEmpty, WriteFill, Crash, vars, Abstract!vars
<1>2. ASSUME NEW n \in 1..Lesser(MaxWrite, MaxLen - given), WriteCall(n)
      PROVE  Abstract!Accept
  <2>1. n \in Nat /\ n > 0
    BY <1>2, <1>a DEF Lesser
  <2>2. err = "nil" /\ given' = given + n /\ sealed' = sealed /\ err' = err
    BY <1>2 DEF WriteCall
  <2>3. given' \in Nat /\ given' > given
    BY <1>a, <2>1, <2>2
  <2> QED
    BY <2>2, <2>3 DEF Abstract!Accept
<1>3. CASE WriteFlush
  <2>1. err = "nil" /\ p # <<>> /\ Len(buf) = ChunkSize
    BY <1>3 DEF WriteFlush, Inv, NeverPanics
  <2>2. PICK e \in {"nil", "write"} :
          /\ flushChunk(FALSE, e) /\ given' = given
          /\ err' = IF e = "nil" THEN err ELSE "write"
    BY <1>3 DEF WriteFlush
  <2>3. sealed' = Append(sealed, FullChunk(k))
    <3>1. sealed' = Append(sealed, Seal(nonce, buf))
      BY <2>2 DEF flushChunk, chunkNonce
    <3>2. buf = Bytes(done, (k + 1) * ChunkSize)
      BY <1>a, <1>b, <2>1
    <3> QED
      BY <1>b, <2>1, <3>1, <3>2 DEF FullChunk
  <2>4. Abstract!goesOn(k)
    <3> HIDE DEF done
    <3>1. done + ChunkSize < given
      BY <1>a, <1>b, <2>1, BytesEmpty
    <3> QED
      BY <1>a, <3>1 DEF Abstract!goesOn
  <2> QED
    BY <2>1, <2>2, <2>3, <2>4, SameFormat DEF Abstract!Next, Abstract!SealFull
<1>4. CASE Close
  <2>1. err = "nil" /\ p = <<>>
    BY <1>4 DEF Close, Inv, NeverPanics
  <2>2. PICK e \in {"nil", "write"} :
          /\ flushChunk(TRUE, e) /\ given' = given
          /\ err' = IF e = "nil" THEN "closed" ELSE e
    BY <1>4 DEF Close, errAfter
  <2>3. done + Len(buf) = given
    <3> HIDE DEF done
    <3> QED
      BY <1>a, <1>b, <2>1, BytesEmpty
  <2>4. sealed' = Append(sealed, FinalChunk(k, given))
    <3>1. sealed' = Append(sealed, Seal(setLastChunkFlag(nonce), buf))
      BY <2>2 DEF flushChunk, chunkNonce
    <3>2. buf = Bytes(done, given) /\ nonce = nonceForChunk(k)
      BY <1>b, <2>1, <2>3
    <3> QED
      BY <3>1, <3>2 DEF FinalChunk
  <2>5. Abstract!ends(k)
    <3>1. done <= given /\ given <= (k + 1) * ChunkSize /\ (done = given => k = 0)
      <4> HIDE DEF done
      <4> QED
        BY <1>a, <1>b, <1>c, <2>1, <2>3
    <3> QED
      BY <3>1, SameFormat DEF Abstract!ends, EndsInChunk
  <2> QED
    BY <2>1, <2>2, <2>4, <2>5, SameFormat DEF Abstract!Next, Abstract!SealLast
<1> QED
  BY <1>1, <1>2, <1>3, <1>4 DEF Next, Abstract!Next

(* EncryptWriter implements the abstract encryptor. *)
THEOREM WriterImplementsAbstract == Spec => ImplementsAbstract
BY InitInv, NextInv, RefineInit, RefineNext, PTL
DEF Spec, Abstract!Spec, ImplementsAbstract
-----------------------------------------------------------------------------
(* Failed chunks use up their counter too: chunk i is sealed under counter *)
(* i - 1 whatever became of the chunks before it.                          *)
Numbered ==
    /\ nonce.ctr = Len(sealed)
    /\ \A i \in 1..Len(sealed) : sealed[i].nonce.ctr = i - 1

LEMMA FlushNumbers ==
    ASSUME TypeOK, Numbered, NEW last \in BOOLEAN, NEW e, flushChunk(last, e)
    PROVE  Numbered'
<1>1. /\ sealed' = Append(sealed, Seal(chunkNonce(last), buf))
      /\ Len(sealed') = Len(sealed) + 1 /\ Len(sealed) \in Nat
      /\ nonce' = incNonce(chunkNonce(last))
  BY FlushTypes DEF flushChunk, TypeOK
<1>2. chunkNonce(last).ctr = Len(sealed)
  BY DEF chunkNonce, setLastChunkFlag, Numbered
<1>3. nonce'.ctr = Len(sealed')
  BY <1>1, <1>2 DEF incNonce
<1>4. sealed'[Len(sealed) + 1].nonce.ctr = Len(sealed)
  BY <1>1, <1>2 DEF Seal, TypeOK
<1>5. \A i \in 1..Len(sealed) : sealed'[i] = sealed[i]
  BY <1>1 DEF TypeOK
<1> QED
  BY <1>1, <1>3, <1>4, <1>5 DEF Numbered

LEMMA NextNumbered == Inv /\ Numbered /\ [Next]_vars => Numbered'
<1> SUFFICES ASSUME Inv, Numbered, [Next]_vars PROVE Numbered'
  OBVIOUS
<1>1. CASE WriteFlush
  BY <1>1, FlushNumbers DEF WriteFlush, Inv
<1>2. CASE Close
  BY <1>2, FlushNumbers DEF Close, Inv
<1>3. CASE UNCHANGED <<nonce, sealed>>
  BY <1>3 DEF Numbered
<1> QED
  BY <1>1, <1>2, <1>3
  DEF Next, Refused, WriteEmpty, WriteCall, WriteFill, Crash, vars

(* No counter is used for two chunks, also when flushChunk fails half way  *)
(* through a Write and Close is called after it.                           *)
THEOREM NoncesNeverRepeat == Spec => []NonceUnique
<1>1. Init => Numbered
  BY DEF Init, Numbered, zeroNonce
<1>2. Numbered => NonceUnique
  BY DEF Numbered, NonceUnique, Abstract!NonceUnique
<1> QED
  BY <1>1, <1>2, InitInv, NextInv, NextNumbered, PTL DEF Spec
-----------------------------------------------------------------------------
(* What reaches the destination.  Only full chunks come before the last,   *)
(* and nothing is written behind a chunk whose write failed.               *)
Stored == [chunk : Sealed, pos : Nat]

Delivered ==
    /\ dst \in Seq(Stored)
    /\ DstIsPrefix
    /\ err = "nil" => \A i \in 1..Len(sealed) : Len(sealed[i].data) = ChunkSize

LEMMA StoredCells ==
    ASSUME NEW chunk \in Sealed
    PROVE  /\ Cells(chunk) \in Seq(Stored)
           /\ Len(Cells(chunk)) = Len(chunk.data) + Overhead
<1>1. Len(chunk.data) + Overhead \in Nat
  BY DEF Sealed
<1>2. \A i \in 1..(Len(chunk.data) + Overhead) : [chunk |-> chunk, pos |-> i] \in Stored
  BY <1>1 DEF Stored
<1> QED
  BY <1>1, <1>2 DEF Cells

(* A chunk written behind full ones: whole, or torn.                       *)
LEMMA FlushDelivers ==
    ASSUME TypeOK, Delivered, err = "nil",
           NEW last \in BOOLEAN, NEW e \in {"nil", "write"}, flushChunk(last, e)
    PROVE  /\ dst' \in Seq(Stored)
           /\ e = "nil" => IsStreamOf(dst', sealed')
           /\ TornInLast(dst', sealed')
<1> DEFINE chunk == Seal(chunkNonce(last), buf)
           cells == Cells(chunk)
<1>1. /\ chunk \in Sealed /\ sealed \in Seq(Sealed) /\ sealed' = Append(sealed, chunk)
  <2>1. chunkNonce(last) \in Nonce /\ sealed' = Append(sealed, chunk)
    BY FlushTypes
  <2> QED
    BY <2>1 DEF Seal, Sealed, TypeOK
<1>2. PICK k \in 0..Len(cells) :
        /\ e = "nil" => k = Len(cells)
        /\ dst' = dst \o SubSeq(cells, 1, k)
  BY DEF flushChunk, DstWrite
<1> HIDE DEF chunk
<1>3. cells \in Seq(Stored)
  BY <1>1, StoredCells
<1> HIDE DEF cells
<1> DEFINE torn == SubSeq(cells, 1, k)
<1>4. /\ torn \in Seq(Stored) /\ Len(torn) = k /\ k \in Nat /\ k <= Len(cells)
      /\ Len(cells) \in Nat /\ SubSeq(cells, 1, Len(cells)) = cells
  BY <1>3, SubSeqFull
<1>5. dst \in Seq(Stored) /\ IsStreamOf(dst, sealed)
  BY DEF Delivered, DstIsPrefix
<1>6. e = "nil" => IsStreamOf(dst', sealed')
  <2> SUFFICES ASSUME e = "nil" PROVE IsStreamOf(dst \o cells, Append(sealed, chunk))
    BY <1>1, <1>2, <1>4
  <2>1. \A c \in Sealed : c.data \in Seq(Nat)
    BY DEF Sealed
  <2>2. \A i \in 1..Len(sealed) : Len(sealed[i].data) = ChunkSize
    BY DEF Delivered
  <2> QED
    BY <1>1, <1>3, <1>5, <2>1, <2>2, StreamAppend DEF cells
<1> HIDE DEF torn
<1>7. /\ dst' \in Seq(Stored) /\ Len(dst') = Len(dst) + k /\ Len(dst) \in Nat
      /\ SubSeq(dst', 1, Len(dst)) = dst
      /\ SubSeq(dst', Len(dst) + 1, Len(dst')) = torn
  <2>1. dst' = dst \o torn
    BY <1>2 DEF torn
  <2>2. dst \o torn \in Seq(Stored) /\ Len(dst \o torn) = Len(dst) + k
    BY <1>4, <1>5, ConcatProperties
  <2>3. SubSeq(dst \o torn, Len(dst) + 1, Len(dst) + Len(torn)) = torn
    BY ONLY <1>4, <1>5, SubSeqOfSecond
  <2>4. SubSeq(dst \o torn, 1, Len(dst)) = dst
    BY <1>4, <1>5
  <2> QED
    BY <1>4, <1>5, <2>1, <2>2, <2>3, <2>4
<1>8. Front(sealed') = sealed /\ Last(sealed') = chunk
  BY <1>1 DEF Front, Last
<1>9. IsPrefix(torn, cells)
  BY <1>4 DEF IsPrefix, torn
<1>10. TornInLast(dst', sealed')
  <2>1. Len(dst) \in 0..Len(dst')
    BY <1>4, <1>7
  <2>2. IsStreamOf(SubSeq(dst', 1, Len(dst)), Front(sealed'))
    BY <1>5, <1>7, <1>8, Zenon
  <2>3. IsPrefix(SubSeq(dst', Len(dst) + 1, Len(dst')), Cells(Last(sealed')))
    BY <1>7, <1>8, <1>9, Zenon DEF cells
  <2> QED
    BY <2>1, <2>2, <2>3 DEF TornInLast
<1> QED
  BY <1>6, <1>7, <1>10

LEMMA InitDelivered == Init => Delivered
<1> SUFFICES ASSUME Init PROVE Delivered
  OBVIOUS
<1>1. dst = <<>> /\ sealed = <<>> /\ err = "nil"
  BY DEF Init
<1>2. IsStreamOf(dst, sealed)
  BY ONLY <1>1, EmptyStream, Zenon
<1> QED
  BY <1>1, <1>2 DEF Delivered, DstIsPrefix

LEMMA NextDelivered == Inv /\ Delivered /\ [Next]_vars => Delivered'
<1> SUFFICES ASSUME Inv, Delivered, [Next]_vars PROVE Delivered'
  OBVIOUS
<1>1. CASE WriteFlush
  <2>1. err = "nil" /\ Len(buf) = ChunkSize /\ TypeOK
    BY <1>1 DEF WriteFlush, Inv, NeverPanics
  <2>2. PICK e \in {"nil", "write"} :
          flushChunk(FALSE, e) /\ err' = e
    BY <1>1, <2>1 DEF WriteFlush
  <2>3. /\ dst' \in Seq(Stored)
        /\ e = "nil" => IsStreamOf(dst', sealed')
        /\ TornInLast(dst', sealed')
    BY <2>1, <2>2, FlushDelivers
  <2>4. sealed' = Append(sealed, Seal(chunkNonce(FALSE), buf)) /\ sealed \in Seq(Sealed)
    BY <2>1, <2>2, FlushTypes DEF TypeOK, Sealed
  <2>5. err' = "nil" => \A i \in 1..Len(sealed') : Len(sealed'[i].data) = ChunkSize
    <3> DEFINE chunk == Seal(chunkNonce(FALSE), buf)
    <3>1. Len(chunk.data) = ChunkSize
      BY <2>1 DEF Seal
    <3>2. \A i \in 1..Len(sealed) : Len(sealed[i].data) = ChunkSize
      BY <2>1 DEF Delivered
    <3>a. sealed' = Append(sealed, chunk) /\ chunk \in Sealed /\ sealed \in Seq(Sealed)
      <4>1. chunkNonce(FALSE) \in Nonce
        BY <2>1, <2>2, FlushTypes
      <4> QED
        BY <2>1, <2>4, <4>1 DEF Seal, Sealed, TypeOK
    <3> HIDE DEF chunk
    <3>3. /\ Len(sealed') = Len(sealed) + 1 /\ sealed'[Len(sealed) + 1] = chunk
          /\ \A i \in 1..Len(sealed) : sealed'[i] = sealed[i]
          /\ Len(sealed) \in Nat
      BY <3>a
    <3> QED
      BY <3>1, <3>2, <3>3
  <2> QED
    BY <2>2, <2>3, <2>5 DEF Delivered, DstIsPrefix
<1>2. CASE Close
  <2>1. err = "nil" /\ TypeOK
    BY <1>2 DEF Close, Inv
  <2>2. PICK e \in {"nil", "write"} :
          flushChunk(TRUE, e) /\ err' = errAfter(e)
    BY <1>2 DEF Close
  <2>3. /\ dst' \in Seq(Stored)
        /\ e = "nil" => IsStreamOf(dst', sealed')
        /\ TornInLast(dst', sealed')
    BY <2>1, <2>2, FlushDelivers
  <2> QED
    BY <2>2, <2>3 DEF Delivered, DstIsPrefix, errAfter
<1>3. CASE UNCHANGED <<dst, sealed, err>>
  BY <1>3 DEF Delivered, DstIsPrefix
<1> QED
  BY <1>1, <1>2, <1>3 DEF Next, Refused, WriteEmpty, WriteCall, WriteFill, Crash, vars

(* Whatever fails and whenever the process dies, the destination holds the *)
(* sealed chunks whole and in order, and of one whose write failed, which  *)
(* is then the last, a beginning.                                          *)
THEOREM DestinationIsPrefix == Spec => []DstIsPrefix
<1>1. Delivered => DstIsPrefix
  BY DEF Delivered
<1> QED
  BY <1>1, InitInv, NextInv, InitDelivered, NextDelivered, PTL DEF Spec
-----------------------------------------------------------------------------
(* What the refinement is good for.                                        *)
status == CASE err = "nil"    -> "open"
            [] err = "closed" -> "closed"
            [] OTHER          -> "failed"

LEMMA SameCut == IsCut(sealed, given, status) => Abstract!Canonical
BY SameFormat DEF Abstract!Canonical, IsCut, status

LEMMA InitCut == Init => IsCut(sealed, given, status)
BY DEF Init, IsCut, status

LEMMA NextCut ==
    ASSUME Inv, [Next]_vars, IsCut(sealed, given, status)
    PROVE  IsCut(sealed, given, status)'
<1>1. [Abstract!Next]_(Abstract!vars)
  BY RefineNext
<1>2. given \in Nat
  BY DEF Inv, TypeOK
<1>3. CASE Abstract!Next
  <2>1. CutStep(sealed, given, status, sealed', given', status')
    <3>1. CASE Abstract!Accept \/ Abstract!Fail
      BY <1>2, <3>1 DEF Abstract!Accept, Abstract!Fail, CutStep, status
    <3>2. CASE Abstract!SealFull
      BY <3>2, SameFormat DEF Abstract!SealFull, Abstract!goesOn, CutStep, status
    <3>3. CASE Abstract!SealLast
      BY <3>3, SameFormat DEF Abstract!SealLast, Abstract!ends, CutStep, status
    <3> QED
      BY <1>3, <3>1, <3>2, <3>3 DEF Abstract!Next
  <2> QED
    BY <1>2, <2>1, CutGoesOn
<1>4. CASE UNCHANGED Abstract!vars
  BY <1>4 DEF Abstract!vars, status
<1> QED
  BY <1>1, <1>3, <1>4

(* However its caller cuts the message into Writes, the chunks a writer    *)
(* seals are the format's cut of it: this is what the decryptors rely on.  *)
THEOREM SealsCanonically == Spec => []Abstract!Canonical
BY InitInv, NextInv, InitCut, NextCut, SameCut, PTL DEF Spec

LEMMA ClosedWhole ==
    ASSUME Inv, Delivered, IsCut(sealed, given, status), err = "closed"
    PROVE  IsCiphertext(dst, given)
<1>1. status = "closed" /\ given \in Nat
  BY DEF status, Inv, TypeOK
<1>2. sealed = ChunksOf(given)
  BY <1>1, ClosedCut
<1>3. IsStreamOf(dst, sealed)
  BY DEF Delivered, DstIsPrefix
<1> QED
  BY <1>2, <1>3 DEF IsCiphertext

(* Once Close has returned without an error, the destination holds the     *)
(* complete ciphertext of all that was given to Write, and nothing else.   *)
THEOREM ClosedIsCiphertext ==
    Spec => [](err = "closed" => IsCiphertext(dst, given))
BY InitInv, NextInv, InitCut, NextCut, InitDelivered, NextDelivered, ClosedWhole, PTL DEF Spec
=============================================================================
