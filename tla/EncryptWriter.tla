---------------------------- MODULE EncryptWriter ----------------------------
(***************************************************************************)
(* stream.EncryptWriter: Write buffers plaintext and seals a chunk when it *)
(* is full and more bytes are at hand; Close seals the last one.  The loop *)
(* of Write is split where it calls the destination, which may fail after  *)
(* storing any part of a chunk; the process may also die between two       *)
(* steps, which leaves in the destination whatever had reached it.         *)
(***************************************************************************)
EXTENDS StreamChunk

CONSTANTS
    MaxLen,         \* bound: bytes the caller hands to Write in all
    MaxWrite        \* bound: bytes of one Write

ASSUME BoundsAssumption == MaxLen \in Nat /\ MaxWrite \in Nat

VARIABLES
    pc,         \* "idle", inside Write ("fill", "flush"), or "dead"
    given,      \* bytes handed to the Writes that got past its checks
    p,          \* what the current Write has left to buffer
    total,      \* what the current Write started with
    buf,        \* plaintext buffered for the next chunk
    nonce,      \* of the next chunk
    err,        \* the sticky error: "nil", "write" or "closed"
    ret,        \* what the last finished call returned
    sealed,     \* history: the chunks sealed, delivered or not
    dst         \* the cells the destination holds

vars == <<pc, given, p, total, buf, nonce, err, ret, sealed, dst>>

Ret(n, e) == [n |-> n, err |-> e]

Init ==
    /\ pc = "idle"
    /\ given = 0
    /\ p = <<>>
    /\ total = 0
    /\ buf = <<>>
    /\ nonce = zeroNonce
    /\ err = "nil"
    /\ ret = Ret(0, "nil")
    /\ sealed = <<>>
    /\ dst = <<>>

-----------------------------------------------------------------------------
(* The destination takes the first k cells of a chunk; without an error it *)
(* has taken all of them.                                                  *)
DstWrite(cells, e) ==
    \E k \in 0..Len(cells) :
        /\ e = "nil" => k = Len(cells)
        /\ dst' = dst \o SubSeq(cells, 1, k)

chunkNonceUnflagged(last) == nonce              \* Mutant: no flag
chunkNonceFlagged(last) == setLastChunkFlag(nonce)  \* Mutant: always the flag

chunkNonce(last) == IF last THEN setLastChunkFlag(nonce) ELSE nonce

flushChunkKeepsBuf(last, e) ==      \* Mutant: the buffer is not reset
    LET chunk == Seal(chunkNonce(last), buf)
    IN  /\ DstWrite(Cells(chunk), e)
        /\ sealed' = Append(sealed, chunk)
        /\ nonce' = incNonce(chunkNonce(last))
        /\ buf' = buf

(* flushChunk(last), with e the destination's answer: counter and buffer   *)
(* move on even when the destination failed.                               *)
flushChunk(last, e) ==
    LET chunk == Seal(chunkNonce(last), buf)
    IN  /\ DstWrite(Cells(chunk), e)
        /\ sealed' = Append(sealed, chunk)
        /\ nonce' = incNonce(chunkNonce(last))
        /\ buf' = <<>>

(* Write and Close repeat the sticky error. *)
Refused ==
    /\ pc = "idle" /\ err # "nil"
    /\ ret' = Ret(0, err)
    /\ UNCHANGED <<pc, given, p, total, buf, nonce, err, sealed, dst>>

WriteEmpty ==
    /\ pc = "idle" /\ err = "nil"
    /\ ret' = Ret(0, "nil")
    /\ UNCHANGED <<pc, given, p, total, buf, nonce, err, sealed, dst>>

WriteCall(n) ==
    /\ pc = "idle" /\ err = "nil"
    /\ given' = given + n
    /\ p' = Bytes(given, given + n)
    /\ total' = n
    /\ pc' = "fill"
    /\ UNCHANGED <<buf, nonce, err, ret, sealed, dst>>

roomOffByOne == ChunkSize - Len(buf) + 1        \* Mutant

room == ChunkSize - Len(buf)

(* One turn of the loop up to the flush.  Bytes are left over only when   *)
(* the buffer is full, and only then is it flushed: without them this may  *)
(* be the last chunk.                                                      *)
WriteFill ==
    LET n    == Lesser(Len(p), room)
        rest == SubSeq(p, n + 1, Len(p))
    IN  /\ pc = "fill"
        /\ buf' = buf \o SubSeq(p, 1, n)
        /\ p' = rest
        /\ \/ rest = <<>> /\ pc' = "idle" /\ ret' = Ret(total, "nil")
           \/ rest # <<>> /\ pc' = "flush" /\ UNCHANGED ret
        /\ UNCHANGED <<given, total, nonce, err, sealed, dst>>

WriteFlush ==
    /\ pc = "flush"
    /\ \/ flushChunk(FALSE, "nil") /\ pc' = "fill" /\ UNCHANGED <<err, ret, p>>
       \/ /\ flushChunk(FALSE, "write")
          /\ pc' = "idle" /\ err' = "write" /\ ret' = Ret(0, "write")
          /\ p' = <<>>
    /\ UNCHANGED <<given, total>>

errAfterLost(e) == IF e = "nil" THEN "closed" ELSE "nil"   \* Mutant: error lost

errAfter(e) == IF e = "nil" THEN "closed" ELSE e

Close ==
    /\ pc = "idle" /\ err = "nil"
    /\ \E e \in {"nil", "write"} :
          /\ flushChunk(TRUE, e)
          /\ err' = errAfter(e)
          /\ ret' = Ret(0, e)
    /\ UNCHANGED <<pc, given, p, total>>

(* The process dies between two steps. *)
Crash ==
    /\ pc # "dead"
    /\ pc' = "dead"
    /\ UNCHANGED <<given, p, total, buf, nonce, err, ret, sealed, dst>>

Next ==
    \/ Refused \/ WriteEmpty
    \/ \E n \in 1..Lesser(MaxWrite, MaxLen - given) : WriteCall(n)
    \/ WriteFill \/ WriteFlush
    \/ Close
    \/ Crash

(* A Write that has begun keeps running while the process lives. *)
Fairness == WF_vars(WriteFill \/ WriteFlush)

Spec == Init /\ [][Next]_vars /\ Fairness
-----------------------------------------------------------------------------
TypeOK ==
    /\ pc \in {"idle", "fill", "flush", "dead"}
    /\ given \in Nat /\ total \in Nat
    /\ p \in Seq(Nat)
    /\ buf \in Seq(Nat) /\ Len(buf) <= ChunkSize
    /\ nonce \in Nonce
    /\ err \in {"nil", "write", "closed"}
    /\ ret \in [n : Nat, err : {"nil", "write", "closed"}]
    /\ sealed \in Seq([nonce : Nonce, data : Seq(Nat)])

(* EncryptWriter implements the abstract encryptor: a byte counts as       *)
(* accepted once a Write has got past its checks with it.                  *)
Abstract == INSTANCE ChunkedEncryption WITH
    len    <- given,
    status <- CASE err = "nil"    -> "open"
                [] err = "closed" -> "closed"
                [] OTHER          -> "failed"

ImplementsAbstract == Abstract!Spec

(* A healthy stream has every accepted byte in exactly one place: sealed,  *)
(* in the buffer, or still with the running Write; the counter says how    *)
(* many chunks there are, and something is always left for the last chunk. *)
NothingLost ==
    err = "nil" =>
        LET done == Len(sealed) * ChunkSize
        IN  /\ done + Len(buf) <= given
            /\ buf = Bytes(done, done + Len(buf))
            /\ p = Bytes(done + Len(buf), given)
            /\ nonce = nonceForChunk(Len(sealed))
            /\ sealed # <<>> => done < given

(* The flush in Write never meets a partial chunk (it would panic), nor    *)
(* one the message may end with; a Write that returns has kept nothing.    *)
NeverPanics ==
    /\ pc = "flush" => Len(buf) = ChunkSize
    /\ pc \in {"fill", "flush"} => err = "nil" /\ p # <<>>
    /\ pc = "idle" /\ err = "nil" => p = <<>>

(* Whatever fails and whenever the process dies, the destination holds     *)
(* every sealed chunk whole and in its place, but for the one whose write  *)
(* failed: of that it holds a beginning, and nothing comes behind it.      *)
TornInLast(cells, chunks) ==
    \E k \in 0..Len(cells) :
        /\ IsStreamOf(SubSeq(cells, 1, k), Front(chunks))
        /\ IsPrefix(SubSeq(cells, k + 1, Len(cells)), Cells(Last(chunks)))

DstIsPrefix ==
    IF err = "write" THEN TornInLast(dst, sealed) ELSE IsStreamOf(dst, sealed)

(* A counter is never used for two chunks, though flushChunk may fail and  *)
(* Close may be called after that.                                         *)
NonceUnique == Abstract!NonceUnique
=============================================================================
