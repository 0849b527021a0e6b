-------------------------- MODULE ChunkedEncryption --------------------------
(***************************************************************************)
(* What an encryptor of package stream promises, whichever way it is       *)
(* driven: the bytes it has accepted are sealed in order, in full chunks   *)
(* numbered from zero, never one that may still turn out to be the last;   *)
(* the last chunk alone carries the flag and closes the stream; after a    *)
(* failure nothing is sealed any more.  EncryptWriter (bytes pushed in) and *)
(* EncryptReader (bytes pulled out) both implement this specification.     *)
(***************************************************************************)
EXTENDS StreamChunk

VARIABLES
    len,        \* how many bytes of the message have been accepted
    sealed,     \* the chunks sealed, in the order they were
    status      \* "open", "closed" (complete) or "failed"

vars == <<len, sealed, status>>

Init ==
    /\ len = 0
    /\ sealed = <<>>
    /\ status = "open"

(* More bytes of the message are taken in. *)
Accept ==
    /\ status = "open"
    /\ len' \in Nat /\ len' > len
    /\ UNCHANGED <<sealed, status>>

(* More than the k-th chunk has been accepted. *)
goesOn(k) == (k + 1) * ChunkSize < len

(* A chunk is full and the message is known to go on after it.  The sealed *)
(* chunk may fail to reach its destination.                                *)
SealFull ==
    /\ status = "open"
    /\ goesOn(Len(sealed))
    /\ sealed' = Append(sealed, FullChunk(Len(sealed)))
    /\ status' \in {"open", "failed"}
    /\ UNCHANGED len

(* What the k-th chunk takes is all the rest of the message. *)
ends(k) == EndsInChunk(k, len)

(* The message ends and with it the stream. *)
SealLast ==
    /\ status = "open"
    /\ ends(Len(sealed))
    /\ sealed' = Append(sealed, FinalChunk(Len(sealed), len))
    /\ status' \in {"closed", "failed"}
    /\ UNCHANGED len

(* The source of the message fails, perhaps after some more bytes, which   *)
(* are never sealed.                                                       *)
Fail ==
    /\ status = "open"
    /\ status' = "failed"
    /\ len' \in Nat /\ len' >= len
    /\ UNCHANGED sealed

Next == Accept \/ SealFull \/ SealLast \/ Fail

Spec == Init /\ [][Next]_vars
-----------------------------------------------------------------------------
TypeOK ==
    /\ len \in Nat
    /\ sealed \in Seq([nonce : Nonce, data : Seq(Nat)])
    /\ \A i \in 1..Len(sealed) : Len(sealed[i].data) <= ChunkSize
    /\ status \in {"open", "closed", "failed"}

(* The sealed chunks are exactly the format's cut of the accepted bytes:   *)
(* all are full, unflagged and followed by more of the message, but for    *)
(* the last one of a stream that has got to its end.                       *)
Canonical ==
    /\ \A i \in 1..Len(sealed) :
          \/ sealed[i] = FullChunk(i - 1) /\ i * ChunkSize < len
          \/ /\ i = Len(sealed) /\ status # "open"
             /\ EndsInChunk(i - 1, len)
             /\ sealed[i] = FinalChunk(i - 1, len)
    /\ status = "closed" =>
          sealed # <<>> /\ sealed[Len(sealed)] = FinalChunk(Len(sealed) - 1, len)

(* No two chunks are ever sealed under one counter, whatever their flags. *)
NonceUnique ==
    \A i, j \in 1..Len(sealed) :
        sealed[i].nonce.ctr = sealed[j].nonce.ctr => i = j
=============================================================================
