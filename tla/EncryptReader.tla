---------------------------- MODULE EncryptReader ----------------------------
(***************************************************************************)
(* stream.EncryptReader: Read pulls plaintext from a source, one byte more *)
(* than a chunk so as to know whether the chunk is the last, seals it in   *)
(* the buffer and hands out the ciphertext.  The buffer holds cells of     *)
(* ciphertext first and, behind them, the byte of plaintext over-read.     *)
(* Read is split where it calls the source, which may fail at any byte.    *)
(***************************************************************************)
EXTENDS StreamChunk

CONSTANTS
    MaxLen,         \* bound: bytes the source holds
    MaxRead         \* bound: bytes asked for in one Read

ASSUME BoundsAssumption == MaxLen \in Nat /\ MaxRead \in Nat

VARIABLES
    pc,         \* "idle", or inside feedBuffer: "copy", "seal"
    size,       \* bytes the source will yield before its EOF
    pulled,     \* bytes taken from the source so far
    want,       \* length of the slice the current Read fills
    ready,      \* how much of buf is ciphertext
    buf,        \* ciphertext cells, then plaintext bytes
    nonce, err,
    ret,        \* what the last finished Read returned
    sealed,     \* history: the chunks sealed
    out         \* history: everything Read has handed out

vars == <<pc, size, pulled, want, ready, buf, nonce, err, ret, sealed, out>>

Ret(n, e) == [n |-> n, err |-> e]

(* Plaintext bytes as they lie in the buffer. *)
Plain(lo, hi) == [i \in 1..(hi - lo) |-> [byte |-> lo + i]]
DataOf(plain) == [i \in 1..Len(plain) |-> plain[i].byte]

Init ==
    /\ pc = "idle"
    /\ size \in 0..MaxLen
    /\ pulled = 0 /\ want = 0 /\ ready = 0
    /\ buf = <<>>
    /\ nonce = zeroNonce
    /\ err = "nil"
    /\ ret = Ret(0, "nil")
    /\ sealed = <<>>
    /\ out = <<>>
-----------------------------------------------------------------------------
(* The end of Read: copy what is ready, as far as it fits. *)
Deliver(n, held, avail) ==
    LET k == Lesser(n, avail)
    IN  /\ out' = out \o SubSeq(held, 1, k)
        /\ buf' = SubSeq(held, k + 1, Len(held))
        /\ ready' = avail - k
        /\ ret' = Ret(k, "nil")

(* Ciphertext at hand is served even after an error or the EOF. *)
ReadReady(n) ==
    /\ pc = "idle" /\ ready > 0
    /\ Deliver(n, buf, ready)
    /\ UNCHANGED <<pc, size, pulled, want, nonce, err, sealed>>

ReadRefused ==
    /\ pc = "idle" /\ ready = 0 /\ err # "nil"
    /\ ret' = Ret(0, err)
    /\ UNCHANGED <<pc, size, pulled, want, ready, buf, nonce, err, sealed, out>>

ReadEmpty ==
    /\ pc = "idle" /\ ready = 0 /\ err = "nil"
    /\ ret' = Ret(0, "nil")
    /\ UNCHANGED <<pc, size, pulled, want, ready, buf, nonce, err, sealed, out>>

ReadCall(n) ==
    /\ pc = "idle" /\ ready = 0 /\ err = "nil"
    /\ want' = n
    /\ pc' = "copy"
    /\ UNCHANGED <<size, pulled, ready, buf, nonce, err, ret, sealed, out>>

copyLenNoProbe == ChunkSize - Len(buf)      \* Mutant: does not over-read

(* io.CopyN of ChunkSize - len(buf) + 1 bytes.  Short of that it meets the *)
(* EOF, which feedBuffer ignores, or fails, which Read keeps; an error     *)
(* that comes with the last byte asked for is dropped by CopyN.            *)
copyLen == ChunkSize - Len(buf) + 1

Copy ==
    /\ pc = "copy"
    /\ LET k == Lesser(copyLen, size - pulled)
       IN  /\ pulled' = pulled + k
           /\ buf' = buf \o Plain(pulled, pulled + k)
    /\ pc' = "seal"
    /\ UNCHANGED <<size, want, ready, nonce, err, ret, sealed, out>>

CopyFails ==
    /\ pc = "copy"
    /\ \E k \in 0..Lesser(copyLen - 1, size - pulled) :
          /\ pulled' = pulled + k
          /\ buf' = buf \o Plain(pulled, pulled + k)
    /\ err' = "src" /\ ret' = Ret(0, "src")
    /\ pc' = "idle"
    /\ UNCHANGED <<size, want, ready, nonce, sealed, out>>

(* At most a chunk in the buffer: the source has ended, seal all of it. *)
SealLast ==
    LET used  == setLastChunkFlag(nonce)
        chunk == Seal(used, DataOf(buf))
    IN  /\ pc = "seal" /\ Len(buf) <= ChunkSize
        /\ sealed' = Append(sealed, chunk)
        /\ nonce' = incNonce(used)
        /\ Deliver(want, Cells(chunk), Len(Cells(chunk)))
        /\ err' = "EOF"
        /\ pc' = "idle"
        /\ UNCHANGED <<size, pulled, want>>

readyAfterFullTooMuch == ChunkSize + Overhead + 1   \* Mutant: off by one

readyAfterFull == ChunkSize + Overhead

(* Otherwise seal a full chunk and keep the over-read byte behind it. *)
SealFull ==
    LET chunk == Seal(nonce, DataOf(SubSeq(buf, 1, ChunkSize)))
        tail  == buf[ChunkSize + 1]
    IN  /\ pc = "seal" /\ Len(buf) > ChunkSize
        /\ sealed' = Append(sealed, chunk)
        /\ nonce' = incNonce(nonce)
        /\ Deliver(want, Append(Cells(chunk), tail), readyAfterFull)
        /\ pc' = "idle"
        /\ UNCHANGED <<size, pulled, want, err>>

Next ==
    \/ \E n \in 0..MaxRead : ReadReady(n)
    \/ ReadRefused \/ ReadEmpty
    \/ \E n \in 1..MaxRead : ReadCall(n)
    \/ Copy \/ CopyFails \/ SealLast \/ SealFull

(* The source answers, and the caller keeps reading with room for a byte   *)
(* at least, as io.Copy and io.ReadAll do.                                 *)
Fairness ==
    /\ WF_vars(\E n \in 1..MaxRead : ReadReady(n))
    /\ WF_vars(\E n \in 1..MaxRead : ReadCall(n))
    /\ WF_vars(Copy \/ CopyFails)
    /\ WF_vars(SealLast \/ SealFull)

Spec == Init /\ [][Next]_vars /\ Fairness
-----------------------------------------------------------------------------
TypeOK ==
    /\ pc \in {"idle", "copy", "seal"}
    /\ size \in Nat /\ pulled \in 0..size /\ want \in Nat
    /\ ready \in 0..Len(buf)
    /\ pc = "seal" => Len(buf) <= ChunkSize + 1
    /\ nonce \in Nonce
    /\ err \in {"nil", "src", "EOF"}
    /\ ret \in [n : Nat, err : {"nil", "src", "EOF"}]
    /\ sealed \in Seq([nonce : Nonce, data : Seq(Nat)])

Abstract == INSTANCE ChunkedEncryption WITH
    len    <- pulled,
    status <- CASE err = "nil" -> "open"
                [] err = "EOF" -> "closed"
                [] OTHER       -> "failed"

(* EncryptReader implements the abstract encryptor: a byte is accepted     *)
(* when it is taken from the source.                                       *)
ImplementsAbstract == Abstract!Spec

(* What Read has handed out and what is ready are together the sealed      *)
(* chunks and nothing else: neither the over-read byte nor what a failing  *)
(* source left in the buffer ever leaves in the clear.  Behind the ready   *)
(* cells lie exactly the bytes pulled but not yet sealed.                  *)
OnlyCiphertextLeaves ==
    /\ IsStreamOf(out \o SubSeq(buf, 1, ready), sealed)
    /\ err # "EOF" =>
          SubSeq(buf, ready + 1, Len(buf)) = Plain(Len(sealed) * ChunkSize, pulled)

(* Reading on ends, with a complete ciphertext unless the source failed. *)
ReadsToTheEnd ==
    <>(/\ ready = 0
       /\ \/ err = "src"
          \/ err = "EOF" /\ pulled = size /\ out = Stream(sealed))
=============================================================================
