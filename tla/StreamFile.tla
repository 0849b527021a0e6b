------------------------------ MODULE StreamFile ------------------------------
(***************************************************************************)
(* An EncryptWriter storing a stream in a file, which may fail or be left  *)
(* behind by a process that dies, and a DecryptReader of that file, which  *)
(* may start at any time: before the stream is closed, after a crash, or   *)
(* when all is well.                                                       *)
(***************************************************************************)
EXTENDS StreamChunk

CONSTANTS MaxLen, MaxWrite, MaxRead     \* the bounds of the two components

ASSUME BoundsAssumption == MaxLen \in Nat /\ MaxWrite \in Nat /\ MaxRead \in Nat

VARIABLES
    wpc, given, p, total, buf, wnonce, werr, wret, sealed,  \* the writer's
    dst,                                                    \* the file
    rpc, pos, want, unread, rnonce, rerr, rret, out         \* the reader's

wvars == <<wpc, given, p, total, buf, wnonce, werr, wret, sealed>>
rvars == <<rpc, pos, want, unread, rnonce, rerr, rret, out>>
vars  == <<wvars, dst, rvars>>

W == INSTANCE EncryptWriter WITH
    pc <- wpc, nonce <- wnonce, err <- werr, ret <- wret

R == INSTANCE DecryptReader WITH
    Files <- {<<>>}, Quirks <- {}, quirks <- {}, file <- dst,
    pc <- rpc, nonce <- rnonce, err <- rerr, ret <- rret

Init == W!Init /\ R!Init

WriterStep == W!Next /\ UNCHANGED rvars

ReaderStep == R!Next /\ UNCHANGED wvars

Next == WriterStep \/ ReaderStep

Spec == Init /\ [][Next]_vars /\ W!Fairness /\ R!Fairness
-----------------------------------------------------------------------------
(* The reader never returns a byte the writer was not given, nor one out   *)
(* of its place.                                                           *)
ReadBackIsPrefix ==
    /\ R!OnlyMessageLeaves
    /\ Len(out) + Len(unread) <= given

(* A reader that reports EOF has returned everything the writer was given, *)
(* and the writer had got to Close: a file torn by a crash or a failed     *)
(* write, or read too early, never passes for a complete one.              *)
EOFMeansClosed ==
    rerr = "EOF" =>
        /\ out \o unread = Bytes(0, given)
        /\ wnonce.last

(* A stream that was closed without an error is read back whole by a       *)
(* reader that starts afterwards, even if the writer's process has died.   *)
ClosedIsReadable ==
    (werr = "closed" /\ rpc = "idle" /\ pos = 0 /\ rerr = "nil")
        ~> (rerr = "EOF" /\ unread = <<>> /\ out = Bytes(0, given))
=============================================================================
