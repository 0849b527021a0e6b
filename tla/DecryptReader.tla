---------------------------- MODULE DecryptReader ----------------------------
(***************************************************************************)
(* stream.DecryptReader: Read takes one chunk at a time from a source,     *)
(* opens it as the chunk the counter expects, and after the last one       *)
(* probes the source for its EOF.  Read is split where it calls the        *)
(* source; the source is a file of cells, intact or damaged, and may       *)
(* answer in some of the ways the constant Quirks names beside a plain     *)
(* file's.                                                                 *)
(***************************************************************************)
EXTENDS StreamChunk

CONSTANTS
    Files,          \* the contents the source may have
    Quirks,         \* what else a source may do, see below
    MaxRead         \* bound: bytes asked for in one Read

(* "fails"          an error of its own, after any number of bytes         *)
(* "unexpectedEOF"  the same, and that error is io.ErrUnexpectedEOF        *)
(* "dataWithEOF"    its last byte comes with the EOF, as io.Reader allows  *)
(* "emptyReads"     no byte and no error, now and then: io.ReadFull asks   *)
(*                  again, the look behind the last chunk does not         *)
ASSUME MaxReadAssumption == MaxRead \in Nat

(* Every cell comes from a chunk that some message was cut into, the empty *)
(* last chunk another encryptor may put behind full ones included, or from *)
(* none sealed under the key, which then opens under no nonce.             *)
Genuine(cell) ==
    LET sealed == cell.chunk
        k      == sealed.nonce.ctr
    IN  \/ k = -1
        \/ k \in Nat /\ sealed = FullChunk(k)
        \/ /\ k \in Nat /\ Len(sealed.data) <= ChunkSize
           /\ sealed = FinalChunk(k, k * ChunkSize + Len(sealed.data))

ASSUME FilesAssumption ==
    \A f \in Files : f \in Seq(Cell) /\ \A i \in 1..Len(f) : Genuine(f[i])

ASSUME QuirksAssumption ==
    Quirks \subseteq {"fails", "unexpectedEOF", "dataWithEOF", "emptyReads"}

VARIABLES
    pc,         \* "idle", or inside Read: "chunk", "probe"
    file,       \* the cells of the source
    quirks,     \* what else this source may do
    pos,        \* how many have been read
    want,       \* length of the slice the current Read fills
    unread,     \* plaintext decrypted and not yet returned
    nonce, err,
    ret,        \* what the last finished Read returned
    out         \* history: the plaintext returned

source == <<file, quirks>>
vars == <<pc, source, pos, want, unread, nonce, err, ret, out>>

Ret(n, e) == [n |-> n, err |-> e]

Init ==
    /\ pc = "idle"
    /\ file \in Files /\ quirks \in SUBSET Quirks
    /\ pos = 0 /\ want = 0
    /\ unread = <<>>
    /\ nonce = zeroNonce
    /\ err = "nil"
    /\ ret = Ret(0, "nil")
    /\ out = <<>>
-----------------------------------------------------------------------------
avail == Len(file) - pos

(* io.ReadFull of a whole encrypted chunk: it got k cells and error e. *)
ReadFull(k, e) ==
    \/ e = "nil" /\ k = encChunkSize /\ k <= avail
    \/ e = "EOF" /\ k = 0 /\ avail = 0
    \/ e = "ErrUnexpectedEOF" /\ k = avail /\ k \in 1..encChunkSize - 1
    \/ e = "src" /\ "fails" \in quirks /\ k < encChunkSize /\ k <= avail
    \/ e = "ErrUnexpectedEOF" /\ "unexpectedEOF" \in quirks
       /\ k < encChunkSize /\ k <= avail

DeliverOverrun(n, plain) ==         \* Mutant: ignores the room the caller has
    /\ out' = out \o plain
    /\ unread' = <<>>
    /\ ret' = Ret(Len(plain), "nil")

(* Copy up to n bytes of plaintext to the caller and keep the rest. *)
Deliver(n, plain) ==
    LET k == Lesser(n, Len(plain))
    IN  /\ out' = out \o SubSeq(plain, 1, k)
        /\ unread' = SubSeq(plain, k + 1, Len(plain))
        /\ ret' = Ret(k, "nil")

(* Plaintext at hand is served even after an error or the EOF. *)
ReadUnread(n) ==
    /\ pc = "idle" /\ unread # <<>>
    /\ Deliver(n, unread)
    /\ UNCHANGED <<pc, source, pos, want, nonce, err>>

ReadRefused ==
    /\ pc = "idle" /\ unread = <<>> /\ err # "nil"
    /\ ret' = Ret(0, err)
    /\ UNCHANGED <<pc, source, pos, want, unread, nonce, err, out>>

ReadEmpty ==
    /\ pc = "idle" /\ unread = <<>> /\ err = "nil"
    /\ ret' = Ret(0, "nil")
    /\ UNCHANGED <<pc, source, pos, want, unread, nonce, err, out>>

ReadCall(n) ==
    /\ pc = "idle" /\ unread = <<>> /\ err = "nil"
    /\ want' = n
    /\ pc' = "chunk"
    /\ UNCHANGED <<source, pos, unread, nonce, err, ret, out>>

(* readChunk fails: Read keeps the error. *)
ChunkError(e, used) ==
    /\ err' = e /\ ret' = Ret(0, e)
    /\ nonce' = used
    /\ pc' = "idle"
    /\ UNCHANGED <<unread, out>>

afterOpen(last) == IF last THEN "probe" ELSE "idle"

(* readChunk opened a chunk. *)
ChunkOpened(cells, used, last) ==
    /\ nonce' = incNonce(used)
    /\ Deliver(want, Plaintext(cells))
    /\ pc' = afterOpen(last)
    /\ UNCHANGED err

EmptyLastAlways(k, e) == e = "ErrUnexpectedEOF" /\ k = Overhead    \* Mutant

(* The last chunk may be short, but not empty unless it is the first. *)
EmptyLast(k, e) == e = "ErrUnexpectedEOF" /\ ~nonceIsZero(nonce) /\ k = Overhead

(* readChunk.  A short chunk can only be the last; a full one is tried as  *)
(* an ordinary chunk first and then as the last.                           *)
ReadChunk ==
    /\ pc = "chunk"
    /\ \E k \in 0..encChunkSize, e \in {"nil", "EOF", "ErrUnexpectedEOF", "src"} :
          LET cells   == SubSeq(file, pos + 1, pos + k)
              flagged == setLastChunkFlag(nonce)
          IN  /\ ReadFull(k, e)
              /\ pos' = pos + k
              /\ \/ e = "EOF" /\ ChunkError("ErrUnexpectedEOF", nonce)
                 \/ EmptyLast(k, e) /\ ChunkError("empty", nonce)
                 \/ e = "src" /\ ChunkError("src", nonce)
                 \/ /\ e = "nil" /\ Opens(nonce, cells)
                    /\ ChunkOpened(cells, nonce, FALSE)
                 \/ /\ \/ e = "nil" /\ ~Opens(nonce, cells)
                       \/ e = "ErrUnexpectedEOF" /\ ~EmptyLast(k, e)
                    /\ IF Opens(flagged, cells)
                          THEN ChunkOpened(cells, flagged, TRUE)
                          ELSE ChunkError("auth", flagged)
    /\ UNCHANGED <<source, want>>

ProbeSkipped ==                     \* Mutant: no look behind the last chunk
    /\ pc = "probe"
    /\ err' = "EOF"
    /\ pc' = "idle"
    /\ UNCHANGED <<source, pos, want, unread, nonce, ret, out>>

(* After the last chunk Read asks for one byte more and looks at the error *)
(* only: a byte that comes with the EOF passes for the end of the file, no *)
(* byte without an error for one that trails.                              *)
Probe ==
    /\ pc = "probe"
    /\ \/ avail > 0 /\ pos' = pos + 1 /\ err' = "trailing"
       \/ "emptyReads" \in quirks /\ pos' = pos /\ err' = "trailing"
       \/ avail = 1 /\ "dataWithEOF" \in quirks /\ pos' = pos + 1 /\ err' = "EOF"
       \/ avail = 0 /\ pos' = pos /\ err' = "EOF"
       \/ quirks \cap {"fails", "unexpectedEOF"} # {} /\ pos' = pos /\ err' = "src"
    /\ pc' = "idle"
    /\ UNCHANGED <<source, want, unread, nonce, ret, out>>

Next ==
    \/ \E n \in 0..MaxRead : ReadUnread(n)
    \/ ReadRefused \/ ReadEmpty
    \/ \E n \in 1..MaxRead : ReadCall(n)
    \/ ReadChunk \/ Probe

(* The source answers, and the caller keeps reading with room for a byte   *)
(* at least, as io.Copy and io.ReadAll do.                                 *)
Fairness ==
    /\ WF_vars(\E n \in 1..MaxRead : ReadUnread(n))
    /\ WF_vars(\E n \in 1..MaxRead : ReadCall(n))
    /\ WF_vars(ReadChunk \/ Probe)

Spec == Init /\ [][Next]_vars /\ Fairness
-----------------------------------------------------------------------------
Errors == {"nil", "EOF", "ErrUnexpectedEOF", "empty", "src", "auth", "trailing"}

TypeOK ==
    /\ pc \in {"idle", "chunk", "probe"}
    /\ pos \in 0..Len(file) /\ want \in Nat
    /\ unread \in Seq(Nat) /\ Len(unread) <= ChunkSize
    /\ out \in Seq(Nat)
    /\ nonce \in Nonce
    /\ err \in Errors
    /\ ret \in [n : 0..MaxRead, err : Errors]

(* Whatever was done to the file, the plaintext that comes out is a        *)
(* beginning of the message: no byte lost, repeated or out of place.       *)
OnlyMessageLeaves == out \o unread = Bytes(0, Len(out) + Len(unread))

(* The reader reports EOF only when the whole file was the complete        *)
(* ciphertext of what it returned; every truncation, extension, exchange   *)
(* or repetition of chunks ends in another error.                          *)
EOFMeansComplete ==
    err = "EOF" => IsCiphertext(file, Len(out) + Len(unread))

(* Reading on comes to an end, whatever the file and the source do, and an *)
(* intact file behind a faultless source is read to its EOF.               *)
Intact == \E len \in 0..Len(file) : file = CiphertextOf(len)

ReadsToTheEnd ==
    <>(/\ unread = <<>> /\ err # "nil"
       /\ Intact /\ quirks \subseteq {"dataWithEOF"} => err = "EOF")
=============================================================================
