--------------------------- MODULE MCDecryptReader ---------------------------
(***************************************************************************)
(* Files for DecryptReader: chunks of one message put together in any      *)
(* order, with any of them missing or repeated, then one more damage to    *)
(* the cells.                                                              *)
(***************************************************************************)
EXTENDS DecryptReader

CONSTANTS
    Lens,           \* lengths of the messages the chunks are taken from
    MaxChunks       \* bound: chunks in a file

(* The chunks of a message, and the empty last chunk some other encryptor  *)
(* could have put behind its full ones.                                    *)
Pool(len) ==
    {ChunksOf(len)[i] : i \in 1..ChunkCount(len)}
        \cup {FinalChunk(k, len) : k \in {k \in 1..len : k * ChunkSize = len}}

Assembled == UNION {{Stream(s) : s \in BoundedSeq(Pool(len), MaxChunks)} : len \in Lens}

(* A cell that belongs to no chunk sealed under the key. *)
junk == [chunk |-> Seal([ctr |-> -1, last |-> FALSE], <<>>), pos |-> 0]

Damaged(f) ==
    {f, Append(f, junk)}
        \cup {SubSeq(f, 1, k) : k \in 0..Len(f)}
        \cup {[f EXCEPT ![i] = junk] : i \in DOMAIN f}
        \cup {[f EXCEPT ![i] = f[i + 1], ![i + 1] = f[i]] : i \in 1..Len(f) - 1}

MCFiles == UNION {Damaged(f) : f \in Assembled}

(* The two ways to say what a ciphertext is agree on these files. *)
ASSUME CutAgrees ==
    \A f \in MCFiles, len \in Lens : IsCiphertext(f, len) <=> f = CiphertextOf(len)

(* Intact files, and such files with one byte too many. *)
PlainFiles ==
    {CiphertextOf(len) : len \in Lens} \cup {Append(CiphertextOf(len), junk) : len \in Lens}
=============================================================================
