-------------------------- MODULE MCDecryptReaderAt --------------------------
(***************************************************************************)
(* Instances of DecryptReaderAt: the intact file, one whose second chunk   *)
(* has been overwritten with the first, and one cut at a chunk boundary.   *)
(***************************************************************************)
EXTENDS DecryptReaderAt

Whole == CiphertextOf(MsgLen)

Overwritten ==
    [i \in DOMAIN Whole |->
        IF i \in encChunkSize + 1 .. 2 * encChunkSize THEN Whole[i - encChunkSize]
                                                    ELSE Whole[i]]

MCFiles == {Whole, Overwritten, SubSeq(Whole, 1, encChunkSize)}

MCSizes == int64

(* Inside one chunk, up to and over a boundary, all of it, past the end,   *)
(* at the end, nothing, and out of range.                                  *)
MCRequests == {<<0, 1>>, <<3, 2>>, <<0, 8>>, <<4, 8>>, <<8, 1>>,
               <<9, 1>>, <<1, 0>>, <<10, 1>>, <<-1, 1>>}

Symmetric == Permutations(Callers) \cup Permutations(Bufs)

(* The lengths of ciphertexts are those of the chunks in a row, and one of *)
(* the files is the message's.                                             *)
ASSUME LengthsAgree ==
    \A len \in 0..MaxInt64 : EncryptedSize(len) = Len(CiphertextOf(len))

ASSUME WholeIsIntact == IsCiphertext(Whole, MsgLen)
=============================================================================
