# A TLA+ development of darkbio crypto-go

This directory models the parts of the library that have state, order or
arithmetic of their own, checks the models with TLC on small instances, and
proves the most important results with TLAPS for every value of the constants.
The cryptographic primitives are symbolic throughout: a ciphertext opens under
the key and nonce that sealed it and under nothing else. Nothing here is about
the primitives themselves.

## The system

| Component | State | Operations | What makes it correct |
| --- | --- | --- | --- |
| `stream.EncryptWriter` | buffered plaintext, nonce, sticky error | `Write`, `Close` | every byte in exactly one chunk, in place; the last chunk flagged and non-empty unless the message is empty; no nonce twice, whatever fails; never panics |
| `stream.EncryptReader` | buffer (ciphertext, then over-read plaintext), `ready`, nonce, sticky error | `Read` | the same ciphertext as the writer's; no plaintext leaves; reading on ends |
| `stream.DecryptReader` | unread plaintext, nonce, sticky error | `Read` | only the message comes out; EOF only for a complete and unaltered file; reading on ends |
| `stream.DecryptReaderAt` | size, chunk count, one cached chunk behind an atomic pointer | constructor, concurrent `ReadAt` | no buffer is written while somebody reads it; the message at the offset asked for; the contract of `io.ReaderAt` |
| stream sizes | none | `EncryptedChunkCount`, `PlaintextSize` | exactly the sizes of real payloads, in 64-bit arithmetic |
| stream nonces | 11-byte counter, flag | `incNonce`, `nonceForChunk`, `setLastChunkFlag` | counter and index number the chunks alike; never repeats |
| `cose` | none (pure calls) | `Sign`, `Verify`, detached forms, `Encrypt`, `Decrypt`, `Seal`, `Open` | what verifies was signed, for this context, by this key, within the drift |
| certificates: `x509`, `internal/x509ext`, `xdsa/cert.go`, `xhpke/cert.go` | none; the caller carries verified certificates from call to call | `IssueCert`, `VerifyCert`, `VerifyCertWithIssuer` | a chain that verifies obeys roles, key usages, names and path lengths |
| `cbor` | encoder buffer, decoder position | encode, decode, `Verify`, `Marshal`, `Unmarshal` | one encoding per value; the decoder refuses every other |
| `xdsa` | keys | composing, `Sign`, `SplitSign`, `Verify` | both halves or nothing |
| `pem`, `internal/base64ext` | none | `Encode`, `Decode`; `EncodeToString`, `DecodeString` | whatever is accepted is, up to line breaks, what would be written |
| keys: `mldsa`, `eddsa`, `xdsa`, `xhpke`, `rsa`, `internal/asn1ext` | the key | raw, DER, PEM and text forms of keys: `Marshal…`, `Parse…`, `Unmarshal…` | a key has one document; the same keys are accepted in every form |
| `hkdf`, `argon2` | none | calls into library primitives | input checks |

How they interact: `cose` encodes with `cbor`, signs with `xdsa` and encrypts
with `xhpke`; certificates are issued by `xdsa` signers over `xdsa` and `xhpke`
keys and travel as `pem`; `stream` stands alone and is the one package with
mutable state that lives across calls, callbacks (the `io.Reader`, `io.Writer`
and `io.ReaderAt` underneath) and concurrency. That is why it is modelled first.

Where the behaviour is hard: the writer does not know that a chunk is the last
until `Close`, the reader not until it has read a byte too many; the underlying
reader or writer may fail at every byte; the process may die with half a stream
in the file; `ReadAt` is called from many goroutines over one cached chunk whose
memory is decrypted into in place; all sizes and counters have boundaries.
`PROJECT.json` lists each hazard at its line.

## The modules

| Module | Models | How it corresponds to the code |
| --- | --- | --- |
| `StreamChunk` | the vocabulary | A plaintext byte is its position in the message. A sealed chunk is a record of nonce and data that occupies `Len(data) + Overhead` cells; a cell remembers its chunk and its place in it. `Opens` is the AEAD's answer: the cells of one chunk, whole, in order, under its nonce. `CiphertextOf(len)` is the format; `IsStreamOf` says the same without recursion, chunk by chunk at its place, and is what the properties and proofs use. |
| `ChunkedEncryption` | what an encryptor promises | Accepts bytes, seals a full chunk only when the message goes on after it, seals the rest at the end, or fails. |
| `EncryptWriter` | `Write`, `Close`, `flushChunk` | `WriteCall`, `WriteFill` and `WriteFlush` are the loop of `Write`, cut where it calls the destination; the destination stores any part of a chunk when it fails. `Crash` kills the process between two steps. |
| `EncryptReader` | `Read`, `feedBuffer` | `Copy`/`CopyFails` is `io.CopyN` of a chunk and a byte, `SealLast` and `SealFull` are the two branches behind it. The buffer holds ciphertext cells and then plaintext bytes, as `bytes.Buffer` does. |
| `DecryptReader` | `Read`, `readChunk` | `ReadChunk` is `io.ReadFull` with its three outcomes and the trial of the two nonces; `Probe` is the look behind the last chunk. `quirks` says what the source may do beyond a plain file. |
| `MCDecryptReader` | instances | Files put together from the chunks of a message in every order, then truncated, extended, overwritten or with neighbouring cells swapped. TLC checks on every one of them that `IsCiphertext` and `CiphertextOf` agree (`CutAgrees`). |
| `StreamFile` | writer, file, reader | Two instances sharing the file: the reader may start while the writer is still writing, after it failed, or after it died. |
| `BigEndian` | `encoding/binary`, as nonces and headers use it | Numbers as bytes below a base, the most significant first; powers and sums are recursive functions. |
| `StreamNonce` | `incNonce`, `nonceForChunk`, `setLastChunkFlag` | Nonces as bytes, with the byte base and the widths as constants; pure operators, with `NumbersChunks` for what they promise. |
| `StreamSize` | `EncryptedChunkCount`, `PlaintextSize` | Integers wrap at `MaxInt64` and division truncates as Go's does. |
| `DecryptReaderAt` | `NewDecryptReaderAt`, `ReadAt` | Any number of callers. A step ends at each access to the cache, the source or a buffer; buffers are explicit, and a fresh one is any that nobody refers to. The file may be rewritten between two reads. The size the constructor is given is any int64; `NewPanics` is the `make` of a buffer of negative size that a wrapped chunk count leads to. A nonce is a number here; `Base`, `CtrBytes` and `IndexBytes` are those of the bytes it stands for, an instance of `StreamNonce`. |
| `MCDecryptReaderAt` | instances | A message of three chunks, its file with a chunk overwritten by another, and the file cut at a chunk boundary; every size. |
| `Certificates` | issuing and verifying a certificate | `Issues` and `New` are `IssueCertDER` with `x509ext.New`; `Verifies` and `mayIssue` are `VerifyCertDER` and `enforceIssuerChaining`, once for xDSA and once for xHPKE. A signature is the name of the key that made it, a distinguished name is what it prints as. |
| `CertChain` | a relying party | One action per verifying call; the `Verified` value of a call is the issuer of the next. The library keeps no chain: the variable `chain` is what the calls have accepted so far. |
| `MCCertChain` | instances | Everything the library issues from a range of templates, and variations of it that other software could have made. |
| `Cose` | `cose`, with `xdsa` and `xhpke` as far as it uses them | All calls are pure operators. A signature is a record of key and message, a composite one has two; a ciphertext is a record of all that went into it; the CBOR encoding of a value is the value. `Nothing` is the encoding of an empty `cbor.Raw` (no bytes), `Null` the payload of a detached signature. The drift is computed in two's complement. |
| `CoseExchange` | signers, encrypters and recipients | One action per call that makes or opens a message; verifying changes nothing and is in the properties. Whatever was sent can be taken apart and put together anew (`Sign1s`, `Encrypt0s`). `SignElsewhere` is other software that uses the same keys under other headers; `WeakKeys` are halves of keys under which anybody can sign. `signed` and `encrypted` record the calls. |
| `MCCoseExchange` | an instance | Times as clocks show them, the first and the last. |
| `CborHeader` | headers, numbers and byte strings | Bytes are numbers below a base, a decoder is the data and a position in it, and what decodes yields the set of its one result. The base, the numbers a header holds itself and the widths behind it are constants. |
| `CborItem` | skipping an item, `Verify` | Skipping and verifying are one walk with a flag, as the code has it twice with the same cases. The walk is a recursive function of the depth left, its loops are recursive functions of the items still to come. The depth and the bytes that occur in no text are constants. |
| `Cbor` | `Marshal`, `Unmarshal` | A Go type is a record of its kind and of what it is made of, so the switches over `reflect.Kind` are switches over kinds. Narrow integers keep the low bits of what they are set to. |
| `MCCbor` | a receiver | `Receive` lets anything arrive byte by byte, `Send` what a value is marshalled to. |
| `Pem` | `pem`, `base64ext` | A text is a sequence of symbols; a byte has 4 bits and a base64 character 3, so three bytes are four characters as in the code. `Decode` follows the code line by line: header, type, footer of the same type, consistent line endings, canonical padding. |
| `Keys` | the forms of keys in `mldsa`, `eddsa`, `xdsa`, `xhpke`; `asn1ext` | Bytes are blocks with a size and an origin, DER is a tree of tagged items; `ParsePKCS8` and its like accept what cryptobyte does. Whether parts of a key fit together is told by what they were derived from. What the forms promise of one key or document stands at the end, for the run and the proofs alike. |
| `KeysRSA` | raw forms and DER documents of `rsa` | Likewise, with the numbers of a key as blocks that remember the primes they were made from. |
| `MCKeys` | edited documents | Starts with everything that a key or blob is written as, then `Edit` puts in, takes out or exchanges pieces at any depth. |
| `FormatProofs`, `EncryptWriterProofs`, `EncryptReaderProofs`, `DecryptReaderProofs`, `DecryptReaderAtProofs`, `StreamFileProofs`, `CertChainProofs`, `CoseExchangeProofs` | theorems | See below. |

Operators marked `Mutant` are not part of the models. They are the plausible bugs
that each property has been seen to catch.

## What is checked

| Run | Question | Bounds |
| --- | --- | --- |
| `encrypt_writer` | However the message is cut into writes and whatever the destination does: is every byte in its place (`NothingLost`), is the panic of `flushChunk` unreachable (`NeverPanics`), does the destination hold whole chunks in order and a beginning of the one whose write failed (`DstIsPrefix`), is no counter used twice (`NonceUnique`), is the abstract encryptor implemented (`ImplementsAbstract`)? | chunks of 3 bytes, messages of up to 10 in writes of up to 7: a write can end inside, at and behind a boundary and span three chunks, and the last chunk can be empty, partial or full |
| `encrypt_reader` | Does only ciphertext leave, with every over-read byte kept for the next chunk (`OnlyCiphertextLeaves`); is the abstract encryptor implemented; does reading on deliver the whole ciphertext (`ReadsToTheEnd`)? | messages of 0 to 10 bytes, reads of up to 4, sources that fail after every byte |
| `decrypt_reader` | Does only the message come out (`OnlyMessageLeaves`), is EOF only reported for a complete file (`EOFMeansComplete`), does reading on end, with EOF if the file is intact (`ReadsToTheEnd`)? | up to 4 chunks of messages of up to 3 chunks in every order, with one more damage to the cells; sources that fail inside a chunk, also with `io.ErrUnexpectedEOF`, or return no byte and no error behind the last chunk |
| `decrypt_reader_data_with_eof` | *violated*: a source that returns its last byte together with `io.EOF` gets a trailing byte past the check | intact files and files with one byte too many |
| `stream_file` | Is what is read back what was written, does EOF mean the stream was closed, can a closed stream be read back? | messages of up to 5 bytes in chunks of 2 |
| `readerat` | Two callers: is no buffer shared while it is written (`NoRace`), is the cache always what it says (`CacheCoherent`), is only the message returned (`ReadsMessage`) with the results `io.ReaderAt` promises (`Contract`), does each turn of the loop advance (`Advances`), does an undamaged file always read (`IntactReads`), are only genuine sizes accepted (`OpenedIsGenuine`, `SizesInvert`), do counter and index number the chunks alike (`NoncesCount`)? | a message of 9 bytes in chunks of 4; offsets and lengths in a chunk, over one and two boundaries, at, to and behind the end; every value of an 8-bit integer, signed, as the size, so the sums that wrap are met (that `EncryptedSize` is the length of the ciphertext is the assumption `LengthsAgree`); four buffers, one more than two callers and the cache can hold; callers and buffers are symmetric. Nonces of 4 bytes of base 4, 3 of which the index fills, so that every carry and the end of the index and of the counter are met |
| `cert_chain` | Do calls that each see two certificates add up to a path in the sense of RFC 5280 (`IsPath`), and is whatever a verified authority issues within its rights verified (`IssuedVerifies`)? | two xDSA keys and one xHPKE key, two names, path lengths none, 0 and 1, three certificates in a row; times before, in, at the end of and after the validity, on and off a full second |
| `cert_chain_path_len` | *violated*: path lengths above zero limit the intermediates that follow | as above, with four certificates in a row, the fewest that break it |
| `cose_exchange` | Was everything that verifies signed with that key, domain, message to authenticate, payload and time (`VerifiedWasSigned`), was everything that opens signed and encrypted for the same two (`OpenedWasSealed`), is nothing accepted from outside the drift (`NotStale`), and does what was sealed open, through the key that `Recipient` names and the one that `Signer` names (`SealedOpens`)? | two halves of either kind, one of each weak, so four keys with no, one or two sound halves; two recipients, domains and messages; two messages sent, the fewest that have parts to exchange; signatures from the first and the last second of an integer of 3 bits, -4 and 3, verified at every other, and drifts of 2 and 3: every distance from -7 to 7 is met, so the drift in and out of range, its limits, its smallest value and every way to wrap. Recipients, domains and messages are symmetric |
| `cbor` | Does every value unmarshal from what it is marshalled to (`RoundTrips`), and from nothing else (`OneEncoding`)? Do `Verify`, skipping and decoding agree on what is one item (`VerifiedAlike`)? | bytes of 6 bits, 3 of them for the info, 4 numbers in the header itself and then widths of one and two bytes: the limits 3 and 4, 63 and 64, 2047 and 2048 (the largest int64) are met. 19 of the 64 bytes occur: each major type, each form, numbers on both sides of a limit. Every input of up to 5 bytes whose beginning is not refused, which has room for maps of two keys; 22 types with values at the limits; nesting of up to 3 |
| `cbor_null` | *violated*: a `Null` by itself unmarshals from what it is marshalled to | that one type and value |
| `keys` | Is whatever a key or blob is written as read back as the same (`RoundTrips`), does a key have one DER document but for parameters of the algorithm (`OneDocument`), do DER and raw forms accept the same keys, and DER none of which it calls bits unused (`SameKeys`), and is a PEM or base64 text accepted in one spelling only, up to line breaks (`OneText`)? | two seeds per scheme, composites of all pairs; two edits to every document or text, at any depth, from 8 pieces of DER or 5 symbols, with every number of unused bits for the bytes of a public key; one edit for rsa, where two primes, both orders and three broken keys are tried; base64 lines of 2 characters, bytes of 4 bits. Two edits are enough to exchange a piece and make up for its length, or to add a line and break it |

Chunk sizes of 2 and 3 and overheads of 1 and 2 stand for 65536 and 16: the code
only ever compares lengths with them, and the runs have lengths on both sides of
every comparison. Deadlock is not checked, because each of these systems may
stop: a stream is complete, a counter is exhausted, a reader has failed.

Fairness is assumed only where the code gives it. In `EncryptWriter` a `Write` that has
begun goes on while the process lives: nothing in its loop waits. In the readers the
source answers, and the caller keeps calling with room for a byte at least, as
`io.Copy` and `io.ReadAll` do. `StreamFile` takes over both. `DecryptReaderAt` has no
fairness; that its loop ends is the safety property `Advances`.

### What the code does otherwise than it says

`stream.go:96` promises to check for trailing data behind the last chunk.
The check is `r.src.Read(make([]byte, 1))`, and it looks at the error only
(line 100). An `io.Reader` may return its last byte together with `io.EOF`; the
byte is then dropped and the reader reports EOF for a file with a byte too many.
The plaintext returned is still the message.

`x509.go:47` says that a path length "limits how many intermediate CAs may follow",
and `VerifyCertDERWithIssuer` that it enforces path lengths. Only a path length of 0
does limit anything (`xdsa/cert.go:187`): a call sees two certificates, and 1 or more
is never compared. A CA of path length 1 may be followed by two more CAs, each
verified without an error; `cert_chain_path_len` shows it. `IsPath` says what the
calls do guarantee.

`cbor.go:458` says that `Null` "encodes/decodes as CBOR null (0xf6)". As a field it does.
By itself it is encoded, but `Unmarshal` passes a pointer, and `decodeValue` refuses a
null behind any pointer but one to an `Option` before it looks at the type
(`reflect.go:246`). A `Raw` by itself refuses a null in the same way, and so do
`cose.Verify` and `cose.Open` when that is the type of the payload.

Not disagreements with a document but worth knowing. `EncryptedChunkCount` accepts some
negative sizes (-1 has zero chunks, -65553 has -1), and the rounding of a size within a
chunk of the largest int64 wraps. `NewDecryptReaderAt` then asks the source for an offset
below zero, which it refuses, or `make` for a buffer of negative length, which panics
(`NewPanics`; -140000 is such a size). No wrong size opens (`OpenedIsGenuine`).

`asn1ext` speaks of "strict DER validation", but whatever follows the OID in the
AlgorithmIdentifier of a private key is skipped (`asn1ext.go:56`), and of a public key
not looked at: documents of one key that differ there are all accepted. `OneDocument`
says that this is the one liberty. The public documents of `rsa` are not encoded anew
and compared but left to the standard library. `pem.Encode` of no bytes at all is a text
that `Decode` refuses, while a header directly followed by its footer decodes to no bytes; a
carriage return inside a label is kept as part of it.

The drift of a signature, `now - header.Timestamp`, wraps when no int64 holds it
(`cose.go:375`), which takes times more than 2^63 - 1 seconds apart and so one before 1970.
`NotStale` says exactly what then passes: what lies within the drift of 2^64 seconds away.
A decoded integer too large for a field of less than 64 bits keeps its low bits
(`reflect.go:276`): `OneEncoding` says that this is the only way for a value to come from
anything but its own encoding. On a platform with an int of 32 bits `int(length)` wraps
likewise (`cbor.go:261`), which the model has and no run uses; that items end where they
should is proved for any int. A reader that returns no byte and no error when it is asked
for what follows the last chunk makes a complete file fail as one with trailing data
(`stream.go:100`); `io.Reader` discourages that, and `ReadsToTheEnd` leaves it out.
`Verify` accepts negative numbers below every int64, as a
test demands; only a `Raw` can hold them.

## What is proved

TLC checks one instance of each constant; the theorems hold for every chunk size,
overhead and message length, from the assumptions named in the modules that
declare the constants.

- `FormatProofs`: data by themselves. That of any numbers one is the least (`Least`) gives
  induction and definition by recursion (`Induction`, `Recursion`), with which what a
  recursive function computes can be said for every length: powers grow, and a number and
  its bytes determine each other (`NumberOfBytes`, `BytesOfNumber`). Five things rest on it.
  - Streams. A chunk put behind full
    ones extends the stream (`StreamAppend`), and full chunks in their places with a final
    one behind them are a ciphertext (`CiphertextFromChunks`), in which every chunk lies
    where its number says (`ChunkInPlace`) and opens under the nonce of that number
    (`SealedUnderOne`). Chunks with two numbers differ (`ChunksDiffer`). `IsCut` says which
    chunks have been sealed when so much of the message is known, and that it stays true is
    arithmetic (`CutGoesOn`).
  - Nonces: where a carry ends is the first byte from behind that is not full
    (`FirstHolding`, `CarryEnds`); `DecryptReaderAtProofs` uses it.
  - CBOR's headers, integers and strings, for any number of infos and growing widths: what
    the encoder writes is read back in any context (`HeaderReads`, `IntReads`, `BytesRead`)
    and is the only thing that is read so (`OneHeader`, `OneInt`, `OneBytes`). The second
    half needs that a number fits one width and no narrower one (`OneWidth`) and that the
    bytes of a number are its only ones. `KeysInOrder` says that map keys, compared by their
    encodings, are in a strict total order: encodings differ (`IntReads`), and two
    sequences that differ do so somewhere first (`Differ`).
  - CBOR's items, however long and nested. A walk that succeeds ends behind the item's first
    byte and within the data (`ItemEnds`). Where it ends is up to the item's own bytes: with
    any bytes behind it and any more depth it ends there too, and what `verifyObject`
    accepts `skipObject` passes by to the same place (`ItemStandsAlone`). So all that
    `Verify` accepts is one item (`VerifiedSkips`), and nothing that it accepts is a proper
    beginning of something else that it accepts (`VerifiedAlone`): a stream of verified
    items can be cut in one way only. The argument compares two walks, one over data and one
    over their prolongation, by induction on the depth left (`WalksAgree`) and in it on the
    items to come (`ItemsAgree`, `PairsAgree`). A verified map is read by header and payload
    of each key, a skipped one by items; `PairsAsItems` says that such a key is an item
    wherever depth is left.
  - Keys and their DER documents, for any blocks and any set of documents closed under
    taking an item's body (`AreDocuments`): what is accepted is what would be written but for
    parameters (`SecretDocuments`, `PublicDocuments`), what is written is read back
    (`SecretKeysReadBack`, `PublicKeysReadBack`), and DER takes for a public key what
    text and CBOR do, and nothing of which it calls bits unused (`FormsAgree`). For `eddsa`, where nobody counts the bytes of the
    document, it matters that a point is 32 of them. The hypotheses are what a reader of
    the model would take for granted: a byte is a byte, and 64 bytes read as a seed
    of `xdsa` come as the two blocks that `Split` separates.
- `EncryptWriterProofs`: no byte is lost (`NoByteLost`), the panic is unreachable
  (`FlushNeverPanics`), the writer implements the abstract encryptor
  (`WriterImplementsAbstract`) and never repeats a counter (`NoncesNeverRepeat`).
  The invariant is the conjunction of types, `NothingLost` and `NeverPanics`:
  `NothingLost` alone does not tell the flush that its chunk is full and that more
  follows. Failed chunks use a counter up too, which takes the extra invariant
  `Numbered`. What the destination holds is whole but for the chunk whose write failed
  (`DestinationIsPrefix`): `Delivered` adds that all chunks before the last are full.
  What is sealed is the format's cut of the message (`SealsCanonically`), which follows
  from the refinement: each step of the abstract encryptor keeps `IsCut`. So after a
  `Close` without an error the destination is the complete ciphertext
  (`ClosedIsCiphertext`).
- `EncryptReaderProofs`: the reader implements the same abstract encryptor
  (`ReaderImplementsAbstract`), so the two make the same ciphertext; behind the ready
  ciphertext lies exactly what was pulled and not sealed (`NoByteLost`), and only sealed
  chunks leave (`OnlyCiphertext`). The invariant has to know that an open stream holds
  one byte at most between calls, and at least one once a chunk is sealed: that byte is
  why the message goes on behind the chunk. `SealsCanonically` and `NoncesNeverRepeat`
  follow as for the writer. At the end stands the same of the abstract encryptor by
  itself (`CanonicalOutput`, `AnyNoncesDiffer`).
- `DecryptReaderProofs`: for any file whose cells come from chunks of messages, whichever
  they are, or from none, and for any source, only the message comes out
  (`ReturnsOnlyMessage`); behind sources that do not return a byte together with the EOF,
  EOF means that the file is the complete ciphertext of what was returned
  (`EOFOnlyComplete`). `AtBoundary` says that between chunks the reader has passed as
  many full ones as its counter says, each in its place, and `CompleteUpTo` that behind
  the last chunk nothing but the file's end is missing. The assumption about the source
  is needed: `decrypt_reader_data_with_eof` is the counterexample. The other way round, the
  complete ciphertext of a message behind a source that does not fail or return nothing is never refused
  (`IntactNeverRefused`): at a boundary of it lies the chunk that the counter asks for
  (`BoundaryInIntact`), which opens with the flag it has.
- `DecryptReaderAtProofs`: for any number of callers and buffers and any file whose
  cells come from the message's chunks or open under no nonce, no buffer is shared
  while it is written (`RaceFree`), the cache is what it says (`CacheCorrect`), an
  opened reader has the message's size (`OpenedCorrect`), only the message is returned
  (`ReadsOnlyMessage`), with the results `io.ReaderAt` promises (`KeepsContract`), and
  each turn of the loop advances (`AlwaysAdvances`). An undamaged file opens with its
  size, and the chunk a call is about lies whole at the offset the call computes and opens
  under the nonce it computes (`IntactAlwaysReads`). Of the sizes whose sum with a chunk
  is an `int64`, `EncryptedChunkCount` accepts those some message encrypts to and no
  others, and `PlaintextSize` gives that message's length back (`SizesAlwaysInvert`): it
  is arithmetic, from `SizeArithmetic` on. The bytes of nonces count what the model's
  numbers do, for every base and width (`AlwaysNoncesCount`): `incNonce` adds one to the
  number they spell, with every carry (`Increments`), panics only at the last
  (`WrapsAtLast`), `nonceForChunk` spells its index (`IndexSpelled`), and no two indices or
  flags are spelled alike (`SpelledInjective`). The invariant joins the others to
  `LocalsRight`, which says of each step of a call what its locals hold: cells read
  but not opened yet came from the file, a chunk about to be copied or published is
  the plaintext of its number. `NoRace` is what lets one call's step leave every other
  call's `LocalRight` alone (`Untouched`), so that the number of callers does not matter.
- `StreamFileProofs`: a writer and a reader of one file, which the reader may open at any
  time. What is read back is a beginning of what was written (`ReadsBackPrefix`), EOF means
  that the writer got to `Close` and that everything has come out (`EOFOnlyAfterClose`),
  and a reader that is healthy when the stream has been closed remains so
  (`ClosedStaysReadable`). Each part keeps the invariant of its own proofs, by `INSTANCE`
  of them. The reader's is about a file that does not change; the rest is what makes it
  last in one that grows: every cell is of a chunk that was sealed (`FromSealed`), the
  writer does nothing to the file once it has used the flag (`FlagKept` and
  `WriterStepKeeps`), and a reader that is behind a last chunk or at EOF is behind the
  writer's (`AllRead`, from `CompleteIsAll`), so that growth meets only readers between full
  chunks (`GrowthKeeps`).
- `CertChainProofs`: for any keys, names, path lengths and certificates that parse,
  the calls accept only paths (`VerifiedIsPath`), and what an authority issues
  verifies (`IssuedIsVerified`). The invariant adds to the types what each link
  checks (`Linked`), that an authority of path length zero is followed by one
  certificate at most (`ZeroEnds`; `mayIssue` says only that its child is no
  authority, the next call that a certificate that is none has no children), and
  that key usages fit roles (`UsageFits`).
- `CoseExchangeProofs`: for any keys, domains, messages and bounds, what verifies under a
  key with one sound half was signed (`VerifiedIsSigned`), what opens was sealed
  (`OpenedIsSealed`), nothing from outside the drift is accepted unless it wraps to within
  it (`NeverStale`), which no times from 1970 on do (`NearTimes`), and what was sealed opens
  within the drift (`SealedAlwaysOpens`), wrapped or not. `DriftIs` says what the comparison
  compares: how far apart the times are, or how far from 2^64 seconds. The
  invariant says that each half of a signature that is around was asked for (`Genuine`),
  by a call or by other software (`Asked`), and that each ciphertext is some call's
  (`MadeBy`). `AskedMeansSigned` is where the header counts: it is part of what is
  signed, so a signature of other software is over a header that `Verify` refuses.

Out of the prover's reach and left to TLC: liveness (`ReadsToTheEnd`,
`ClosedIsReadable`), and whatever is defined by RECURSIVE operators, which the prover's
backends do not take: `encodeValue` and `decodeValue` in `Cbor`, which recur over types,
`Begins` in `KeysRSA` and the edits in `MCKeys`. The texts of `Pem` are put together and
cut by sequence operators of the community modules (`FlattenSeq`, `FoldLeft`) of which no
theorem is known to the prover. So the invariants of the `cbor` and `keys` runs
(`RoundTrips`, `OneEncoding`, `VerifiedAlike`; `RoundTrips`, `OneDocument`, `SameKeys`,
`OneText`) have no theorem of their own. What they rest on has: headers, integers, strings,
order of keys and the walk over items for the former (`VerifiedSkips` is the half of
`VerifiedAlike` that is about skipping), and for the latter the operators that `MCKeys`
applies to each edited document (`SecretReadsBack`, `PublicReadsBack`,
`SecretHasOneDocument`, `PublicHasOneDocument`, `SameKey`), of every document; `rsa`, PEM
and base64 remain model-checked only.
`IntactNeverRefused` and `ClosedStaysReadable` are the safety in the two liveness
properties: no error comes in the way of the EOF that fairness then brings.

## Not modelled, and the plan

Keys: a stream has one, and a ciphertext of another key is a cell that belongs to
no chunk. Memory use and performance. In
`EncryptWriter` and `DecryptReader`, concurrent use: they are not meant for it. Of
certificates: PEM (the same calls behind what `Pem` models), serial numbers and key
identifiers, which no verification looks at, the encoding of names, and what the
standard library's parser refuses besides an extension that occurs twice. Of `cose`:
malformed encodings, which are refused before anything else, and signers that fail
(`signAt` drops the error and panics). Of `xdsa`: the failures of `SplitSign`. Of the keys:
the comparison of PEM labels, the text forms of signatures and fingerprints, the
signatures of `rsa`, and the arithmetic of primes, for which what a block was made of
stands; `rsa.Marshal` is taken to meet primes of 128 bytes each, as generated and parsed
keys have them. Of `cbor`: struct tags that are wrong, custom `Marshaler`s, an `Option`
of an `Option` or a `Null`, whose null within is taken for None (both are written alike,
`reflect.go:156` and `reflect.go:163`), a pointer by itself, which `Marshal` follows and `Unmarshal` takes for the
variable to fill, pointers to pointers, which
error is reported, and what UTF-8 is beyond bytes that occur in no text.

What could come next:

1. `Marshal` and `Unmarshal` as recursive functions over types, and a proof of one encoding
   for nested values, from the theorems about headers, strings, keys and items.
2. `SplitSign` with signers that fail, and `signAt` over them.

`hkdf` and `argon2` are single calls into library primitives and have no control of
their own; they stay out.
