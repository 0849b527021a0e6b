------------------------------- MODULE MCKeys -------------------------------
(***************************************************************************)
(* Every document and text that a key is written as, and what a few edits  *)
(* make of it: what the parsers accept is what the key would have been     *)
(* written as, but for two liberties named below.                          *)
(***************************************************************************)
EXTENDS KeysRSA

CONSTANT MaxEdits       \* how many a document or text may get; one of rsa gets one

VARIABLES doc,          \* a form, what it was written from, and its bytes or symbols
          left          \* edits it may still get

vars == <<doc, left>>

Edits(form) == IF form = "rsa" THEN 1 ELSE MaxEdits

P == INSTANCE Pem WITH LineLength <- 2

Seeds == {Block(32, "seed", 1), Block(32, "seed", 2)}

Secrets ==
    {SecretKey(alg, <<s>>) : alg \in Schemes \ {"xdsa"}, s \in Seeds}
    \cup {SecretKey("xdsa", <<s, t>>) : s, t \in Seeds}

(* Of rsa, also keys that are refused: too short, another exponent, a      *)
(* wrong d.                                                                *)
RSAKeys ==
    LET p == Block(128, "prime", 2)
        q == Block(128, "prime", 3)
    IN  {RSASecretKey(p, q, exponent), RSASecretKey(q, p, exponent),
         RSASecretKey(p, Block(128, "short", 3), exponent),
         RSASecretKey(p, q, Block(8, "exponent", 3)),
         <<p, q, Block(256, "d", 1), exponent>>}

Blobs == {<<>>, <<1>>, <<15, 0>>, <<3, 7, 11, 12>>}

Blocks == [kind : {<<P!Letter>>}, blob : {<<>>, <<1>>, <<15, 0>>}]
          \cup [kind : {<<P!Dash, P!Dash>>, <<P!CR, P!Dash, P!CR>>}, blob : {<<1>>}]

(* As Encode writes a text and as other programs do: with CR LF, or        *)
(* without the last line ending.                                           *)
WithCRLF(text) ==
    P!FlattenSeq([i \in DOMAIN text |->
        IF text[i] = P!LF THEN <<P!CR, P!LF>> ELSE <<text[i]>>])

Styles(text) == {text, Front(text), WithCRLF(text)}

(* of: what the body was written from. *)
Document(form, of, body) == [form |-> form, of |-> of, body |-> body]

Init ==
    /\ doc \in {Document("secret", k, MarshalSecretDER(k)) : k \in Secrets}
          \cup {Document("public", k, MarshalPublicDER(k.alg, PublicKey(k))) : k \in Secrets}
          \cup {Document("rsa", k, MarshalRSASecretDER(k)) : k \in RSAKeys}
          \cup {Document("raw", k, PublicKey(k)) : k \in Secrets}
          \cup UNION {{Document("pem", b, text) : text \in Styles(P!Encode(b.kind, b.blob))} : b \in Blocks}
          \cup {Document("base64", b, P!EncodeToString(b)) : b \in Blobs}
    /\ left = Edits(doc.form)
-----------------------------------------------------------------------------
(* One edit: something put in, taken out or exchanged, in the list or in   *)
(* any item of it. *)
Edited(list, pieces) ==
    {InsertAt(list, i, x) : i \in 1..Len(list) + 1, x \in pieces}
    \cup {RemoveAt(list, i) : i \in DOMAIN list}
    \cup {ReplaceAt(list, i, x) : i \in DOMAIN list, x \in pieces}

RECURSIVE EditedInside(_, _)

EditedInside(bytes, pieces) ==
    Edited(bytes, pieces)
    \cup UNION {{[bytes EXCEPT ![i] = Item(@.tag, b)] : b \in EditedInside(bytes[i].body, pieces)} :
                i \in {j \in DOMAIN bytes : "tag" \in DOMAIN bytes[j]}}

Symbols == {5, P!Padding, P!Dash, P!LF, P!CR}

Pieces ==
    {Byte(0), Byte(8), Block(32, "junk", 0), Block(32, "seed", 2),
     Item("NULL", <<>>), Item("OCTETS", <<Block(32, "seed", 2)>>), OID("eddsa"), OID("xhpke")}

Edit ==
    /\ left > 0
    /\ \E body \in IF doc.form \in {"pem", "base64"} THEN Edited(doc.body, Symbols)
                   ELSE EditedInside(doc.body, Pieces) :
           doc' = Document(doc.form, "edited", body)
    /\ left' = left - 1

Next == Edit

Spec == Init /\ [][Next]_vars
-----------------------------------------------------------------------------
original == left = Edits(doc.form)

(* Whatever a key or a blob is written as is read back as that key or      *)
(* blob; the parts of a composite key compose to it (the Marshal and Parse *)
(* functions of all packages, pem.Encode and Decode).  An empty blob is    *)
(* left out: Decode refuses what Encode makes of it.                       *)
RoundTrips ==
    /\ original /\ doc.form = "secret" => SecretReadsBack(doc.of)
    /\ original /\ doc.form = "public" => PublicReadsBack(doc.of.alg, PublicKey(doc.of))
    /\ original /\ doc.form = "rsa" /\ ParseRSASecretKey(doc.of) =>
          ParseRSASecretDER(doc.body, doc.of)
    /\ original /\ doc.form = "pem" /\ doc.of.blob # <<>> =>
          P!Decode(doc.body) = [ok |-> TRUE, kind |-> doc.of.kind, blob |-> doc.of.blob]
    /\ original /\ doc.form = "base64" =>
          P!DecodeText(doc.body) = [ok |-> TRUE, blob |-> doc.of]

(* A key has one DER document: what any package accepts is what it would   *)
(* write for the key it read (asn1ext: "strict DER validation via          *)
(* cryptobyte"), except that anything may follow the OID in the            *)
(* AlgorithmIdentifier.  Documents of rsa keys, for which not even that is *)
(* left to the package, hold no key that its raw form is refused for.      *)
OneDocument ==
    /\ doc.form = "rsa" =>
        \A key \in RSAKeys : ParseRSASecretDER(doc.body, key) =>
            ParseRSASecretKey(key) /\ doc.body = MarshalRSASecretDER(key)
    /\ doc.form \in {"secret", "public"} =>
        \A alg \in Schemes :
            SecretHasOneDocument(alg, doc.body) /\ PublicHasOneDocument(alg, doc.body)

(* Bytes that come as text or CBOR are a public key exactly when those in  *)
(* a DER document are, though eddsa looks at other things there: a byte    *)
(* too many is none less for eight bits being called unused.               *)
SameKeys ==
    doc.form = "raw" => \A alg \in Schemes : SameKey(alg, doc.body)

(* Two texts that differ in more than how lines are broken are never the   *)
(* same PEM block, every line ends like the first (pem.go: "line endings   *)
(* must be consistent"), and text without PEM around it is exactly what    *)
(* the bytes are written as.                                               *)
OneText ==
    LET block == P!Decode(doc.body)
        bytes == P!DecodeText(doc.body)
    IN  /\ doc.form = "pem" /\ block.ok =>
              /\ P!Without(doc.body, {P!CR, P!LF})
                   = P!Without(P!Encode(block.kind, block.blob), {P!CR, P!LF})
              /\ \A i \in DOMAIN doc.body : doc.body[i] = P!LF =>
                     (doc.body[i - 1] = P!CR <=> P!lineEnding(doc.body) = <<P!CR, P!LF>>)
        /\ doc.form = "base64" /\ bytes.ok => doc.body = P!EncodeToString(bytes.blob)
=============================================================================
