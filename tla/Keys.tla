-------------------------------- MODULE Keys --------------------------------
(***************************************************************************)
(* The keys of packages mldsa, eddsa, xdsa and xhpke: the bytes and        *)
(* the DER documents they are written as, and what asn1ext and the         *)
(* packages accept of such.  Bytes are a sequence of blocks, such as a     *)
(* seed, of which only the size, the kind and what they were made of       *)
(* matter, and of DER items, which have a tag and bytes of their own.      *)
(***************************************************************************)
EXTENDS Integers, SequencesExt

(* Blocks and items alike know their size. *)
Size(bytes) ==
    LET size[k \in 0..Len(bytes)] == IF k = 0 THEN 0 ELSE size[k - 1] + bytes[k].size
    IN  size[Len(bytes)]

Block(size, kind, n)   == [size |-> size, kind |-> kind, n |-> n]
Derived(size, kind, x) == [size |-> size, kind |-> kind, of |-> x]
Byte(n)                == Block(1, "byte", n)

(* A tag and a length come before the body. *)
Item(tag, body) ==
    LET n == Size(body)
    IN  [tag |-> tag, body |-> body,
         size |-> n + IF n < 128 THEN 2 ELSE IF n < 256 THEN 3 ELSE 4]

Refused == [ok |-> FALSE]
-----------------------------------------------------------------------------
(* cryptobyte: an item of this tag comes next. *)
Reads(bytes, tag) ==
    bytes # <<>> /\ "tag" \in DOMAIN bytes[1] /\ bytes[1].tag = tag

Inner(bytes) == bytes[1].body

(* It comes next, and nothing after it. *)
ReadsOnly(bytes, tag) == Reads(bytes, tag) /\ Len(bytes) = 1

OID(alg) == Item("OID", <<Block(8, alg, 0)>>)

ReadsOID(bytes, alg) ==
    Reads(bytes, "SEQUENCE") /\ Reads(Inner(bytes), "OID") /\ Inner(bytes)[1] = OID(alg)

(* asn1ext.ParsePKCS8PrivateKey, and that the algorithm is alg: what       *)
(* follows the OID in its SEQUENCE is skipped, or left where it is.        *)
ParsePKCS8Trailing(der, alg) ==         \* Mutant: a public key may follow
    LET inner == Inner(der)
    IN  IF /\ ReadsOnly(der, "SEQUENCE")
           /\ Reads(inner, "INTEGER") /\ Inner(inner) = <<Byte(0)>>
           /\ ReadsOID(Tail(inner), alg)
           /\ Reads(Tail(Tail(inner)), "OCTETS")
           THEN [ok |-> TRUE, privateKey |-> inner[3].body]
           ELSE Refused

ParsePKCS8(der, alg) ==
    LET inner == Inner(der)
    IN  IF /\ ReadsOnly(der, "SEQUENCE")
           /\ Reads(inner, "INTEGER") /\ Inner(inner) = <<Byte(0)>>
           /\ ReadsOID(Tail(inner), alg)
           /\ ReadsOnly(Tail(Tail(inner)), "OCTETS")
           THEN [ok |-> TRUE, privateKey |-> inner[3].body]
           ELSE Refused

PKCS8(alg, privateKey) ==
    <<Item("SEQUENCE", <<Item("INTEGER", <<Byte(0)>>),
                         Item("SEQUENCE", <<OID(alg)>>),
                         Item("OCTETS", privateKey)>>)>>

(* asn1ext.ParseSubjectPublicKeyInfo.  The number of unused bits is a byte *)
(* and not compared with anything.  Where that byte is missing, the key's  *)
(* first byte stands in for it and the key is one short.                   *)
ParseSPKI(der, alg) ==
    LET inner == Inner(der)
        bits  == inner[2].body
    IN  IF /\ ReadsOnly(der, "SEQUENCE")
           /\ ReadsOID(inner, alg)
           /\ ReadsOnly(Tail(inner), "BITS")
           /\ bits # <<>> /\ "tag" \notin DOMAIN bits[1] /\ bits[1].kind = "byte"
           THEN [ok |-> TRUE, bytes |-> Tail(bits),
                 bitLength |-> 8 * Size(Tail(bits)) - bits[1].n]
           ELSE Refused

SPKIUnused(alg, publicKey, unused) ==
    <<Item("SEQUENCE", <<Item("SEQUENCE", <<OID(alg)>>),
                         Item("BITS", <<Byte(unused)>> \o publicKey)>>)>>

SPKI(alg, publicKey) == SPKIUnused(alg, publicKey, 0)
-----------------------------------------------------------------------------
(* The libraries' keys.  A secret key is expanded from its seed, a public  *)
(* key made from it; not every 32 bytes are a point of the curve, nor      *)
(* every 1216 an X-Wing key.                                               *)
Expanded(seed)  == <<Derived(4032, "expanded", seed)>>
MLPublic(seed)  == <<Derived(1952, "mldsa", seed)>>
EdPublic(seed)  == <<Derived(32, "point", seed)>>
KEMPublic(seed) == <<Derived(1216, "xwing", seed)>>

IsBlock(bytes, kind) ==
    Len(bytes) = 1 /\ "kind" \in DOMAIN bytes[1] /\ bytes[1].kind = kind

(* A secret key is its seed; that of xdsa is the seeds of an ML-DSA key    *)
(* and an Ed25519 key, each of which is a key of its own.                  *)
SecretKey(alg, seed) == [alg |-> alg, seed |-> seed]

Split(key) ==
    [ml |-> SecretKey("mldsa", <<key.seed[1]>>), ed |-> SecretKey("eddsa", <<key.seed[2]>>)]

ComposeSecretKeySwapped(ml, ed) == SecretKey("xdsa", ed.seed \o ml.seed)  \* Mutant

ComposeSecretKey(ml, ed) == SecretKey("xdsa", ml.seed \o ed.seed)

mldsaPublicKey(key) == MLPublic(key.seed)
eddsaPublicKey(key) == EdPublic(key.seed)
xdsaPublicKey(key)  == mldsaPublicKey(Split(key).ml) \o eddsaPublicKey(Split(key).ed)
xhpkePublicKey(key) == KEMPublic(key.seed)

Schemes == {"mldsa", "eddsa", "xdsa", "xhpke"}

PublicKey(key) ==
    CASE key.alg = "mldsa" -> mldsaPublicKey(key) [] key.alg = "eddsa" -> eddsaPublicKey(key)
      [] key.alg = "xdsa"  -> xdsaPublicKey(key)  [] key.alg = "xhpke" -> xhpkePublicKey(key)
-----------------------------------------------------------------------------
(* What each package writes a secret key as ... *)
mldsaMarshalDER(key) ==
    PKCS8("mldsa", <<Item("SEQUENCE", <<Item("OCTETS", key.seed),
                                        Item("OCTETS", Expanded(key.seed))>>)>>)

eddsaMarshalDER(key) == PKCS8("eddsa", <<Item("OCTETS", key.seed)>>)

xdsaMarshalDER(key) ==
    PKCS8("xdsa", Split(key).ml.seed \o Split(key).ed.seed)

xhpkeMarshalDER(key) == PKCS8("xhpke", key.seed)

MarshalSecretDER(key) ==
    CASE key.alg = "mldsa" -> mldsaMarshalDER(key) [] key.alg = "eddsa" -> eddsaMarshalDER(key)
      [] key.alg = "xdsa"  -> xdsaMarshalDER(key)  [] key.alg = "xhpke" -> xhpkeMarshalDER(key)

(* ... and what it reads: either the bytes of the right number are a seed, *)
(* or they have one in them, beside what that expands to for mldsa.        *)
Seed(alg, bytes, size) ==
    IF Size(bytes) = size THEN [ok |-> TRUE, key |-> SecretKey(alg, bytes)] ELSE Refused

mldsaSeedUnchecked(bytes) ==            \* Mutant: expanded from another
    LET inner == Inner(bytes)
    IN  IF /\ ReadsOnly(bytes, "SEQUENCE") /\ Reads(inner, "OCTETS")
           /\ ReadsOnly(Tail(inner), "OCTETS") /\ Size(Inner(Tail(inner))) = 4032
           THEN Seed("mldsa", Inner(inner), 32) ELSE Refused

mldsaSeed(bytes) ==
    LET inner == Inner(bytes)
    IN  IF /\ ReadsOnly(bytes, "SEQUENCE") /\ Reads(inner, "OCTETS")
           /\ ReadsOnly(Tail(inner), "OCTETS") /\ Size(Inner(Tail(inner))) = 4032
           /\ Inner(Tail(inner)) = Expanded(Inner(inner))
           THEN Seed("mldsa", Inner(inner), 32) ELSE Refused

mldsaParseSecretKeyDER(der) ==
    LET info == ParsePKCS8(der, "mldsa")
    IN  IF info.ok THEN mldsaSeed(info.privateKey) ELSE Refused

eddsaParseSecretKeyDER(der) ==
    LET info == ParsePKCS8(der, "eddsa")
    IN  IF info.ok /\ ReadsOnly(info.privateKey, "OCTETS")
           THEN Seed("eddsa", Inner(info.privateKey), 32) ELSE Refused

xdsaParseSecretKeyDER(der) ==
    LET info == ParsePKCS8(der, "xdsa")
    IN  IF info.ok THEN Seed("xdsa", info.privateKey, 64) ELSE Refused

xhpkeParseSecretKeyDER(der) ==
    LET info == ParsePKCS8(der, "xhpke")
    IN  IF info.ok THEN Seed("xhpke", info.privateKey, 32) ELSE Refused

ParseSecretDER(alg, der) ==
    CASE alg = "mldsa" -> mldsaParseSecretKeyDER(der) [] alg = "eddsa" -> eddsaParseSecretKeyDER(der)
      [] alg = "xdsa"  -> xdsaParseSecretKeyDER(der)  [] alg = "xhpke" -> xhpkeParseSecretKeyDER(der)
-----------------------------------------------------------------------------
(* ParsePublicKey accepts these bytes, of the right number. *)
mldsaParsePublicKey(bytes) == TRUE
eddsaParsePublicKey(bytes) == IsBlock(bytes, "point")
xdsaParsePublicKey(bytes)  == eddsaParsePublicKey(<<Last(bytes)>>)
xhpkeParsePublicKey(bytes) == IsBlock(bytes, "xwing")

(* What UnmarshalText does with the bytes that base64ext has decoded, and  *)
(* UnmarshalCBOR with those that DecodeBytesFixed has found.               *)
mldsaUnmarshal(bytes) == Size(bytes) = 1952 /\ mldsaParsePublicKey(bytes)

eddsaUnmarshal(bytes) == Size(bytes) = 32 /\ eddsaParsePublicKey(bytes)
xdsaUnmarshal(bytes)  == Size(bytes) = 1984 /\ xdsaParsePublicKey(bytes)
xhpkeUnmarshal(bytes) == Size(bytes) = 1216 /\ xhpkeParsePublicKey(bytes)

UnmarshalPublicKey(alg, bytes) ==
    CASE alg = "mldsa" -> mldsaUnmarshal(bytes) [] alg = "eddsa" -> eddsaUnmarshal(bytes)
      [] alg = "xdsa"  -> xdsaUnmarshal(bytes)  [] alg = "xhpke" -> xhpkeUnmarshal(bytes)

MarshalPublicDER(alg, publicKey) == SPKI(alg, publicKey)

mldsaParsePublicKeyDER(info) ==
    Size(info.bytes) = 1952 /\ info.bitLength = 8 * 1952 /\ mldsaParsePublicKey(info.bytes)

eddsaParsePublicKeyDERCut(info) ==      \* Mutant: the first 32 bytes are the key
    info.bitLength = 8 * 32 /\ eddsaParsePublicKey(SubSeq(info.bytes, 1, 1))

(* Without a look at the number of bytes. *)
eddsaParsePublicKeyDER(info) ==
    info.bitLength = 8 * 32 /\ eddsaParsePublicKey(info.bytes)

xdsaParsePublicKeyDERUnaligned(info) == \* Mutant: unused bits are allowed
    Size(info.bytes) = 1984 /\ xdsaParsePublicKey(info.bytes)

xdsaParsePublicKeyDER(info) ==
    Size(info.bytes) = 1984 /\ info.bitLength = 8 * 1984 /\ xdsaParsePublicKey(info.bytes)

xhpkeParsePublicKeyDER(info) ==
    Size(info.bytes) = 1216 /\ info.bitLength = 8 * 1216 /\ xhpkeParsePublicKey(info.bytes)

ParsePublicDER(alg, der) ==
    LET info == ParseSPKI(der, alg)
    IN  IF info.ok /\ CASE alg = "mldsa" -> mldsaParsePublicKeyDER(info)
                         [] alg = "eddsa" -> eddsaParsePublicKeyDER(info)
                         [] alg = "xdsa"  -> xdsaParsePublicKeyDER(info)
                         [] alg = "xhpke" -> xhpkeParsePublicKeyDER(info)
           THEN [ok |-> TRUE, key |-> info.bytes]
           ELSE Refused
-----------------------------------------------------------------------------
(* What the forms of a key promise, whatever they are made of. *)

(* A key is read back from its document, and composed of its parts. *)
SecretReadsBack(key) ==
    /\ ParseSecretDER(key.alg, MarshalSecretDER(key)) = [ok |-> TRUE, key |-> key]
    /\ key.alg = "xdsa" => ComposeSecretKey(Split(key).ml, Split(key).ed) = key

PublicReadsBack(alg, publicKey) ==
    ParsePublicDER(alg, MarshalPublicDER(alg, publicKey)) = [ok |-> TRUE, key |-> publicKey]

(* Without what follows the OID in the algorithm, the i-th item. *)
WithoutParameters(der, i) ==
    LET inner == Inner(der)
    IN  <<Item(der[1].tag, [inner EXCEPT ![i] = Item(@.tag, <<@.body[1]>>)])>>

(* A document that is accepted is the one of the key that was read. *)
SecretHasOneDocument(alg, der) ==
    LET secret == ParseSecretDER(alg, der)
    IN  secret.ok => WithoutParameters(der, 2) = MarshalSecretDER(secret.key)

PublicHasOneDocument(alg, der) ==
    LET public == ParsePublicDER(alg, der)
    IN  public.ok => WithoutParameters(der, 1) = MarshalPublicDER(alg, public.key)

(* Bytes are a key by themselves and in a document, or in neither; and a   *)
(* document that says that some of their bits are unused is no key's.      *)
SameKey(alg, bytes) ==
    \A unused \in 0..255 :
        ParsePublicDER(alg, SPKIUnused(alg, bytes, unused)).ok
            <=> unused = 0 /\ UnmarshalPublicKey(alg, bytes)
=============================================================================
