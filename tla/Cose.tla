-------------------------------- MODULE Cose --------------------------------
(***************************************************************************)
(* Package cose, with what it uses of xdsa and xhpke: signing, verifying,  *)
(* encrypting and decrypting.  All are pure.  Cryptography is symbolic: a  *)
(* signature is a record of the key and of what was signed, a ciphertext   *)
(* one of all that went into it.  CBOR is too: what is encoded is the      *)
(* record itself, as one value has one encoding.                           *)
(***************************************************************************)
EXTENDS Integers, FiniteSets

CONSTANTS
    MLKeys,         \* ML-DSA keys
    EdKeys,         \* Ed25519 keys
    XHPKEKeys,      \* encryption keys
    Domains,        \* domains of an application
    Messages,       \* encoded messages ...
    Nothing,        \* ... the encoding of an empty cbor.Raw, no bytes at all
    Null,           \* ... and no payload, not even an empty one
    MaxInt64        \* the largest int64, 2^63 - 1 in the code

ASSUME NothingAssumption == Nothing \notin Messages
ASSUME NullAssumption == Null \notin Messages \cup {Nothing}
ASSUME MaxInt64Assumption == MaxInt64 \in Nat

int64 == (-MaxInt64 - 1)..MaxInt64

(* The value an int64 operation leaves of a result x. *)
Int64(x) ==
    IF x \in int64
       THEN x
       ELSE ((x + MaxInt64 + 1) % (2 * (MaxInt64 + 1))) - (MaxInt64 + 1)

Uint64(x) == IF x < 0 THEN x + 2 * (MaxInt64 + 1) ELSE x
-----------------------------------------------------------------------------
(* xDSA: two signatures under the two halves of a key.  Any two halves     *)
(* make a key.                                                             *)

XDSAKeys == [ml : MLKeys, ed : EdKeys]

Fingerprint(key) == <<"SHA256", key>>

signatureDomain == "COMPSIG-MLDSA65-Ed25519-SHA512"

cmldsaMessagePrime(message) == <<signatureDomain, message>>

MLSignature(mlKey, message) ==
    [key |-> mlKey, ctx |-> signatureDomain, over |-> cmldsaMessagePrime(message)]

EdSignature(edKey, message) ==
    [key |-> edKey, over |-> cmldsaMessagePrime(message)]

XDSASign(key, message) ==
    [ml |-> MLSignature(key.ml, message), ed |-> EdSignature(key.ed, message)]

XDSAVerifyEither(key, message, sig) ==  \* Mutant: half a signature will do
    sig.ml = MLSignature(key.ml, message) \/ sig.ed = EdSignature(key.ed, message)

XDSAVerify(key, message, sig) ==
    /\ sig.ml = MLSignature(key.ml, message)
    /\ sig.ed = EdSignature(key.ed, message)
-----------------------------------------------------------------------------
(* COSE_Sign1. *)

algorithmXDSA   == "xDSA"
HeaderTimestamp == "timestamp"

sigProtectedHeader(key, timestamp) ==
    [alg |-> algorithmXDSA, crit |-> HeaderTimestamp,
     kid |-> Fingerprint(key), timestamp |-> timestamp]

(* A null payload is signed as an empty one. *)
sigStructure(protected, domain, auth, payload) ==
    [protected |-> protected, aad |-> <<domain, auth>>,
     payload |-> IF payload = Null THEN Nothing ELSE payload]

(* signAt, and with the payload Null signDetachedAt. *)
signAt(payload, auth, signer, domain, timestamp) ==
    LET protected == sigProtectedHeader(signer, timestamp)
    IN  [protected |-> protected, payload |-> payload,
         signature |-> XDSASign(signer, sigStructure(protected, domain, auth, payload))]

verifySigProtectedHeader(header, verifier) ==
    /\ header.alg = algorithmXDSA
    /\ header.crit = HeaderTimestamp
    /\ header.kid = Fingerprint(verifier)

AnyDrift == -1      \* the nil maxDrift

driftPastOnly(timestamp, now) == Int64(now - timestamp)   \* Mutant: the sign is kept

drift(timestamp, now) ==
    LET diff == Int64(now - timestamp) IN IF diff < 0 THEN Int64(-diff) ELSE diff

withinDriftSigned(timestamp, maxDrift, now) ==  \* Mutant: compared as int64
    maxDrift # AnyDrift => Int64(now - timestamp) <= maxDrift

withinDrift(timestamp, maxDrift, now) ==
    maxDrift # AnyDrift => Uint64(drift(timestamp, now)) <= maxDrift

(* What verify and verifyDetached have in common. *)
verifySign1(sign1, auth, verifier, domain, maxDrift, now) ==
    /\ verifySigProtectedHeader(sign1.protected, verifier)
    /\ withinDrift(sign1.protected.timestamp, maxDrift, now)
    /\ XDSAVerify(verifier,
                  sigStructure(sign1.protected, domain, auth, sign1.payload),
                  sign1.signature)

VerifyDetachedAt(sign1, auth, verifier, domain, maxDrift, now) ==
    /\ sign1.payload = Null
    /\ verifySign1(sign1, auth, verifier, domain, maxDrift, now)

(* No bytes at all decode to nothing. *)
VerifyAt(sign1, auth, verifier, domain, maxDrift, now) ==
    /\ sign1.payload # Null
    /\ verifySign1(sign1, auth, verifier, domain, maxDrift, now)
    /\ sign1.payload # Nothing

Signer(sign1) == sign1.protected.kid

Peeks(sign1) == sign1.payload \notin {Null, Nothing}
Peek(sign1)  == sign1.payload
-----------------------------------------------------------------------------
(* COSE_Encrypt0.  An encapsulated key is the number of the Encrypt that   *)
(* made it, or one that is none.                                           *)

algorithmXHPKE == "xHPKE"

encProtectedHeader(key) == [alg |-> algorithmXHPKE, kid |-> Fingerprint(key)]

encStructureNoAuth(protected, auth) ==  \* Mutant: the message to authenticate is left out
    [protected |-> protected]

encStructure(protected, auth) == [protected |-> protected, aad |-> auth]

XHPKESeal(key, encapKey, plain, aad, info) ==
    [key |-> key, encapKey |-> encapKey, plain |-> plain, aad |-> aad, info |-> info]

Encrypt(sign1, auth, recipient, domain, encapKey) ==
    LET protected == encProtectedHeader(recipient)
    IN  [protected |-> protected, encapKey |-> encapKey,
         ciphertext |-> XHPKESeal(recipient, encapKey, sign1,
                                  encStructure(protected, auth), domain)]

verifyEncProtectedHeader(header, recipient) ==
    header.alg = algorithmXHPKE /\ header.kid = Fingerprint(recipient)

XHPKEOpens(key, encapKey, ciphertext, aad, info) ==
    /\ ciphertext.key = key /\ ciphertext.encapKey = encapKey
    /\ ciphertext.aad = aad /\ ciphertext.info = info

Decrypts(encrypt0, auth, recipient, domain) ==
    /\ verifyEncProtectedHeader(encrypt0.protected, recipient)
    /\ XHPKEOpens(recipient, encrypt0.encapKey, encrypt0.ciphertext,
                  encStructure(encrypt0.protected, auth), domain)

Decrypt(encrypt0) == encrypt0.ciphertext.plain

OpenAt(encrypt0, auth, recipient, sender, domain, maxDrift, now) ==
    /\ Decrypts(encrypt0, auth, recipient, domain)
    /\ VerifyAt(Decrypt(encrypt0), auth, sender, domain, maxDrift, now)

Recipient(encrypt0) == encrypt0.protected.kid
=============================================================================
