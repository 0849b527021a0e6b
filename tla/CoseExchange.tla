---------------------------- MODULE CoseExchange ----------------------------
(***************************************************************************)
(* Parties that sign, seal, decrypt and pass messages on with package      *)
(* cose.  Whatever was ever sent can be received any number of times, by   *)
(* anybody and put together anew from its parts.  Some software that is    *)
(* not this package signs with the same keys, under headers of its own.    *)
(***************************************************************************)
EXTENDS Cose

CONSTANTS
    WeakKeys,       \* halves of keys that no longer keep others from signing
    Times,          \* the timestamps, and some of the times of verification
    Drifts,         \* the drifts a verifier may allow
    MaxMessages     \* bound: messages sent

ASSUME WeakKeysAssumption == WeakKeys \subseteq MLKeys \cup EdKeys
ASSUME TimesAssumption == Times \subseteq int64
ASSUME DriftsAssumption == Drifts \subseteq Nat

VARIABLES
    sign1s,         \* the COSE_Sign1s that were sent or decrypted
    encrypt0s,      \* the COSE_Encrypt0s that were sent
    signed,         \* the calls of Sign, SignDetached and Seal
    encrypted       \* the calls of Encrypt and Seal

vars == <<sign1s, encrypt0s, signed, encrypted>>

Payloads == Messages \cup {Nothing, Null}

Signed == [payload : Payloads, auth : Messages, signer : XDSAKeys,
           domain : Domains, timestamp : Times]

(* Headers of other software: another algorithm, or without the critical   *)
(* timestamp.                                                              *)
ForeignHeaders(s) ==
    LET own == sigProtectedHeader(s.signer, s.timestamp)
    IN  {[own EXCEPT !.alg = "other"], [own EXCEPT !.crit = "other"]}

(* What can be put together from parts of what was sent. *)
Sign1s ==
    {[protected |-> a.protected, payload |-> p,
      signature |-> [ml |-> b.signature.ml, ed |-> c.signature.ed]] :
        a \in sign1s, b \in sign1s, c \in sign1s, p \in Payloads}

Encrypt0s ==
    {[protected |-> a.protected, encapKey |-> b.encapKey, ciphertext |-> c.ciphertext] :
        a \in encrypt0s, b \in encrypt0s, c \in encrypt0s}

(* For a key both of whose halves are weak nobody can vouch.               *)
StrongKeys == {key \in XDSAKeys : key.ml \notin WeakKeys \/ key.ed \notin WeakKeys}

MLSignatures(mlKey, message) ==
    {m.signature.ml : m \in sign1s}
    \cup {MLSignature(k, message) : k \in {mlKey} \cap WeakKeys}

EdSignatures(edKey, message) ==
    {m.signature.ed : m \in sign1s}
    \cup {EdSignature(k, message) : k \in {edKey} \cap WeakKeys}

Init ==
    /\ sign1s = {} /\ encrypt0s = {}
    /\ signed = {} /\ encrypted = {}

HasRoom == Cardinality(sign1s) + Cardinality(encrypt0s) < MaxMessages

SignCall(s) == signAt(s.payload, s.auth, s.signer, s.domain, s.timestamp)

(* Sign, and SignDetached where the payload is Null. *)
Sign(s) ==
    /\ HasRoom
    /\ sign1s' = sign1s \cup {SignCall(s)}
    /\ signed' = signed \cup {s}
    /\ UNCHANGED <<encrypt0s, encrypted>>

SignElsewhere(s, header) ==
    /\ HasRoom
    /\ sign1s' = sign1s \cup
          {[protected |-> header, payload |-> s.payload,
            signature |-> XDSASign(s.signer,
                             sigStructure(header, s.domain, s.auth, s.payload))]}
    /\ UNCHANGED <<encrypt0s, signed, encrypted>>

EncryptTo(sign1, auth, recipient, domain) ==
    /\ encrypt0s' = encrypt0s \cup
          {Encrypt(sign1, auth, recipient, domain, Cardinality(encrypt0s) + 1)}
    /\ encrypted' = encrypted \cup
          {[sign1 |-> sign1, auth |-> auth, recipient |-> recipient, domain |-> domain]}

(* Encrypt by whoever has a COSE_Sign1, the signer or not. *)
EncryptSign1(sign1, auth, recipient, domain) ==
    /\ HasRoom
    /\ EncryptTo(sign1, auth, recipient, domain)
    /\ UNCHANGED <<sign1s, signed>>

(* Only the recipient gets to see the COSE_Sign1 inside. *)
Seal(s, recipient) ==
    /\ HasRoom
    /\ s.payload # Null
    /\ EncryptTo(SignCall(s), s.auth, recipient, s.domain)
    /\ signed' = signed \cup {s}
    /\ UNCHANGED sign1s

DecryptEncrypt0(encrypt0, auth, recipient, domain) ==
    /\ Decrypts(encrypt0, auth, recipient, domain)
    /\ sign1s' = sign1s \cup {Decrypt(encrypt0)}
    /\ UNCHANGED <<encrypt0s, signed, encrypted>>

Next ==
    \/ \E s \in Signed :
          \/ Sign(s)
          \/ \E header \in ForeignHeaders(s) : SignElsewhere(s, header)
          \/ \E recipient \in XHPKEKeys : Seal(s, recipient)
    \/ \E auth \in Messages, recipient \in XHPKEKeys, domain \in Domains :
          \/ \E sign1 \in Sign1s : EncryptSign1(sign1, auth, recipient, domain)
          \/ \E encrypt0 \in Encrypt0s : DecryptEncrypt0(encrypt0, auth, recipient, domain)

Spec == Init /\ [][Next]_vars
-----------------------------------------------------------------------------
TypeOK ==
    /\ signed \subseteq Signed
    /\ \A m \in sign1s : m.payload \in Payloads
    /\ \A m \in encrypt0s : m.ciphertext.key \in XHPKEKeys
    /\ \A e \in encrypted : e.recipient \in XHPKEKeys

(* What verifies was signed with this package: under that key, of which    *)
(* one half may be weak, for that domain and message to authenticate, with *)
(* that payload and at that time.  Only one thing does not tell: a         *)
(* detached signature could have been made of an empty cbor.Raw with Sign, *)
(* whose payload is as empty as the one a null payload is signed as.       *)
VerifiedWasSigned ==
    \A protected \in {m.protected : m \in sign1s}, payload \in Payloads,
       key \in StrongKeys, domain \in Domains, auth \in Messages,
       now \in Times, maxDrift \in Drifts \cup {AnyDrift} :
        LET message == sigStructure(protected, domain, auth, payload)
            call(p) == [payload |-> p, auth |-> auth, signer |-> key,
                        domain |-> domain, timestamp |-> protected.timestamp]
        IN  \A ml \in MLSignatures(key.ml, message), ed \in EdSignatures(key.ed, message) :
                LET m == [protected |-> protected, payload |-> payload,
                          signature |-> [ml |-> ml, ed |-> ed]]
                IN  /\ VerifyAt(m, auth, key, domain, maxDrift, now) =>
                          call(payload) \in signed
                    /\ VerifyDetachedAt(m, auth, key, domain, maxDrift, now) =>
                          call(Null) \in signed \/ call(Nothing) \in signed

(* What Open returns was signed by the sender for that domain and message  *)
(* to authenticate and encrypted, by anyone who had it, to the recipient   *)
(* for the same two.                                                       *)
OpenedWasSealed ==
    \A m \in Encrypt0s, recipient \in XHPKEKeys, key \in XDSAKeys,
       domain \in Domains, auth \in Messages, now \in Times :
        OpenAt(m, auth, recipient, key, domain, AnyDrift, now) =>
            LET sign1 == Decrypt(m)
            IN  /\ [payload |-> sign1.payload, auth |-> auth, signer |-> key,
                    domain |-> domain, timestamp |-> sign1.protected.timestamp] \in signed
                /\ [sign1 |-> sign1, auth |-> auth, recipient |-> recipient,
                    domain |-> domain] \in encrypted

(* A verifier that allows a drift accepts no signature from further in the *)
(* past or the future, as long as an int64 can say how far it is.  Beyond  *)
(* that the subtraction has wrapped, and only what lies within the drift   *)
(* of 2^64 seconds away passes.                                            *)
NotStale ==
    \A m \in sign1s, key \in XDSAKeys, domain \in Domains, auth \in Messages,
       now \in int64, maxDrift \in Drifts :
        VerifyAt(m, auth, key, domain, maxDrift, now)
        \/ VerifyDetachedAt(m, auth, key, domain, maxDrift, now)
        => LET distance == now - m.protected.timestamp
               around   == 2 * (MaxInt64 + 1) - maxDrift
           IN  IF distance \in int64
                  THEN distance \in -maxDrift..maxDrift
                  ELSE distance >= around \/ -distance >= around

(* The way in that the package describes: Recipient names the key that     *)
(* decrypts, Signer the one that verifies, and what was sealed is what     *)
(* comes out, for whoever knows the domain and the message to authenticate,*)
(* at any time within the drift.  Of an empty cbor.Raw nothing comes out.  *)
SealedOpens ==
    /\ \A e \in encrypted : \E m \in encrypt0s :
          /\ Recipient(m) = Fingerprint(e.recipient)
          /\ Decrypts(m, e.auth, e.recipient, e.domain)
          /\ Decrypt(m) = e.sign1
    /\ \A m \in sign1s \cup {e.sign1 : e \in encrypted}, s \in signed :
          SignCall(s) = m =>
              /\ Signer(m) = Fingerprint(s.signer)
              /\ \A now \in int64, maxDrift \in Drifts :
                    now - s.timestamp \in -maxDrift..maxDrift =>
                        CASE s.payload = Null ->
                                VerifyDetachedAt(m, s.auth, s.signer, s.domain, maxDrift, now)
                          [] s.payload \in Messages ->
                                /\ VerifyAt(m, s.auth, s.signer, s.domain, maxDrift, now)
                                /\ Peeks(m) /\ Peek(m) = s.payload
                          [] s.payload = Nothing ->
                                ~VerifyAt(m, s.auth, s.signer, s.domain, maxDrift, now)
=============================================================================
