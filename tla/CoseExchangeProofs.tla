-------------------------- MODULE CoseExchangeProofs --------------------------
(***************************************************************************)
(* For any keys, domains, messages and times: what verifies was signed,    *)
(* what opens was sealed, and, of the times that clocks show, no signature *)
(* is accepted from further away than the verifier allows.                 *)
(***************************************************************************)
EXTENDS CoseExchange, TLAPS

(* What a signature was asked for: by this package, or by other software   *)
(* under a header that this package refuses.                               *)
Asked(message) ==
    \/ \E s \in signed :
          message = sigStructure(sigProtectedHeader(s.signer, s.timestamp),
                                 s.domain, s.auth, s.payload)
    \/ \E s \in Signed : \E header \in ForeignHeaders(s) :
          message = sigStructure(header, s.domain, s.auth, s.payload)

Genuine(m) ==
    /\ Asked(m.signature.ml.over[2])
    /\ Asked(m.signature.ed.over[2])
    /\ m.protected.timestamp \in Times
    /\ m.payload \in Payloads

(* m is what that call of Encrypt made.                                    *)
MadeBy(m, e) ==
    m = Encrypt(e.sign1, e.auth, e.recipient, e.domain, m.encapKey)

(* The inductive invariant: signatures are only ever copied, whole, and    *)
(* ciphertexts too.                                                        *)
Inv ==
    /\ signed \subseteq Signed
    /\ \A m \in sign1s : Genuine(m)
    /\ \A e \in encrypted :
          /\ Genuine(e.sign1)
          /\ e.recipient \in XHPKEKeys
          /\ e = [sign1 |-> e.sign1, auth |-> e.auth, recipient |-> e.recipient,
                  domain |-> e.domain]
          /\ \E m \in encrypt0s : MadeBy(m, e)
    /\ \A m \in encrypt0s : \E e \in encrypted : MadeBy(m, e)

-----------------------------------------------------------------------------
(* Signatures.                                                             *)

(* A call of Sign makes a genuine COSE_Sign1 once it is noted in signed.   *)
LEMMA SignGenuine ==
    ASSUME NEW s \in Signed, s \in signed'
    PROVE  Genuine(SignCall(s))'
<1> DEFINE message == sigStructure(sigProtectedHeader(s.signer, s.timestamp),
                                   s.domain, s.auth, s.payload)
           m == SignCall(s)
<1>1. m.signature.ml.over[2] = message /\ m.signature.ed.over[2] = message
  BY DEF SignCall, signAt, XDSASign, MLSignature, EdSignature, cmldsaMessagePrime
<1>2. Asked(message)'
  BY DEF Asked
<1>3. s.timestamp \in Times /\ s.payload \in Payloads
  BY DEF Signed
<1>4. m.protected.timestamp = s.timestamp /\ m.payload = s.payload
  BY DEF SignCall, signAt, sigProtectedHeader
<1> HIDE DEF message, m
<1>5. Genuine(m)'
  BY <1>1, <1>2, <1>3, <1>4 DEF Genuine
<1> QED BY <1>5 DEF m

(* More calls of Sign take nothing from what is genuine.                   *)
LEMMA GenuineStays ==
    ASSUME NEW m, Genuine(m), signed \subseteq signed'
    PROVE  Genuine(m)'
BY DEF Genuine, Asked

(* What a good header's signature was asked for, Sign was called for.      *)
LEMMA AskedMeansSigned ==
    ASSUME Inv, NEW protected, NEW domain, NEW auth, NEW payload \in Payloads,
           NEW key \in XDSAKeys,
           Asked(sigStructure(protected, domain, auth, payload)),
           verifySigProtectedHeader(protected, key)
    PROVE  \E s \in signed :
              /\ s = [payload |-> s.payload, auth |-> auth, signer |-> key,
                      domain |-> domain, timestamp |-> protected.timestamp]
              /\ (s.payload = payload \/ {s.payload, payload} = {Null, Nothing})
<1> DEFINE message == sigStructure(protected, domain, auth, payload)
           bytes(p) == IF p = Null THEN Nothing ELSE p
<1>1. /\ message.protected = protected /\ message.aad = <<domain, auth>>
      /\ message.payload = bytes(payload)
  BY DEF sigStructure
<1>2. ASSUME NEW s \in Signed, NEW header \in ForeignHeaders(s),
             message = sigStructure(header, s.domain, s.auth, s.payload)
      PROVE  FALSE
  <2>1. protected = header
    BY <1>1, <1>2 DEF sigStructure
  <2>2. header.alg = "other" \/ header.crit = "other"
    BY DEF ForeignHeaders, sigProtectedHeader
  <2> QED BY <2>1, <2>2 DEF verifySigProtectedHeader, algorithmXDSA, HeaderTimestamp
<1>3. PICK s \in signed :
          message = sigStructure(sigProtectedHeader(s.signer, s.timestamp),
                                 s.domain, s.auth, s.payload)
  BY <1>2 DEF Asked
<1>4. protected = sigProtectedHeader(s.signer, s.timestamp)
  BY <1>1, <1>3 DEF sigStructure
<1>5. s.signer = key /\ s.timestamp = protected.timestamp
  BY <1>4 DEF verifySigProtectedHeader, sigProtectedHeader, Fingerprint
<1>6. <<domain, auth>> = <<s.domain, s.auth>> /\ bytes(payload) = bytes(s.payload)
  BY <1>1, <1>3 DEF sigStructure
<1>7. s.domain = domain /\ s.auth = auth
  BY <1>6
<1>8. s \in Signed
  BY DEF Inv
<1>9. s = [payload |-> s.payload, auth |-> auth, signer |-> key,
           domain |-> domain, timestamp |-> protected.timestamp]
  BY <1>5, <1>7, <1>8 DEF Signed
<1>10. s.payload = payload \/ {s.payload, payload} = {Null, Nothing}
  BY <1>6
<1> QED BY <1>9, <1>10

-----------------------------------------------------------------------------
(* The invariant.                                                          *)

LEMMA InitInv == Init => Inv
BY DEF Init, Inv

(* What Encrypt adds keeps the invariant, of a genuine COSE_Sign1.         *)
LEMMA EncryptInv ==
    ASSUME Inv, NEW sign1, NEW auth, NEW recipient \in XHPKEKeys, NEW domain,
           EncryptTo(sign1, auth, recipient, domain), Genuine(sign1)',
           signed \subseteq signed', signed' \subseteq Signed, sign1s' = sign1s
    PROVE  Inv'
<1> DEFINE e0 == [sign1 |-> sign1, auth |-> auth, recipient |-> recipient,
                  domain |-> domain]
           m0 == Encrypt(sign1, auth, recipient, domain, Cardinality(encrypt0s) + 1)
<1>1. encrypted' = encrypted \cup {e0} /\ encrypt0s' = encrypt0s \cup {m0}
  BY DEF EncryptTo
<1>2. MadeBy(m0, e0)
  BY DEF MadeBy, Encrypt
<1>3. /\ e0.sign1 = sign1 /\ e0.recipient = recipient
      /\ e0 = [sign1 |-> e0.sign1, auth |-> e0.auth, recipient |-> e0.recipient,
               domain |-> e0.domain]
  OBVIOUS
<1> HIDE DEF e0, m0
<1>4. \A m \in sign1s' : Genuine(m)'
  BY GenuineStays DEF Inv
<1>5. ASSUME NEW e \in encrypted'
      PROVE  /\ Genuine(e.sign1)'
             /\ e.recipient \in XHPKEKeys
             /\ e = [sign1 |-> e.sign1, auth |-> e.auth, recipient |-> e.recipient,
                     domain |-> e.domain]
             /\ \E m \in encrypt0s' : MadeBy(m, e)
  <2>1. CASE e \in encrypted
    <3>1. Genuine(e.sign1)'
      BY <2>1, GenuineStays DEF Inv
    <3> QED BY <2>1, <3>1, <1>1 DEF Inv
  <2>2. CASE e = e0
    BY <2>2, <1>1, <1>2, <1>3
  <2> QED BY <1>1, <2>1, <2>2
<1>6. \A m \in encrypt0s' : \E e \in encrypted' : MadeBy(m, e)
  BY <1>1, <1>2 DEF Inv
<1> QED BY <1>4, <1>5, <1>6 DEF Inv, MadeBy

LEMMA SignInv ==
    ASSUME Inv, NEW s \in Signed, Sign(s)
    PROVE  Inv'
<1>1. sign1s' = sign1s \cup {SignCall(s)} /\ signed' = signed \cup {s}
  BY DEF Sign
<1>2. signed' \subseteq Signed
  BY <1>1 DEF Inv
<1>3. UNCHANGED <<encrypt0s, encrypted>>
  BY DEF Sign
<1>4. Genuine(SignCall(s))'
  BY <1>1, SignGenuine
<1>5. \A m \in sign1s' : Genuine(m)'
  BY <1>1, <1>4, GenuineStays DEF Inv
<1>6. \A e \in encrypted : Genuine(e.sign1)'
  BY <1>1, GenuineStays DEF Inv
<1> QED BY <1>2, <1>3, <1>5, <1>6 DEF Inv, MadeBy

LEMMA SignElsewhereInv ==
    ASSUME Inv, NEW s \in Signed, NEW header \in ForeignHeaders(s),
           SignElsewhere(s, header)
    PROVE  Inv'
<1> DEFINE message == sigStructure(header, s.domain, s.auth, s.payload)
           m0 == [protected |-> header, payload |-> s.payload,
                  signature |-> XDSASign(s.signer, message)]
<1>1. /\ sign1s' = sign1s \cup {m0}
      /\ UNCHANGED <<signed, encrypt0s, encrypted>>
  BY DEF SignElsewhere
<1>2. m0.signature.ml.over[2] = message /\ m0.signature.ed.over[2] = message
  BY DEF XDSASign, MLSignature, EdSignature, cmldsaMessagePrime
<1>3. Asked(message)
  BY DEF Asked
<1>4. m0.protected.timestamp \in Times /\ m0.payload \in Payloads
  BY DEF ForeignHeaders, sigProtectedHeader, Signed
<1> HIDE DEF m0, message
<1>5. Genuine(m0)
  BY <1>2, <1>3, <1>4 DEF Genuine
<1>6. \A m : Genuine(m) => Genuine(m)'
  BY <1>1, GenuineStays
<1>7. \A m \in sign1s' : Genuine(m)'
  BY <1>1, <1>5, <1>6 DEF Inv
<1>8. \A e \in encrypted : Genuine(e.sign1)'
  BY <1>6 DEF Inv
<1> QED BY <1>1, <1>7, <1>8 DEF Inv, MadeBy

(* Halves of genuine signatures are genuine whatever they are put together *)
(* with.                                                                   *)
LEMMA Sign1sGenuine ==
    ASSUME Inv, NEW m \in Sign1s
    PROVE  Genuine(m)
<1>1. PICK a \in sign1s, b \in sign1s, c \in sign1s, p \in Payloads :
          m = [protected |-> a.protected, payload |-> p,
               signature |-> [ml |-> b.signature.ml, ed |-> c.signature.ed]]
  BY DEF Sign1s
<1>2. Genuine(a) /\ Genuine(b) /\ Genuine(c)
  BY DEF Inv
<1> QED BY <1>1, <1>2 DEF Genuine

(* What decrypts is what was encrypted to that recipient, for that domain  *)
(* and message to authenticate.                                            *)
LEMMA DecryptedMeansEncrypted ==
    ASSUME Inv, NEW m \in Encrypt0s, NEW auth, NEW recipient, NEW domain,
           Decrypts(m, auth, recipient, domain)
    PROVE  [sign1 |-> Decrypt(m), auth |-> auth, recipient |-> recipient,
            domain |-> domain] \in encrypted
<1>1. PICK c \in encrypt0s : m.ciphertext = c.ciphertext
  BY DEF Encrypt0s
<1>2. PICK e \in encrypted : MadeBy(c, e)
  BY DEF Inv
<1>3. c.ciphertext =
        [key |-> e.recipient, encapKey |-> c.encapKey, plain |-> e.sign1,
         aad |-> encStructure(encProtectedHeader(e.recipient), e.auth),
         info |-> e.domain]
  BY <1>2 DEF MadeBy, Encrypt, XHPKESeal
<1>4. /\ m.ciphertext.key = recipient /\ m.ciphertext.info = domain
      /\ m.ciphertext.aad = encStructure(m.protected, auth)
  BY DEF Decrypts, XHPKEOpens
<1>5. e.recipient = recipient /\ e.domain = domain /\ Decrypt(m) = e.sign1
  BY <1>1, <1>3, <1>4 DEF Decrypt
<1>6. e.auth = auth
  BY <1>1, <1>3, <1>4 DEF encStructure
<1>7. e = [sign1 |-> e.sign1, auth |-> e.auth, recipient |-> e.recipient,
           domain |-> e.domain]
  BY DEF Inv
<1> QED BY <1>5, <1>6, <1>7

LEMMA DecryptInv ==
    ASSUME Inv, NEW m \in Encrypt0s, NEW auth, NEW recipient, NEW domain,
           DecryptEncrypt0(m, auth, recipient, domain)
    PROVE  Inv'
<1>1. /\ sign1s' = sign1s \cup {Decrypt(m)}
      /\ UNCHANGED <<signed, encrypt0s, encrypted>>
      /\ Decrypts(m, auth, recipient, domain)
  BY DEF DecryptEncrypt0
<1>2. Genuine(Decrypt(m))
  <2> DEFINE e == [sign1 |-> Decrypt(m), auth |-> auth, recipient |-> recipient,
                   domain |-> domain]
  <2>1. e \in encrypted
    BY <1>1, DecryptedMeansEncrypted
  <2>2. e.sign1 = Decrypt(m)
    OBVIOUS
  <2> HIDE DEF e
  <2> QED BY <2>1, <2>2 DEF Inv
<1>3. \A x : Genuine(x) => Genuine(x)'
  BY <1>1, GenuineStays
<1> QED BY <1>1, <1>2, <1>3 DEF Inv, MadeBy

LEMMA NextInv == Inv /\ [Next]_vars => Inv'
<1> SUFFICES ASSUME Inv, [Next]_vars PROVE Inv'
  OBVIOUS
<1>1. ASSUME NEW s \in Signed, Sign(s) PROVE Inv'
  BY <1>1, SignInv
<1>2. ASSUME NEW s \in Signed, NEW header \in ForeignHeaders(s), SignElsewhere(s, header)
      PROVE  Inv'
  BY <1>2, SignElsewhereInv
<1>3. ASSUME NEW s \in Signed, NEW recipient \in XHPKEKeys, Seal(s, recipient)
      PROVE  Inv'
  <2>1. /\ EncryptTo(SignCall(s), s.auth, recipient, s.domain)
        /\ signed' = signed \cup {s} /\ sign1s' = sign1s
    BY <1>3 DEF Seal
  <2>2. signed' \subseteq Signed /\ s \in signed'
    BY <2>1 DEF Inv
  <2>3. Genuine(SignCall(s))'
    BY <2>2, SignGenuine
  <2> QED BY <2>1, <2>2, <2>3, EncryptInv
<1>4. ASSUME NEW auth \in Messages, NEW recipient \in XHPKEKeys, NEW domain \in Domains,
             NEW sign1 \in Sign1s, EncryptSign1(sign1, auth, recipient, domain)
      PROVE  Inv'
  <2>1. /\ EncryptTo(sign1, auth, recipient, domain)
        /\ signed' = signed /\ sign1s' = sign1s
    BY <1>4 DEF EncryptSign1
  <2>2. Genuine(sign1)'
    BY <2>1, Sign1sGenuine, GenuineStays
  <2>3. signed \subseteq signed' /\ signed' \subseteq Signed
    BY <2>1 DEF Inv
  <2> QED BY <2>1, <2>2, <2>3, EncryptInv
<1>5. ASSUME NEW auth \in Messages, NEW recipient \in XHPKEKeys, NEW domain \in Domains,
             NEW m \in Encrypt0s, DecryptEncrypt0(m, auth, recipient, domain)
      PROVE  Inv'
  BY <1>5, DecryptInv
<1>6. CASE UNCHANGED vars
  <2>1. \A x : Genuine(x) => Genuine(x)'
    BY <1>6, GenuineStays DEF vars
  <2> QED BY <1>6, <2>1 DEF vars, Inv, MadeBy
<1> QED BY <1>1, <1>2, <1>3, <1>4, <1>5, <1>6 DEF Next

LEMMA Invariance == Spec => []Inv
BY InitInv, NextInv, PTL DEF Spec

-----------------------------------------------------------------------------
(* What the invariant says of verifying and opening.                       *)

(* A signature under a strong key has a half that was asked for.           *)
LEMMA VerifiedMeansAsked ==
    ASSUME Inv, NEW message, NEW key \in StrongKeys,
           NEW ml \in MLSignatures(key.ml, message),
           NEW ed \in EdSignatures(key.ed, message),
           XDSAVerify(key, message, [ml |-> ml, ed |-> ed])
    PROVE  Asked(message)
<1>1. ml = MLSignature(key.ml, message) /\ ed = EdSignature(key.ed, message)
  BY DEF XDSAVerify
<1>2. ml.over[2] = message /\ ed.over[2] = message
  BY <1>1 DEF MLSignature, EdSignature, cmldsaMessagePrime
<1>3. CASE key.ml \notin WeakKeys
  <2>1. PICK m \in sign1s : ml = m.signature.ml
    BY <1>3 DEF MLSignatures
  <2> QED BY <2>1, <1>2 DEF Inv, Genuine
<1>4. CASE key.ed \notin WeakKeys
  <2>1. PICK m \in sign1s : ed = m.signature.ed
    BY <1>4 DEF EdSignatures
  <2> QED BY <2>1, <1>2 DEF Inv, Genuine
<1> QED BY <1>3, <1>4 DEF StrongKeys

LEMMA InvTypeOK == Inv => TypeOK
<1> SUFFICES ASSUME Inv PROVE TypeOK
  OBVIOUS
<1>1. ASSUME NEW m \in encrypt0s PROVE m.ciphertext.key \in XHPKEKeys
  <2>1. PICK e \in encrypted : MadeBy(m, e)
    BY DEF Inv
  <2>2. m.ciphertext.key = e.recipient
    BY <2>1 DEF MadeBy, Encrypt, XHPKESeal
  <2> QED BY <2>2 DEF Inv
<1> QED BY <1>1 DEF Inv, Genuine, TypeOK

LEMMA InvVerified == Inv => VerifiedWasSigned
<1> SUFFICES ASSUME Inv,
                    NEW protected \in {m.protected : m \in sign1s},
                    NEW payload \in Payloads, NEW key \in StrongKeys,
                    NEW domain \in Domains, NEW auth \in Messages,
                    NEW now \in Times, NEW maxDrift \in Drifts \cup {AnyDrift},
                    NEW ml \in MLSignatures(key.ml,
                                   sigStructure(protected, domain, auth, payload)),
                    NEW ed \in EdSignatures(key.ed,
                                   sigStructure(protected, domain, auth, payload))
             PROVE  LET m == [protected |-> protected, payload |-> payload,
                              signature |-> [ml |-> ml, ed |-> ed]]
                        call(p) == [payload |-> p, auth |-> auth, signer |-> key,
                                    domain |-> domain, timestamp |-> protected.timestamp]
                    IN  /\ VerifyAt(m, auth, key, domain, maxDrift, now) =>
                              call(payload) \in signed
                        /\ VerifyDetachedAt(m, auth, key, domain, maxDrift, now) =>
                              call(Null) \in signed \/ call(Nothing) \in signed
  BY Zenon DEF VerifiedWasSigned
<1> DEFINE message == sigStructure(protected, domain, auth, payload)
           call(p) == [payload |-> p, auth |-> auth, signer |-> key,
                       domain |-> domain, timestamp |-> protected.timestamp]
           m == [protected |-> protected, payload |-> payload,
                 signature |-> [ml |-> ml, ed |-> ed]]
<1>1. ASSUME verifySign1(m, auth, key, domain, maxDrift, now)
      PROVE  \/ call(payload) \in signed
             \/ payload = Null /\ call(Nothing) \in signed
             \/ payload = Nothing
  <2>1. /\ verifySigProtectedHeader(protected, key)
        /\ XDSAVerify(key, message, [ml |-> ml, ed |-> ed])
    BY <1>1 DEF verifySign1
  <2>2. Asked(message)
    BY <2>1, VerifiedMeansAsked
  <2>3. PICK s \in signed :
            /\ s = [payload |-> s.payload, auth |-> auth, signer |-> key,
                    domain |-> domain, timestamp |-> protected.timestamp]
            /\ (s.payload = payload \/ {s.payload, payload} = {Null, Nothing})
    BY <2>1, <2>2, AskedMeansSigned DEF StrongKeys
  <2>4. \/ s.payload = payload
        \/ payload = Null /\ s.payload = Nothing
        \/ payload = Nothing
    BY <2>3
  <2> QED BY <2>3, <2>4
<1>2. ASSUME VerifyAt(m, auth, key, domain, maxDrift, now)
      PROVE  call(payload) \in signed
  <2>1. payload \notin {Null, Nothing} /\ verifySign1(m, auth, key, domain, maxDrift, now)
    BY <1>2 DEF VerifyAt
  <2> QED BY <2>1, <1>1
<1>3. ASSUME VerifyDetachedAt(m, auth, key, domain, maxDrift, now)
      PROVE  call(Null) \in signed \/ call(Nothing) \in signed
  <2>1. payload = Null /\ verifySign1(m, auth, key, domain, maxDrift, now)
    BY <1>3 DEF VerifyDetachedAt
  <2>2. Null # Nothing
    BY NullAssumption
  <2> QED BY <2>1, <2>2, <1>1
<1> QED BY <1>2, <1>3

LEMMA InvOpened == Inv => OpenedWasSealed
<1> SUFFICES ASSUME Inv, NEW m \in Encrypt0s, NEW recipient \in XHPKEKeys,
                    NEW key \in XDSAKeys, NEW domain \in Domains,
                    NEW auth \in Messages, NEW now \in Times,
                    OpenAt(m, auth, recipient, key, domain, AnyDrift, now)
             PROVE  LET sign1 == Decrypt(m)
                    IN  /\ [payload |-> sign1.payload, auth |-> auth, signer |-> key,
                            domain |-> domain,
                            timestamp |-> sign1.protected.timestamp] \in signed
                        /\ [sign1 |-> sign1, auth |-> auth, recipient |-> recipient,
                            domain |-> domain] \in encrypted
  BY DEF OpenedWasSealed
<1> DEFINE sign1 == Decrypt(m)
           e == [sign1 |-> sign1, auth |-> auth, recipient |-> recipient,
                 domain |-> domain]
           message == sigStructure(sign1.protected, domain, auth, sign1.payload)
<1>1. /\ Decrypts(m, auth, recipient, domain)
      /\ sign1.payload # Null /\ sign1.payload # Nothing
      /\ verifySigProtectedHeader(sign1.protected, key)
      /\ XDSAVerify(key, message, sign1.signature)
  BY DEF OpenAt, VerifyAt, verifySign1
<1>2. e \in encrypted
  BY <1>1, DecryptedMeansEncrypted
<1>3. e.sign1 = sign1
  OBVIOUS
<1> HIDE DEF e, sign1
<1>4. Genuine(sign1)
  BY <1>2, <1>3 DEF Inv
<1>5. sign1.signature.ml.over[2] = message
  BY <1>1 DEF XDSAVerify, MLSignature, cmldsaMessagePrime
<1>6. Asked(message) /\ sign1.payload \in Payloads
  BY <1>4, <1>5 DEF Genuine
<1>7. PICK s \in signed :
          /\ s = [payload |-> s.payload, auth |-> auth, signer |-> key,
                  domain |-> domain, timestamp |-> sign1.protected.timestamp]
          /\ (s.payload = sign1.payload \/ {s.payload, sign1.payload} = {Null, Nothing})
  BY <1>1, <1>6, AskedMeansSigned
<1>8. s.payload = sign1.payload
  BY <1>1, <1>7
<1> QED BY <1>2, <1>7, <1>8 DEF e, sign1

(* What is out of an int64 by less than its span comes round once.         *)
LEMMA Wraps ==
    ASSUME NEW x \in Int, x \notin int64,
           x <= 2 * MaxInt64 + 1, -x <= 2 * MaxInt64 + 1
    PROVE  Int64(x) = IF x < 0 THEN x + 2 * (MaxInt64 + 1) ELSE x - 2 * (MaxInt64 + 1)
<1> DEFINE w == 2 * (MaxInt64 + 1)
           y == x + MaxInt64 + 1
           z == IF x < 0 THEN y + w ELSE y - w
<1>1. MaxInt64 \in Nat /\ w \in Nat \ {0} /\ y \in Int
  BY MaxInt64Assumption
<1>2. Int64(x) = (y % w) - (MaxInt64 + 1)
  BY DEF Int64
<1>3. z \in 0..w - 1
  BY <1>1 DEF int64
<1>4. y % w = z
  <2>1. \A a \in 0..w - 1, q \in Int : (a + q * w) % w = a
    <3> HIDE DEF w
    <3> TAKE a \in 0..w - 1, q \in Int
    <3> DEFINE b == a + q * w
    <3>1. /\ b % w \in 0..w - 1 /\ b \div w \in Int
          /\ b = w * (b \div w) + (b % w)
      BY <1>1, SMT
    <3>2. (b % w) - a = (q - (b \div w)) * w
      BY <1>1, <3>1
    <3>3. (b % w) - a \in -(w - 1)..w - 1
      BY <1>1, <3>1
    <3>4. \A k \in Int : k * w \in -(w - 1)..w - 1 => k = 0
      <4> TAKE k \in Int
      <4>1. k >= 1 => k * w >= w
        BY <1>1
      <4>2. k <= -1 => k * w <= -w
        BY <1>1
      <4> QED
        BY <1>1, <4>1, <4>2
    <3>5. q - (b \div w) \in Int
      BY <3>1
    <3>6. q - (b \div w) = 0
      BY <3>2, <3>3, <3>4, <3>5
    <3> QED
      BY <1>1, <3>1, <3>2, <3>6
  <2>2. \E q \in Int : y = z + q * w
    <3>1. y = z + (IF x < 0 THEN -1 ELSE 1) * w
      BY <1>1
    <3> QED
      BY <3>1
  <2> HIDE DEF w, y, z
  <2> QED
    BY <1>3, <2>1, <2>2
<1> QED
  BY <1>1, <1>2, <1>4

(* What the drift is, as it is compared: how far two times are apart, or,  *)
(* where no int64 holds that, how far from once around.                    *)
LEMMA DriftIs ==
    ASSUME NEW timestamp \in int64, NEW now \in int64
    PROVE  LET distance == now - timestamp
               far      == IF distance < 0 THEN -distance ELSE distance
           IN  /\ distance \in Int /\ far <= 2 * MaxInt64 + 1
               /\ Uint64(drift(timestamp, now)) =
                      IF distance \in int64 THEN far ELSE 2 * (MaxInt64 + 1) - far
<1> DEFINE d == now - timestamp
           i == Int64(d)
           far == IF d < 0 THEN -d ELSE d
<1>1. MaxInt64 \in Nat /\ d \in Int /\ d <= 2 * MaxInt64 + 1 /\ -d <= 2 * MaxInt64 + 1
  BY MaxInt64Assumption DEF int64
<1>2. drift(timestamp, now) = IF i < 0 THEN Int64(-i) ELSE i
  BY DEF drift
<1>3. \A x \in int64 : x < 0 =>
          Int64(-x) = IF x = -MaxInt64 - 1 THEN x ELSE -x
  <2> TAKE x \in int64
  <2> HAVE x < 0
  <2>1. CASE x = -MaxInt64 - 1
    <3>1. -x \in Int /\ -x \notin int64 /\ ~(-x < 0)
          /\ -x <= 2 * MaxInt64 + 1 /\ -(-x) <= 2 * MaxInt64 + 1
      BY <1>1, <2>1 DEF int64
    <3>2. Int64(-x) = -x - 2 * (MaxInt64 + 1)
      BY <3>1, Wraps
    <3> QED
      BY <1>1, <2>1, <3>2
  <2>2. CASE x # -MaxInt64 - 1
    BY <1>1, <2>2 DEF Int64, int64
  <2> QED
    BY <2>1, <2>2
<1>4. \A x \in int64 :
          Uint64(IF x < 0 THEN Int64(-x) ELSE x) = IF x < 0 THEN -x ELSE x
  BY <1>1, <1>3 DEF Uint64, int64
<1>5. CASE d \in int64
  <2>1. i = d
    BY <1>5 DEF Int64
  <2> QED
    BY <1>1, <1>2, <1>4, <1>5, <2>1
<1>6. CASE d \notin int64
  <2>1. i = IF d < 0 THEN d + 2 * (MaxInt64 + 1) ELSE d - 2 * (MaxInt64 + 1)
    BY <1>1, <1>6, Wraps
  <2> HIDE DEF d, i
  <2>2. i \in int64 /\ (IF i < 0 THEN -i ELSE i) = 2 * (MaxInt64 + 1) - far
    BY <1>1, <1>6, <2>1 DEF int64
  <2>3. Uint64(drift(timestamp, now)) = 2 * (MaxInt64 + 1) - far
    BY <1>2, <1>4, <2>2
  <2> QED
    BY <1>1, <1>6, <2>3 DEF d
<1> QED
  BY <1>5, <1>6

(* So nothing within the drift is refused: once around is nearer still.    *)
LEMMA WithinAllowed ==
    ASSUME NEW timestamp \in int64, NEW now \in int64,
           NEW maxDrift \in Nat, now - timestamp \in -maxDrift..maxDrift
    PROVE  withinDrift(timestamp, maxDrift, now)
<1> DEFINE distance == now - timestamp
           far == IF distance < 0 THEN -distance ELSE distance
<1>1. /\ MaxInt64 \in Nat /\ distance \in Int
      /\ Uint64(drift(timestamp, now)) =
             IF distance \in int64 THEN far ELSE 2 * (MaxInt64 + 1) - far
  BY DriftIs, MaxInt64Assumption
<1>2. distance \notin int64 => 2 * (MaxInt64 + 1) - far <= far
  BY <1>1 DEF int64
<1>3. far <= maxDrift
  BY <1>1
<1> QED
  BY <1>1, <1>2, <1>3 DEF withinDrift

(* What Sign makes names its signer and verifies for whom it was made.     *)
LEMMA SignCallVerifies ==
    ASSUME NEW s \in Signed, NEW now, NEW maxDrift,
           withinDrift(s.timestamp, maxDrift, now)
    PROVE  /\ SignCall(s).payload = s.payload
           /\ Signer(SignCall(s)) = Fingerprint(s.signer)
           /\ verifySign1(SignCall(s), s.auth, s.signer, s.domain, maxDrift, now)
<1> DEFINE m == SignCall(s)
           protected == sigProtectedHeader(s.signer, s.timestamp)
           message == sigStructure(protected, s.domain, s.auth, s.payload)
<1>1. /\ m.payload = s.payload /\ m.protected = protected
      /\ m.signature = XDSASign(s.signer, message)
  BY DEF SignCall, signAt
<1>2. /\ protected.timestamp = s.timestamp /\ protected.kid = Fingerprint(s.signer)
      /\ verifySigProtectedHeader(protected, s.signer)
  BY DEF sigProtectedHeader, verifySigProtectedHeader
<1> HIDE DEF m, protected
<1>3. XDSAVerify(s.signer, message, m.signature)
  BY <1>1 DEF XDSAVerify, XDSASign
<1>4. /\ Signer(m) = Fingerprint(s.signer)
      /\ verifySign1(m, s.auth, s.signer, s.domain, maxDrift, now)
  BY <1>1, <1>2, <1>3 DEF verifySign1, Signer
<1> QED BY <1>1, <1>4 DEF m

LEMMA InvSealedOpens == Inv => SealedOpens
<1> SUFFICES ASSUME Inv PROVE SealedOpens
  OBVIOUS
<1>1. ASSUME NEW e \in encrypted
      PROVE  \E m \in encrypt0s :
                /\ Recipient(m) = Fingerprint(e.recipient)
                /\ Decrypts(m, e.auth, e.recipient, e.domain)
                /\ Decrypt(m) = e.sign1
  <2>1. PICK m \in encrypt0s : MadeBy(m, e)
    BY DEF Inv
  <2> DEFINE protected == encProtectedHeader(e.recipient)
  <2>2. /\ m.protected = protected
        /\ m.ciphertext = XHPKESeal(e.recipient, m.encapKey, e.sign1,
                                    encStructure(protected, e.auth), e.domain)
    BY <2>1 DEF MadeBy, Encrypt
  <2>3. /\ protected.kid = Fingerprint(e.recipient)
        /\ verifyEncProtectedHeader(protected, e.recipient)
    BY DEF encProtectedHeader, verifyEncProtectedHeader
  <2> HIDE DEF protected
  <2>4. /\ Decrypt(m) = e.sign1
        /\ XHPKEOpens(e.recipient, m.encapKey, m.ciphertext,
                      encStructure(protected, e.auth), e.domain)
    BY <2>2 DEF XHPKESeal, XHPKEOpens, Decrypt
  <2> QED BY <2>2, <2>3, <2>4 DEF Recipient, Decrypts
<1>2. ASSUME NEW m, NEW s \in signed, SignCall(s) = m
      PROVE  /\ Signer(m) = Fingerprint(s.signer)
             /\ \A now \in int64, maxDrift \in Drifts :
                   now - s.timestamp \in -maxDrift..maxDrift =>
                       CASE s.payload = Null ->
                               VerifyDetachedAt(m, s.auth, s.signer, s.domain, maxDrift, now)
                         [] s.payload \in Messages ->
                               /\ VerifyAt(m, s.auth, s.signer, s.domain, maxDrift, now)
                               /\ Peeks(m) /\ Peek(m) = s.payload
                         [] s.payload = Nothing ->
                               ~VerifyAt(m, s.auth, s.signer, s.domain, maxDrift, now)
  <2>1. s \in Signed /\ s.timestamp \in Times /\ s.payload \in Payloads
    BY DEF Inv, Signed
  <2>2. s.timestamp \in int64
    BY <2>1, TimesAssumption
  <2>3. Signer(m) = Fingerprint(s.signer)
    <3>1. withinDrift(s.timestamp, AnyDrift, 0)
      BY DEF withinDrift
    <3> QED BY <1>2, <2>1, <3>1, SignCallVerifies
  <2>4. ASSUME NEW now \in int64, NEW maxDrift \in Drifts,
               now - s.timestamp \in -maxDrift..maxDrift
        PROVE  CASE s.payload = Null ->
                       VerifyDetachedAt(m, s.auth, s.signer, s.domain, maxDrift, now)
                 [] s.payload \in Messages ->
                       /\ VerifyAt(m, s.auth, s.signer, s.domain, maxDrift, now)
                       /\ Peeks(m) /\ Peek(m) = s.payload
                 [] s.payload = Nothing ->
                       ~VerifyAt(m, s.auth, s.signer, s.domain, maxDrift, now)
    <3>1. withinDrift(s.timestamp, maxDrift, now)
      BY <2>1, <2>2, <2>4, DriftsAssumption, WithinAllowed
    <3>2. /\ m.payload = s.payload
          /\ verifySign1(m, s.auth, s.signer, s.domain, maxDrift, now)
      BY <1>2, <2>1, <3>1, SignCallVerifies
    <3>3. CASE s.payload = Null
      <4>1. s.payload \notin Messages /\ s.payload # Nothing
        BY <3>3, NullAssumption
      <4>2. VerifyDetachedAt(m, s.auth, s.signer, s.domain, maxDrift, now)
        BY <3>2, <3>3 DEF VerifyDetachedAt
      <4> QED BY <3>3, <4>1, <4>2
    <3>4. CASE s.payload \in Messages
      <4>1. s.payload # Null /\ s.payload # Nothing
        BY <3>4, NullAssumption, NothingAssumption
      <4>2. VerifyAt(m, s.auth, s.signer, s.domain, maxDrift, now)
        BY <3>2, <4>1 DEF VerifyAt
      <4>3. Peeks(m) /\ Peek(m) = s.payload
        BY <3>2, <4>1 DEF Peeks, Peek
      <4> QED BY <3>4, <4>1, <4>2, <4>3
    <3>5. CASE s.payload = Nothing
      <4>1. s.payload \notin Messages /\ s.payload # Null
        BY <3>5, NullAssumption, NothingAssumption
      <4>2. ~VerifyAt(m, s.auth, s.signer, s.domain, maxDrift, now)
        BY <3>2, <3>5 DEF VerifyAt
      <4> QED BY <3>5, <4>1, <4>2
    <3> QED BY <2>1, <3>3, <3>4, <3>5 DEF Payloads
  <2> QED BY <2>3, <2>4
<1> QED BY <1>1, <1>2, Zenon DEF SealedOpens

LEMMA InvNotStale == Inv => NotStale
<1> SUFFICES ASSUME Inv, NEW m \in sign1s, NEW key \in XDSAKeys, NEW domain \in Domains,
                    NEW auth \in Messages, NEW now \in int64, NEW maxDrift \in Drifts,
                    \/ VerifyAt(m, auth, key, domain, maxDrift, now)
                    \/ VerifyDetachedAt(m, auth, key, domain, maxDrift, now)
             PROVE  LET distance == now - m.protected.timestamp
                        around   == 2 * (MaxInt64 + 1) - maxDrift
                    IN  IF distance \in int64
                           THEN distance \in -maxDrift..maxDrift
                           ELSE distance >= around \/ -distance >= around
  BY Zenon DEF NotStale
<1> DEFINE distance == now - m.protected.timestamp
           far == IF distance < 0 THEN -distance ELSE distance
<1>1. withinDrift(m.protected.timestamp, maxDrift, now)
  BY DEF VerifyAt, VerifyDetachedAt, verifySign1
<1>2. m.protected.timestamp \in int64
  BY TimesAssumption DEF Inv, Genuine
<1>3. /\ distance \in Int
      /\ Uint64(drift(m.protected.timestamp, now)) =
             IF distance \in int64 THEN far ELSE 2 * (MaxInt64 + 1) - far
  BY <1>2, DriftIs
<1>4. maxDrift \in Nat /\ MaxInt64 \in Nat
  BY DriftsAssumption, MaxInt64Assumption
<1>5. Uint64(drift(m.protected.timestamp, now)) <= maxDrift
  BY <1>1, <1>4 DEF withinDrift, AnyDrift
<1> HIDE DEF distance
<1>6. CASE distance \in int64
  <2>1. distance \in -maxDrift..maxDrift
    BY <1>3, <1>4, <1>5, <1>6
  <2> QED
    BY <1>6, <2>1 DEF distance
<1>7. CASE distance \notin int64
  <2>1. \/ distance >= 2 * (MaxInt64 + 1) - maxDrift
        \/ -distance >= 2 * (MaxInt64 + 1) - maxDrift
    BY <1>3, <1>4, <1>5, <1>7
  <2> QED
    BY <1>7, <2>1 DEF distance
<1> QED
  BY <1>6, <1>7
-----------------------------------------------------------------------------
(* The state of CoseExchange is well typed, whoever sends what.            *)
THEOREM TypeCorrect == Spec => []TypeOK
BY Invariance, InvTypeOK, PTL

(* What Verify accepts under a key with one sound half was signed by a     *)
(* call of Sign or Seal, for that domain, message to authenticate, payload *)
(* and time; what VerifyDetached accepts by SignDetached, or by Sign of no *)
(* bytes.  It holds however sent signatures are taken apart and put        *)
(* together, and whatever else the key signs under other headers.          *)
THEOREM VerifiedIsSigned == Spec => []VerifiedWasSigned
BY Invariance, InvVerified, PTL

(* What Open returns was signed by the sender and encrypted to the         *)
(* recipient, both for the domain and the message to authenticate that     *)
(* Open was given.                                                         *)
THEOREM OpenedIsSealed == Spec => []OpenedWasSealed
BY Invariance, InvOpened, PTL

(* Whatever the timestamp and the clock, Verify accepts nothing from       *)
(* further away than maxDrift, unless the two are so far apart that the    *)
(* drift has wrapped, and then only if it has wrapped to within maxDrift.  *)
THEOREM NeverStale == Spec => []NotStale
BY Invariance, InvNotStale, PTL

(* Times from 1970 on are never that far apart.                            *)
THEOREM NearTimes ==
    ASSUME NEW timestamp \in 0..MaxInt64, NEW now \in 0..MaxInt64,
           NEW maxDrift \in Nat, withinDrift(timestamp, maxDrift, now)
    PROVE  now - timestamp \in -maxDrift..maxDrift
<1> DEFINE distance == now - timestamp
           far == IF distance < 0 THEN -distance ELSE distance
<1>1. MaxInt64 \in Nat /\ timestamp \in int64 /\ now \in int64 /\ distance \in int64
  BY MaxInt64Assumption DEF int64
<1>2. distance \in Int /\ Uint64(drift(timestamp, now)) = far
  BY <1>1, DriftIs
<1>3. Uint64(drift(timestamp, now)) <= maxDrift
  BY DEF withinDrift, AnyDrift
<1> QED
  BY <1>2, <1>3

(* Whatever the times, what was encrypted opens for its recipient, who     *)
(* Recipient names, and what was signed verifies for the key that Signer   *)
(* names at any time within the drift, wherever it turns up.               *)
THEOREM SealedAlwaysOpens == Spec => []SealedOpens
BY Invariance, InvSealedOpens, PTL
=============================================================================
