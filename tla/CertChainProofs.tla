--------------------------- MODULE CertChainProofs ---------------------------
(***************************************************************************)
(* Proofs about CertChain, for chains of any length, any certificates and  *)
(* any templates.                                                          *)
(***************************************************************************)
EXTENDS CertChain, TLAPS

(* The inductive invariant.  Of an authority with a path length of zero    *)
(* each call makes sure that the child is none; that it then is the last   *)
(* of the chain follows only because issuers have to be authorities.       *)
ZeroEnds ==
    \A i \in 1..Len(chain) - 1 :
        chain[i].pathLen = 0 => i + 1 = Len(chain) /\ ~IsCA(chain[i + 1])

Linked ==
    /\ chain # <<>> => chain[1].signer = anchor
    /\ \A i \in 1..Len(chain) - 1 :
          /\ chain[i + 1].signer = chain[i].key
          /\ chain[i + 1].issuer = chain[i].subject
          /\ IsCA(chain[i]) /\ "certSign" \in chain[i].usage

UsageFits == chain # <<>> /\ IsCA(Newest) => Newest.usage = caUsage

Inv == TypeOK /\ Linked /\ ZeroEnds /\ UsageFits

LEMMA InitInv == Init => Inv
BY DEF Init, Inv, TypeOK, Linked, ZeroEnds, UsageFits

(* A certificate joins the chain below its issuer.                         *)
LEMMA ExtendInv ==
    ASSUME Inv, NEW cert \in Certificate, kind = "xdsa", kind' \in {"xdsa", "xhpke"},
           kind' = "xdsa" => cert.key \in XDSAKeys,
           kind' = "xhpke" => cert.key \in XHPKEKeys,
           cert.signer = Newest.key, cert.issuer = Newest.subject,
           IsCA(Newest), Newest.usage = caUsage,
           Newest.pathLen = 0 => ~IsCA(cert),
           IsCA(cert) => cert.usage = caUsage,
           chain' = Append(chain, cert), anchor' = anchor
    PROVE  Inv'
<1> DEFINE n == Len(chain)
<1>1. /\ chain \in Seq(Certificate) /\ chain # <<>> /\ n \in Nat /\ n > 0
      /\ Newest = chain[n]
  BY DEF Inv, TypeOK, Newest
<1>2. /\ chain' \in Seq(Certificate) /\ chain' # <<>> /\ Len(chain') = n + 1
      /\ chain'[n + 1] = cert
      /\ \A i \in 1..n : chain'[i] = chain[i]
  BY <1>1
<1>3. Newest' = cert
  BY <1>2 DEF Newest
<1>4. TypeOK'
  BY <1>2, <1>3 DEF Inv, TypeOK
<1>5. Linked'
  <2>1. chain'[1].signer = anchor'
    BY <1>1, <1>2 DEF Inv, Linked
  <2>2. ASSUME NEW i \in 1..n
        PROVE  /\ chain'[i + 1].signer = chain'[i].key
               /\ chain'[i + 1].issuer = chain'[i].subject
               /\ IsCA(chain'[i]) /\ "certSign" \in chain'[i].usage
    <3>1. CASE i = n
      BY <1>1, <1>2, <3>1 DEF caUsage
    <3>2. CASE i # n
      <4>1. i \in 1..n - 1 /\ i + 1 \in 1..n
        BY <1>1, <3>2
      <4> QED
        BY <1>2, <4>1 DEF Inv, Linked
    <3> QED
      BY <3>1, <3>2
  <2>3. Len(chain') - 1 = n
    BY <1>1, <1>2
  <2> HIDE DEF n
  <2> QED
    BY <2>1, <2>2, <2>3 DEF Linked, IsCA
<1>6. ZeroEnds'
  <2>1. ASSUME NEW i \in 1..n, chain'[i].pathLen = 0
        PROVE  i + 1 = n + 1 /\ ~IsCA(chain'[i + 1])
    <3>1. CASE i = n
      BY <1>1, <1>2, <2>1, <3>1
    <3>2. CASE i # n
      <4>1. i \in 1..n - 1 /\ chain[i].pathLen = 0
        BY <1>1, <1>2, <2>1, <3>2
      <4>2. i + 1 = n /\ ~IsCA(chain[n])
        BY <4>1 DEF Inv, ZeroEnds
      <4> QED
        BY <1>1, <4>2
    <3> QED
      BY <3>1, <3>2
  <2>2. Len(chain') - 1 = n /\ Len(chain') = n + 1
    BY <1>1, <1>2
  <2> HIDE DEF n
  <2> QED
    BY <2>1, <2>2 DEF ZeroEnds, IsCA
<1>7. UsageFits'
  BY <1>3 DEF UsageFits, IsCA
<1> QED
  BY <1>4, <1>5, <1>6, <1>7 DEF Inv

LEMMA NextInv == Inv /\ [Next]_vars => Inv'
<1> SUFFICES ASSUME Inv, [Next]_vars PROVE Inv'
  OBVIOUS
<1>1. ASSUME NEW cert \in Certs, NEW at, VerifyCert(cert, at)
      PROVE  Inv'
  <2>1. /\ cert \in Certificate /\ chain' = <<cert>> /\ anchor' = anchor
        /\ cert.signer = anchor
        /\ \/ Verifies(cert, anchor, at) /\ kind' = "xdsa"
           \/ VerifiesXHPKE(cert, anchor, at) /\ kind' = "xhpke"
    BY <1>1, CertsAssumption DEF VerifyCert, Verifies, VerifiesXHPKE
  <2>2. Len(chain') = 1 /\ chain'[1] = cert /\ Newest' = cert
    BY <2>1 DEF Newest
  <2>3. TypeOK'
    BY <2>1, <2>2 DEF Inv, TypeOK, Verifies, VerifiesXHPKE
  <2>4. Linked' /\ ZeroEnds'
    BY <2>1, <2>2 DEF Linked, ZeroEnds
  <2>5. UsageFits'
    BY <2>1, <2>2 DEF UsageFits, IsCA, Verifies, VerifiesXHPKE
  <2> QED
    BY <2>3, <2>4, <2>5 DEF Inv
<1>2. ASSUME NEW cert \in Certs, NEW at, VerifyCertWithIssuer(cert, at)
      PROVE  Inv'
  <2>1. /\ cert \in Certificate /\ kind = "xdsa" /\ kind' = "xdsa"
        /\ Verifies(cert, Newest.key, at) /\ mayIssue(cert, Newest)
        /\ chain' = Append(chain, cert) /\ anchor' = anchor
    BY <1>2, CertsAssumption DEF VerifyCertWithIssuer
  <2>2. /\ cert.key \in XDSAKeys /\ cert.signer = Newest.key
        /\ IsCA(cert) => cert.usage = caUsage
    BY <2>1 DEF Verifies
  <2>3. /\ IsCA(Newest) /\ Newest.usage = caUsage
        /\ cert.issuer = Newest.subject
    BY <2>1 DEF mayIssue
  <2>4. Newest.pathLen = 0 => ~IsCA(cert)
    BY <2>1, <2>3 DEF mayIssue, IsCA, MaxPathLen, MaxPathLenZero
  <2> QED
    BY <2>1, <2>2, <2>3, <2>4, ExtendInv
<1>3. ASSUME NEW cert \in Certs, NEW at, VerifyXHPKECertWithIssuer(cert, at)
      PROVE  Inv'
  <2>1. /\ cert \in Certificate /\ kind = "xdsa" /\ kind' = "xhpke"
        /\ VerifiesXHPKE(cert, Newest.key, at) /\ mayIssueXHPKE(cert, Newest)
        /\ chain' = Append(chain, cert) /\ anchor' = anchor
    BY <1>3, CertsAssumption DEF VerifyXHPKECertWithIssuer
  <2>2. cert.key \in XHPKEKeys /\ cert.signer = Newest.key /\ ~IsCA(cert)
    BY <2>1 DEF VerifiesXHPKE
  <2>3. /\ IsCA(Newest) /\ Newest.usage = caUsage
        /\ cert.issuer = Newest.subject
    BY <2>1 DEF mayIssueXHPKE
  <2> QED
    BY <2>1, <2>2, <2>3, ExtendInv
<1>4. CASE UNCHANGED vars
  BY <1>4 DEF vars, Inv, TypeOK, Linked, ZeroEnds, UsageFits, Newest, IsCA
<1> QED
  BY <1>1, <1>2, <1>3, <1>4 DEF Next

LEMMA Invariance == Spec => []Inv
<1>1. Init => Inv
  BY InitInv
<1>2. Inv /\ [Next]_vars => Inv'
  BY NextInv
<1> QED
  BY <1>1, <1>2, PTL DEF Spec
-----------------------------------------------------------------------------
(* A Verified value of a package holds a key of that package's kind.       *)
THEOREM TypeCorrect == Spec => []TypeOK
<1>1. Inv => TypeOK
  BY DEF Inv
<1> QED
  BY <1>1, Invariance, PTL

(* The certificates verified by a sequence of VerifyCertDER and            *)
(* VerifyCertDERWithIssuer are a path: each is signed and named by an      *)
(* authority above it, none of them below one with a path length of zero.  *)
THEOREM VerifiedIsPath == Spec => []IsPath
<1>1. Inv => IsPath
  <2> SUFFICES ASSUME Inv PROVE IsPath
    OBVIOUS
  <2>1. Linked /\ ZeroEnds
    BY DEF Inv
  <2>2. ASSUME NEW i \in 1..Len(chain) - 1, chain[i].pathLen = 0
        PROVE  Intermediates(i) = {}
    <3>1. i + 1 = Len(chain) /\ Len(chain) \in Nat
      BY <2>1, <2>2 DEF ZeroEnds, Inv, TypeOK
    <3>2. i + 1..Len(chain) - 1 = {}
      BY <3>1
    <3> QED
      BY <3>2 DEF Intermediates
  <2> QED
    BY <2>1, <2>2 DEF Linked, IsPath
<1> QED
  BY <1>1, Invariance, PTL

(* Whatever IssueCertDER hands out in the name of a verified authority,    *)
(* within its rights, VerifyCertDERWithIssuer accepts throughout the       *)
(* template's validity, cut to seconds as it is.                           *)
THEOREM IssuedIsVerified == Spec => []IssuedVerifies
<1>1. Inv => IssuedVerifies
  <2> SUFFICES ASSUME Inv, NEW t \in Templates, NEW key \in Keys,
                      Authority, t.issuer = Newest.subject,
                      Newest.pathLen = 0 => ~t.role.isCA,
                      Issues(key, t),
                      NEW at \in Moments, at \in t.notBefore..Seconds(t.notAfter)
               PROVE  LET cert == New(key, Newest.key, t)
                      IN  IF key \in XDSAKeys
                          THEN Verifies(cert, Newest.key, at) /\ mayIssue(cert, Newest)
                          ELSE /\ VerifiesXHPKE(cert, Newest.key, at)
                               /\ mayIssueXHPKE(cert, Newest)
    BY DEF IssuedVerifies
  <2> DEFINE cert == New(key, Newest.key, t)
  <2>1. /\ cert.signer = Newest.key /\ cert.key = key
        /\ cert.issuer = Newest.subject
        /\ cert.notBefore = Seconds(t.notBefore)
        /\ cert.notAfter = Seconds(t.notAfter)
        /\ cert.extensions = t.extensions
        /\ cert.usage = makeKeyUsageExt(t.role.isCA, key)
        /\ IsCA(cert) <=> t.role.isCA
    BY DEF New, IsCA
  <2>2. Parses(cert)
    BY <2>1 DEF Parses, Issues, extensionsAllowed
  <2>3. inValidity(cert, at)
    <3>1. t.notBefore \in Nat /\ at \in Int
      BY TemplatesAssumption DEF Template
    <3>2. Seconds(t.notBefore) \in Int /\ Seconds(t.notBefore) <= t.notBefore
      BY <3>1, SecondAssumption DEF Seconds
    <3>3. Seconds(t.notAfter) \in Int
      BY TemplatesAssumption, SecondAssumption DEF Template, Seconds
    <3> HIDE DEF cert
    <3> QED
      BY <2>1, <3>1, <3>2, <3>3 DEF inValidity
  <2>4. IsCA(Newest) /\ Newest.usage = caUsage
    BY DEF Authority, Inv, UsageFits
  <2> HIDE DEF cert
  <2>5. CASE key \in XDSAKeys
    <3>1. key \notin XHPKEKeys
      BY <2>5, KeysAssumption
    <3>2. Verifies(cert, Newest.key, at)
      BY <2>1, <2>2, <2>3, <2>5, <3>1 DEF Verifies, makeKeyUsageExt
    <3>3. mayIssue(cert, Newest)
      BY <2>1, <2>4 DEF mayIssue, MaxPathLenZero, MaxPathLen, IsCA
    <3> QED
      BY <2>5, <3>2, <3>3 DEF cert
  <2>6. CASE key \notin XDSAKeys
    <3>1. key \in XHPKEKeys /\ ~t.role.isCA
      BY <2>6 DEF Keys, Issues
    <3>2. VerifiesXHPKE(cert, Newest.key, at)
      BY <2>1, <2>2, <2>3, <3>1 DEF VerifiesXHPKE, makeKeyUsageExt
    <3>3. mayIssueXHPKE(cert, Newest)
      BY <2>1, <2>4 DEF mayIssueXHPKE
    <3> QED
      BY <2>6, <3>2, <3>3 DEF cert
  <2> QED
    BY <2>5, <2>6
<1> QED
  BY <1>1, Invariance, PTL
=============================================================================
