---------------------------- MODULE Certificates ----------------------------
(***************************************************************************)
(* Issuing and verifying certificates: x509ext.New, behind IssueCertDER of *)
(* xdsa and xhpke, and their VerifyCertDER and enforceIssuerChaining.  All *)
(* are pure.  Signatures are symbolic: a certificate verifies under the    *)
(* key that signed it.  What the standard library's parser makes of a      *)
(* certificate is modelled from how the code uses it.                      *)
(***************************************************************************)
EXTENDS Integers, Sequences, FiniteSets

CONSTANTS
    XDSAKeys,       \* signing keys
    XHPKEKeys,      \* encryption keys, which sign nothing
    Names,          \* distinguished names ...
    NoName,         \* ... and the empty one
    Oids,           \* extensions a template may ask for
    ReservedOids,   \* those of them under 2.5.29
    Second          \* moments to a second, the grain of a certificate's times

ASSUME KeysAssumption == XDSAKeys \cap XHPKEKeys = {}
ASSUME NoNameAssumption == NoName \notin Names
ASSUME OidsAssumption == ReservedOids \subseteq Oids
ASSUME SecondAssumption == Second \in Nat \ {0}

Keys == XDSAKeys \cup XHPKEKeys

-----------------------------------------------------------------------------
(* Roles and templates. *)

NoLimit == -1       \* the nil path length

RoleLeaf == [isCA |-> FALSE, pathLen |-> NoLimit]
RoleAuthority(pathLen) == [isCA |-> TRUE, pathLen |-> pathLen]

Role == {RoleLeaf} \cup {RoleAuthority(n) : n \in 0..255 \cup {NoLimit}}

Template == [subject : Names \cup {NoName}, issuer : Names \cup {NoName},
             notBefore : Nat, notAfter : Nat, role : Role, extensions : Seq(Oids)]

Certificate == [subject : Names \cup {NoName}, issuer : Names \cup {NoName},
                notBefore : Nat, notAfter : Nat,
                constrained : BOOLEAN,      \* has basic constraints
                isCA : BOOLEAN, pathLen : Nat \cup {NoLimit},
                usage : SUBSET {"digitalSignature", "keyAgreement",
                                "certSign", "crlSign"},
                extensions : Seq(Oids), key : Keys, signer : XDSAKeys]

caUsage == {"certSign", "crlSign"}
-----------------------------------------------------------------------------
(* Issuing. *)

validateTemplate(t) ==
    /\ t.subject # NoName
    /\ t.issuer # NoName
    /\ t.notBefore < t.notAfter

NoDuplicates(oids) == \A i, j \in DOMAIN oids : oids[i] = oids[j] => i = j

(* Custom extensions may neither replace the standard ones nor repeat. *)
extensionsAllowed(t) ==
    /\ \A i \in DOMAIN t.extensions : t.extensions[i] \notin ReservedOids
    /\ NoDuplicates(t.extensions)

makeKeyUsageOneLeaf(isCA, key) ==   \* Mutant: every leaf signs
    IF isCA THEN caUsage ELSE {"digitalSignature"}

makeKeyUsageExt(isCA, key) ==
    IF isCA THEN caUsage
    ELSE IF key \in XHPKEKeys THEN {"keyAgreement"} ELSE {"digitalSignature"}

(* ASN.1 times are cut to the second. *)
Seconds(t) == (t \div Second) * Second

(* IssueCertDER hands out a certificate; the wrapper of xhpke makes sure   *)
(* that it is no authority's.                                              *)
Issues(key, t) ==
    /\ key \in XHPKEKeys => ~t.role.isCA
    /\ validateTemplate(t)
    /\ extensionsAllowed(t)

New(key, signer, t) ==
    [subject |-> t.subject, issuer |-> t.issuer,
     notBefore |-> Seconds(t.notBefore), notAfter |-> Seconds(t.notAfter),
     constrained |-> TRUE, isCA |-> t.role.isCA, pathLen |-> t.role.pathLen,
     usage |-> makeKeyUsageExt(t.role.isCA, key),
     extensions |-> t.extensions, key |-> key, signer |-> signer]
-----------------------------------------------------------------------------
(* Verifying. *)

Parses(cert) == NoDuplicates(cert.extensions)

IsCA(cert)           == cert.constrained /\ cert.isCA
MaxPathLen(cert)     == IF cert.constrained THEN cert.pathLen ELSE 0
MaxPathLenZero(cert) == cert.constrained /\ cert.pathLen = 0

NoCheck == -1       \* ValidityDisabled; otherwise the moment to check for

inValidity(cert, at) == at # NoCheck => cert.notBefore <= at /\ at <= cert.notAfter

(* VerifyCertDER of xdsa ... *)
VerifiesUnsized(cert, issuer, at) ==    \* Mutant: any key passes for one of xDSA
    /\ Parses(cert) /\ cert.signer = issuer /\ inValidity(cert, at)
    /\ cert.usage = IF IsCA(cert) THEN caUsage ELSE {"digitalSignature"}

Verifies(cert, issuer, at) ==
    /\ Parses(cert)
    /\ cert.signer = issuer
    /\ inValidity(cert, at)
    /\ cert.usage = IF IsCA(cert) THEN caUsage ELSE {"digitalSignature"}
    /\ cert.key \in XDSAKeys

(* ... and of xhpke. *)
VerifiesXHPKE(cert, issuer, at) ==
    /\ Parses(cert)
    /\ cert.signer = issuer
    /\ inValidity(cert, at)
    /\ cert.usage = {"keyAgreement"} /\ ~IsCA(cert)
    /\ cert.key \in XHPKEKeys

(* enforceIssuerChaining of xdsa, and of xhpke, whose children are never   *)
(* authorities.                                                            *)
mayIssueLimitless(child, issuer) ==     \* Mutant: no path length is looked at
    /\ IsCA(issuer)
    /\ issuer.usage = caUsage
    /\ child.issuer = issuer.subject

mayIssue(child, issuer) ==
    /\ IsCA(issuer)
    /\ issuer.usage = caUsage
    /\ MaxPathLenZero(issuer) \/ MaxPathLen(issuer) > 0 =>
          ~(IsCA(child) /\ MaxPathLen(issuer) = 0 /\ MaxPathLenZero(issuer))
    /\ child.issuer = issuer.subject

mayIssueXHPKE(child, issuer) ==
    /\ IsCA(issuer)
    /\ issuer.usage = caUsage
    /\ child.issuer = issuer.subject
=============================================================================
