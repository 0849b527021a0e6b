------------------------------ MODULE CertChain ------------------------------
(***************************************************************************)
(* A relying party that verifies its way down from a key it trusts: first  *)
(* VerifyCertDER with that key, then VerifyCertDERWithIssuer with the      *)
(* Verified value of the call before.  The library never sees a chain,     *)
(* only a certificate and its issuer; what these calls add up to is what   *)
(* the properties are about.                                               *)
(*                                                                         *)
(* The certificates it is handed may come from anywhere, as long as the    *)
(* standard library parses them.                                           *)
(***************************************************************************)
EXTENDS Certificates

CONSTANTS
    Certs,          \* the certificates the relying party is handed
    Templates,      \* the templates certificates are issued from
    Moments,        \* the times it may ask about
    MaxChain        \* bound: calls in a row

ASSUME CertsAssumption == Certs \subseteq Certificate
ASSUME TemplatesAssumption == Templates \subseteq Template
ASSUME MomentsAssumption == Moments \subseteq Nat

VARIABLES
    anchor,         \* the key trusted from the start
    chain,          \* the certificates verified, each by its predecessor's key
    kind            \* which package verified the last of them, and parsed its key

vars == <<anchor, chain, kind>>

Init ==
    /\ anchor \in XDSAKeys
    /\ chain = <<>>
    /\ kind = "none"

Newest == chain[Len(chain)]

(* VerifyCertDER with the trusted key, of xdsa and of xhpke. *)
VerifyCert(cert, at) ==
    /\ chain = <<>>
    /\ \/ Verifies(cert, anchor, at) /\ kind' = "xdsa"
       \/ VerifiesXHPKE(cert, anchor, at) /\ kind' = "xhpke"
    /\ chain' = <<cert>>
    /\ UNCHANGED anchor

(* VerifyCertDERWithIssuer of xdsa ... *)
VerifyCertWithIssuer(cert, at) ==
    /\ kind = "xdsa" /\ Len(chain) < MaxChain
    /\ Verifies(cert, Newest.key, at)
    /\ mayIssue(cert, Newest)
    /\ chain' = Append(chain, cert)
    /\ UNCHANGED <<anchor, kind>>

(* ... and of xhpke, whose issuers are still of xdsa. *)
VerifyXHPKECertWithIssuer(cert, at) ==
    /\ kind = "xdsa" /\ Len(chain) < MaxChain
    /\ VerifiesXHPKE(cert, Newest.key, at)
    /\ mayIssueXHPKE(cert, Newest)
    /\ chain' = Append(chain, cert)
    /\ kind' = "xhpke"
    /\ UNCHANGED anchor

Next ==
    \E cert \in Certs, at \in Moments \cup {NoCheck} :
        \/ VerifyCert(cert, at)
        \/ VerifyCertWithIssuer(cert, at)
        \/ VerifyXHPKECertWithIssuer(cert, at)

Spec == Init /\ [][Next]_vars
-----------------------------------------------------------------------------
(* A Verified value of xdsa holds a key of xDSA, one of xhpke a key of     *)
(* xHPKE, although the certificate only says how long its key is.          *)
TypeOK ==
    /\ anchor \in XDSAKeys
    /\ chain \in Seq(Certificate)
    /\ kind \in {"none", "xdsa", "xhpke"}
    /\ kind = "none" <=> chain = <<>>
    /\ kind = "xdsa" => Newest.key \in XDSAKeys
    /\ kind = "xhpke" => Newest.key \in XHPKEKeys

(* The certificates below the i-th that RFC 5280 counts against its path   *)
(* length: those between it and the last that do not only rename a key.    *)
Intermediates(i) ==
    {j \in i + 1..Len(chain) - 1 : chain[j].subject # chain[j].issuer}

(* What the calls add up to is a path in the sense of RFC 5280, 6.1, but   *)
(* for the path lengths above zero: each certificate is signed by the one  *)
(* above and names it, all but the last are authorities that may sign      *)
(* certificates, and none of them is below one with a path length of zero. *)
IsPath ==
    /\ chain # <<>> => chain[1].signer = anchor
    /\ \A i \in 1..Len(chain) - 1 :
          /\ chain[i + 1].signer = chain[i].key
          /\ chain[i + 1].issuer = chain[i].subject
          /\ IsCA(chain[i]) /\ "certSign" \in chain[i].usage
          /\ chain[i].pathLen = 0 => Intermediates(i) = {}

(* The path lengths above zero hold, too.  They do not: each call sees two *)
(* certificates of the chain.                                              *)
PathLenLimits ==
    \A i \in 1..Len(chain) - 1 :
        chain[i].pathLen # NoLimit => Cardinality(Intermediates(i)) <= chain[i].pathLen

(* What a verified authority issues with the library and within its rights *)
(* the library verifies, at every moment from the template's first to the  *)
(* last full second of its validity.                                       *)
Authority == chain # <<>> /\ IsCA(Newest)

IssuedVerifies ==
    \A t \in Templates, key \in Keys :
        /\ Authority /\ t.issuer = Newest.subject
        /\ Newest.pathLen = 0 => ~t.role.isCA
        /\ Issues(key, t)
        => LET cert == New(key, Newest.key, t)
           IN  \A at \in Moments :
                  at \in t.notBefore..Seconds(t.notAfter) =>
                      IF key \in XDSAKeys
                         THEN Verifies(cert, Newest.key, at) /\ mayIssue(cert, Newest)
                         ELSE /\ VerifiesXHPKE(cert, Newest.key, at)
                              /\ mayIssueXHPKE(cert, Newest)
=============================================================================
