----------------------------- MODULE MCCertChain -----------------------------
(***************************************************************************)
(* Instances of CertChain: whatever the library issues from a range of     *)
(* templates, and variations of it that other software could have made.    *)
(***************************************************************************)
EXTENDS CertChain, TLC

(* The path lengths in the templates. *)
PathLens == {NoLimit, 0, 1}

Validities == {<<0, 5>>, <<3, 8>>, <<4, 5>>, <<4, 4>>}

MCTemplates ==
    [subject : Names \cup {NoName}, issuer : Names, notBefore : {0}, notAfter : {5},
     role : {RoleLeaf} \cup {RoleAuthority(n) : n \in PathLens}, extensions : {<<>>}]
    \cup
    {[subject |-> s, issuer |-> i, notBefore |-> v[1], notAfter |-> v[2],
      role |-> RoleLeaf, extensions |-> e] :
        s \in Names, i \in Names, v \in Validities,
        e \in UNION {[1..n -> Oids] : n \in 0..2}}

IssuedBy(signer) ==
    UNION {{New(key, signer, t) : t \in {u \in MCTemplates : Issues(key, u)}} :
                key \in Keys}

Issued == UNION {IssuedBy(signer) : signer \in XDSAKeys}

(* Made elsewhere: an authority that may not sign certificates, a leaf     *)
(* that may, one without basic constraints, one with an extension twice.   *)
Foreign ==
    LET plain == {c \in Issued : c.extensions = <<>>}
    IN  {[c EXCEPT !.usage = {"digitalSignature"}] : c \in plain}
        \cup {[c EXCEPT !.usage = caUsage] : c \in plain}
        \cup {[c EXCEPT !.constrained = FALSE] : c \in plain}
        \cup {[c EXCEPT !.extensions = <<o, o>>] : c \in plain, o \in Oids}

MCCerts == Issued \cup Foreign

Symmetric == Permutations(XDSAKeys) \cup Permutations(Names)
=============================================================================
