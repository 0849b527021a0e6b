------------------------------- MODULE KeysRSA -------------------------------
(***************************************************************************)
(* The keys of package rsa.  A number is a block, as wide as the raw forms *)
(* have it; a modulus, unless it is too short or even, has 2048 bits and   *)
(* is odd.  A secret key is the numbers p, q, d and e of its raw form.     *)
(***************************************************************************)
EXTENDS Keys

exponent == Block(8, "exponent", 65537)

modulus(p, q) ==
    Block(256, IF {p.kind, q.kind} = {"prime"} THEN "modulus" ELSE "short", p.n * q.n)

RSASecretKey(p, q, e) == <<p, q, Block(256, "d", p.n * q.n), e>>

RSAPublicKey(key) == <<modulus(key[1], key[2]), key[4]>>

(* Of a secret key, Validate, which is the library's, looks at the rest. *)
ParseRSAPublicKey(public) == public[1].kind = "modulus" /\ public[2] = exponent

Validate(key) == key = RSASecretKey(key[1], key[2], key[4])

ParseRSASecretKey(key) == ParseRSAPublicKey(RSAPublicKey(key)) /\ Validate(key)

(* The documents are crypto/x509's to write ... *)
Numbers(numbers) ==
    Item("SEQUENCE", [i \in DOMAIN numbers |-> Item("INTEGER", <<numbers[i]>>)])

RSAAlgorithm == Item("SEQUENCE", <<OID("rsa"), Item("NULL", <<>>)>>)

MarshalRSASecretDER(key) ==
    <<Item("SEQUENCE",
        <<Item("INTEGER", <<Byte(0)>>), RSAAlgorithm,
          Item("OCTETS", <<Numbers(<<Byte(0), modulus(key[1], key[2]), key[4], key[3],
                                     key[1], key[2], Derived(384, "crt", key)>>)>>)>>)>>

(* ... and to read: it may not mind what follows the fields it reads, in   *)
(* the document and in each of its items.                                  *)
RECURSIVE Begins(_, _)

Begins(bytes, fields) ==
    /\ Len(bytes) >= Len(fields)
    /\ \A i \in DOMAIN fields :
          IF {"tag"} \subseteq DOMAIN bytes[i] \cap DOMAIN fields[i]
          THEN bytes[i].tag = fields[i].tag /\ Begins(bytes[i].body, fields[i].body)
          ELSE bytes[i] = fields[i]

ParseRSASecretDERJunk(der, key) ==      \* Mutant: not compared with what is written
    /\ Begins(der, MarshalRSASecretDER(key))
    /\ Validate(key) /\ ParseRSAPublicKey(RSAPublicKey(key))

(* The document is accepted as that key. *)
ParseRSASecretDER(der, key) ==
    /\ Begins(der, MarshalRSASecretDER(key))
    /\ Validate(key) /\ ParseRSAPublicKey(RSAPublicKey(key))
    /\ MarshalRSASecretDER(key) = der
=============================================================================
