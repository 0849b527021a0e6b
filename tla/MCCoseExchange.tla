--------------------------- MODULE MCCoseExchange ---------------------------
(***************************************************************************)
(* An instance of CoseExchange: signatures from the first and the last     *)
(* second of an int64, so that every distance to another occurs.           *)
(***************************************************************************)
EXTENDS CoseExchange, TLC

FirstAndLast == {-MaxInt64 - 1, MaxInt64}

Symmetric ==
    Permutations(XHPKEKeys) \cup Permutations(Domains) \cup Permutations(Messages)
=============================================================================
