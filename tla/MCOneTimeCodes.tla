-------------------------- MODULE MCOneTimeCodes --------------------------
(***************************************************************************)
(* Few codes for calls that overlap; codes, guests and goroutines are      *)
(* interchangeable.                                                        *)
(***************************************************************************)
EXTENDS OneTimeCodes, TLC

CONSTANTS c1, c2, c3, g1, u1, u2

Interchangeable ==
    Permutations(Codes) \union Permutations(Guests)
        \union Permutations(Callers)
=============================================================================
