------------------------ MODULE MCEmailVerification ------------------------
(***************************************************************************)
(* Instances of EmailVerification for TLC.  All ids are model values, and  *)
(* interchangeable.                                                        *)
(***************************************************************************)
EXTENDS EmailVerification, TLC

Symmetry ==
    Permutations(Users) \union Permutations(Addresses)
        \union Permutations(Tokens) \union Permutations(Requests)
=============================================================================
