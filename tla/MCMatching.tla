----------------------------- MODULE MCMatching -----------------------------
(***************************************************************************)
(* Instances of Matching for TLC.  Request and invitation ids are model    *)
(* values and interchangeable in the safety runs; users are numbers,       *)
(* because locks follow their order.                                       *)
(***************************************************************************)
EXTENDS MatchingReads, TLC

Symmetry == Permutations(Invitations) \union Permutations(Requests)
=============================================================================
