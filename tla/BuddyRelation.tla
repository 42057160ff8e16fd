--------------------------- MODULE BuddyRelation ---------------------------
(***************************************************************************)
(* What the matching domain promises about every pair of users, whatever   *)
(* the requests in flight: one of them proposes, the proposal lapses or is *)
(* taken over by a newer one, or it is consented to; buddies stay buddies, *)
(* one step changes one pair unless it is the expiry job letting proposals *)
(* lapse, and nobody becomes a buddy without a standing proposal.          *)
(***************************************************************************)
EXTENDS Integers, FiniteSets

CONSTANTS Users, Nobody

VARIABLE relation   \* for every pair of users

Pairs == {p \in SUBSET Users : Cardinality(p) = 2}

None == [state |-> "none", by |-> Nobody]
Buddies == [state |-> "buddies", by |-> Nobody]
Proposed(u) == [state |-> "proposed", by |-> u]

Init == relation = [p \in Pairs |-> None]

\* A proposal by one of the two; a lapsed one may be replaced in one step.
Propose(p, u) ==
    /\ u \in p
    /\ relation[p] # Buddies
    /\ relation' = [relation EXCEPT ![p] = Proposed(u)]

\* Declined or cancelled (one pair), or expired (any number of pairs).
Lapse(S) ==
    /\ \A p \in S : relation[p].state = "proposed"
    /\ relation' = [p \in Pairs |-> IF p \in S THEN None ELSE relation[p]]

Consent(p) ==
    /\ relation[p].state = "proposed"
    /\ relation' = [relation EXCEPT ![p] = Buddies]

Next ==
    \/ \E p \in Pairs : \E u \in p : Propose(p, u)
    \/ \E S \in SUBSET Pairs : Lapse(S)
    \/ \E p \in Pairs : Consent(p)

Spec == Init /\ [][Next]_relation
=============================================================================
