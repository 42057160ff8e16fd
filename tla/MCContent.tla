------------------------------ MODULE MCContent ------------------------------
\* One service at a time, for TLC: two recaps of which one may be published,
\* one photo each with two attempts; two events for a slider of one, with a date
\* that may have passed or none; an owner of profile photos; one tab beside other
\* clients of its account, with an entry and three keys.
EXTENDS Content, TLC

CONSTANTS
  u1, o1,                \* an upload id, an owner
  t1, i1, k1, k2, k3,    \* a tab, a catalog entry, normalized keys
  r1, r2                 \* the requests in progress

MCRecapIds == 1..2
MCUploads == {u1}
MCRequests == {r1, r2}
MCEvents == 1..2
MCStarts == {0}
MCWritten == {"whole", "blank"}
MCCoverIds == 1..2
MCPictures == 1..3
MCOwners == {o1}
MCTabs == {t1}
MCItems == {i1}
MCKeys == {k1, k2, k3}

Symmetry == Permutations(MCRequests)
=============================================================================
