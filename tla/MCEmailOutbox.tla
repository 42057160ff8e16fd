--------------------------- MODULE MCEmailOutbox ---------------------------
(* Two mails and two workers of EmailOutbox for TLC. *)
EXTENDS EmailOutbox

CONSTANTS m1, m2, e1, p1   \* model values
=============================================================================
