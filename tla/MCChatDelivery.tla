--------------------------- MODULE MCChatDelivery ---------------------------
(* Instances of ChatDelivery for TLC. *)
EXTENDS ChatDelivery, TLC

CONSTANTS ann, bob

MCViews == {ann, bob}
MCKeys == {1}
MCAuthor == [k \in MCKeys |-> ann]
MCFaults == {"break", "redis", "limit", "http", "fetch", "end"}
=============================================================================
