-------------------------- MODULE MCRefreshSessions --------------------------
(***************************************************************************)
(* Two browsers for TLC.  `alone': one tab, closed at first, three calls   *)
(* (the administrator's sign-in for both), no lost message.  `shared': two *)
(* loaded tabs, one call each, every request and answer may be lost.       *)
(***************************************************************************)
EXTENDS RefreshSessions

CONSTANTS t1, t2

MCTabs == {t1, t2}
MCAccounts == {"ann", "bob"}
MCAdmins == {"ann"}
MCFamilies == 1..3

Alone ==
  [tabs |-> {t1}, accounts |-> MCAccounts, calls |-> 3, open |-> FALSE, lossy |-> FALSE,
   ops |-> {"bootstrap", "refresh", "adminLogin", "logout", "reload"}]
Shared ==
  [tabs |-> MCTabs, accounts |-> {"bob"}, calls |-> 1, open |-> TRUE, lossy |-> TRUE,
   ops |-> {"bootstrap", "refresh", "login", "logout"}]
MCBrowsers == {Alone, Shared}
=============================================================================
