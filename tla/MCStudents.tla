------------------------------ MODULE MCStudents ------------------------------
(***************************************************************************)
(* What one student's pages read and write, for TLC: the chat with a       *)
(* buddy and the score of a candidate.  They share no state: a behaviour   *)
(* is one of the page chosen in its first state.                           *)
(***************************************************************************)
EXTENDS BuddyChat, TLC

CONSTANTS
  ann, bob, s1, s2, a1,  \* the chat: both buddies, two sends, an acknowledgement
  NoMajor

VARIABLES
  page,
  one, two

\* Ann sends with two keys, bob reads.
MCReader == {bob}
MCIds == 1..3
MCKeys == {1, 2}
MCFromAnn == [k \in MCKeys |-> ann]
MCBodies == {1}
MCSends == {s1, s2}
MCAcks == {a1}
MCBobReads == [a \in MCAcks |-> bob]

\* A week of two days; clocks that never change, skip and repeat hours.
Scores == INSTANCE MatchingScore WITH
  Identities <- {1, 2}, Languages <- {1}, Majors <- {1}, Days <- 2, DayLength <- 3,
  Zones <- {[before |-> 0, after |-> 0, change |-> 0],
            [before |-> 0, after |-> 3, change |-> 4],
            [before |-> 1, after |-> 0, change |-> 3]}

scoreVars == <<one, two>>
pageVars == <<page, vars, scoreVars>>

\* The score is a function of two students and has no steps.
PageInit ==
  /\ page \in {"chat", "score"}
  /\ Init
  /\ IF page = "score" THEN Scores!Init ELSE one = 0 /\ two = 0

PageNext == page = "chat" /\ Next /\ UNCHANGED <<page, scoreVars>>

PageSpec == PageInit /\ [][PageNext]_pageVars

ScoresAreExact == page = "score" => Scores!ScoresAreExact

Symmetry == Permutations(MCSends)
=============================================================================
