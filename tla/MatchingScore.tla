---------------------------- MODULE MatchingScore ----------------------------
(***************************************************************************)
(* The compatibility score of two eligible students, in exact fractions.   *)
(* Weekly availability is the delicate part: slots in two local times are  *)
(* split at midnight, moved to UTC across a change of the clocks, merged   *)
(* and intersected by a walk over both lists.                              *)
(*                                                                         *)
(* A state is one question: the two students who are scored.               *)
(***************************************************************************)
EXTENDS Integers, Sequences, FiniteSets

LOCAL INSTANCE FiniteSetsExt

CONSTANTS
  Identities,   \* of interests and activities: catalog ids and custom keys
  Languages,    \* identities of languages
  Majors,       \* normalized keys of majors
  NoMajor,      \* none, or one that cannot be normalized
  Days,         \* bound: days of the reference week
  DayLength,    \* 1440 minutes, in coarser ticks
  Zones         \* time zones of the week: two offsets and when they change

VARIABLES one, two   \* the two students

-----------------------------------------------------------------------------
(* Availability as it is stored.                                           *)

Slot == [day : 1..Days, start : 0..DayLength - 1, end : 0..DayLength]

\* A slot that does not end after its start runs past midnight; the last
\* night of the week runs into its first morning.
Split(s) ==
  IF s.end > s.start THEN {s}
  ELSE {[s EXCEPT !.end = DayLength]} \cup
       (IF s.end > 0
        THEN {[day |-> IF s.day = Days THEN 1 ELSE s.day + 1, start |-> 0, end |-> s.end]}
        ELSE {})

Normalized(slots) == UNION {Split(s) : s \in slots}

\* _normalized_slots refuses two parts of a day that overlap.
Overlap(s, t) == s # t /\ s.day = t.day /\ s.start < t.end /\ t.start < s.end

\* Two entered slots may not share a part either.
Accepted(slots) ==
  /\ \A s \in slots : s.start # s.end
  /\ \A s, t \in Normalized(slots) : ~Overlap(s, t)
  /\ \A s, t \in slots : s # t => Split(s) \cap Split(t) = {}

-----------------------------------------------------------------------------
(* Availability in UTC.                                                    *)

\* Minutes of the week; the end of a day is the start of the next.
Local(day, minute) == (day - 1) * DayLength + minute

\* A local time that the change of the clocks skips or repeats has the offset
\* that was valid before it.
Utc(z, m) == m - (IF m < z.change THEN z.before ELSE z.after)

Interval(z, s) == <<Utc(z, Local(s.day, s.start)), Utc(z, Local(s.day, s.end))>>

\* An interval that a change of the clocks turns around is dropped.
Intervals(p) == {i \in {Interval(p.zone, s) : s \in Normalized(p.slots)} : i[2] > i[1]}

Earlier(i, j) == i[1] < j[1] \/ (i[1] = j[1] /\ i[2] < j[2])

\* Mutant: the last interval gives the end, not the latest one.
JoinLast(merged, i) ==
  LET last == merged[Len(merged)]
  IN  IF merged = <<>> \/ i[1] > last[2] THEN Append(merged, i)
      ELSE [merged EXCEPT ![Len(merged)] = <<last[1], i[2]>>]

Join(merged, i) ==
  LET last == merged[Len(merged)]
  IN  IF merged = <<>> \/ i[1] > last[2] THEN Append(merged, i)
      ELSE [merged EXCEPT ![Len(merged)] = <<last[1], Max({last[2], i[2]})>>]

\* The loop over the sorted intervals.
RECURSIVE MergeAll(_, _)
MergeAll(merged, rest) ==
  IF rest = {} THEN merged
  ELSE LET first == CHOOSE i \in rest : \A j \in rest \ {i} : Earlier(i, j)
       IN  MergeAll(Join(merged, first), rest \ {first})

Merged(p) == MergeAll(<<>>, Intervals(p))

RECURSIVE Duration(_)
Duration(merged) ==
  IF merged = <<>> THEN 0 ELSE merged[1][2] - merged[1][1] + Duration(Tail(merged))

\* Length of what two intervals share.
Shared(i, j) == Max({0, Min({i[2], j[2]}) - Max({i[1], j[1]})})

\* Walk over both lists: leave the interval that ends first.
RECURSIVE Common(_, _)
Common(l, r) ==
  IF l = <<>> \/ r = <<>> THEN 0
  ELSE Shared(Head(l), Head(r)) +
       (IF Head(l)[2] <= Head(r)[2] THEN Common(Tail(l), r) ELSE Common(l, Tail(r)))

-----------------------------------------------------------------------------
(* The score.                                                              *)

Fraction(n, d) == IF d = 0 THEN [n |-> 0, d |-> 1] ELSE [n |-> n, d |-> d]

Jaccard(a, b) == Fraction(Cardinality(a \cap b), Cardinality(a \cup b))

Availability(p, q) ==
  LET l == Merged(p)
      r == Merged(q)
      shared == Common(l, r)
  IN  Fraction(shared, Duration(l) + Duration(r) - shared)

ExactOverlap(a, b) == Fraction(IF a \cap b = {} THEN 0 ELSE 1, 1)

SameMajor(a, b) == Fraction(IF NoMajor \notin {a, b} /\ a = b THEN 1 ELSE 0, 1)

Weights == <<40, 35, 15, 5, 5>>

Similarities(p, q) ==
  << Jaccard(p.interests, q.interests), Jaccard(p.activities, q.activities),
     Availability(p, q), ExactOverlap(p.languages, q.languages),
     SameMajor(p.major, q.major) >>

Plus(x, y) == [n |-> x.n * y.d + y.n * x.d, d |-> x.d * y.d]

\* A missing signal gives no points; weights are not redistributed.
RECURSIVE Sum(_, _)
Sum(sim, k) ==
  IF k = 0 THEN [n |-> 0, d |-> 1]
  ELSE Plus(Sum(sim, k - 1), [n |-> Weights[k] * sim[k].n, d |-> sim[k].d])

Precise(p, q) == Sum(Similarities(p, q), 5)

RoundHalfUp(x) == x.n \div x.d + (IF 2 * (x.n % x.d) >= x.d THEN 1 ELSE 0)

Score(p, q) == RoundHalfUp(Precise(p, q))

-----------------------------------------------------------------------------

\* Availabilities of at most two slots (bound).
Availabilities == {slots \in {{}} \cup {{s, t} : s, t \in Slot} : Accepted(slots)}

Person(slots, zone) ==
  [interests |-> {}, activities |-> {}, languages |-> {}, major |-> NoMajor,
   slots |-> slots, zone |-> zone]

\* Every pair of weeks, and every pair of the other signals.
InitWeeks ==
  LET people == {Person(s, z) : s \in Availabilities, z \in Zones}
  IN  one \in people /\ two \in people

WithSignals(p) ==
  {[p EXCEPT !.interests = i, !.activities = a, !.languages = l, !.major = m] :
     i \in SUBSET Identities, a \in {{}, Identities},
     l \in SUBSET Languages, m \in Majors \cup {NoMajor}}

InitSignals ==
  LET zone == CHOOSE z \in Zones : TRUE
      short == [day |-> 1, start |-> 0, end |-> 1]
      long == [short EXCEPT !.end = DayLength]
  IN  /\ one \in UNION {WithSignals(Person(s, zone)) : s \in {{}, {long}}}
      /\ two \in WithSignals(Person({short}, zone))

Init == InitWeeks \/ InitSignals

-----------------------------------------------------------------------------

\* The UTC minutes a student is free: those of each slot, however they touch,
\* overlap after a change of the clocks or wrap around the week.
FreeMinutes(p) == UNION {i[1]..i[2] - 1 : i \in Intervals(p)}

\* Merging and walking the lists counts every common minute once.
CountedOnce ==
  /\ Duration(Merged(one)) = Cardinality(FreeMinutes(one))
  /\ Common(Merged(one), Merged(two)) = Cardinality(FreeMinutes(one) \cap FreeMinutes(two))

\* Both students are shown the same score, it is between 0 and 100, and what
\* is displayed is at most half a point away from the exact value.
Fair ==
  LET exact == Precise(one, two)
      shown == RoundHalfUp(exact)
  IN  /\ shown = Score(two, one)
      /\ shown \in 0..100
      /\ 2 * (shown * exact.d - exact.n) \in (-exact.d)..exact.d

ScoresAreExact == CountedOnce /\ Fair
=============================================================================
