---------------------------- MODULE MatchingReads ----------------------------
(***************************************************************************)
(* What the matching page shows a user of the state of Matching: the       *)
(* invitations received, the invitations sent, and the current buddies     *)
(* (services/invitation_reads.py, current_buddies.py).  Each list is a     *)
(* query over committed rows, with nothing between them to keep them       *)
(* consistent.  The administrator's page counts the same rows by other     *)
(* queries (services/admin_matching.py).  Pages and the public fields of a *)
(* profile are left out.                                                   *)
(***************************************************************************)
EXTENDS Matching

\* effective_pending_predicate: the expiry job need not have come by.
EffectivelyPending(i) == IsPending(i) /\ invitation[i].expires > now

\* _visibility_conditions: a sender keeps accepted invitations until they are hidden.
Visible(view, u) ==
    IF view = "incoming"
    THEN {i \in Invitations : invitation[i].recipient = u /\ EffectivelyPending(i)}
    ELSE {i \in Invitations :
            /\ invitation[i].sender = u
            /\ \/ EffectivelyPending(i)
               \/ invitation[i].status = "ACCEPTED" /\ ~invitation[i].hidden}

\* The rows of a view, each with the user on its other side.
InvitationRows(view, u) ==
    {[id |-> i, status |-> invitation[i].status,
      participant |-> IF view = "incoming" THEN invitation[i].sender
                                           ELSE invitation[i].recipient]
        : i \in Visible(view, u)}

Incoming(u) == InvitationRows("incoming", u)
Sent(u) == InvitationRows("sent", u)

\* Mutant: the owner is looked for among the first participants only.
CurrentBuddiesOfFirst(u) == {m \in matches : m.one = u}

CurrentBuddies(u) == {m \in matches : u \in MatchPair(m)}

OtherParticipant(m, u) == IF m.one = u THEN m.two ELSE m.one

\* Without a conversation the whole page fails (CurrentBuddyReadStateError).
Readable(m) == m.invitation \in conversations

\* What a second accept of an invitation answers with; it fails without either.
CompletedResult(i) ==
    {[invitation |-> i, match |-> m] : m \in {n \in matches :
        n.invitation = i /\ i \in conversations}}

-----------------------------------------------------------------------------
(* The administrator's page.  Its statements do not share a snapshot; each  *)
(* is a function of the state it reads.                                    *)

\* The rows a user is the first participant of, and those they are the second of.
BuddyCount(u) ==
    Cardinality({m \in matches : m.one = u}) + Cardinality({m \in matches : m.two = u})

\* A lapsed row counts as expired before the expiry job has come by.
CountedAs(status) ==
    CASE status = "PENDING" -> {i \in Invitations : EffectivelyPending(i)}
      [] status = "EXPIRED" -> {i \in Invitations :
                                  invitation[i].status = "EXPIRED" \/ IsDue(i, now)}
      [] OTHER -> {i \in Invitations : invitation[i].status = status}

MatchingStats ==
    [participants |-> Cardinality(Users),
     matches |-> Cardinality(matches),
     zeroBuddies |-> Cardinality({u \in Users : BuddyCount(u) = 0}),
     invitations |-> [s \in Terminal \union {"PENDING"} |-> Cardinality(CountedAs(s))]]

\* The list of participants under its filters; "any" is no filter.
ListedParticipants(type, zeroBuddiesOnly) ==
    {[user |-> u, type |-> account[u].type, buddies |-> BuddyCount(u)]
        : u \in {v \in Users : /\ type \in {"any", account[v].type}
                                /\ zeroBuddiesOnly => BuddyCount(v) = 0}}

------------------------------------------------------------------------------

\* A user sees another in one place at most: one invitation to answer or to
\* wait for, or one buddy with a conversation to open.  Both see the same: an
\* accepted invitation that the sender still sees is a buddy on both pages, and
\* the one that the recipient's repeated accept is answered with.
\* list_incoming_invitations, list_sent_invitations and list_current_buddies
\* read three tables that only the requests of Matching keep together.
OnePlace ==
    \A u \in Users : \A v \in Users \ {u} :
        LET with(rows) == {x \in rows : x.participant = v}
            open == {x \in with(Incoming(u)) \union with(Sent(u)) : x.status = "PENDING"}
            buddies(w) == {m \in CurrentBuddies(w) : OtherParticipant(m, w) \in {u, v}}
        IN  /\ Cardinality(open) + Cardinality(buddies(u)) <= 1
            /\ buddies(u) = buddies(v)
            /\ \A m \in buddies(u) : Readable(m)
            /\ \A x \in with(Sent(u)) : x.status = "ACCEPTED" =>
                    /\ buddies(u) # {}
                    /\ \E done \in CompletedResult(x.id) : done.match \in buddies(v)

\* What the administrator reads adds up, and to what the users see: every
\* invitation is counted under one status, the pending ones are those somebody
\* can answer, the accepted ones are the matches, and the participants listed
\* as without a buddy are those whose own list is empty.
CountsAgree ==
    LET stats == MatchingStats
        n == stats.invitations
    IN  /\ n["PENDING"] + n["ACCEPTED"] + n["DECLINED"] + n["CANCELLED"] + n["EXPIRED"]
             = Cardinality({i \in Invitations : invitation[i].status # "NONE"})
        /\ n["PENDING"] = Cardinality(UNION {Incoming(u) : u \in Users})
        /\ n["ACCEPTED"] = stats.matches
        /\ stats.zeroBuddies = Cardinality(ListedParticipants("any", TRUE))
        /\ \A p \in ListedParticipants("any", FALSE) :
                p.buddies = Cardinality(CurrentBuddies(p.user))
        /\ \A p \in ListedParticipants("any", TRUE) : CurrentBuddies(p.user) = {}

\* Both pages agree on every relationship.
ListsAgree == OnePlace /\ CountsAgree

=============================================================================
