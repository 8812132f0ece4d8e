----------------------------- MODULE MCChatCall -----------------------------
(***************************************************************************)
(* Values for TLC: requests of a client's turn and of other callers.       *)
(***************************************************************************)
EXTENDS ChatCall

CONSTANTS k1, k2

\* A turn of the portal: the principal is the client with the OPS claim.
Turn == [role |-> "CLIENT", ops |-> TRUE, trusted |-> TRUE, own |-> TRUE,
         human |-> {}, protected |-> {}, lookup |-> FALSE, protocol |-> FALSE]

Person(s, a, p, o) == [state |-> s, action |-> a, reason |-> TRUE,
                       package |-> p, owner |-> o]
Escalating(ask0, h) == [ask0 EXCEPT !.human = {h}]
Operator == [Turn EXCEPT !.role = "SUPPORT_AGENT"]

\* A protocol lookup, a message the patterns block with two events, and a turn
\* sent with the wrong token.
Lookup == [Turn EXCEPT !.lookup = TRUE]
Protected == [Turn EXCEPT !.protected = {k1, k2}]
Untrusted == [Turn EXCEPT !.trusted = FALSE]
SomeTurns == {Lookup, Protected, Untrusted}

\* Principals the API does not admit, and one without the OPS claim.
Principals == {[Turn EXCEPT !.own = FALSE],
               [Turn EXCEPT !.role = "ADMIN"], [Turn EXCEPT !.ops = FALSE]}

\* Requests about a person, of a client and of an operator.
Escalations ==
  {Escalating(Turn, Person("BOT", "OFFER", "none", "none")),
   Escalating(Turn, Person("WAITING_CONFIRMATION", "CONFIRM", "unconfirmed", "none")),
   Escalating(Turn, Person("HUMAN", "NONE", "none", "other")),
   Escalating(Turn, Person("HUMAN", "OFFER", "none", "other")),
   Escalating(Turn, Person("WAITING_HUMAN", "ACCEPT", "confirmed", "none")),
   Escalating(Operator, Person("WAITING_HUMAN", "ACCEPT", "confirmed", "none")),
   Escalating(Operator, Person("HUMAN", "RESOLVE", "none", "self")),
   Escalating(Operator, Person("HUMAN", "RESOLVE", "none", "other"))}

FollowUpTurn == [Turn EXCEPT !.protocol = TRUE]
AnyTurn == {Turn, FollowUpTurn} \cup SomeTurns
AnyRequest == AnyTurn \cup Principals \cup Escalations
NoRequests == {}

=============================================================================
