------------------------------ MODULE Sessions ------------------------------
(***************************************************************************)
(* The clocks of a portal session (accounts/session_policy.py): when it was*)
(* authenticated, when it last was active, and the expiry of its row, with *)
(* several requests of one browser under way.  Whose the session is, and   *)
(* what revokes it, is the matter of module Accounts; here the account is  *)
(* in order or not.                                                        *)
(***************************************************************************)
EXTENDS Naturals

CONSTANTS
  Tabs,           \* requests of the browser that may be under way at once
  Inactivity,     \* PORTAL_SESSION_INACTIVITY_SECONDS
  Absolute,       \* PORTAL_SESSION_ABSOLUTE_SECONDS and SESSION_COOKIE_AGE
  Horizon,        \* bound on the clock
  MaxLogins       \* bound on logins

ASSUME SessionsAssumption ==
  {Inactivity, Absolute, MaxLogins} \subseteq Nat /\ Horizon \in Nat \ {0}

VARIABLES
  clock,
  account,        \* the user exists, is active and has one of the roles
  stored,         \* the session the browser's cookie names
  tab,            \* [Tabs -> a request, and the session it loaded]
  history         \* what happened: when it logged in and was last served

sessionsVars == <<clock, account, stored, tab, history>>

\* The clock begins at 1; 0 is a key that is not in the session.
Never == 0
NoSession == [auth |-> Never, last |-> Never, expires |-> 0, serial |-> 0]
NoRequest == [pc |-> "idle", held |-> NoSession, touch |-> FALSE, changed |-> FALSE, code |-> 0]

SessionsInit ==
  /\ clock = 1
  /\ account = TRUE
  /\ stored = NoSession
  /\ tab = [t \in Tabs |-> NoRequest]
  /\ history = [logins |-> 0, login |-> 1, served |-> 1, technical |-> FALSE]

Stands(t, pc) == tab[t].pc = pc
Becomes(t, request) == tab' = [tab EXCEPT ![t] = request]

ClockTicks ==
  /\ clock < Horizon
  /\ clock' = clock + 1
  /\ UNCHANGED <<account, stored, tab, history>>

\* Deactivated, deleted or given no role, or in order again.
AccountChanges ==
  /\ account' = ~account
  /\ UNCHANGED <<clock, stored, tab, history>>

\* login_view: login makes a new session and establish_session_policy its clocks.
\* The technical AdminSite logs in without them.
Login ==
  /\ stored = NoSession \/ stored.expires <= clock
  /\ account
  /\ history.logins < MaxLogins
  /\ \E technical \in BOOLEAN :
       /\ stored' = [auth |-> IF technical THEN Never ELSE clock, last |-> IF technical THEN Never ELSE clock,
                  expires |-> clock + Absolute, serial |-> history.logins + 1]
       /\ history' = [logins |-> history.logins + 1, login |-> clock, served |-> clock, technical |-> technical]
  /\ UNCHANGED <<clock, account, tab>>

\* Mutated form: the last second counts as in time.
OverdueLate(s) == clock - s.last > Inactivity \/ clock - s.auth >= Absolute

Overdue(s) == clock - s.last >= Inactivity \/ clock - s.auth >= Absolute

Unestablished(s) == s.auth = Never \/ s.last = Never

Established(s) == [s EXCEPT !.auth = clock, !.last = clock]

\* A request whose session has not expired: the middleware of the framework loads
\* it, the one of the policy reads the account and compares the clocks.
Arrives(t) == Stands(t, "idle") /\ stored # NoSession /\ clock < stored.expires

\* _expire: logout deletes the session, and the reply leads to the login page.
Expire(t) ==
  /\ Arrives(t)
  /\ ~account \/ (~Unestablished(stored) /\ Overdue(stored))
  /\ stored' = NoSession
  /\ UNCHANGED <<clock, account, tab, history>>

Admit(t) ==
  /\ Arrives(t)
  /\ account
  /\ \/ /\ Unestablished(stored)
        /\ Becomes(t, [NoRequest EXCEPT !.pc = "view", !.held = Established(stored), !.changed = TRUE])
        /\ history' = [history EXCEPT !.served = clock]
     \/ /\ ~Unestablished(stored) /\ ~Overdue(stored)
        /\ Becomes(t, [NoRequest EXCEPT !.pc = "view", !.held = stored, !.touch = TRUE])
        /\ UNCHANGED history
  /\ UNCHANGED <<clock, account, stored>>

\* The activity clock moves with a response that is no error.
Slides(touch, code) == touch /\ code < 400

Respond(t) ==
  /\ Stands(t, "view")
  /\ \E code \in {200, 404, 500} :
       Becomes(t, [tab[t] EXCEPT
         !.pc = "save", !.code = code,
         !.held = IF Slides(tab[t].touch, code) THEN [@ EXCEPT !.last = clock] ELSE @,
         !.changed = @ \/ Slides(tab[t].touch, code)])
  /\ UNCHANGED <<clock, account, stored, history>>

\* A changed session is written back whole, unless the reply is a server error
\* or its row is gone, which makes the reply a 400.
WriteBack(t) ==
  LET writes == /\ tab[t].changed /\ tab[t].code < 500
                /\ stored.serial = tab[t].held.serial
  IN /\ Stands(t, "save")
     /\ stored' = IF writes THEN [tab[t].held EXCEPT !.expires = clock + Absolute] ELSE stored
     /\ history' = IF writes /\ tab[t].code < 400 THEN [history EXCEPT !.served = clock] ELSE history
     /\ Becomes(t, NoRequest)
     /\ UNCHANGED <<clock, account>>

Logout(t) ==
  /\ Stands(t, "view")
  /\ stored' = IF stored.serial = tab[t].held.serial THEN NoSession ELSE stored
  /\ Becomes(t, NoRequest)
  /\ UNCHANGED <<clock, account, history>>

SessionsNext ==
  \/ ClockTicks \/ AccountChanges \/ Login
  \/ \E t \in Tabs : Expire(t) \/ Admit(t) \/ Respond(t) \/ WriteBack(t) \/ Logout(t)

SessionsSpec == SessionsInit /\ [][SessionsNext]_sessionsVars

-----------------------------------------------------------------------------
Times == 0 .. Horizon

SessionsTypeOK ==
  /\ clock \in Times /\ account \in BOOLEAN
  /\ stored.auth \in Times /\ stored.last \in Times /\ stored.expires \in 0 .. Horizon + Absolute
  /\ \A t \in Tabs : tab[t].pc \in {"idle", "view", "save"}
  /\ history.login \in Times /\ history.served \in Times

\* ACTION PROPERTY: a request is let in only less than the inactivity limit after
\* its session logged in or was last sent a page that is no error, and less than
\* the absolute limit after it logged in, or twice that for a login at the
\* AdminSite, whose clocks begin with its first page; although requests of one
\* session overlap and write all of it back (session_policy.py __call__).
InTime ==
  \A t \in Tabs :
    tab[t].pc = "idle" /\ tab'[t].pc = "view" =>
      /\ Unestablished(stored) \/ clock - history.served < Inactivity
      /\ clock - history.login < IF history.technical THEN 2 * Absolute ELSE Absolute

LetInInTime == [][InTime]_sessionsVars

=============================================================================
