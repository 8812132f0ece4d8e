--------------------------- MODULE Services_proofs ---------------------------
(***************************************************************************)
(* Proofs about the services beside the chat and the portal: the sessions  *)
(* of a browser, the seed of the operational tables, an inquiry of the     *)
(* support agent, an evaluation; and the types of them all together with   *)
(* those of the knowledge base (Knowledge_proofs).                         *)
(***************************************************************************)
EXTENDS MCServices, Knowledge_proofs

-----------------------------------------------------------------------------
(* The clocks of a session.                                                *)

SessionRows == [auth : Nat, last : Nat, expires : Nat, serial : Nat]
SessionRequests ==
  [pc : {"idle", "view", "save"}, held : SessionRows, touch : BOOLEAN,
   changed : BOOLEAN, code : {0, 200, 404, 500}]
Histories == [logins : Nat, login : Nat, served : Nat, technical : BOOLEAN]

SessionsShape ==
  /\ clock \in 1 .. Horizon /\ account \in BOOLEAN
  /\ stored \in SessionRows /\ tab \in [Tabs -> SessionRequests]
  /\ history \in Histories
  /\ history.login \in 1 .. history.served /\ history.served <= clock

\* The session of the last login: NoSession and a session that was replaced are not.
Latest(s) == s.serial # 0 /\ s.serial = history.logins

\* Its clocks: they began with the login, or with the first page after it.
Genuine(s) ==
  /\ ~Unestablished(s)
  /\ s.auth <= clock /\ s.last <= clock /\ s.expires <= Horizon + Absolute
  /\ Latest(s) => IF history.technical THEN s.auth < history.login + Absolute
                  ELSE s.auth = history.login

\* The row, and what a request carries of it; only a request that ends with a
\* page has moved the activity clock past what the browser was served.
StoredClocks ==
  \/ stored = NoSession
  \/ /\ Latest(stored) /\ stored.last <= history.served
     /\ Genuine(stored)
        \/ /\ history.technical /\ stored.auth = Never /\ stored.last = Never
           /\ stored.expires = history.login + Absolute

HeldClocks(t) ==
  tab[t].pc # "idle" =>
    /\ tab[t].held.serial \in 1 .. history.logins
    /\ Genuine(tab[t].held)
    /\ \/ ~Latest(tab[t].held)
       \/ tab[t].held.last <= history.served
       \/ tab[t].pc = "save" /\ tab[t].code < 400

SessionsInv == SessionsShape /\ StoredClocks /\ \A t \in Tabs : HeldClocks(t)

LEMMA SessionsInitHolds == SessionsInit => SessionsInv
<1> SUFFICES ASSUME SessionsInit
             PROVE  SessionsInv
  OBVIOUS
<1>1. SessionsShape
  BY SessionsAssumption
  DEF SessionsInit, SessionsShape, SessionRows, SessionRequests, Histories, NoSession,
      NoRequest, Never
<1>2. QED
  BY <1>1 DEF SessionsInit, SessionsInv, StoredClocks, HeldClocks, NoRequest

\* Time passes: no clock of a session moves.
LEMMA ClockKeepsSessions ==
  ASSUME SessionsInv, clock' \in clock .. Horizon, account' \in BOOLEAN,
         UNCHANGED <<stored, tab, history>>
  PROVE  SessionsInv'
<1>1. SessionsShape'
  BY SessionsAssumption DEF SessionsInv, SessionsShape, Histories
<1>2. \A s \in SessionRows : Genuine(s) => Genuine(s)'
  BY DEF Genuine, Unestablished, Latest, SessionsInv, SessionsShape, SessionRows
<1>3. StoredClocks'
  BY <1>2 DEF SessionsInv, SessionsShape, StoredClocks, Latest
<1>4. ASSUME NEW t \in Tabs
      PROVE  HeldClocks(t)'
  <2>1. tab[t].held \in SessionRows /\ HeldClocks(t)
    BY DEF SessionsInv, SessionsShape, SessionRequests
  <2>2. QED
    BY <1>2, <2>1 DEF HeldClocks, Latest
<1>5. QED
  BY <1>1, <1>3, <1>4 DEF SessionsInv

LEMMA LoginKeepsSessions ==
  ASSUME SessionsInv, Login
  PROVE  SessionsInv'
<1>1. PICK technical \in BOOLEAN :
        /\ stored' = [auth |-> IF technical THEN Never ELSE clock,
                      last |-> IF technical THEN Never ELSE clock,
                      expires |-> clock + Absolute, serial |-> history.logins + 1]
        /\ history' = [logins |-> history.logins + 1, login |-> clock, served |-> clock,
                       technical |-> technical]
  BY DEF Login
<1>2. SessionsShape'
  BY <1>1, SessionsAssumption
  DEF Login, SessionsInv, SessionsShape, SessionRows, Histories, Never
<1>3. StoredClocks'
  BY <1>1, SessionsAssumption
  DEF Login, SessionsInv, SessionsShape, StoredClocks, Genuine, Unestablished, Latest, Never,
      Histories
<1>4. ASSUME NEW t \in Tabs
      PROVE  HeldClocks(t)'
  <2>1. tab[t].held \in SessionRows /\ HeldClocks(t) /\ tab' = tab /\ clock' = clock
    BY DEF SessionsInv, SessionsShape, SessionRequests, Login
  <2>2. tab[t].pc # "idle" => ~Latest(tab[t].held)'
    BY <1>1, <2>1 DEF HeldClocks, Latest, SessionsInv, SessionsShape, Histories
  <2>3. QED
    BY <1>1, <2>1, <2>2
    DEF HeldClocks, Genuine, Unestablished, Latest, SessionsInv, SessionsShape, Histories
<1>5. QED
  BY <1>2, <1>3, <1>4 DEF SessionsInv

\* The session ends: by expiry, or by logout of the request that ends with it.
LEMMA EndKeepsSessions ==
  ASSUME SessionsInv, stored' \in {stored, NoSession},
         tab' = tab \/ \E t \in Tabs : Becomes(t, NoRequest),
         UNCHANGED <<clock, account, history>>
  PROVE  SessionsInv'
<1>1. \A t \in Tabs : tab'[t] = tab[t] \/ tab'[t] = NoRequest
  BY DEF Becomes, SessionsInv, SessionsShape
<1>2. SessionsShape'
  <2>1. stored' \in SessionRows /\ NoRequest \in SessionRequests
    BY DEF SessionsInv, SessionsShape, SessionRows, SessionRequests, NoSession, NoRequest, Never
  <2>2. tab' \in [Tabs -> SessionRequests]
    BY <2>1 DEF SessionsInv, SessionsShape, Becomes
  <2>3. QED
    BY <2>1, <2>2 DEF SessionsInv, SessionsShape
<1>3. StoredClocks'
  BY DEF SessionsInv, StoredClocks, Latest, Genuine, Unestablished
<1>4. \A t \in Tabs : HeldClocks(t)'
  BY <1>1 DEF SessionsInv, HeldClocks, Latest, Genuine, Unestablished, NoRequest
<1>5. QED
  BY <1>2, <1>3, <1>4 DEF SessionsInv

\* A request is let in with a session whose clocks are genuine.
LEMMA LetInKeepsSessions ==
  ASSUME SessionsInv, NEW t \in Tabs, NEW request \in SessionRequests,
         request.pc = "view", Becomes(t, request), UNCHANGED <<clock, account, stored>>,
         request.held.serial \in 1 .. history.logins,
         NEW served \in {history.served, clock}, history' = [history EXCEPT !.served = served],
         Genuine(request.held), request.held.last <= served
  PROVE  SessionsInv'
<1>1. /\ clock \in Nat /\ history.served \in Nat /\ history.login \in Nat
      /\ history.served <= served /\ served <= clock /\ served \in Nat
      /\ history \in Histories
  BY DEF SessionsInv, SessionsShape, Histories
<1>2. /\ history' \in Histories
      /\ history'.logins = history.logins /\ history'.login = history.login
      /\ history'.technical = history.technical /\ history'.served = served
  BY <1>1 DEF Histories
<1>3. /\ tab'[t] = request /\ tab' \in [Tabs -> SessionRequests]
      /\ \A s \in Tabs \ {t} : tab'[s] = tab[s]
  BY DEF Becomes, SessionsInv, SessionsShape
<1>4. SessionsShape'
  BY <1>1, <1>2, <1>3 DEF SessionsInv, SessionsShape
<1>5. \A s \in SessionRows : (Latest(s) <=> Latest(s)') /\ (Genuine(s) => Genuine(s)')
  BY <1>2 DEF Latest, Genuine, Unestablished
<1>6. StoredClocks'
  BY <1>1, <1>2, <1>5 DEF SessionsInv, SessionsShape, StoredClocks, SessionRows
<1>7. ASSUME NEW s \in Tabs
      PROVE  HeldClocks(s)'
  <2>1. CASE s = t
    BY <1>2, <1>3, <1>5, <2>1 DEF HeldClocks, SessionRequests
  <2>2. CASE s # t
    <3>1. tab'[s] = tab[s] /\ HeldClocks(s) /\ tab[s].held \in SessionRows
          /\ tab[s].held.last \in Nat
      BY <1>3, <2>2 DEF SessionsInv, SessionsShape, SessionRequests, SessionRows
    <3>2. QED
      BY <1>1, <1>2, <1>5, <3>1 DEF HeldClocks
  <2>3. QED
    BY <2>1, <2>2
<1>8. QED
  BY <1>4, <1>6, <1>7 DEF SessionsInv

LEMMA AdmitKeepsSessions ==
  ASSUME SessionsInv, NEW t \in Tabs, Admit(t)
  PROVE  SessionsInv'
<1>1. stored # NoSession /\ clock < stored.expires
  BY DEF Admit, Arrives
<1>2. /\ stored \in SessionRows /\ Latest(stored) /\ history \in Histories
      /\ stored.last <= history.served /\ clock \in 1 .. Horizon
      /\ history.login \in 1 .. history.served /\ history.served <= clock
  BY <1>1 DEF SessionsInv, SessionsShape, StoredClocks
<1>3. stored.serial \in 1 .. history.logins
  BY <1>2 DEF Latest, SessionRows, Histories
<1>4. CASE Unestablished(stored)
  <2> DEFINE held == Established(stored)
             request == [NoRequest EXCEPT !.pc = "view", !.held = held, !.changed = TRUE]
  <2>1. Becomes(t, request) /\ history' = [history EXCEPT !.served = clock]
    BY <1>4 DEF Admit
  <2>2. /\ held \in SessionRows /\ held.serial = stored.serial
        /\ held.auth = clock /\ held.last = clock /\ held.expires = stored.expires
    <3>1. clock \in Nat
      BY <1>2, SessionsAssumption
    <3>2. QED
      BY <1>2, <3>1 DEF Established, SessionRows
  <2>3. /\ request \in SessionRequests /\ request.pc = "view" /\ request.held = held
    BY <2>2 DEF NoRequest, SessionRequests
  <2>4. history.technical /\ stored.expires = history.login + Absolute
    BY <1>1, <1>4 DEF SessionsInv, StoredClocks, Genuine
  <2> HIDE DEF held
  <2>5. Genuine(held)
    <3>1. /\ held.auth = clock /\ held.last = clock /\ clock # 0
          /\ clock < history.login + Absolute
          /\ stored.expires <= Horizon + Absolute
      BY <1>1, <1>2, <2>2, <2>4, SessionsAssumption DEF Histories
    <3>2. QED
      BY <1>2, <2>2, <2>4, <3>1 DEF Genuine, Unestablished, Never
  <2> HIDE DEF request
  <2>6. QED
    BY <1>2, <1>3, <2>1, <2>2, <2>3, <2>5, LetInKeepsSessions DEF Admit
<1>5. CASE ~Unestablished(stored)
  <2> DEFINE request == [NoRequest EXCEPT !.pc = "view", !.held = stored, !.touch = TRUE]
  <2>1. Becomes(t, request) /\ history' = history
    BY <1>5 DEF Admit
  <2>2. /\ request \in SessionRequests /\ request.pc = "view" /\ request.held = stored
    BY <1>2 DEF NoRequest, SessionRequests
  <2>3. Genuine(stored)
    BY <1>1, <1>5 DEF SessionsInv, StoredClocks, Unestablished
  <2>4. history' = [history EXCEPT !.served = history.served]
    BY <1>2, <2>1 DEF Histories
  <2> HIDE DEF request
  <2>5. QED
    BY <1>2, <1>3, <2>1, <2>2, <2>3, <2>4, LetInKeepsSessions DEF Admit
<1>6. QED
  BY <1>4, <1>5

LEMMA RespondKeepsSessions ==
  ASSUME SessionsInv, NEW t \in Tabs, Respond(t)
  PROVE  SessionsInv'
<1>1. PICK code \in {200, 404, 500} :
        Becomes(t, [tab[t] EXCEPT
          !.pc = "save", !.code = code,
          !.held = IF Slides(tab[t].touch, code) THEN [@ EXCEPT !.last = clock] ELSE @,
          !.changed = @ \/ Slides(tab[t].touch, code)])
  BY DEF Respond
<1>2. UNCHANGED <<clock, account, stored, history>> /\ tab[t].pc = "view"
  BY DEF Respond, Stands
<1>3. /\ tab[t] \in SessionRequests /\ tab[t].held \in SessionRows /\ HeldClocks(t)
      /\ clock \in 1 .. Horizon
  BY DEF SessionsInv, SessionsShape, SessionRequests
<1> DEFINE slides == Slides(tab[t].touch, code)
           held == IF slides THEN [tab[t].held EXCEPT !.last = clock] ELSE tab[t].held
           changed == tab[t].changed \/ slides
           request == [tab[t] EXCEPT !.pc = "save", !.code = code, !.held = held,
                                     !.changed = changed]
<1>4. changed \in BOOLEAN /\ (slides => code < 400)
  BY <1>1, <1>3 DEF Slides, SessionRequests
<1>5. /\ held \in SessionRows /\ held.serial = tab[t].held.serial
      /\ held.auth = tab[t].held.auth /\ held.expires = tab[t].held.expires
      /\ IF slides THEN held.last = clock ELSE held = tab[t].held
  BY <1>3 DEF SessionRows
<1> HIDE DEF slides, held, changed
<1>6. /\ request \in SessionRequests /\ request.pc = "save" /\ request.held = held
      /\ request.code = code
  <2>1. \A q \in SessionRequests : /\ [q EXCEPT !.pc = "save"] \in SessionRequests
                                   /\ [q EXCEPT !.pc = "save"].pc = "save"
    BY DEF SessionRequests
  <2>2. \A q \in SessionRequests : /\ [q EXCEPT !.code = code] \in SessionRequests
                                   /\ [q EXCEPT !.code = code].code = code
                                   /\ [q EXCEPT !.code = code].pc = q.pc
    BY <1>1 DEF SessionRequests
  <2>3. \A q \in SessionRequests : /\ [q EXCEPT !.held = held] \in SessionRequests
                                   /\ [q EXCEPT !.held = held].held = held
                                   /\ [q EXCEPT !.held = held].code = q.code
                                   /\ [q EXCEPT !.held = held].pc = q.pc
    BY <1>5 DEF SessionRequests
  <2>4. \A q \in SessionRequests : /\ [q EXCEPT !.changed = changed] \in SessionRequests
                                   /\ [q EXCEPT !.changed = changed].held = q.held
                                   /\ [q EXCEPT !.changed = changed].code = q.code
                                   /\ [q EXCEPT !.changed = changed].pc = q.pc
    BY <1>4 DEF SessionRequests
  <2> DEFINE q1 == [tab[t] EXCEPT !.pc = "save"]
             q2 == [q1 EXCEPT !.code = code]
             q3 == [q2 EXCEPT !.held = held]
  <2>5. q1 \in SessionRequests /\ q1.pc = "save"
    BY <1>3, <2>1
  <2>6. q2 \in SessionRequests /\ q2.pc = "save" /\ q2.code = code
    BY <2>2, <2>5
  <2>7. q3 \in SessionRequests /\ q3.pc = "save" /\ q3.code = code /\ q3.held = held
    BY <2>3, <2>6
  <2>8. request = [q3 EXCEPT !.changed = changed]
    OBVIOUS
  <2> HIDE DEF q3, request
  <2>9. QED
    BY <2>4, <2>7, <2>8
<1>7. Becomes(t, request)
  BY <1>1 DEF slides, held, changed
<1> HIDE DEF request
<1>8. /\ tab'[t] = request /\ tab' \in [Tabs -> SessionRequests]
      /\ \A s \in Tabs \ {t} : tab'[s] = tab[s]
  BY <1>6, <1>7 DEF Becomes, SessionsInv, SessionsShape
<1>9. Genuine(held)
  BY <1>2, <1>3, <1>5 DEF HeldClocks, Genuine, Unestablished, Latest, Never
<1>10. HeldClocks(t)'
  BY <1>2, <1>3, <1>4, <1>5, <1>6, <1>8, <1>9
  DEF HeldClocks, Genuine, Unestablished, Latest
<1>11. \A s \in Tabs \ {t} : HeldClocks(s)'
  BY <1>2, <1>8 DEF SessionsInv, HeldClocks, Genuine, Unestablished, Latest
<1>12. SessionsShape' /\ StoredClocks'
  BY <1>2, <1>8
  DEF SessionsInv, SessionsShape, StoredClocks, Genuine, Unestablished, Latest
<1>13. QED
  BY <1>10, <1>11, <1>12 DEF SessionsInv

LEMMA WriteBackKeepsSessions ==
  ASSUME SessionsInv, NEW t \in Tabs, WriteBack(t)
  PROVE  SessionsInv'
<1> DEFINE writes == /\ tab[t].changed /\ tab[t].code < 500
                     /\ stored.serial = tab[t].held.serial
           served == IF tab[t].code < 400 THEN clock ELSE history.served
<1>1. UNCHANGED <<clock, account>> /\ Becomes(t, NoRequest) /\ tab[t].pc = "save"
  BY DEF WriteBack, Stands
<1>2. CASE ~writes
  BY <1>1, <1>2, EndKeepsSessions DEF WriteBack
<1>3. CASE writes
  <2> DEFINE row == [tab[t].held EXCEPT !.expires = clock + Absolute]
  <2>1. stored' = row
    BY <1>3 DEF WriteBack
  <2>2. /\ tab[t].held \in SessionRows /\ HeldClocks(t) /\ clock \in 1 .. Horizon
        /\ history \in Histories /\ tab[t].code \in Nat
        /\ history.login \in 1 .. history.served /\ history.served <= clock
    BY DEF SessionsInv, SessionsShape, SessionRequests
  <2>3. /\ row \in SessionRows /\ row.serial = tab[t].held.serial
        /\ row.auth = tab[t].held.auth /\ row.last = tab[t].held.last
        /\ row.expires = clock + Absolute
    BY <2>2, SessionsAssumption DEF SessionRows
  <2> HIDE DEF row
  <2>4. history' = [history EXCEPT !.served = served]
    BY <1>3, <2>2 DEF WriteBack, Histories
  <2>5. served \in Nat /\ history.served <= served /\ served <= clock
    BY <2>2 DEF Histories
  <2>6. /\ history' \in Histories
        /\ history'.logins = history.logins /\ history'.login = history.login
        /\ history'.technical = history.technical /\ history'.served = served
    BY <2>2, <2>4, <2>5 DEF Histories
  <2>7. /\ tab'[t] = NoRequest /\ tab' \in [Tabs -> SessionRequests]
        /\ \A s \in Tabs \ {t} : tab'[s] = tab[s]
    BY <1>1 DEF Becomes, SessionsInv, SessionsShape, NoRequest, SessionRequests, NoSession,
                SessionRows, Never
  <2>8. SessionsShape'
    BY <1>1, <2>1, <2>2, <2>3, <2>5, <2>6, <2>7 DEF SessionsInv, SessionsShape, Histories
  <2>9. \A s \in SessionRows : (Latest(s) <=> Latest(s)') /\ (Genuine(s) => Genuine(s)')
    BY <1>1, <2>6 DEF Latest, Genuine, Unestablished
  <2>10. tab[t].held.serial # 0 /\ Genuine(tab[t].held)
    BY <1>1, <2>2 DEF HeldClocks
  <2>11. Latest(tab[t].held)
    <3>1. stored # NoSession
      BY <1>3, <2>10 DEF NoSession
    <3>2. QED
      BY <1>3, <2>10, <3>1 DEF SessionsInv, StoredClocks, Latest
  <2>12. row.last <= served /\ row.last \in Nat
    BY <1>1, <2>2, <2>3, <2>5, <2>11 DEF HeldClocks, SessionRows, Histories, Genuine
  <2>13. Genuine(row)
    BY <2>2, <2>3, <2>10, SessionsAssumption DEF Genuine, Unestablished, Latest
  <2>14. StoredClocks'
    BY <2>1, <2>3, <2>6, <2>9, <2>11, <2>12, <2>13 DEF StoredClocks, Latest
  <2>15. ASSUME NEW s \in Tabs
         PROVE  HeldClocks(s)'
    <3>1. CASE s = t
      BY <2>7, <3>1 DEF HeldClocks, NoRequest
    <3>2. CASE s # t
      <4>1. tab'[s] = tab[s] /\ HeldClocks(s) /\ tab[s].held \in SessionRows
            /\ tab[s].held.last \in Nat /\ history.served \in Nat
        BY <2>2, <2>7, <3>2 DEF SessionsInv, SessionsShape, SessionRequests, SessionRows, Histories
      <4>2. QED
        BY <2>5, <2>6, <2>9, <4>1 DEF HeldClocks
    <3>3. QED
      BY <3>1, <3>2
  <2>16. QED
    BY <2>8, <2>14, <2>15 DEF SessionsInv
<1>4. QED
  BY <1>2, <1>3

LEMMA SessionsNextKeeps == SessionsInv /\ [SessionsNext]_sessionsVars => SessionsInv'
<1> SUFFICES ASSUME SessionsInv, [SessionsNext]_sessionsVars
             PROVE  SessionsInv'
  OBVIOUS
<1>1. clock \in 1 .. Horizon /\ account \in BOOLEAN /\ Horizon \in Nat
  BY SessionsAssumption DEF SessionsInv, SessionsShape
<1>2. CASE ClockTicks \/ AccountChanges \/ UNCHANGED sessionsVars
  <2>1. clock' \in clock .. Horizon /\ UNCHANGED <<stored, tab, history>>
    BY <1>1, <1>2 DEF ClockTicks, AccountChanges, sessionsVars
  <2>2. account' \in BOOLEAN
    BY <1>1, <1>2 DEF ClockTicks, AccountChanges, sessionsVars
  <2>3. QED
    BY <2>1, <2>2, ClockKeepsSessions
<1>3. ASSUME NEW t \in Tabs, Expire(t) \/ Logout(t)
      PROVE  SessionsInv'
  BY <1>3, EndKeepsSessions DEF Expire, Logout
<1>4. QED
  BY <1>2, <1>3, LoginKeepsSessions, AdmitKeepsSessions, RespondKeepsSessions,
     WriteBackKeepsSessions DEF SessionsNext

LEMMA SessionsInvariant == SessionsSpec => []SessionsInv
  BY SessionsInitHolds, SessionsNextKeeps, PTL DEF SessionsSpec

LEMMA SessionsTypes == SessionsInv => SessionsTypeOK
  BY SessionsAssumption
  DEF SessionsInv, SessionsShape, StoredClocks, Genuine, SessionsTypeOK, Times, SessionRows,
      SessionRequests, Histories, NoSession, Never

\* A request is let in only less than the inactivity limit after its
\* session logged in or was last sent a page that is no error, and less than the
\* absolute limit after the login (twice that at the AdminSite), however many
\* requests of the browser overlap (session_policy.py __call__).
THEOREM SessionsLetInInTime == SessionsSpec => LetInInTime
<1>1. ASSUME SessionsInv, NEW t \in Tabs, Admit(t)
      PROVE  /\ Unestablished(stored) \/ clock - history.served < Inactivity
             /\ clock - history.login < IF history.technical THEN 2 * Absolute ELSE Absolute
  <2>1. stored # NoSession /\ clock < stored.expires
        /\ (Unestablished(stored) \/ ~Overdue(stored))
    BY <1>1 DEF Admit, Arrives
  <2>2. /\ stored \in SessionRows /\ Latest(stored) /\ history \in Histories
        /\ stored.last <= history.served /\ clock \in 1 .. Horizon
        /\ \/ Genuine(stored)
           \/ history.technical /\ Unestablished(stored)
              /\ stored.expires = history.login + Absolute
    BY <1>1, <2>1 DEF SessionsInv, SessionsShape, StoredClocks, Unestablished
  <2>3. QED
    BY <2>1, <2>2, SessionsAssumption
    DEF Overdue, Genuine, Unestablished, SessionRows, Histories
<1>2. SessionsInv /\ [SessionsNext]_sessionsVars => [InTime]_sessionsVars
  <2>1. ASSUME SessionsInv, [SessionsNext]_sessionsVars, NEW t \in Tabs,
               tab[t].pc = "idle", tab'[t].pc = "view"
        PROVE  Admit(t)
    <3>1. ASSUME NEW s \in Tabs, NEW request, Becomes(s, request),
                 request.pc = "view" => Admit(s)
          PROVE  Admit(t)
      <4>1. tab'[s] = request /\ \A r \in Tabs \ {s} : tab'[r] = tab[r]
        BY <2>1, <3>1 DEF Becomes, SessionsInv, SessionsShape
      <4>2. s = t
        BY <2>1, <4>1
      <4>3. QED
        BY <2>1, <3>1, <4>1, <4>2
    <3>2. \A s \in Tabs : ~Expire(s) /\ ~Login /\ ~ClockTicks /\ ~AccountChanges
                         /\ ~(UNCHANGED sessionsVars)
      BY <2>1 DEF Expire, Login, ClockTicks, AccountChanges, sessionsVars
    <3>3. \A s \in Tabs : Logout(s) \/ WriteBack(s) => Admit(t)
      BY <3>1 DEF Logout, WriteBack, NoRequest
    <3>4. \A s \in Tabs : Admit(s) => Admit(t)
      BY <2>1, <3>1 DEF Admit
    <3>5. ASSUME NEW s \in Tabs, Respond(s)
          PROVE  Admit(t)
      <4>1. tab'[s].pc = "save" /\ \A r \in Tabs \ {s} : tab'[r] = tab[r]
        BY <2>1, <3>5 DEF Respond, Becomes, SessionsInv, SessionsShape, SessionRequests
      <4>2. QED
        BY <2>1, <4>1
    <3>6. QED
      BY <2>1, <3>2, <3>3, <3>4, <3>5 DEF SessionsNext
  <2>2. QED
    BY <1>1, <2>1 DEF InTime
<1>3. QED
  BY <1>2, SessionsInvariant, PTL DEF SessionsSpec, LetInInTime

-----------------------------------------------------------------------------
(* Induction over the natural numbers, for sets instead of predicates.     *)

\* LessThan and LeastElement are those of Knowledge_proofs.
LEMMA Induction ==
  ASSUME NEW S, 0 \in S, \A n \in Nat : n \in S => n + 1 \in S
  PROVE  \A n \in Nat : n \in S
<1> SUFFICES ASSUME NEW k \in Nat, k \notin S
             PROVE  FALSE
  OBVIOUS
<1> DEFINE T == {n \in Nat : n \notin S}
<1>1. PICK x \in T : \A y \in T : x <= y
  <2>1. T \subseteq Nat /\ T # {}
    OBVIOUS
  <2> HIDE DEF T
  <2>2. QED
    BY <2>1, LeastElement
<1>2. x # 0 /\ x \in Nat
  OBVIOUS
<1>3. x - 1 \in Nat /\ x - 1 \notin T
  BY <1>1, <1>2
<1>4. QED
  BY <1>2, <1>3

\* A sequence whose neighbours are in order is in order up to its last element.
LEMMA InOrder ==
  ASSUME NEW t \in Seq(Int), \A i \in 2 .. Len(t) : t[i - 1] <= t[i]
  PROVE  \A i \in 1 .. Len(t) : t[i] <= t[Len(t)]
<1> DEFINE S == {n \in Nat : n < Len(t) => t[Len(t) - n] <= t[Len(t)]}
<1>1. Len(t) \in Nat
  OBVIOUS
<1>2. 0 \in S
  <2>1. 0 < Len(t) => Len(t) \in 1 .. Len(t) /\ Len(t) - 0 = Len(t) /\ t[Len(t)] \in Int
    BY <1>1
  <2>2. QED
    BY <2>1
<1>3. ASSUME NEW n \in Nat, n \in S
      PROVE  n + 1 \in S
  <2> SUFFICES ASSUME n + 1 < Len(t)
               PROVE  t[Len(t) - (n + 1)] <= t[Len(t)]
    OBVIOUS
  <2> DEFINE k == Len(t) - n
  <2>1. k \in 2 .. Len(t) /\ k \in 1 .. Len(t) /\ k - 1 \in 1 .. Len(t) /\ Len(t) - (n + 1) = k - 1
        /\ Len(t) \in 1 .. Len(t) /\ n < Len(t)
    BY <1>1
  <2>2. t[k] <= t[Len(t)]
    BY <1>3, <2>1
  <2> HIDE DEF k
  <2>3. t[k - 1] <= t[k] /\ t[k - 1] \in Int /\ t[k] \in Int /\ t[Len(t)] \in Int
    BY <2>1
  <2>4. QED
    BY <2>1, <2>2, <2>3
<1> HIDE DEF S
<1>4. \A n \in Nat : n \in S
  BY <1>2, <1>3, Induction
<1>5. ASSUME NEW i \in 1 .. Len(t)
      PROVE  t[i] <= t[Len(t)]
  <2>1. Len(t) - i \in Nat /\ Len(t) - i < Len(t) /\ Len(t) - (Len(t) - i) = i
    BY <1>1
  <2>2. Len(t) - i \in S
    BY <1>4, <2>1
  <2>3. Len(t) - i < Len(t) => t[Len(t) - (Len(t) - i)] <= t[Len(t)]
    BY <2>2 DEF S
  <2>4. QED
    BY <2>1, <2>3
<1>6. QED
  BY <1>5

LEMMA OrderedRun ==
  ASSUME NEW r \in RobotRuns, Ordered(r)
  PROVE  /\ r.at \in Nat /\ r.end \in Nat /\ r.at <= r.end
         /\ \A i \in DOMAIN r.events : r.events[i].at \in Nat /\ r.events[i].at <= r.end
<1> DEFINE middle == [i \in DOMAIN r.events |-> r.events[i].at]
           t == EventTimes(r)
<1>1. r.at \in Nat /\ r.end \in Nat /\ r.events \in Seq(SeedEvents)
  <2> DEFINE E == Seq(SeedEvents) \ {<<>>}
             U == {"SUCCESS", "PARTIAL", "ERROR"}
  <2>1. r \in [at : Nat, end : Nat, status : U, events : E]
    BY DEF RobotRuns
  <2> HIDE DEF E, U
  <2>2. r.at \in Nat /\ r.end \in Nat /\ r.events \in E
    BY <2>1
  <2>3. QED
    BY <2>2 DEF E
<1>2. /\ middle \in Seq(Int) /\ Len(middle) \in Nat /\ DOMAIN r.events = 1 .. Len(middle)
      /\ \A i \in DOMAIN r.events : r.events[i].at \in Nat /\ middle[i] = r.events[i].at
  <2>1. DOMAIN r.events = 1 .. Len(r.events) /\ Len(r.events) \in Nat
    BY <1>1
  <2>2. \A i \in 1 .. Len(r.events) : r.events[i].at \in Nat
    <3>1. \A i \in 1 .. Len(r.events) : r.events[i] \in SeedEvents
      BY <1>1
    <3>2. \A e \in SeedEvents : e.at \in Nat
      BY DEF SeedEvents
    <3>3. QED
      BY <3>1, <3>2
  <2>3. middle = [i \in 1 .. Len(r.events) |-> r.events[i].at]
    BY <2>1
  <2> DEFINE n == Len(r.events)
             f == [i \in 1 .. n |-> r.events[i].at]
  <2>4. f \in [1 .. n -> Int]
    BY <2>2
  <2>5. f \in Seq(Int) /\ Len(f) = n
    <3> HIDE DEF f, n
    <3>1. n \in Nat
      BY <2>1 DEF n
    <3>2. QED
      BY <2>4, <3>1
  <2>6. \A i \in DOMAIN r.events : middle[i] = r.events[i].at
    OBVIOUS
  <2>7. QED
    BY <2>1, <2>2, <2>3, <2>5, <2>6
<1> HIDE DEF middle
<1>3. t = <<r.at>> \o middle \o <<r.end>>
  BY DEF EventTimes, middle
<1>4. /\ t \in Seq(Int) /\ Len(t) = Len(middle) + 2
      /\ t[1] = r.at /\ t[Len(t)] = r.end
      /\ \A i \in 1 .. Len(middle) : t[i + 1] = middle[i]
  <2> DEFINE front == <<r.at>> \o middle
  <2>1. <<r.at>> \in Seq(Int) /\ <<r.end>> \in Seq(Int) /\ Len(<<r.at>>) = 1
        /\ Len(<<r.end>>) = 1
    BY <1>1
  <2>2. /\ front \in Seq(Int) /\ Len(front) = Len(middle) + 1 /\ front[1] = r.at
        /\ \A i \in 1 .. Len(middle) : front[i + 1] = middle[i]
    BY <1>1, <1>2, <2>1, ConcatProperties
  <2> HIDE DEF front
  <2>3. /\ front \o <<r.end>> \in Seq(Int) /\ Len(front \o <<r.end>>) = Len(front) + 1
        /\ \A i \in 1 .. Len(front) : (front \o <<r.end>>)[i] = front[i]
        /\ (front \o <<r.end>>)[Len(front) + 1] = r.end
    BY <1>1, <1>2, <2>1, <2>2, ConcatProperties
  <2>4. t = front \o <<r.end>>
    BY <1>3 DEF front
  <2>5. \A i \in 1 .. Len(middle) : i + 1 \in 1 .. Len(front)
    BY <1>2, <2>2
  <2>6. 1 \in 1 .. Len(front) /\ Len(front) + 1 = Len(middle) + 2
    BY <1>2, <2>2
  <2>7. QED
    BY <2>2, <2>3, <2>4, <2>5, <2>6
<1> HIDE DEF t
<1>5. \A i \in 2 .. Len(t) : t[i - 1] <= t[i]
  BY Zenon DEF Ordered, t
<1>6. \A i \in 1 .. Len(t) : t[i] <= t[Len(t)]
  <2> HIDE <1>2, <1>3
  <2>1. t \in Seq(Int)
    BY <1>4
  <2>2. QED
    BY <2>1, <1>5, InOrder
<1>7. r.at <= r.end
  <2>1. 1 \in 1 .. Len(t)
    BY <1>2, <1>4
  <2>2. QED
    BY <1>4, <1>6, <2>1
<1>8. ASSUME NEW i \in DOMAIN r.events
      PROVE  r.events[i].at <= r.end
  <2>1. i \in 1 .. Len(middle) /\ i + 1 \in 1 .. Len(t)
    BY <1>2, <1>4
  <2>2. t[i + 1] = r.events[i].at
    BY <1>2, <1>4, <2>1
  <2>3. QED
    BY <1>4, <1>6, <2>1, <2>2
<1>9. QED
  BY <1>1, <1>2, <1>7, <1>8

-----------------------------------------------------------------------------
(* Concatenation of sequences that are given row by row.                   *)

Indexed(f, n) == n \in Nat /\ f = [i \in 1 .. n |-> f[i]]

LEMMA IndexedIsSequence ==
  ASSUME NEW f, NEW n, Indexed(f, n), NEW S, \A i \in 1 .. n : f[i] \in S
  PROVE  f \in Seq(S) /\ Len(f) = n
<1>1. n \in Nat /\ f \in [1 .. n -> S]
  BY DEF Indexed
<1>2. QED
  BY <1>1

Joined(f, g) == f \o g

LEMMA JoinedRows ==
  ASSUME NEW f, NEW n, Indexed(f, n), NEW g, NEW m, Indexed(g, m)
  PROVE  /\ Indexed(Joined(f, g), n + m)
         /\ \A i \in 1 .. n : Joined(f, g)[i] = f[i]
         /\ \A i \in 1 .. m : /\ n + i \in DOMAIN Joined(f, g)
                             /\ Joined(f, g)[n + i] = g[i]
<1> DEFINE S == {f[i] : i \in 1 .. n} \cup {g[i] : i \in 1 .. m}
<1>1. n \in Nat /\ m \in Nat
  BY DEF Indexed
<1>2. f \in Seq(S) /\ Len(f) = n
  <2>1. \A i \in 1 .. n : f[i] \in S
    OBVIOUS
  <2> HIDE DEF S
  <2>2. QED
    BY <2>1, IndexedIsSequence
<1>3. g \in Seq(S) /\ Len(g) = m
  <2>1. \A i \in 1 .. m : g[i] \in S
    OBVIOUS
  <2> HIDE DEF S
  <2>2. QED
    BY <2>1, IndexedIsSequence
<1> HIDE DEF S
<1>4. f \o g \in Seq(S) /\ Len(f \o g) = n + m
  BY <1>2, <1>3
<1>5. /\ \A i \in 1 .. n : (f \o g)[i] = f[i]
      /\ \A i \in 1 .. m : (f \o g)[n + i] = g[i]
  BY <1>1, <1>2, <1>3
<1>6. /\ Joined(f, g) \in Seq(S) /\ Len(Joined(f, g)) = n + m
      /\ \A i \in 1 .. n : Joined(f, g)[i] = f[i]
      /\ \A i \in 1 .. m : Joined(f, g)[n + i] = g[i]
  BY <1>4, <1>5 DEF Joined
<1>7. Joined(f, g) \in [1 .. n + m -> S]
  BY <1>6
<1>8. Joined(f, g) = [i \in 1 .. n + m |-> Joined(f, g)[i]] /\ DOMAIN Joined(f, g) = 1 .. n + m
  BY <1>7
<1>9. Indexed(Joined(f, g), n + m)
  <2>1. n + m \in Nat
    BY <1>1
  <2>2. QED
    BY <1>8, <2>1, Zenon DEF Indexed
<1>10. \A i \in 1 .. m : n + i \in 1 .. n + m
  BY <1>1
<1>11. QED
  BY <1>6, <1>8, <1>9, <1>10, Zenon

LEMMA EntryRows ==
  ASSUME NEW r, NEW robot, NEW first \in Nat, NEW last \in Nat, first <= last + 1
  PROVE  /\ Indexed(Entry(r, robot, first, last), last - first + 1)
         /\ \A i \in 1 .. last - first + 1 :
              LET row == Entry(r, robot, first, last)[i]
              IN /\ row.robot = robot /\ row.status = r.events[first + i - 1].status
                 /\ row.at = r.events[first + i - 1].at
<1> DEFINE n == last - first + 1
           e(i) == [robot |-> robot, event |-> r.events[first + i - 1].event,
                    at |-> r.events[first + i - 1].at,
                    status |-> r.events[first + i - 1].status,
                    refs |-> r.events[first + i - 1].refs]
<1>1. Entry(r, robot, first, last) = [i \in 1 .. n |-> e(i)]
  BY DEF Entry
<1>2. n \in Nat
  OBVIOUS
<1>3. \A i \in 1 .. n : Entry(r, robot, first, last)[i] = e(i)
  <2> HIDE DEF e, n
  <2>1. QED
    BY <1>1
<1>4. \A i : /\ e(i).robot = robot /\ e(i).status = r.events[first + i - 1].status
             /\ e(i).at = r.events[first + i - 1].at
  OBVIOUS
<1>5. Indexed(Entry(r, robot, first, last), n)
  <2> HIDE DEF e, n
  <2>1. QED
    BY <1>1, <1>2 DEF Indexed
<1>6. QED
  <2> HIDE DEF e
  <2>1. QED
    BY <1>3, <1>4, <1>5

-----------------------------------------------------------------------------
(* A scenario that is valid makes a whole case.                            *)

MadeCase(s, began) == Finished(s, AfterR1(s, Received(s, began)))

\* What CasesAreWhole says of one case.
Whole(c) ==
  /\ \A r \in c.runs : r.status # "RUNNING" /\ r.at <= r.end
  /\ (c.status = "COMPLETED") = (LastRun(c).status = "SUCCESS")
  /\ c.status = "COMPLETED" => c.processing = "COMPLETED" /\ c.completed # 0
  /\ c.status = "FAILED" /\ LastRun(c).robot = "R2" =>
       /\ c.processing = "ERROR"
       /\ \E i \in DOMAIN c.log : c.log[i].robot = "R2" /\ c.log[i].status = "ERROR"

LEMMA MadeCaseFields ==
  ASSUME NEW s, NEW began
  PROVE  LET c == MadeCase(s, began)
         IN /\ c.protocol = s.protocol /\ c.created = began /\ c.status = s.request
            /\ c.completed = s.completed /\ c.processing = s.processing
            /\ c.runs = IF s.r2 = NoRun THEN {EndedRun(s.r1, "R1")}
                        ELSE {EndedRun(s.r1, "R1")} \cup {EndedRun(s.r2, "R2")}
            /\ c.log = (Entry(s.r1, "R1", 1, 5) \o Entry(s.r1, "R1", 6, Len(s.r1.events)))
                         \o Entry(s.r2, "R2", 1, Len(s.r2.events))
BY DEF MadeCase, Finished, AfterR1, Received

LEMMA EndedRunFields ==
  ASSUME NEW r, NEW robot
  PROVE  LET e == EndedRun(r, robot)
         IN e.robot = robot /\ e.at = r.at /\ e.end = r.end /\ e.status = r.status
BY DEF EndedRun, NewRun

\* The robots of a scenario that is valid, and how it ends.
LEMMA ValidScenario ==
  ASSUME NEW s \in Scenarios, ScenarioValid(s)
  PROVE  /\ s.r1 \in RobotRuns /\ Ordered(s.r1) /\ s.r1.status \in {"SUCCESS", "ERROR"}
         /\ Len(s.r1.events) \in Nat /\ Len(s.r1.events) >= 10
         /\ \/ s.r2 = NoRun /\ s.request = "FAILED" /\ s.r1.status = "ERROR"
            \/ /\ s.r2 \in RobotRuns /\ s.r2 # NoRun /\ Ordered(s.r2)
               /\ Len(s.r2.events) \in Nat
               /\ \/ SucceedsInR2(s)
                  \/ FailsInR2(s) /\ \E i \in 1 .. Len(s.r2.events) :
                                         s.r2.events[i].status = "ERROR"
<1>1. s.r1 \in RobotRuns /\ s.r2 \in RobotRuns \cup {NoRun}
  BY DEF Scenarios
<1>2. Len(s.r1.events) >= 10 /\ Len(s.r1.events) \in Nat
  <2>1. Len(s.r1.events) = 11 \/ Len(s.r1.events) = 10
    BY DEF ScenarioValid, FailsInR1
  <2> DEFINE n == Len(s.r1.events)
  <2> HIDE DEF n
  <2>2. n = 11 \/ n = 10
    BY <2>1 DEF n
  <2>3. n >= 10 /\ n \in Nat
    BY <2>2
  <2>4. QED
    BY <2>3 DEF n
<1>3. ASSUME NEW r \in RobotRuns
      PROVE  Len(r.events) \in Nat /\ DOMAIN r.events = 1 .. Len(r.events)
  <2>1. r.events \in Seq(SeedEvents) \ {<<>>}
    BY DEF RobotRuns
  <2>2. QED
    BY <2>1
<1>4. CASE FailsInR1(s)
  BY <1>1, <1>2, <1>3, <1>4 DEF FailsInR1, ScenarioValid
<1>5. CASE s.r1.status = "SUCCESS" /\ Len(s.r1.events) = 10 /\ (SucceedsInR2(s) \/ FailsInR2(s))
  <2>1. s.r2 # NoRun
    BY <1>5 DEF SucceedsInR2, FailsInR2, NoRun
  <2>2. s.r2 \in RobotRuns /\ Ordered(s.r1) /\ Ordered(s.r2)
    BY <1>1, <2>1 DEF ScenarioValid
  <2>3. FailsInR2(s) => \E i \in 1 .. Len(s.r2.events) : s.r2.events[i].status = "ERROR"
    BY <1>3, <2>2 DEF FailsInR2
  <2>4. QED
    BY <1>1, <1>3, <1>5, <2>1, <2>2, <2>3
<1>6. QED
  BY <1>4, <1>5 DEF ScenarioValid

LEMMA WholeCase ==
  ASSUME NEW s \in Scenarios, ScenarioValid(s), NEW began
  PROVE  LET c == MadeCase(s, began)
         IN /\ c.protocol = s.protocol /\ c.created = began
            /\ c.status \in {"COMPLETED", "FAILED"} /\ Whole(c)
<1> DEFINE c == MadeCase(s, began)
           a == EndedRun(s.r1, "R1")
           b == EndedRun(s.r2, "R2")
<1>1. /\ c.protocol = s.protocol /\ c.created = began /\ c.status = s.request
      /\ c.completed = s.completed /\ c.processing = s.processing
      /\ c.runs = IF s.r2 = NoRun THEN {a} ELSE {a} \cup {b}
      /\ c.log = (Entry(s.r1, "R1", 1, 5) \o Entry(s.r1, "R1", 6, Len(s.r1.events)))
                   \o Entry(s.r2, "R2", 1, Len(s.r2.events))
  BY MadeCaseFields
<1>2. /\ a.robot = "R1" /\ a.at = s.r1.at /\ a.end = s.r1.end /\ a.status = s.r1.status
      /\ b.robot = "R2" /\ b.at = s.r2.at /\ b.end = s.r2.end /\ b.status = s.r2.status
  BY EndedRunFields
<1> HIDE DEF a, b, c
<1>3. a.at <= a.end /\ a.status # "RUNNING"
  BY <1>2, ValidScenario, OrderedRun
<1>4. CASE s.r2 = NoRun /\ s.request = "FAILED" /\ s.r1.status = "ERROR"
  <2>1. c.runs = {a}
    BY <1>1, <1>4
  <2>2. LastRun(c) = a
    BY <2>1, <1>2 DEF LastRun
  <2>3. QED
    BY <1>1, <1>2, <1>3, <1>4, <2>1, <2>2 DEF Whole, c
<1>5. CASE /\ s.r2 \in RobotRuns /\ s.r2 # NoRun /\ Ordered(s.r2) /\ Len(s.r2.events) \in Nat
           /\ SucceedsInR2(s) \/ FailsInR2(s)
  <2>1. c.runs = {a, b}
    BY <1>1, <1>5
  <2>2. LastRun(c) = b
    <3>1. \A r \in {a, b} : (\A o \in {a, b} : o.robot = "R1" \/ r.robot = "R2") <=> r = b
      BY <1>2
    <3>2. LastRun(c) = CHOOSE r \in {a, b} : \A o \in {a, b} : o.robot = "R1" \/ r.robot = "R2"
      BY <2>1 DEF LastRun
    <3>3. b \in {a, b}
      OBVIOUS
    <3>4. QED
      BY <3>1, <3>2, <3>3
  <2>3. b.at <= b.end /\ b.status \in {"SUCCESS", "ERROR"}
    BY <1>2, <1>5, OrderedRun DEF SucceedsInR2, FailsInR2
  <2>4. CASE SucceedsInR2(s)
    BY <1>1, <1>2, <1>3, <2>1, <2>2, <2>3, <2>4 DEF Whole, SucceedsInR2, c
  <2>5. CASE FailsInR2(s)
    <3>1. PICK k \in 1 .. Len(s.r2.events) : s.r2.events[k].status = "ERROR"
      BY <1>5, <2>5, ValidScenario DEF FailsInR2, SucceedsInR2
    <3>2. \E i \in DOMAIN c.log : c.log[i].robot = "R2" /\ c.log[i].status = "ERROR"
      <4> DEFINE n == Len(s.r1.events)
                 m == Len(s.r2.events)
                 x == Entry(s.r1, "R1", 1, 5)
                 y == Entry(s.r1, "R1", 6, n)
                 z == Entry(s.r2, "R2", 1, m)
      <4>1. n \in Nat /\ n >= 10 /\ m \in Nat
        BY <1>5, ValidScenario
      <4> HIDE DEF n, m
      <4>2. Indexed(x, 5 - 1 + 1) /\ Indexed(y, n - 6 + 1) /\ Indexed(z, m - 1 + 1)
        <5>1. 1 \in Nat /\ 5 \in Nat /\ 6 \in Nat /\ 1 <= 5 + 1 /\ 6 <= n + 1 /\ 1 <= m + 1
          BY <4>1
        <5>2. QED
          BY <4>1, <5>1, EntryRows
      <4>3. Indexed(z, m) /\ \A i \in 1 .. m : z[i].robot = "R2" /\ z[i].status = s.r2.events[i].status
        <5>1. 1 \in Nat /\ 1 <= m + 1 /\ m - 1 + 1 = m /\ \A i \in 1 .. m : 1 + i - 1 = i
          BY <4>1
        <5> HIDE DEF z
        <5>2. \A i \in 1 .. m - 1 + 1 : z[i].robot = "R2" /\ z[i].status = s.r2.events[1 + i - 1].status
          BY <4>1, <5>1, EntryRows DEF z
        <5>3. QED
          BY <4>2, <5>1, <5>2
      <4> HIDE DEF x, y, z
      <4>4. PICK i, j : Indexed(x, i) /\ Indexed(y, j)
        BY <4>2
      <4>5. Indexed(Joined(x, y), i + j)
        BY <4>4, JoinedRows
      <4>6. PICK xy, l : xy = Joined(x, y) /\ Indexed(xy, l)
        BY <4>5
      <4>7. /\ Indexed(Joined(xy, z), l + m)
            /\ \A o \in 1 .. m : /\ l + o \in DOMAIN Joined(xy, z)
                                /\ Joined(xy, z)[l + o] = z[o]
        BY <4>3, <4>6, JoinedRows
      <4>8. k \in 1 .. m
        BY <3>1 DEF m
      <4>9. c.log = Joined(Joined(x, y), z)
        BY <1>1 DEF x, y, z, n, m, Joined
      <4>10. QED
        BY <3>1, <4>3, <4>6, <4>7, <4>8, <4>9
    <3>3. QED
      BY <1>1, <1>2, <1>3, <2>1, <2>2, <2>3, <2>5, <3>2 DEF Whole, FailsInR2, c
  <2>6. QED
    BY <1>5, <2>4, <2>5
<1>6. QED
  BY <1>4, <1>5, ValidScenario

-----------------------------------------------------------------------------
(* The invariant of the runners and the rows.                              *)

Stages == {"idle", "find", "receive", "opened"}
Tasks == [pc : Stages, todo : Seq(Scenarios), began : Nat]

\* What is left to do is valid, and a transaction that is open has its moment.
Doing(t) ==
  t.pc # "idle" =>
    /\ t.todo # <<>> /\ \A i \in DOMAIN t.todo : ScenarioValid(t.todo[i])
    /\ t.pc # "find" => t.began \in 1 .. MaxSeeds

\* Whoever has inserted its protocol is the only one with it.
KeyIsHeld(r) ==
  Holds(r, "opened") =>
    /\ ~Known(Scenario(r).protocol)
    /\ \A q \in Runners \ {r} : Holds(q, "opened") => Scenario(q).protocol # Scenario(r).protocol

StoredCase(c) ==
  /\ c.status \in {"COMPLETED", "FAILED"} /\ c.created \in 1 .. MaxSeeds /\ Whole(c)
  /\ \A o \in cases : o.protocol = c.protocol => o = c

OpsInv ==
  /\ runner \in [Runners -> Tasks] /\ seeds \in 0 .. MaxSeeds
  /\ \A r \in Runners : Doing(runner[r]) /\ KeyIsHeld(r)
  /\ \A c \in cases : StoredCase(c)

LEMMA WaitingTask == Waiting \in Tasks /\ Doing(Waiting) /\ Waiting.pc = "idle"
BY DEF Waiting, Tasks, Doing, Stages

LEMMA OpsInitHolds == OpsInit => OpsInv
<1> SUFFICES ASSUME OpsInit
             PROVE  OpsInv
  OBVIOUS
<1>1. \A r \in Runners : runner[r] = Waiting
  BY DEF OpsInit
<1>2. runner \in [Runners -> Tasks] /\ \A r \in Runners : Doing(runner[r]) /\ KeyIsHeld(r)
  BY <1>1, WaitingTask DEF OpsInit, KeyIsHeld, Holds
<1>3. QED
  BY <1>2, OpsAssumption DEF OpsInit, OpsInv

\* The scenario a runner works on.
LEMMA ScenarioOf ==
  ASSUME OpsInv, NEW r \in Runners, ~Holds(r, "idle")
  PROVE  /\ runner[r].todo \in Seq(Scenarios) /\ Len(runner[r].todo) \in Nat \ {0}
         /\ Scenario(r) \in Scenarios /\ ScenarioValid(Scenario(r))
         /\ ~Holds(r, "find") => runner[r].began \in 1 .. MaxSeeds
<1>1. runner[r] \in Tasks /\ Doing(runner[r])
  BY DEF OpsInv
<1>2. runner[r].todo \in Seq(Scenarios)
  BY <1>1 DEF Tasks
<1>3. QED
  BY <1>1, <1>2 DEF Doing, Scenario, Holds

\* A runner that is not in a transaction that inserted may do anything.
LEMMA RunnerMoves ==
  ASSUME OpsInv, UNCHANGED cases, seeds' \in 0 .. MaxSeeds, NEW r \in Runners,
         NEW t \in Tasks, Doing(t), runner' = [runner EXCEPT ![r] = t],
         t.pc = "opened" => /\ ~Known(t.todo[1].protocol)
                            /\ \A q \in Runners \ {r} : Holds(q, "opened") =>
                                 Scenario(q).protocol # t.todo[1].protocol
  PROVE  OpsInv'
<1>1. runner \in [Runners -> Tasks]
  BY DEF OpsInv
<1>2. runner'[r] = t /\ \A q \in Runners \ {r} : runner'[q] = runner[q]
  BY <1>1
<1>3. runner' \in [Runners -> Tasks] /\ \A q \in Runners : Doing(runner'[q])
  BY <1>1, <1>2 DEF OpsInv
<1>4. ASSUME NEW q \in Runners
      PROVE  KeyIsHeld(q)'
  <2>1. CASE q = r
    BY <1>2, <2>1 DEF KeyIsHeld, Holds, Known, Scenario
  <2>2. CASE q # r
    BY <1>2, <2>2 DEF OpsInv, KeyIsHeld, Holds, Known, Scenario
  <2>3. QED
    BY <2>1, <2>2
<1>5. (\A c \in cases : StoredCase(c))'
  BY DEF OpsInv, StoredCase
<1>6. (\A q \in Runners : Doing(runner[q]) /\ KeyIsHeld(q))'
  BY <1>3, <1>4 DEF Doing
<1>7. QED
  BY <1>3, <1>5, <1>6 DEF OpsInv

LEMMA RestOfScenarios ==
  ASSUME NEW todo \in Seq(Scenarios), \A i \in DOMAIN todo : ScenarioValid(todo[i]),
         Len(todo) # 0, Len(todo) # 1
  PROVE  /\ Tail(todo) \in Seq(Scenarios) /\ Tail(todo) # <<>>
         /\ \A i \in DOMAIN Tail(todo) : ScenarioValid(Tail(todo)[i])
<1>1. Len(todo) \in Nat /\ Len(todo) > 1 /\ todo # <<>>
  <2> DEFINE n == Len(todo)
  <2>1. n \in Nat /\ n # 0 /\ n # 1
    OBVIOUS
  <2> HIDE DEF n
  <2>2. n > 1
    BY <2>1
  <2>3. QED
    BY <2>1, <2>2 DEF n
<1>2. /\ Tail(todo) \in Seq(Scenarios) /\ Len(Tail(todo)) = Len(todo) - 1
      /\ \A i \in 1 .. Len(todo) - 1 : Tail(todo)[i] = todo[i + 1]
  BY <1>1
<1>3. \A i \in 1 .. Len(todo) - 1 : i + 1 \in DOMAIN todo
  BY <1>1
<1>4. DOMAIN Tail(todo) = 1 .. Len(todo) - 1
  BY <1>2
<1>5. \A i \in DOMAIN Tail(todo) : ScenarioValid(Tail(todo)[i])
  BY <1>2, <1>3, <1>4
<1>6. QED
  BY <1>1, <1>2, <1>5

\* What a runner does after a scenario.
LEMMA NextTask ==
  ASSUME OpsInv, NEW r \in Runners, ~Holds(r, "idle"), NextScenario(r)
  PROVE  \E t \in Tasks : /\ Doing(t) /\ t.pc # "opened"
                          /\ runner' = [runner EXCEPT ![r] = t]
<1> DEFINE rest == [pc |-> "find", todo |-> Tail(runner[r].todo), began |-> 0]
<1>1. CASE Len(runner[r].todo) = 1
  BY <1>1, WaitingTask DEF NextScenario
<1>2. CASE Len(runner[r].todo) # 1
  <2>1. runner[r].todo \in Seq(Scenarios) /\ Len(runner[r].todo) \in Nat \ {0}
        /\ \A i \in DOMAIN runner[r].todo : ScenarioValid(runner[r].todo[i])
    BY ScenarioOf DEF OpsInv, Doing, Holds
  <2>2. /\ Tail(runner[r].todo) \in Seq(Scenarios) /\ Tail(runner[r].todo) # <<>>
        /\ \A i \in DOMAIN Tail(runner[r].todo) : ScenarioValid(Tail(runner[r].todo)[i])
    BY <1>2, <2>1, RestOfScenarios
  <2>3. rest \in Tasks /\ Doing(rest) /\ rest.pc # "opened"
    BY <2>2 DEF Tasks, Doing, Stages
  <2>4. runner' = [runner EXCEPT ![r] = rest]
    BY <1>2 DEF NextScenario
  <2>5. QED
    BY <2>3, <2>4
<1>3. QED
  BY <1>1, <1>2

LEMMA SeedKeepsOpsInv ==
  ASSUME OpsInv, NEW r \in Runners, Seed(r)
  PROVE  OpsInv'
<1>1. PICK files \in Directories : \E todo \in {files} \cup {<<files[i]>> : i \in DOMAIN files} :
        /\ Loads(files) /\ files # <<>>
        /\ runner' = [runner EXCEPT ![r] = [pc |-> "find", todo |-> todo, began |-> 0]]
  BY DEF Seed
<1>2. PICK todo \in {files} \cup {<<files[i]>> : i \in DOMAIN files} :
        /\ Loads(files) /\ files # <<>>
        /\ runner' = [runner EXCEPT ![r] = [pc |-> "find", todo |-> todo, began |-> 0]]
  BY <1>1
<1>3. files \in Seq(Scenarios) /\ \A i \in DOMAIN files : ScenarioValid(files[i])
  BY <1>2, OpsAssumption DEF Loads
<1>4. todo \in Seq(Scenarios) /\ todo # <<>> /\ \A i \in DOMAIN todo : ScenarioValid(todo[i])
  <2>1. CASE todo = files
    BY <1>2, <1>3, <2>1
  <2>2. CASE \E i \in DOMAIN files : todo = <<files[i]>>
    <3>1. PICK i \in DOMAIN files : todo = <<files[i]>>
      BY <2>2
    <3>2. files[i] \in Scenarios /\ ScenarioValid(files[i])
      BY <1>3
    <3>3. Len(todo) = 1 /\ todo[1] = files[i] /\ DOMAIN todo = 1 .. 1
      BY <3>1
    <3>4. QED
      BY <3>1, <3>2, <3>3
  <2>3. QED
    BY <1>2, <2>1, <2>2
<1> DEFINE t == [pc |-> "find", todo |-> todo, began |-> 0]
<1>5. t \in Tasks /\ Doing(t) /\ t.pc # "opened"
  BY <1>4 DEF Tasks, Doing, Stages
<1>6. UNCHANGED cases /\ seeds' \in 0 .. MaxSeeds
  BY DEF Seed, OpsInv
<1> HIDE DEF t
<1>7. runner' = [runner EXCEPT ![r] = t]
  BY <1>2 DEF t
<1>8. QED
  BY <1>5, <1>6, <1>7, RunnerMoves

LEMMA FindKeepsOpsInv ==
  ASSUME OpsInv, NEW r \in Runners, Find(r)
  PROVE  OpsInv'
<1>1. UNCHANGED cases /\ seeds' = seeds + 1 /\ seeds' \in 1 .. MaxSeeds /\ ~Holds(r, "idle")
  BY OpsAssumption DEF Find, OpsInv, Holds
<1>2. CASE Known(Scenario(r).protocol)
  BY <1>1, <1>2, NextTask, RunnerMoves DEF Find
<1>3. CASE ~Known(Scenario(r).protocol)
  <2> DEFINE t == [runner[r] EXCEPT !.pc = "receive", !.began = seeds + 1]
  <2>1. runner[r] \in Tasks /\ Doing(runner[r]) /\ runner \in [Runners -> Tasks]
    BY DEF OpsInv
  <2>2. seeds + 1 \in Nat /\ seeds + 1 \in 1 .. MaxSeeds
    BY <1>1, OpsAssumption
  <2>3. t \in Tasks /\ Doing(t) /\ t.pc # "opened"
    <3> DEFINE n == seeds + 1
    <3> HIDE DEF n
    <3>1. n \in Nat /\ n \in 1 .. MaxSeeds
      BY <2>2 DEF n
    <3>2. [runner[r] EXCEPT !.pc = "receive", !.began = n]
            = [pc |-> "receive", todo |-> runner[r].todo, began |-> n]
      <4> DEFINE q == [runner[r] EXCEPT !.pc = "receive"]
      <4>1. q = [pc |-> "receive", todo |-> runner[r].todo, began |-> runner[r].began]
        BY <2>1 DEF Tasks
      <4>2. [q EXCEPT !.began = n] = [pc |-> "receive", todo |-> runner[r].todo, began |-> n]
        <5> HIDE DEF q
        <5>1. QED
          BY <4>1
      <4>3. [runner[r] EXCEPT !.pc = "receive", !.began = n] = [q EXCEPT !.began = n]
        OBVIOUS
      <4>4. QED
        BY <4>2, <4>3, Zenon
    <3>3. QED
      BY <1>1, <2>1, <3>1, <3>2 DEF Tasks, Doing, Stages, Holds, n
  <2>4. runner' = [runner EXCEPT ![r] = t]
    BY <1>3, <2>1 DEF Find
  <2> HIDE DEF t
  <2>5. seeds' \in 0 .. MaxSeeds
    BY <1>1
  <2>6. QED
    BY <1>1, <2>3, <2>4, <2>5, RunnerMoves
<1>4. QED
  BY <1>2, <1>3

LEMMA OpenRequestKeepsOpsInv ==
  ASSUME OpsInv, NEW r \in Runners, OpenRequest(r)
  PROVE  OpsInv'
<1> DEFINE t == [runner[r] EXCEPT !.pc = "opened"]
<1>1. runner[r] \in Tasks /\ Doing(runner[r]) /\ runner \in [Runners -> Tasks]
  BY DEF OpsInv
<1>2. t = [pc |-> "opened", todo |-> runner[r].todo, began |-> runner[r].began]
  BY <1>1 DEF Tasks
<1>3. t \in Tasks /\ Doing(t)
  BY <1>1, <1>2 DEF Tasks, Doing, Stages, Holds, OpenRequest
<1>4. runner' = [runner EXCEPT ![r] = t]
  BY <1>1 DEF OpenRequest
<1>5. t.todo[1] = Scenario(r)
  BY <1>2 DEF Scenario
<1>6. /\ ~Known(Scenario(r).protocol)
      /\ \A q \in Runners \ {r} : Holds(q, "opened") => Scenario(q).protocol # Scenario(r).protocol
  BY DEF OpenRequest, KeyIsFree
<1>7. UNCHANGED cases /\ seeds' \in 0 .. MaxSeeds
  BY DEF OpenRequest, OpsInv
<1> HIDE DEF t
<1>8. QED
  BY <1>3, <1>4, <1>5, <1>6, <1>7, RunnerMoves

LEMMA AbandonKeepsOpsInv ==
  ASSUME OpsInv, NEW r \in Runners, Abandon(r)
  PROVE  OpsInv'
<1>1. UNCHANGED cases /\ seeds' \in 0 .. MaxSeeds /\ runner' = [runner EXCEPT ![r] = Waiting]
  BY DEF Abandon, OpsInv
<1>2. QED
  BY <1>1, WaitingTask, RunnerMoves

LEMMA FinishCaseKeepsOpsInv ==
  ASSUME OpsInv, NEW r \in Runners, FinishCase(r)
  PROVE  OpsInv'
<1> DEFINE s == Scenario(r)
           c == MadeCase(s, runner[r].began)
<1>1. Holds(r, "opened") /\ ~Holds(r, "idle") /\ ~Holds(r, "find")
  BY DEF FinishCase, Holds
<1>2. /\ c.protocol = s.protocol /\ c.created \in 1 .. MaxSeeds
      /\ c.status \in {"COMPLETED", "FAILED"} /\ Whole(c)
  BY <1>1, ScenarioOf, WholeCase
<1>3. cases' = cases \cup {c} /\ seeds' = seeds
  BY DEF FinishCase, MadeCase
<1>4. PICK t \in Tasks : Doing(t) /\ t.pc # "opened" /\ runner' = [runner EXCEPT ![r] = t]
  BY <1>1, NextTask DEF FinishCase
<1>5. /\ runner \in [Runners -> Tasks] /\ runner' \in [Runners -> Tasks]
      /\ runner'[r] = t /\ \A q \in Runners \ {r} : runner'[q] = runner[q]
  BY <1>4 DEF OpsInv
<1>6. KeyIsHeld(r)
  BY DEF OpsInv
<1> HIDE DEF c
<1>7. ASSUME NEW q \in Runners
      PROVE  KeyIsHeld(q)'
  <2>1. CASE q = r
    BY <1>4, <1>5, <2>1 DEF KeyIsHeld, Holds
  <2>2. CASE q # r
    <3> SUFFICES ASSUME Holds(q, "opened")
                 PROVE  /\ ~Known(Scenario(q).protocol)'
                        /\ \A o \in Runners \ {q} :
                             Holds(o, "opened")' => Scenario(o)'.protocol # Scenario(q).protocol
      BY <1>5, <2>2 DEF KeyIsHeld, Holds, Scenario
    <3>1. ~Known(Scenario(q).protocol)'
      <4>1. KeyIsHeld(q)
        BY DEF OpsInv
      <4>2. Scenario(q)' = Scenario(q)
        BY <1>5, <2>2 DEF Scenario
      <4>3. c.protocol # Scenario(q).protocol
        BY <1>1, <1>2, <2>2, <4>1 DEF KeyIsHeld
      <4>4. QED
        BY <1>3, <4>1, <4>2, <4>3 DEF KeyIsHeld, Known
    <3>2. ASSUME NEW o \in Runners \ {q}, Holds(o, "opened")'
          PROVE  Scenario(o)'.protocol # Scenario(q).protocol
      <4>1. o # r /\ Holds(o, "opened") /\ Scenario(o)' = Scenario(o)
        BY <1>4, <1>5, <3>2 DEF Holds, Scenario
      <4>2. KeyIsHeld(q)
        BY DEF OpsInv
      <4>3. QED
        BY <4>1, <4>2 DEF KeyIsHeld
    <3>3. QED
      BY <3>1, <3>2
  <2>3. QED
    BY <2>1, <2>2
<1>8. ASSUME NEW x \in cases'
      PROVE  StoredCase(x)'
  <2>1. ASSUME NEW o \in cases
        PROVE  o.protocol # c.protocol
    BY <1>1, <1>2, <1>6 DEF KeyIsHeld, Known
  <2>2. CASE x = c
    BY <1>2, <1>3, <2>1, <2>2 DEF StoredCase
  <2>3. CASE x \in cases
    BY <1>3, <2>1, <2>3 DEF StoredCase, OpsInv
  <2>4. QED
    BY <1>3, <2>2, <2>3
<1>9. ASSUME NEW q \in Runners
      PROVE  Doing(runner'[q])
  BY <1>4, <1>5 DEF OpsInv
<1>10. (\A q \in Runners : Doing(runner[q]) /\ KeyIsHeld(q))' /\ (\A x \in cases : StoredCase(x))'
  BY <1>7, <1>8, <1>9 DEF Doing
<1>11. QED
  BY <1>3, <1>5, <1>10 DEF OpsInv

LEMMA OpsStep ==
  ASSUME OpsInv, [OpsNext]_opsVars
  PROVE  OpsInv'
<1>1. CASE UNCHANGED opsVars
  BY <1>1 DEF opsVars, OpsInv, Doing, KeyIsHeld, StoredCase, Holds, Known, Scenario
<1>2. CASE OpsNext
  <2>1. PICK r \in Runners : RunnerStep(r)
    BY <1>2 DEF OpsNext
  <2>2. QED
    BY <2>1, SeedKeepsOpsInv, FindKeepsOpsInv, OpenRequestKeepsOpsInv, FinishCaseKeepsOpsInv,
       AbandonKeepsOpsInv DEF RunnerStep
<1>3. QED
  BY <1>1, <1>2

LEMMA OpsInvariant == OpsSpec => []OpsInv
<1>1. OpsInv /\ [OpsNext]_opsVars => OpsInv'
  BY OpsStep
<1>2. QED
  BY <1>1, OpsInitHolds, PTL DEF OpsSpec

LEMMA OpsTypes == OpsInv => OpsTypeOK
BY DEF OpsInv, OpsTypeOK, StoredCase, Tasks, Stages

\* Whoever else seeds, and wherever a run of it stops, the rows of a protocol are
\* those of one whole scenario: none is stored without the others, and none twice
\* (seed/service.py SyntheticOpsSeeder, one transaction for each case).
THEOREM OpsCasesAreWhole == OpsSpec => []CasesAreWhole
<1>1. OpsInv => CasesAreWhole
  BY DEF OpsInv, CasesAreWhole, StoredCase, Whole
<1>2. QED
  BY <1>1, OpsInvariant, PTL

-----------------------------------------------------------------------------
(* The calendar.                                                           *)

Months == 0 .. 12 * Years
MonthRule(f, k) == IF k = 0 THEN 0 ELSE f[k - 1] + DaysIn(k - 1)

\* The days of months add up: the equation of MonthStart has a solution, built up
\* month by month.
LEMMA MonthStartRule == MonthStart = [k \in Months |-> MonthRule(MonthStart, k)]
<1> DEFINE P == {n \in Nat : \E f : f = [k \in 0 .. n |-> MonthRule(f, k)]}
<1>1. 0 \in P
  <2> DEFINE f == [k \in 0 .. 0 |-> 0]
  <2>1. f = [k \in 0 .. 0 |-> MonthRule(f, k)]
    BY DEF MonthRule
  <2> HIDE DEF f
  <2>2. QED
    BY <2>1
<1>2. ASSUME NEW n \in Nat, n \in P
      PROVE  n + 1 \in P
  <2>1. PICK f : f = [k \in 0 .. n |-> MonthRule(f, k)]
    BY <1>2
  <2> DEFINE g == [k \in 0 .. n + 1 |-> IF k = n + 1 THEN f[n] + DaysIn(n) ELSE f[k]]
  <2>2. \A k \in 0 .. n : f[k] = MonthRule(f, k)
    BY <2>1, Zenon
  <2>3. ASSUME NEW k \in 0 .. n + 1
        PROVE  g[k] = MonthRule(g, k)
    <3>1. CASE k = n + 1
      BY <3>1 DEF MonthRule
    <3>2. CASE k # n + 1
      <4>1. k \in 0 .. n /\ (k # 0 => k - 1 \in 0 .. n)
        BY <3>2
      <4>2. f[k] = MonthRule(f, k)
        BY <2>2, <4>1
      <4>3. MonthRule(g, k) = MonthRule(f, k)
        BY <4>1 DEF MonthRule
      <4>4. QED
        BY <3>2, <4>2, <4>3
    <3>3. QED
      BY <3>1, <3>2
  <2>4. g = [k \in 0 .. n + 1 |-> g[k]]
    OBVIOUS
  <2> HIDE DEF g
  <2>5. g = [k \in 0 .. n + 1 |-> MonthRule(g, k)]
    BY <2>3, <2>4, Zenon
  <2>6. n + 1 \in Nat
    OBVIOUS
  <2>7. QED
    BY <2>5, <2>6
<1> HIDE DEF P
<1>3. \A n \in Nat : n \in P
  BY <1>1, <1>2, Induction
<1>4. 12 * Years \in P
  BY <1>3, TimeAssumption
<1>5. \E f : f = [k \in Months |-> MonthRule(f, k)]
  BY <1>4 DEF P, Months
<1>6. QED
  BY <1>5, Zenon DEF MonthStart, Months, MonthRule

LEMMA MonthsAddUp ==
  /\ MonthStart[0] = 0
  /\ \A k \in Months : MonthStart[k] \in Nat
  /\ \A k \in 0 .. 12 * Years - 1 : MonthStart[k + 1] = MonthStart[k] + DaysIn(k)
<1>1. 12 * Years \in Nat /\ 0 \in Months
  BY TimeAssumption DEF Months
<1>2. \A k \in Months : MonthStart[k] = MonthRule(MonthStart, k)
  BY MonthStartRule, Zenon
<1>3. MonthStart[0] = 0
  BY <1>1, <1>2 DEF MonthRule
<1>4. ASSUME NEW k \in 0 .. 12 * Years - 1
      PROVE  MonthStart[k + 1] = MonthStart[k] + DaysIn(k)
  <2>1. k + 1 \in Months /\ k + 1 # 0 /\ k + 1 - 1 = k
    BY <1>1 DEF Months
  <2>2. QED
    BY <1>2, <2>1 DEF MonthRule
<1>5. \A k : DaysIn(k) \in Nat
  BY DEF DaysIn
<1> DEFINE P == {n \in Nat : n \in Months => MonthStart[n] \in Nat}
<1>6. 0 \in P
  BY <1>3
<1>7. ASSUME NEW n \in Nat, n \in P
      PROVE  n + 1 \in P
  <2>1. n + 1 \in Months => n \in Months /\ n \in 0 .. 12 * Years - 1
    BY <1>1 DEF Months
  <2>2. QED
    BY <1>4, <1>5, <1>7, <2>1
<1> HIDE DEF P
<1>8. \A n \in Nat : n \in P
  BY <1>6, <1>7, Induction
<1>9. \A k \in Months : MonthStart[k] \in Nat
  BY <1>8 DEF P, Months
<1>10. QED
  BY <1>3, <1>4, <1>9

\* Months begin one after the other.
LEMMA MonthsInOrder ==
  ASSUME NEW j \in Months, NEW k \in Months, j < k
  PROVE  MonthStart[j] < MonthStart[k]
<1>1. 12 * Years \in Nat
  BY TimeAssumption
<1>2. \A m : DaysIn(m) \in Nat \ {0}
  BY DEF DaysIn
<1> DEFINE P == {n \in Nat : j + n + 1 \in Months => MonthStart[j] < MonthStart[j + n + 1]}
<1>3. ASSUME NEW m \in 0 .. 12 * Years - 1
      PROVE  MonthStart[m] \in Nat /\ MonthStart[m + 1] \in Nat /\ MonthStart[m] < MonthStart[m + 1]
  <2>1. m \in Months /\ m + 1 \in Months
    BY <1>1 DEF Months
  <2>2. MonthStart[m + 1] = MonthStart[m] + DaysIn(m)
    BY MonthsAddUp
  <2>3. QED
    BY <1>2, <2>1, <2>2, MonthsAddUp
<1>4. 0 \in P
  <2>1. j + 0 + 1 = j + 1 /\ (j + 1 \in Months => j \in 0 .. 12 * Years - 1)
    BY <1>1 DEF Months
  <2>2. QED
    BY <1>3, <2>1
<1>5. ASSUME NEW n \in Nat, n \in P
      PROVE  n + 1 \in P
  <2> SUFFICES ASSUME j + (n + 1) + 1 \in Months
               PROVE  MonthStart[j] < MonthStart[j + (n + 1) + 1]
    OBVIOUS
  <2> DEFINE m == j + n + 1
  <2>1. m \in 0 .. 12 * Years - 1 /\ m \in Months /\ j + (n + 1) + 1 = m + 1
    BY <1>1 DEF Months
  <2>2. MonthStart[j] < MonthStart[m]
    BY <1>5, <2>1
  <2> HIDE DEF m
  <2>3. MonthStart[m] \in Nat /\ MonthStart[m + 1] \in Nat /\ MonthStart[m] < MonthStart[m + 1]
        /\ MonthStart[j] \in Nat
    BY <1>3, <2>1, MonthsAddUp
  <2>4. QED
    BY <2>1, <2>2, <2>3
<1> HIDE DEF P
<1>6. \A n \in Nat : n \in P
  BY <1>4, <1>5, Induction
<1>7. k - j - 1 \in Nat /\ j + (k - j - 1) + 1 = k
  BY <1>1 DEF Months
<1>8. QED
  BY <1>6, <1>7 DEF P

\* A day of the calendar is in one month.
InMonth(d, k) == MonthStart[k] <= d /\ d < MonthStart[k + 1]

LEMMA MonthOfDay ==
  ASSUME NEW d \in Nat, d < MonthStart[12 * Years]
  PROVE  MonthOf(d) \in 0 .. 12 * Years - 1 /\ InMonth(d, MonthOf(d))
<1>1. 12 * Years \in Nat \ {0}
  BY TimeAssumption
<1> DEFINE P == {n \in Nat : n \in Months => \/ MonthStart[n] <= d
                                             \/ \E k \in 0 .. 12 * Years - 1 : InMonth(d, k)}
<1>2. 0 \in P
  BY MonthsAddUp
<1>3. ASSUME NEW n \in Nat, n \in P
      PROVE  n + 1 \in P
  <2> SUFFICES ASSUME n + 1 \in Months, ~(MonthStart[n + 1] <= d)
               PROVE  \E k \in 0 .. 12 * Years - 1 : InMonth(d, k)
    OBVIOUS
  <2>1. n \in 0 .. 12 * Years - 1 /\ n \in Months
    BY <1>1 DEF Months
  <2>2. MonthStart[n + 1] \in Nat
    BY MonthsAddUp
  <2>3. CASE MonthStart[n] <= d
    BY <2>1, <2>2, <2>3 DEF InMonth
  <2>4. QED
    BY <1>3, <2>1, <2>3
<1> HIDE DEF P
<1>4. \A n \in Nat : n \in P
  BY <1>2, <1>3, Induction
<1>5. 12 * Years \in P /\ 12 * Years \in Months
  BY <1>1, <1>4 DEF Months
<1>6. ~(MonthStart[12 * Years] <= d)
  BY <1>5, MonthsAddUp
<1>7. \E k \in 0 .. 12 * Years - 1 : InMonth(d, k)
  BY <1>5, <1>6 DEF P
<1>8. QED
  BY <1>7 DEF MonthOf, InMonth

\* A day is at or after the beginning of a month as its own month is.
LEMMA MonthBegins ==
  ASSUME NEW d \in Nat, d < MonthStart[12 * Years], NEW k \in Months
  PROVE  MonthStart[k] <= d <=> k <= MonthOf(d)
<1> DEFINE m == MonthOf(d)
<1>1. 12 * Years \in Nat \ {0}
  BY TimeAssumption
<1>2. m \in 0 .. 12 * Years - 1 /\ InMonth(d, m)
  BY MonthOfDay
<1> HIDE DEF m
<1>3. m \in Months /\ m + 1 \in Months /\ m \in Int
  BY <1>1, <1>2 DEF Months
<1>4. /\ MonthStart[m] \in Nat /\ MonthStart[m + 1] \in Nat /\ MonthStart[k] \in Nat
  BY <1>3, MonthsAddUp
<1>5. CASE k <= m
  <2>1. k = m \/ k < m
    BY <1>3, <1>5 DEF Months
  <2>2. MonthStart[k] <= MonthStart[m]
    BY <1>3, <1>4, <2>1, MonthsInOrder
  <2>3. QED
    BY <1>2, <1>4, <1>5, <2>2 DEF InMonth, m
<1>6. CASE ~(k <= m)
  <2>1. k = m + 1 \/ m + 1 < k
    BY <1>3, <1>6 DEF Months
  <2>2. MonthStart[m + 1] <= MonthStart[k]
    BY <1>3, <1>4, <2>1, MonthsInOrder
  <2>3. ~(MonthStart[k] <= d)
    BY <1>2, <1>4, <2>2 DEF InMonth
  <2>4. QED
    BY <1>6, <2>3 DEF m
<1>7. QED
  BY <1>5, <1>6

LEMMA DayBegins ==
  ASSUME NEW t \in Nat, NEW d \in Int
  PROVE  Day(t) \in Nat /\ (Midnight(d) <= t <=> d <= Day(t)) /\ Midnight(d) \in Int
<1> DEFINE q == t \div Hours
<1>1. Hours \in Nat \ {0}
  BY TimeAssumption
<1>2. q \in Nat /\ q * Hours <= t /\ t < (q + 1) * Hours
  BY <1>1
<1> HIDE DEF q
<1>3. d * Hours \in Int /\ q * Hours \in Int /\ (q + 1) * Hours \in Int
  BY <1>1, <1>2
<1>4. CASE d <= q
  <2>1. d * Hours <= q * Hours
    BY <1>1, <1>2, <1>4
  <2>2. QED
    BY <1>2, <1>3, <1>4, <2>1 DEF Day, Midnight, q
<1>5. CASE q + 1 <= d
  <2>1. (q + 1) * Hours <= d * Hours
    BY <1>1, <1>2, <1>5
  <2>2. ~(d * Hours <= t) /\ ~(d <= q)
    BY <1>2, <1>3, <1>5, <2>1
  <2>3. QED
    BY <1>2, <1>3, <2>2 DEF Day, Midnight, q
<1>6. QED
  BY <1>2, <1>4, <1>5

-----------------------------------------------------------------------------
(* Intervals and words.                                                    *)

\* A half-open interval whose end is a moment.
LEMMA Interval ==
  ASSUME NEW t \in Nat, NEW start \in Int, NEW end \in Nat
  PROVE  LET w == [start |-> start, end |-> end]
         IN /\ InWindow(w, t) <=> start <= t /\ t < end
            /\ ~WindowValid(w) => ~InWindow(w, t)
BY DEF InWindow, WindowValid, Open

\* What the code finds in the interval of an expression is what its words say.
Agrees(e, now, t) ==
  /\ InWindow(Resolve(e, now), t) <=> Means(e, now, t)
  /\ ~WindowValid(Resolve(e, now)) => ~Means(e, now, t)

LEMMA IntervalAgrees ==
  ASSUME NEW e, NEW now, NEW t \in Nat, NEW start \in Int, NEW end \in Nat,
         Resolve(e, now) = [start |-> start, end |-> end],
         Means(e, now, t) <=> start <= t /\ t < end
  PROVE  Agrees(e, now, t)
BY Interval DEF Agrees

\* An expression that was validated, whose month is in the calendar.
Meaningful(e, now) ==
  /\ e \in TimeExpressions /\ ExpressionValid(e)
  /\ e.kind = "CALENDAR_MONTH" => NamedMonth(e, Day(now)) \in 0 .. 12 * Years - 1

InCalendar(now) == now \in Nat /\ Day(now) < MonthStart[12 * Years]

LEMMA Earlier ==
  ASSUME NEW now, InCalendar(now), NEW t \in Nat, t < now
  PROVE  Day(t) \in Nat /\ Day(now) \in Nat /\ Day(t) <= Day(now) /\ InCalendar(t)
<1>1. Day(t) \in Nat /\ Day(now) \in Nat
  BY DayBegins DEF InCalendar
<1>2. Midnight(Day(t)) <= t /\ Midnight(Day(t)) \in Int
  BY <1>1, DayBegins
<1>3. Day(t) <= Day(now)
  BY <1>1, <1>2, DayBegins DEF InCalendar
<1>4. MonthStart[12 * Years] \in Nat
  BY MonthsAddUp, TimeAssumption DEF Months
<1>5. QED
  BY <1>1, <1>3, <1>4 DEF InCalendar

\* The weeks of two days, by the Monday of the later.
LEMMA Weeks ==
  ASSUME NEW d \in Nat, NEW today \in Nat, d <= today
  PROVE  LET monday == today - (today % 7)
         IN /\ monday \in Nat
            /\ (d \div 7) = (today \div 7) <=> monday <= d
            /\ (d \div 7) = (today \div 7) - 1 <=> monday - 7 <= d /\ d < monday
<1> DEFINE a == d \div 7
           b == today \div 7
           monday == today - (today % 7)
<1>1. /\ a \in Int /\ b \in Nat /\ monday = 7 * b
      /\ 7 * a <= d /\ d < 7 * a + 7 /\ 7 * b <= today /\ today < 7 * b + 7
  OBVIOUS
<1> HIDE DEF a, b, monday
<1>2. /\ monday \in Nat /\ (a = b <=> monday <= d)
      /\ a = b - 1 <=> monday - 7 <= d /\ d < monday
  BY <1>1
<1>3. QED
  BY <1>2 DEF a, b, monday

LEMMA DaysAgree ==
  ASSUME NEW now, InCalendar(now), NEW t \in Nat, t < now, NEW e, Meaningful(e, now),
         e.kind \in {"ALL_TIME", "TODAY", "YESTERDAY", "THIS_WEEK", "LAST_WEEK", "LAST_N_DAYS",
                     "BETWEEN_DATES", "BEFORE_DATE", "AFTER_DATE"}
  PROVE  Agrees(e, now, t)
<1> DEFINE d == Day(t)
           today == Day(now)
           monday == today - (today % 7)
<1>1. d \in Nat /\ today \in Nat /\ d <= today /\ now \in Nat
  BY Earlier DEF InCalendar
<1>2. \A x \in Int : Midnight(x) \in Int /\ (Midnight(x) <= t <=> x <= d)
  BY DayBegins
<1>3. \A x \in Nat : Midnight(x) \in Nat
  BY TimeAssumption DEF Midnight
<1>4. /\ monday \in Nat
      /\ (d \div 7) = (today \div 7) <=> monday <= d
      /\ (d \div 7) = (today \div 7) - 1 <=> monday - 7 <= d /\ d < monday
  BY <1>1, Weeks
<1>5. /\ e.kind = "BETWEEN_DATES" => e.from \in Nat /\ e.to \in Nat
      /\ e.kind \in {"BEFORE_DATE", "AFTER_DATE"} => e.from \in Nat
      /\ e.days \in Nat
  BY DEF Meaningful, TimeExpressions, ExpressionValid
<1>6. CASE e.kind = "ALL_TIME"
  BY <1>6 DEF Agrees, Resolve, Means, InWindow, WindowValid
<1>7. CASE e.kind = "TODAY"
  <2>1. Resolve(e, now) = [start |-> Midnight(today), end |-> now]
    BY <1>7 DEF Resolve
  <2>2. Means(e, now, t) <=> d = today
    BY <1>7 DEF Means
  <2> HIDE DEF d, today
  <2>3. Means(e, now, t) <=> Midnight(today) <= t /\ t < now
    BY <1>1, <1>2, <2>2
  <2>4. QED
    BY <1>1, <1>2, <2>1, <2>3, IntervalAgrees
<1>8. CASE e.kind = "YESTERDAY"
  <2>1. Resolve(e, now) = [start |-> Midnight(today - 1), end |-> Midnight(today)]
    BY <1>8 DEF Resolve
  <2>2. Means(e, now, t) <=> d = today - 1
    BY <1>8 DEF Means
  <2> HIDE DEF d, today
  <2>3. today - 1 \in Int /\ Midnight(today - 1) \in Int /\ Midnight(today) \in Nat
    BY <1>1, <1>2, <1>3
  <2>4. Means(e, now, t) <=> Midnight(today - 1) <= t /\ t < Midnight(today)
    BY <1>1, <1>2, <2>2, <2>3
  <2>5. QED
    BY <2>1, <2>3, <2>4, IntervalAgrees
<1>9. CASE e.kind = "THIS_WEEK"
  <2>1. Resolve(e, now) = [start |-> Midnight(monday), end |-> now]
    BY <1>9 DEF Resolve
  <2>2. Means(e, now, t) <=> (d \div 7) = (today \div 7)
    BY <1>9 DEF Means
  <2> HIDE DEF d, today, monday
  <2>3. Means(e, now, t) <=> Midnight(monday) <= t /\ t < now
    BY <1>2, <1>4, <2>2
  <2>4. QED
    BY <1>1, <1>2, <1>4, <2>1, <2>3, IntervalAgrees
<1>10. CASE e.kind = "LAST_WEEK"
  <2>1. Resolve(e, now) = [start |-> Midnight(monday - 7), end |-> Midnight(monday)]
    BY <1>10 DEF Resolve
  <2>2. Means(e, now, t) <=> (d \div 7) = (today \div 7) - 1
    BY <1>10 DEF Means
  <2> HIDE DEF d, today, monday
  <2>3. monday - 7 \in Int /\ Midnight(monday - 7) \in Int /\ Midnight(monday) \in Nat
    BY <1>2, <1>3, <1>4
  <2>4. Means(e, now, t) <=> Midnight(monday - 7) <= t /\ t < Midnight(monday)
    BY <1>1, <1>2, <1>4, <2>2, <2>3
  <2>5. QED
    BY <2>1, <2>3, <2>4, IntervalAgrees
<1>11. CASE e.kind = "LAST_N_DAYS"
  <2> DEFINE span == e.days * Hours
  <2>1. Resolve(e, now) = [start |-> now - span, end |-> now]
    BY <1>11 DEF Resolve
  <2>2. Means(e, now, t) <=> now - t <= span
    BY <1>11 DEF Means
  <2>3. span \in Nat
    BY <1>5, TimeAssumption
  <2> HIDE DEF span
  <2>4. Means(e, now, t) <=> now - span <= t /\ t < now
    BY <1>1, <2>2, <2>3
  <2>5. QED
    BY <1>1, <2>1, <2>3, <2>4, IntervalAgrees
<1>12. CASE e.kind = "BETWEEN_DATES"
  <2>1. Resolve(e, now) = [start |-> Midnight(e.from), end |-> Midnight(e.to + 1)]
    BY <1>12 DEF Resolve
  <2>2. Means(e, now, t) <=> e.from <= d /\ d <= e.to
    BY <1>12 DEF Means
  <2> HIDE DEF d
  <2>3. e.to + 1 \in Nat /\ Midnight(e.from) \in Int /\ Midnight(e.to + 1) \in Nat
        /\ e.from \in Int /\ e.to + 1 \in Int /\ e.to \in Int
    BY <1>2, <1>3, <1>5, <1>12
  <2>4. Means(e, now, t) <=> Midnight(e.from) <= t /\ t < Midnight(e.to + 1)
    BY <1>1, <1>2, <2>2, <2>3
  <2>5. QED
    BY <2>1, <2>3, <2>4, IntervalAgrees
<1>13. CASE e.kind = "BEFORE_DATE"
  <2>1. Resolve(e, now) = [start |-> Open, end |-> Midnight(e.from)]
    BY <1>13 DEF Resolve
  <2>2. Means(e, now, t) <=> d < e.from
    BY <1>13 DEF Means
  <2> HIDE DEF d
  <2>3. e.from \in Int /\ Midnight(e.from) \in Nat /\ Open \in Int /\ Open <= t
    BY <1>3, <1>5, <1>13 DEF Open
  <2>4. Means(e, now, t) <=> Open <= t /\ t < Midnight(e.from)
    BY <1>1, <1>2, <2>2, <2>3
  <2>5. QED
    BY <2>1, <2>3, <2>4, IntervalAgrees
<1>14. CASE e.kind = "AFTER_DATE"
  <2>1. Resolve(e, now) = [start |-> Midnight(e.from + 1), end |-> now]
    BY <1>14 DEF Resolve
  <2>2. Means(e, now, t) <=> d > e.from
    BY <1>14 DEF Means
  <2> HIDE DEF d
  <2>3. e.from \in Int /\ e.from + 1 \in Int /\ Midnight(e.from + 1) \in Int
    BY <1>2, <1>5, <1>14
  <2>4. Means(e, now, t) <=> Midnight(e.from + 1) <= t /\ t < now
    BY <1>1, <1>2, <2>2, <2>3
  <2>5. QED
    BY <1>1, <2>1, <2>3, <2>4, IntervalAgrees
<1>15. QED
  BY <1>6, <1>7, <1>8, <1>9, <1>10, <1>11, <1>12, <1>13, <1>14

\* The months of two moments, and of the midnights at which months begin.
LEMMA MonthsOfMoments ==
  ASSUME NEW now, InCalendar(now), NEW t \in Nat, t < now
  PROVE  /\ MonthOf(Day(t)) \in 0 .. 12 * Years - 1 /\ MonthOf(Day(now)) \in 0 .. 12 * Years - 1
         /\ MonthOf(Day(t)) <= MonthOf(Day(now))
         /\ \A k \in Months : /\ Midnight(MonthStart[k]) \in Nat
                              /\ Midnight(MonthStart[k]) <= t <=> k <= MonthOf(Day(t))
<1>1. Day(t) \in Nat /\ Day(now) \in Nat /\ Day(t) <= Day(now) /\ InCalendar(t)
  BY Earlier
<1>2. MonthOf(Day(t)) \in 0 .. 12 * Years - 1 /\ MonthOf(Day(now)) \in 0 .. 12 * Years - 1
      /\ InMonth(Day(t), MonthOf(Day(t)))
  BY <1>1, MonthOfDay DEF InCalendar
<1> DEFINE m == MonthOf(Day(t))
<1>3. m \in Months
  BY <1>2, TimeAssumption DEF Months
<1>4. MonthStart[m] \in Nat /\ MonthStart[m] <= Day(now)
  BY <1>1, <1>2, <1>3, MonthsAddUp DEF InMonth
<1>5. m <= MonthOf(Day(now))
  BY <1>1, <1>3, <1>4, MonthBegins DEF InCalendar
<1>6. ASSUME NEW k \in Months
      PROVE  /\ Midnight(MonthStart[k]) \in Nat
             /\ Midnight(MonthStart[k]) <= t <=> k <= m
  <2>1. MonthStart[k] \in Nat
    BY MonthsAddUp
  <2>2. Midnight(MonthStart[k]) \in Nat
    BY <2>1, TimeAssumption DEF Midnight
  <2>3. MonthStart[k] <= Day(t) <=> k <= m
    BY <1>1, MonthBegins DEF InCalendar
  <2>4. QED
    BY <2>1, <2>2, <2>3, DayBegins
<1>7. QED
  BY <1>2, <1>5, <1>6

\* A month is its year and its place in it.
LEMMA MonthNumber ==
  ASSUME NEW m \in Nat, NEW y \in Int, NEW n \in 1 .. 12
  PROVE  /\ m = 12 * y + n - 1 <=> (m % 12) + 1 = n /\ m \div 12 = y
         /\ m % 12 \in 0 .. 11 /\ m \div 12 \in Nat
<1> DEFINE q == m \div 12
           r == m % 12
<1>1. q \in Nat /\ r \in 0 .. 11 /\ m = 12 * q + r
  OBVIOUS
<1> HIDE DEF q, r
<1>2. m = 12 * y + n - 1 <=> r + 1 = n /\ q = y
  BY <1>1
<1>3. QED
  BY <1>1, <1>2 DEF q, r

\* The latest month of a name that has begun is the one of that name in the last
\* twelve.
LEMMA LatestOfName ==
  ASSUME NEW m \in Nat, NEW this \in Nat, m <= this, NEW n \in 1 .. 12
  PROVE  LET y == IF n <= (this % 12) + 1 THEN this \div 12 ELSE this \div 12 - 1
         IN m = 12 * y + n - 1 <=> (m % 12) + 1 = n /\ this - m < 12
<1> DEFINE q == m \div 12
           r == m % 12
           a == this \div 12
           b == this % 12
           y == IF n <= b + 1 THEN a ELSE a - 1
<1>1. /\ q \in Nat /\ r \in 0 .. 11 /\ m = 12 * q + r
      /\ a \in Nat /\ b \in 0 .. 11 /\ this = 12 * a + b
  OBVIOUS
<1> HIDE DEF q, r, a, b
<1>2. m = 12 * y + n - 1 <=> r + 1 = n /\ this - m < 12
  BY <1>1
<1>3. QED
  BY <1>2 DEF q, r, a, b

LEMMA MonthsAgree ==
  ASSUME NEW now, InCalendar(now), NEW t \in Nat, t < now, NEW e, Meaningful(e, now),
         e.kind \in {"THIS_MONTH", "LAST_MONTH", "CALENDAR_MONTH"}
  PROVE  Agrees(e, now, t)
<1> DEFINE m == MonthOf(Day(t))
           this == MonthOf(Day(now))
<1>1. /\ m \in 0 .. 12 * Years - 1 /\ this \in 0 .. 12 * Years - 1 /\ m <= this
      /\ \A k \in Months : Midnight(MonthStart[k]) \in Nat /\ (Midnight(MonthStart[k]) <= t <=> k <= m)
  BY MonthsOfMoments
<1>2. /\ m \in Nat /\ this \in Nat /\ now \in Nat /\ this \in Months
      /\ \A k \in 0 .. 12 * Years - 1 : k \in Months /\ k + 1 \in Months /\ k \in Int
  BY <1>1, TimeAssumption DEF Months, InCalendar
<1>3. CASE e.kind = "THIS_MONTH"
  <2>1. Resolve(e, now) = [start |-> Midnight(MonthStart[this]), end |-> now]
    BY <1>3 DEF Resolve
  <2>2. Means(e, now, t) <=> m = this
    BY <1>3 DEF Means
  <2> HIDE DEF m, this
  <2>3. Means(e, now, t) <=> Midnight(MonthStart[this]) <= t /\ t < now
    BY <1>1, <1>2, <2>2
  <2>4. QED
    BY <1>1, <1>2, <2>1, <2>3, IntervalAgrees
<1>4. CASE e.kind = "LAST_MONTH"
  <2>1. Resolve(e, now) = [start |-> Midnight(MonthStart[this - 1]), end |-> Midnight(MonthStart[this])]
    BY <1>4 DEF Resolve
  <2>2. Means(e, now, t) <=> m = this - 1
    BY <1>4 DEF Means
  <2> HIDE DEF m, this
  <2>3. CASE this = 0
    <3>1. Midnight(MonthStart[this]) = 0
      BY <2>3, MonthsAddUp, TimeAssumption DEF Midnight
    <3>2. ~Means(e, now, t) /\ ~InWindow(Resolve(e, now), t)
      BY <1>1, <1>2, <2>1, <2>2, <2>3, <3>1 DEF InWindow, Open
    <3>3. QED
      BY <3>2 DEF Agrees
  <2>4. CASE this # 0
    <3>1. this - 1 \in 0 .. 12 * Years - 1 /\ this - 1 \in Months
      <4>1. this \in 0 .. 12 * Years - 1 /\ 12 * Years \in Nat
        BY <1>1, TimeAssumption
      <4>2. QED
        BY <2>4, <4>1 DEF Months
    <3>2. Midnight(MonthStart[this - 1]) \in Nat /\ Midnight(MonthStart[this]) \in Nat
      BY <1>1, <1>2, <3>1
    <3>3. Means(e, now, t) <=> Midnight(MonthStart[this - 1]) <= t /\ t < Midnight(MonthStart[this])
      BY <1>1, <1>2, <2>2, <3>1, <3>2
    <3>4. QED
      BY <2>1, <3>2, <3>3, IntervalAgrees
  <2>5. QED
    BY <2>3, <2>4
<1>5. CASE e.kind = "CALENDAR_MONTH"
  <2> DEFINE k == NamedMonth(e, Day(now))
  <2>1. Resolve(e, now) = [start |-> Midnight(MonthStart[k]), end |-> Midnight(MonthStart[k + 1])]
    BY <1>5 DEF Resolve
  <2>2. /\ k \in 0 .. 12 * Years - 1 /\ e.month \in 1 .. 12 /\ e.year \in Nat
    BY <1>5 DEF Meaningful, ExpressionValid, TimeExpressions
  <2>3. Means(e, now, t) <=>
          /\ (m % 12) + 1 = e.month
          /\ IF e.year # 0 THEN YearOf(m) = e.year ELSE this - m < 12
    BY <1>5 DEF Means
  <2>4. k = 12 * ((IF e.year # 0 THEN e.year
                   ELSE IF e.month <= (this % 12) + 1 THEN YearOf(this) ELSE YearOf(this) - 1) - FirstYear)
            + e.month - 1
    BY DEF NamedMonth
  <2>5. Means(e, now, t) <=> m = k
    <3> HIDE DEF m, this, k
    <3>1. m \div 12 \in Nat /\ this \div 12 \in Nat
      BY <1>2
    <3>2. CASE e.year # 0
      <4> DEFINE y == e.year - FirstYear
      <4>1. y \in Int /\ (FirstYear + (m \div 12) = e.year <=> m \div 12 = y)
        BY <2>2, <3>1, TimeAssumption
      <4>2. k = 12 * y + e.month - 1
        BY <2>4, <3>2
      <4>3. Means(e, now, t) <=> (m % 12) + 1 = e.month /\ m \div 12 = y
        BY <2>3, <3>2, <4>1 DEF YearOf
      <4> HIDE DEF y
      <4>4. QED
        BY <1>2, <2>2, <4>1, <4>2, <4>3, MonthNumber
    <3>3. CASE e.year = 0
      <4> DEFINE y == IF e.month <= (this % 12) + 1 THEN this \div 12 ELSE this \div 12 - 1
      <4>1. k = 12 * y + e.month - 1
        BY <2>2, <2>4, <3>1, <3>3, TimeAssumption DEF YearOf
      <4>2. Means(e, now, t) <=> (m % 12) + 1 = e.month /\ this - m < 12
        BY <2>3, <3>3
      <4>3. m = 12 * y + e.month - 1 <=> (m % 12) + 1 = e.month /\ this - m < 12
        BY <1>1, <1>2, <2>2, LatestOfName
      <4>4. QED
        BY <4>1, <4>2, <4>3
    <3>4. QED
      BY <3>2, <3>3
  <2> HIDE DEF m, this, k
  <2>6. Midnight(MonthStart[k]) \in Nat /\ Midnight(MonthStart[k + 1]) \in Nat /\ k \in Int
    BY <1>1, <1>2, <2>2
  <2>7. Means(e, now, t) <=> Midnight(MonthStart[k]) <= t /\ t < Midnight(MonthStart[k + 1])
    BY <1>1, <1>2, <2>2, <2>5, <2>6
  <2>8. QED
    BY <2>1, <2>6, <2>7, IntervalAgrees
<1>6. QED
  BY <1>3, <1>4, <1>5

\* The interval of an expression holds the moments before now that its words mean.
LEMMA WindowsMeanTheirWords ==
  ASSUME NEW now, InCalendar(now), NEW t \in Nat, t < now, NEW e, Meaningful(e, now)
  PROVE  Agrees(e, now, t)
<1>1. e.kind \in Kinds
  BY DEF Meaningful, TimeExpressions
<1>2. QED
  BY <1>1, DaysAgree, MonthsAgree DEF Kinds
-----------------------------------------------------------------------------
(* What is stored is over when a question is asked.                        *)

\* The moments before a question; 0 is one that was not given.
Past(now) == 0 .. now - 1

LogBefore(f, now) == \E n : Indexed(f, n) /\ \A i \in 1 .. n : f[i].at \in Past(now)

CaseBefore(c, now) ==
  /\ SeededFrom + c.created \in Past(now) /\ c.completed \in Past(now)
  /\ \E r \in c.runs : r.robot = "R1"
  /\ \A r \in c.runs : r.at \in Past(now) /\ r.end \in Past(now)
  /\ LogBefore(c.log, now)

EndsBefore(s, now) ==
  s.r1.end \in Past(now) /\ s.r2.end \in Past(now) /\ s.completed \in Past(now)

Filed(s) == \E files \in Directories : \E i \in DOMAIN files : s = files[i]

LEMMA FiledEndsBefore ==
  ASSUME NEW s \in Scenarios, Filed(s), NEW now \in Clocks
  PROVE  EndsBefore(s, now)
<1>1. PICK files \in Directories : \E i \in DOMAIN files : s = files[i]
  BY DEF Filed
<1>2. s.r1.end < now /\ s.r2.end < now /\ s.completed < now
  BY <1>1, ClocksAssumption
<1>3. now \in Nat
  BY ClocksAssumption
<1>4. s.r1 \in RobotRuns /\ s.r2 \in RobotRuns \cup {NoRun} /\ s.completed \in Nat
  BY DEF Scenarios
<1>5. \A r \in RobotRuns : r.end \in Nat
  <2> DEFINE E == Seq(SeedEvents) \ {<<>>}
             U == {"SUCCESS", "PARTIAL", "ERROR"}
  <2>1. RobotRuns = [at : Nat, end : Nat, status : U, events : E]
    BY DEF RobotRuns
  <2> HIDE DEF E, U
  <2>2. QED
    BY <2>1
<1>6. s.r1.end \in Nat /\ s.r2.end \in Nat
  BY <1>4, <1>5 DEF NoRun
<1>7. QED
  BY <1>2, <1>3, <1>4, <1>6 DEF EndsBefore, Past

LEMMA LogsBefore ==
  ASSUME NEW f, NEW g, NEW now, LogBefore(f, now), LogBefore(g, now)
  PROVE  LogBefore(Joined(f, g), now)
<1>1. PICK n : Indexed(f, n) /\ \A i \in 1 .. n : f[i].at \in Past(now)
  BY DEF LogBefore
<1>2. PICK m : Indexed(g, m) /\ \A i \in 1 .. m : g[i].at \in Past(now)
  BY DEF LogBefore
<1> DEFINE h == Joined(f, g)
<1>3. /\ Indexed(h, n + m) /\ \A i \in 1 .. n : h[i] = f[i]
      /\ \A i \in 1 .. m : h[n + i] = g[i]
  BY <1>1, <1>2, JoinedRows
<1> HIDE DEF h
<1>4. n \in Nat /\ m \in Nat
  BY <1>1, <1>2 DEF Indexed
<1>5. ASSUME NEW i \in 1 .. n + m
      PROVE  h[i].at \in Past(now)
  <2>1. CASE i <= n
    BY <1>1, <1>3, <1>4, <2>1
  <2>2. CASE ~(i <= n)
    <3>1. i - n \in 1 .. m /\ n + (i - n) = i
      BY <1>4, <2>2
    <3>2. h[n + (i - n)] = g[i - n]
      BY <1>3, <3>1
    <3>3. QED
      BY <1>2, <3>1, <3>2
  <2>3. QED
    BY <2>1, <2>2
<1>6. QED
  BY <1>3, <1>5 DEF LogBefore, h

\* The rows that a run writes, when it was in order and is over.
LEMMA EntryBefore ==
  ASSUME NEW r \in RobotRuns, Ordered(r), NEW now \in Nat, r.end \in Past(now), NEW robot,
         NEW first \in Nat \ {0}, NEW last \in Nat, first <= last + 1, last <= Len(r.events)
  PROVE  LogBefore(Entry(r, robot, first, last), now)
<1> DEFINE n == last - first + 1
           f == Entry(r, robot, first, last)
<1>1. Indexed(f, n) /\ \A i \in 1 .. n : f[i].at = r.events[first + i - 1].at
  BY EntryRows
<1>2. \A i \in 1 .. n : first + i - 1 \in 1 .. last
  OBVIOUS
<1> HIDE DEF n, f
<1>3. DOMAIN r.events = 1 .. Len(r.events) /\ Len(r.events) \in Nat
  <2>1. r.events \in Seq(SeedEvents) \ {<<>>}
    BY DEF RobotRuns
  <2>2. QED
    BY <2>1
<1>4. ASSUME NEW i \in 1 .. n
      PROVE  f[i].at \in Past(now)
  <2>1. first + i - 1 \in DOMAIN r.events
    BY <1>2, <1>3
  <2>2. r.events[first + i - 1].at \in Nat /\ r.events[first + i - 1].at <= r.end
    BY <2>1, OrderedRun
  <2>3. QED
    BY <1>1, <2>2 DEF Past
<1>5. QED
  BY <1>1, <1>4 DEF LogBefore, f

LEMMA MadeCaseJoined ==
  ASSUME NEW s, NEW began
  PROVE  LET c == MadeCase(s, began)
         IN /\ c.created = began /\ c.completed = s.completed
            /\ c.runs = IF s.r2 = NoRun THEN {EndedRun(s.r1, "R1")}
                        ELSE {EndedRun(s.r1, "R1")} \cup {EndedRun(s.r2, "R2")}
            /\ c.log = Joined(Joined(Entry(s.r1, "R1", 1, 5), Entry(s.r1, "R1", 6, Len(s.r1.events))),
                              Entry(s.r2, "R2", 1, Len(s.r2.events)))
BY DEF MadeCase, Finished, AfterR1, Received, Joined

\* A case is over when its scenario is.
LEMMA MadeBefore ==
  ASSUME NEW s \in Scenarios, ScenarioValid(s), NEW now \in Nat, EndsBefore(s, now),
         NEW began, SeededFrom + began \in Past(now)
  PROVE  CaseBefore(MadeCase(s, began), now)
<1> DEFINE c == MadeCase(s, began)
           a == EndedRun(s.r1, "R1")
           b == EndedRun(s.r2, "R2")
           n == Len(s.r1.events)
           m == Len(s.r2.events)
           x == Entry(s.r1, "R1", 1, 5)
           y == Entry(s.r1, "R1", 6, n)
           z == Entry(s.r2, "R2", 1, m)
<1>1. /\ c.created = began /\ c.completed = s.completed
      /\ c.runs = IF s.r2 = NoRun THEN {a} ELSE {a} \cup {b}
      /\ c.log = Joined(Joined(x, y), z)
  BY MadeCaseJoined
<1>2. /\ a.robot = "R1" /\ a.at = s.r1.at /\ a.end = s.r1.end
      /\ b.robot = "R2" /\ b.at = s.r2.at /\ b.end = s.r2.end
  BY EndedRunFields
<1>3. /\ s.r1 \in RobotRuns /\ Ordered(s.r1) /\ n \in Nat /\ n >= 10
      /\ s.r2 = NoRun \/ (s.r2 \in RobotRuns /\ s.r2 # NoRun /\ Ordered(s.r2) /\ m \in Nat)
  BY ValidScenario
<1>4. s.r1.end \in Past(now) /\ s.r2.end \in Past(now) /\ s.completed \in Past(now)
  BY DEF EndsBefore
<1> HIDE DEF a, b, c
<1>5. \A r \in RobotRuns : Ordered(r) /\ r.end \in Past(now) => r.at \in Past(now)
  BY OrderedRun DEF Past
<1>6. \A r \in c.runs : r.at \in Past(now) /\ r.end \in Past(now)
  BY <1>1, <1>2, <1>3, <1>4, <1>5
<1>7. LogBefore(x, now) /\ LogBefore(y, now)
  <2> HIDE DEF n
  <2>1. 1 \in Nat \ {0} /\ 6 \in Nat \ {0} /\ 5 \in Nat /\ 1 <= 5 + 1 /\ 5 <= n /\ 6 <= n + 1 /\ n <= n
    BY <1>3
  <2>2. QED
    BY <1>3, <1>4, <2>1, EntryBefore DEF n
<1>8. LogBefore(z, now)
  <2>1. CASE s.r2 = NoRun
    <3>1. m = 0
      BY <2>1 DEF NoRun
    <3> HIDE DEF m, z
    <3>2. Indexed(z, 0)
      <4>1. 1 \in Nat /\ 0 \in Nat /\ 1 <= 0 + 1 /\ 0 - 1 + 1 = 0
        OBVIOUS
      <4>2. z = Entry(s.r2, "R2", 1, 0)
        BY <3>1 DEF z
      <4>3. Indexed(Entry(s.r2, "R2", 1, 0), 0 - 1 + 1)
        BY <4>1, EntryRows
      <4>4. QED
        BY <4>1, <4>2, <4>3
    <3>3. \A i \in 1 .. 0 : z[i].at \in Past(now)
      OBVIOUS
    <3>4. QED
      BY <3>2, <3>3 DEF LogBefore
  <2>2. CASE s.r2 # NoRun
    <3> HIDE DEF m
    <3>1. m \in Nat /\ 1 \in Nat \ {0} /\ 1 <= m + 1 /\ m <= m
      BY <1>3, <2>2
    <3>2. QED
      BY <1>3, <1>4, <2>2, <3>1, EntryBefore DEF m
  <2>3. QED
    BY <2>1, <2>2
<1> HIDE DEF x, y, z, n, m
<1>9. LogBefore(c.log, now)
  BY <1>1, <1>7, <1>8, LogsBefore
<1>10. \E r \in c.runs : r.robot = "R1"
  BY <1>1, <1>2
<1>11. QED
  BY <1>1, <1>4, <1>6, <1>9, <1>10 DEF CaseBefore, c

\* What the runners are doing came from the files, and what they stored is over.
StoredBefore ==
  /\ \A r \in Runners : \A i \in DOMAIN runner[r].todo : Filed(runner[r].todo[i])
  /\ \A c \in cases : \A now \in Clocks : CaseBefore(c, now)

LEMMA NextFiled ==
  ASSUME OpsInv, NEW r \in Runners, ~Holds(r, "idle"), NextScenario(r),
         \A q \in Runners : \A i \in DOMAIN runner[q].todo : Filed(runner[q].todo[i])
  PROVE  \A q \in Runners : \A i \in DOMAIN runner'[q].todo : Filed(runner'[q].todo[i])
<1> DEFINE todo == runner[r].todo
           rest == [pc |-> "find", todo |-> Tail(todo), began |-> 0]
           t == IF Len(todo) = 1 THEN Waiting ELSE rest
<1>1. runner' = [runner EXCEPT ![r] = t] /\ runner \in [Runners -> Tasks]
  BY DEF NextScenario, OpsInv
<1>2. todo \in Seq(Scenarios) /\ Len(todo) \in Nat \ {0}
  BY ScenarioOf
<1>3. \A i \in DOMAIN todo : Filed(todo[i])
  OBVIOUS
<1>4. \A i \in DOMAIN t.todo : Filed(t.todo[i])
  <2> HIDE DEF todo
  <2>1. CASE Len(todo) = 1
    BY <2>1 DEF Waiting
  <2>2. CASE Len(todo) # 1
    <3>1. todo # <<>>
      BY <1>2
    <3>2. /\ DOMAIN Tail(todo) = 1 .. Len(todo) - 1
          /\ \A i \in 1 .. Len(todo) - 1 : Tail(todo)[i] = todo[i + 1] /\ i + 1 \in DOMAIN todo
      BY <1>2, <3>1
    <3>3. t.todo = Tail(todo)
      BY <2>2
    <3>4. QED
      BY <1>3, <3>2, <3>3
  <2>3. QED
    BY <2>1, <2>2
<1> HIDE DEF t
<1>5. runner'[r] = t /\ \A q \in Runners \ {r} : runner'[q] = runner[q]
  BY <1>1
<1>6. QED
  BY <1>4, <1>5

LEMMA RunnerKeepsBefore ==
  ASSUME OpsInv, StoredBefore, NEW r \in Runners, RunnerStep(r)
  PROVE  StoredBefore'
<1>1. /\ runner \in [Runners -> Tasks]
      /\ \A q \in Runners : \A i \in DOMAIN runner[q].todo : Filed(runner[q].todo[i])
      /\ \A c \in cases : \A now \in Clocks : CaseBefore(c, now)
  BY DEF OpsInv, StoredBefore
<1>2. CASE Seed(r)
  <2>1. PICK files \in Directories : \E todo \in {files} \cup {<<files[i]>> : i \in DOMAIN files} :
          runner' = [runner EXCEPT ![r] = [pc |-> "find", todo |-> todo, began |-> 0]]
    BY <1>2 DEF Seed
  <2>2. PICK todo \in {files} \cup {<<files[i]>> : i \in DOMAIN files} :
          runner' = [runner EXCEPT ![r] = [pc |-> "find", todo |-> todo, began |-> 0]]
    BY <2>1
  <2>3. \A i \in DOMAIN todo : Filed(todo[i])
    <3>1. CASE todo = files
      BY <3>1 DEF Filed
    <3>2. CASE \E i \in DOMAIN files : todo = <<files[i]>>
      BY <3>2 DEF Filed
    <3>3. QED
      BY <2>2, <3>1, <3>2
  <2>4. runner'[r].todo = todo /\ \A q \in Runners \ {r} : runner'[q] = runner[q]
    BY <1>1, <2>2
  <2>5. cases' = cases
    BY <1>2 DEF Seed
  <2>6. QED
    BY <1>1, <2>3, <2>4, <2>5 DEF StoredBefore
<1>3. CASE Find(r) \/ OpenRequest(r)
  <2>1. cases' = cases
    BY <1>3 DEF Find, OpenRequest
  <2>2. CASE NextScenario(r) /\ ~Holds(r, "idle")
    <3>1. \A q \in Runners : \A i \in DOMAIN runner'[q].todo : Filed(runner'[q].todo[i])
      BY <1>1, <2>2, NextFiled
    <3>2. QED
      BY <1>1, <2>1, <3>1 DEF StoredBefore
  <2>3. ASSUME \A q \in Runners : runner'[q].todo = runner[q].todo
        PROVE  StoredBefore'
    BY <1>1, <2>1, <2>3 DEF StoredBefore
  <2>4. runner' = [runner EXCEPT ![r].pc = "receive", ![r].began = seeds + 1]
          => \A q \in Runners : runner'[q].todo = runner[q].todo
    <3>1. runner[r] \in Tasks
      BY <1>1
    <3>2. [runner[r] EXCEPT !.pc = "receive", !.began = seeds + 1].todo = runner[r].todo
      BY <3>1 DEF Tasks
    <3>3. QED
      BY <1>1, <3>2
  <2>5. runner' = [runner EXCEPT ![r].pc = "opened"] => \A q \in Runners : runner'[q].todo = runner[q].todo
    <3>1. runner[r] \in Tasks
      BY <1>1
    <3>2. [runner[r] EXCEPT !.pc = "opened"].todo = runner[r].todo
      BY <3>1 DEF Tasks
    <3>3. QED
      BY <1>1, <3>2
  <2>6. QED
    BY <1>3, <2>2, <2>3, <2>4, <2>5 DEF Find, OpenRequest, Holds
<1>4. CASE Abandon(r)
  <2>1. cases' = cases /\ runner' = [runner EXCEPT ![r] = Waiting]
    BY <1>4 DEF Abandon
  <2>2. runner'[r].todo = <<>> /\ \A q \in Runners \ {r} : runner'[q] = runner[q]
    BY <1>1, <2>1 DEF Waiting
  <2>3. QED
    BY <1>1, <2>1, <2>2 DEF StoredBefore
<1>5. CASE FinishCase(r)
  <2> DEFINE s == Scenario(r)
             began == runner[r].began
             c == MadeCase(s, began)
  <2>1. Holds(r, "opened") /\ ~Holds(r, "idle") /\ ~Holds(r, "find") /\ NextScenario(r)
    BY <1>5 DEF FinishCase, Holds
  <2>2. /\ runner[r].todo \in Seq(Scenarios) /\ Len(runner[r].todo) \in Nat \ {0}
        /\ s \in Scenarios /\ ScenarioValid(s) /\ began \in 1 .. MaxSeeds
    BY <2>1, ScenarioOf
  <2>3. Filed(s)
    <3>1. 1 \in DOMAIN runner[r].todo
      BY <2>2
    <3>2. QED
      BY <1>1, <3>1 DEF Scenario
  <2>4. cases' = cases \cup {c}
    BY <1>5 DEF FinishCase, MadeCase
  <2> HIDE DEF s, began
  <2>5. ASSUME NEW now \in Clocks
        PROVE  CaseBefore(c, now)
    <3>1. now \in Nat /\ SeededFrom \in Nat /\ SeededFrom + MaxSeeds < now /\ MaxSeeds \in Nat
      BY ClocksAssumption, OpsAssumption
    <3>2. SeededFrom + began \in Past(now)
      BY <2>2, <3>1 DEF Past
    <3>3. EndsBefore(s, now)
      BY <2>2, <2>3, FiledEndsBefore
    <3>4. QED
      BY <2>2, <3>1, <3>2, <3>3, MadeBefore
  <2> HIDE DEF c
  <2>6. \A q \in Runners : \A i \in DOMAIN runner'[q].todo : Filed(runner'[q].todo[i])
    BY <1>1, <2>1, NextFiled
  <2>7. QED
    BY <1>1, <2>4, <2>5, <2>6 DEF StoredBefore
<1>6. QED
  BY <1>2, <1>3, <1>4, <1>5 DEF RunnerStep

LEMMA BeforeStep ==
  ASSUME OpsInv, StoredBefore, [OpsNext]_opsVars
  PROVE  StoredBefore'
<1>1. CASE OpsNext
  BY <1>1, RunnerKeepsBefore DEF OpsNext
<1>2. CASE UNCHANGED opsVars
  BY <1>2 DEF opsVars, StoredBefore
<1>3. QED
  BY <1>1, <1>2

LEMMA BeforeInit == OpsInit => StoredBefore
<1> SUFFICES ASSUME OpsInit
             PROVE  StoredBefore
  OBVIOUS
<1>1. \A r \in Runners : runner[r].todo = <<>>
  BY DEF OpsInit, Waiting
<1>2. QED
  BY <1>1 DEF OpsInit, StoredBefore

-----------------------------------------------------------------------------
(* An inquiry.                                                             *)

InquiryFields ==
  {"pc", "q", "now", "attempt", "plan", "round", "needs", "loaded", "facts", "selected",
   "total", "seen", "status", "words", "calls", "reads"}
PlanFields == {"intent", "protocol", "run", "limit", "needs", "order", "analytics"}

IsInquiry(i) == i = [f \in InquiryFields |-> i[f]]
IsPlan(p) == p = [f \in PlanFields |-> p[f]] /\ p.needs \subseteq Needs

Shaped(i) ==
  /\ IsInquiry(i) /\ IsPlan(i.plan) /\ i.q \in Questions
  /\ i.pc \in {"free", "plan", "unclear", "investigate", "lookup", "discover", "analyse",
               "detail", "synthesize", "resynthesize", "answered"}
  /\ i.attempt \in {1, 2} /\ i.round \in 0 .. 3 /\ i.calls \in Nat /\ i.reads \in Nat
  /\ i.loaded \subseteq Needs /\ i.needs \subseteq Needs

\* What the model and the tables have cost so far.
Spent(i) ==
  /\ i.pc = "free" => i.calls = 0 /\ i.reads = 0
  /\ i.pc = "plan" => i.round <= 2 /\ i.reads = i.round /\ i.calls < 2 * i.round + i.attempt
  /\ i.pc = "investigate" =>
       i.round <= 2 /\ i.reads = i.round /\ i.calls <= 2 * i.round + 2 /\ i.attempt = 1
  /\ i.pc \in {"unclear", "lookup", "discover", "analyse"} => i.calls <= 2 /\ i.reads = 0
  /\ i.pc = "detail" => i.calls <= 2 /\ i.reads = 1
  /\ i.pc = "synthesize" => i.calls <= 6 /\ i.reads <= 3
  /\ i.pc = "resynthesize" => i.calls <= 7 /\ i.reads <= 3
  /\ i.pc = "answered" => i.calls <= 8 /\ i.reads <= 3

Wide(p) == p.intent \in Discovery \cup {"ANALYTICS"}
NamesOne(q) == Cardinality(Explicit(q)) = 1

\* NamedCaseOnly, of an inquiry.
Named(i) ==
  \A f \in i.facts :
    IF Wide(i.plan)
    THEN f.category \notin {"ANALYTICS", "SERVICE_REQUEST"} => f.protocol = i.selected
    ELSE NamesOne(i.q) => f.protocol \in Explicit(i.q)

\* While a case is investigated it is the one that was named; what an analysis or a
\* discovery found is a total, or the rows of requests.
Directs(i) ==
  /\ \/ i.pc \in {"free", "unclear", "lookup", "discover", "analyse"}
     \/ i.pc \in {"plan", "investigate"} /\ i.round = 0
     => i.facts = {}
  /\ i.pc \in {"lookup", "investigate"} \/ (i.pc = "plan" /\ i.round > 0) =>
       ~Wide(i.plan) /\ (NamesOne(i.q) => CaseOf(i) \in Explicit(i.q))
  /\ i.pc \in {"discover", "analyse", "detail"} => Wide(i.plan)
  /\ i.pc = "detail" => \A f \in i.facts : f.category \in {"ANALYTICS", "SERVICE_REQUEST"}

Sound(i) == Shaped(i) /\ Spent(i) /\ Named(i) /\ Directs(i)

LEMMA OneIsNamed ==
  ASSUME NEW q, NamesOne(q)
  PROVE  TheOne(Explicit(q)) \in Explicit(q)
<1>1. Explicit(q) # {}
  BY FS_EmptySet DEF NamesOne
<1>2. QED
  BY <1>1 DEF TheOne

LEMMA CaseFactsName ==
  ASSUME NEW c, NEW needs, NEW f \in CaseFacts(c, needs)
  PROVE  f.protocol = c.protocol
BY DEF CaseFacts, Fact

LEMMA NoInquiryFields ==
  /\ IsInquiry(NoInquiry) /\ NoInquiry.pc = "free"
  /\ NoInquiry.q = CHOOSE q \in Questions : TRUE
  /\ NoInquiry.attempt = 1 /\ NoInquiry.plan = Plan("CLARIFICATION_REQUIRED", 0, {})
  /\ NoInquiry.round = 0 /\ NoInquiry.needs = {} /\ NoInquiry.loaded = {}
  /\ NoInquiry.facts = {} /\ NoInquiry.calls = 0 /\ NoInquiry.reads = 0
<1> DEFINE p == Plan("CLARIFICATION_REQUIRED", 0, {})
           q == CHOOSE q \in Questions : TRUE
<1>1. NoInquiry = [pc |-> "free", q |-> q, now |-> 0, attempt |-> 1, plan |-> p, round |-> 0,
                   needs |-> {}, loaded |-> {}, facts |-> {}, selected |-> 0, total |-> None,
                   seen |-> {}, status |-> "none", words |-> "none", calls |-> 0, reads |-> 0]
  BY DEF NoInquiry
<1> HIDE DEF p, q
<1>2. IsInquiry(NoInquiry)
  BY <1>1 DEF IsInquiry, InquiryFields
<1>3. QED
  BY <1>1, <1>2 DEF p, q

LEMMA PlanIsPlan ==
  ASSUME NEW intent, NEW protocol, NEW needs \in SUBSET Needs
  PROVE  LET p == Plan(intent, protocol, needs)
         IN IsPlan(p) /\ p.intent = intent /\ p.protocol = protocol /\ p.needs = needs
BY DEF Plan, IsPlan, PlanFields

LEMMA FreshSound ==
  ASSUME NEW i, IsInquiry(i), i.q \in Questions, i.pc = "free", IsPlan(i.plan), i.attempt = 1,
         i.round = 0, i.needs \subseteq Needs, i.loaded \subseteq Needs, i.facts = {},
         i.calls = 0, i.reads = 0
  PROVE  Sound(i)
BY DEF Sound, Shaped, Spent, Named, Directs

LEMMA EndedSound ==
  ASSUME NEW i, NEW status, Questions # {}
  PROVE  Sound(Ended(i, status)) /\ Ended(i, status).facts = {}
<1>1. NoInquiry.q \in Questions
  BY NoInquiryFields
<1>2. IsPlan(NoInquiry.plan)
  BY NoInquiryFields, PlanIsPlan
<1> DEFINE e == [NoInquiry EXCEPT !.status = status]
<1>3. /\ IsInquiry(e) /\ e.q = NoInquiry.q /\ e.pc = "free" /\ e.plan = NoInquiry.plan /\ e.attempt = 1
      /\ e.round = 0 /\ e.needs = {} /\ e.loaded = {} /\ e.facts = {}
      /\ e.calls = 0 /\ e.reads = 0
  BY NoInquiryFields DEF IsInquiry, InquiryFields
<1> HIDE DEF e
<1>4. Sound(e) /\ e.facts = {}
  BY <1>1, <1>2, <1>3, FreshSound
<1>5. QED
  BY <1>4 DEF e, Ended

LEMMA AnalyticsPlanIsPlan ==
  ASSUME NEW a
  PROVE  IsPlan(AnalyticsPlan(a)) /\ Wide(AnalyticsPlan(a))
<1> DEFINE p == Plan("ANALYTICS", 0, {})
<1>1. IsPlan(p) /\ p.intent = "ANALYTICS"
  BY PlanIsPlan
<1> HIDE DEF p
<1>2. IsPlan([p EXCEPT !.analytics = a]) /\ [p EXCEPT !.analytics = a].intent = "ANALYTICS"
  BY <1>1 DEF IsPlan, PlanFields
<1>3. QED
  BY <1>2 DEF AnalyticsPlan, Wide, p

\* An inquiry before its first plan is acted on.
Early(i) ==
  /\ IsInquiry(i) /\ i.q \in Questions /\ i.attempt = 1 /\ i.round = 0 /\ i.loaded \subseteq Needs
  /\ i.facts = {} /\ i.calls \in 0 .. 2 /\ i.reads = 0

LEMMA ActsSound ==
  ASSUME NEW i, Early(i), NEW p, IsPlan(p),
         ~Wide(p) /\ p.intent # "CLARIFICATION_REQUIRED" /\ NamesOne(i.q) =>
           (IF i.q.selector # 0 THEN i.q.selector ELSE p.protocol) \in Explicit(i.q)
  PROVE  Sound(Acts(i, p))
<1> DEFINE pc == IF p.intent = "ANALYTICS" THEN "analyse"
                 ELSE IF p.intent \in Discovery THEN "discover"
                 ELSE IF p.intent = "CLARIFICATION_REQUIRED" THEN "unclear" ELSE "investigate"
           needs == IF p.needs = {} THEN {"SERVICE_REQUEST"} ELSE p.needs
           n == [i EXCEPT !.plan = p, !.pc = pc, !.needs = needs]
<1>1. needs \subseteq Needs
  BY DEF IsPlan, Needs
<1>2. /\ pc \in {"analyse", "discover", "unclear", "investigate"}
      /\ pc = "investigate" => ~Wide(p) /\ p.intent # "CLARIFICATION_REQUIRED"
      /\ pc \in {"analyse", "discover"} => Wide(p)
  BY DEF Wide
<1> HIDE DEF pc, needs
<1>3. /\ IsInquiry(n) /\ n.plan = p /\ n.pc = pc /\ n.needs = needs /\ n.q = i.q
      /\ n.attempt = 1 /\ n.round = 0 /\ n.loaded = i.loaded /\ n.facts = {}
      /\ n.calls = i.calls /\ n.reads = 0
  BY DEF Early, IsInquiry, InquiryFields
<1> HIDE DEF n
<1>4. Shaped(n)
  BY <1>1, <1>2, <1>3 DEF Shaped, Early
<1>5. Spent(n)
  BY <1>2, <1>3 DEF Spent, Early
<1>6. Named(n) /\ Directs(n)
  <2>1. pc = "investigate" /\ NamesOne(i.q) => CaseOf(n) \in Explicit(i.q)
    BY <1>2, <1>3 DEF CaseOf
  <2>2. QED
    BY <1>2, <1>3, <2>1 DEF Named, Directs
<1>7. n = Acts(i, p)
  BY DEF n, pc, needs, Acts
<1>8. QED
  BY <1>4, <1>5, <1>6, <1>7 DEF Sound

LEMMA WordsPlanWide ==
  ASSUME NEW q
  PROVE  IsPlan(WordsPlan(q)) /\ Wide(WordsPlan(q))
<1>1. IsPlan(Plan("LATEST_PROTOCOL", 0, {})) /\ Wide(Plan("LATEST_PROTOCOL", 0, {}))
  BY PlanIsPlan DEF Wide, Discovery
<1>2. QED
  BY <1>1, AnalyticsPlanIsPlan DEF WordsPlan

LEMMA AskSound ==
  ASSUME Sound(inquiry), Ask
  PROVE  Sound(inquiry')
<1>1. PICK q \in Questions :
        LET new == [NoInquiry EXCEPT !.q = q]
        IN Moves(IF ~q.allowed THEN Ended(new, "UNAUTHORIZED")
                 ELSE IF q.operation # "none"
                 THEN [new EXCEPT !.pc = "lookup", !.plan = Plan(q.operation, q.selector, {})]
                 ELSE IF NeedsClarification(q) THEN Ended(new, "CLARIFICATION_REQUIRED")
                 ELSE IF PlannedByWords(q) THEN Acts(new, WordsPlan(q))
                 ELSE [new EXCEPT !.pc = "plan"])
  BY DEF Ask
<1> DEFINE new == [NoInquiry EXCEPT !.q = q]
           p == Plan(q.operation, q.selector, {})
<1>2. QuestionOK(q)
  BY SupportAssumption
<1>3. /\ IsInquiry(new) /\ new.q = q /\ new.pc = "free" /\ new.attempt = 1 /\ new.round = 0
      /\ new.needs = {} /\ new.loaded = {} /\ new.facts = {} /\ new.calls = 0 /\ new.reads = 0
      /\ new.plan = NoInquiry.plan
  BY NoInquiryFields DEF IsInquiry, InquiryFields
<1>4. IsPlan(new.plan) /\ IsPlan(p) /\ p.intent = q.operation /\ p.protocol = q.selector
  BY <1>3, NoInquiryFields, PlanIsPlan
<1>5. inquiry' = IF ~q.allowed THEN Ended(new, "UNAUTHORIZED")
                 ELSE IF q.operation # "none" THEN [new EXCEPT !.pc = "lookup", !.plan = p]
                 ELSE IF NeedsClarification(q) THEN Ended(new, "CLARIFICATION_REQUIRED")
                 ELSE IF PlannedByWords(q) THEN Acts(new, WordsPlan(q))
                 ELSE [new EXCEPT !.pc = "plan"]
  BY <1>1 DEF Moves
<1> HIDE DEF new, p
<1>6. Questions # {}
  OBVIOUS
<1>7. Sound([new EXCEPT !.pc = "plan"])
  <2> DEFINE n == [new EXCEPT !.pc = "plan"]
  <2>1. /\ IsInquiry(n) /\ n.q = q /\ n.pc = "plan" /\ n.attempt = 1 /\ n.round = 0
        /\ n.needs = {} /\ n.loaded = {} /\ n.facts = {} /\ n.calls = 0 /\ n.reads = 0
        /\ n.plan = new.plan
    BY <1>3 DEF IsInquiry, InquiryFields
  <2> HIDE DEF n
  <2>2. Sound(n)
    BY <1>4, <2>1 DEF Sound, Shaped, Spent, Named, Directs
  <2>3. QED
    BY <2>2 DEF n
<1>8. ASSUME q.operation # "none"
      PROVE  Sound([new EXCEPT !.pc = "lookup", !.plan = p])
  <2> DEFINE n == [new EXCEPT !.pc = "lookup", !.plan = p]
  <2>1. /\ IsInquiry(n) /\ n.q = q /\ n.pc = "lookup" /\ n.attempt = 1 /\ n.round = 0
        /\ n.needs = {} /\ n.loaded = {} /\ n.facts = {} /\ n.calls = 0 /\ n.reads = 0
        /\ n.plan = p
    BY <1>3 DEF IsInquiry, InquiryFields
  <2> HIDE DEF n
  <2>2. ~Wide(p) /\ q.selector # 0 /\ Explicit(q) = {q.selector}
    BY <1>2, <1>4, <1>8 DEF QuestionOK, Wide, Discovery, Explicit
  <2>3. CaseOf(n) \in Explicit(q)
    BY <2>1, <2>2 DEF CaseOf
  <2>4. Sound(n)
    BY <1>4, <2>1, <2>2, <2>3 DEF Sound, Shaped, Spent, Named, Directs
  <2>5. QED
    BY <2>4 DEF n
<1>9. Sound(Acts(new, WordsPlan(q)))
  <2>1. Early(new)
    BY <1>3 DEF Early
  <2>2. QED
    BY <2>1, WordsPlanWide, ActsSound
<1>10. QED
  BY <1>5, <1>6, <1>7, <1>8, <1>9, EndedSound

\* A plan the model chose, after what the question says is put in its place.
Follows(q, p) ==
  IsPlan(p) /\ (~Wide(p) /\ NamesOne(q) => p.protocol = TheOne(Explicit(q)))

LEMMA ChosenFollows ==
  ASSUME NEW q \in Questions, NEW p \in Replies
  PROVE  Follows(q, ByExecution(Directed(q, Normalized(q, p))))
<1>1. IsPlan(p)
  BY RepliesAssumption DEF Plans, IsPlan, PlanFields
<1> DEFINE a == Normalized(q, p)
<1>2. IsPlan(a)
  BY <1>1 DEF Normalized, IsPlan, PlanFields
<1> HIDE DEF a
<1> DEFINE b == Directed(q, a)
<1>3. IsPlan(b) /\ b.intent = a.intent
  BY <1>2 DEF Directed, IsPlan, PlanFields
<1>4. a.intent \notin Discovery /\ NamesOne(q) => b.protocol = TheOne(Explicit(q))
  BY <1>2 DEF Directed, IsPlan, PlanFields, NamesOne
<1> HIDE DEF b
<1>5. CASE b.intent \in Discovery /\ b.order = "LAST_EXECUTION_AT"
  <2>1. PICK x : ByExecution(b) = AnalyticsPlan(x)
    BY <1>5 DEF ByExecution
  <2>2. QED
    BY <2>1, AnalyticsPlanIsPlan DEF Follows, a, b
<1>6. CASE ~(b.intent \in Discovery /\ b.order = "LAST_EXECUTION_AT")
  <2>1. ByExecution(b) = b
    BY <1>6 DEF ByExecution
  <2>2. Follows(q, b)
    BY <1>3, <1>4 DEF Follows, Wide
  <2>3. QED
    BY <2>1, <2>2 DEF a, b
<1>7. QED
  BY <1>5, <1>6

\* The inquiry once a reply has been counted.
Replied(i, k) ==
  /\ IsInquiry(k) /\ k.calls = i.calls + 1
  /\ \A f \in InquiryFields \ {"calls", "attempt"} : k[f] = i[f]

LEMMA RepliedFields ==
  ASSUME NEW i, NEW k, Replied(i, k)
  PROVE  /\ k.pc = i.pc /\ k.q = i.q /\ k.plan = i.plan /\ k.round = i.round /\ k.needs = i.needs
         /\ k.loaded = i.loaded /\ k.facts = i.facts /\ k.selected = i.selected /\ k.reads = i.reads
         /\ IsInquiry(k) /\ k.calls = i.calls + 1
BY DEF Replied, InquiryFields

LEMMA CalledReplied ==
  ASSUME IsInquiry(inquiry)
  PROVE  /\ Replied(inquiry, Called) /\ Called.attempt = inquiry.attempt
         /\ \A n \in {1, 2} : /\ Replied(inquiry, [Called EXCEPT !.attempt = n])
                              /\ [Called EXCEPT !.attempt = n].attempt = n
BY DEF Called, Replied, IsInquiry, InquiryFields

LEMMA ClarifiedNames ==
  ASSUME NEW q \in Questions, NEW p, Follows(q, p)
  PROVE  LET c == Clarified(q, p)
         IN /\ IsPlan(c)
            /\ ~Wide(c) /\ c.intent # "CLARIFICATION_REQUIRED" /\ NamesOne(q) =>
                 (IF q.selector # 0 THEN q.selector ELSE c.protocol) \in Explicit(q)
<1> DEFINE known == IF q.selector # 0 THEN q.selector ELSE p.protocol
           review == Plan("PROTOCOL_EXECUTION_RESULT", known, Review)
<1>1. q.selector # 0 => Explicit(q) = {q.selector}
  BY DEF Explicit
<1>2. NamesOne(q) => TheOne(Explicit(q)) \in Explicit(q)
  BY OneIsNamed
<1>3. CASE p.intent = "CLARIFICATION_REQUIRED" /\ known # 0
  <2>1. Clarified(q, p) = review
    BY <1>3 DEF Clarified
  <2>2. IsPlan(review) /\ review.protocol = known
    BY PlanIsPlan DEF Review
  <2>3. ~Wide(p)
    BY <1>3 DEF Wide, Discovery
  <2>4. QED
    BY <1>1, <1>2, <2>1, <2>2, <2>3 DEF Follows
<1>4. CASE ~(p.intent = "CLARIFICATION_REQUIRED" /\ known # 0)
  <2>1. Clarified(q, p) = p
    BY <1>4 DEF Clarified
  <2>2. QED
    BY <1>1, <1>2, <2>1 DEF Follows
<1>5. QED
  BY <1>3, <1>4

LEMMA PlanningFacts ==
  ASSUME NEW i, Sound(i), i.pc = "plan"
  PROVE  /\ i.q \in Questions /\ i.round \in 0 .. 2 /\ i.calls \in Nat /\ i.reads = i.round
         /\ i.attempt \in {1, 2} /\ i.calls < 2 * i.round + i.attempt
         /\ i.calls <= 2 * i.round + 1 /\ IsPlan(i.plan) /\ i.loaded \subseteq Needs
         /\ i.needs \subseteq Needs /\ Named(i)
<1>1. /\ i.q \in Questions /\ i.round \in 0 .. 3 /\ i.calls \in Nat /\ i.attempt \in {1, 2}
      /\ IsPlan(i.plan) /\ i.loaded \subseteq Needs /\ i.needs \subseteq Needs /\ Named(i)
  BY DEF Sound, Shaped
<1>2. i.round <= 2 /\ i.reads = i.round /\ i.calls < 2 * i.round + i.attempt
  BY DEF Sound, Spent
<1>3. i.round \in 0 .. 2 /\ i.calls <= 2 * i.round + 1
  BY <1>1, <1>2
<1>4. QED
  BY <1>1, <1>2, <1>3

LEMMA TakesSound ==
  ASSUME NEW i, Sound(i), i.pc = "plan", NEW k, Replied(i, k), k.attempt = 1,
         NEW p, Follows(i.q, p)
  PROVE  Sound(Takes(k, p))
<1>1. /\ k.pc = "plan" /\ k.q = i.q /\ k.plan = i.plan /\ k.round = i.round /\ k.needs = i.needs
      /\ k.loaded = i.loaded /\ k.facts = i.facts /\ k.selected = i.selected /\ k.reads = i.reads
      /\ IsInquiry(k) /\ k.calls = i.calls + 1
  BY RepliedFields
<1>2. /\ i.q \in Questions /\ i.round \in 0 .. 2 /\ i.calls \in Nat /\ i.reads = i.round
      /\ i.calls <= 2 * i.round + 1 /\ IsPlan(i.plan) /\ i.loaded \subseteq Needs
      /\ i.needs \subseteq Needs
  BY PlanningFacts
<1>3. CASE i.round = 0
  <2>1. Early(k)
    BY <1>1, <1>2, <1>3 DEF Early, Sound, Directs
  <2>2. Takes(k, p) = Acts(k, Clarified(k.q, p))
    BY <1>1, <1>3 DEF Takes
  <2> DEFINE c == Clarified(k.q, p)
  <2>3. /\ IsPlan(c)
        /\ ~Wide(c) /\ c.intent # "CLARIFICATION_REQUIRED" /\ NamesOne(k.q) =>
             (IF k.q.selector # 0 THEN k.q.selector ELSE c.protocol) \in Explicit(k.q)
    BY <1>1, <1>2, ClarifiedNames
  <2> HIDE DEF c
  <2>4. Sound(Acts(k, c))
    BY <2>1, <2>3, ActsSound
  <2>5. QED
    BY <2>2, <2>4 DEF c
<1>4. CASE i.round # 0
  <2> DEFINE more == p.needs \ i.loaded
             s == [k EXCEPT !.pc = "synthesize"]
             n == [k EXCEPT !.pc = "investigate", !.needs = more]
  <2>1. Takes(k, p) = IF more = {} THEN s ELSE n
    BY <1>1, <1>4 DEF Takes, Deepens
  <2>2. more \subseteq Needs
    BY DEF Follows, IsPlan
  <2>3. ~Wide(i.plan) /\ (NamesOne(i.q) => CaseOf(i) \in Explicit(i.q)) /\ Named(i)
    BY <1>2, <1>4 DEF Sound, Directs
  <2> HIDE DEF more
  <2>4. /\ IsInquiry(s) /\ s.q = i.q /\ s.pc = "synthesize" /\ s.attempt = 1 /\ s.round = i.round
        /\ s.needs = i.needs /\ s.loaded = i.loaded /\ s.facts = i.facts /\ s.calls = i.calls + 1
        /\ s.reads = i.reads /\ s.plan = i.plan /\ s.selected = i.selected
    BY <1>1 DEF IsInquiry, InquiryFields
  <2>5. /\ IsInquiry(n) /\ n.q = i.q /\ n.pc = "investigate" /\ n.attempt = 1 /\ n.round = i.round
        /\ n.needs = more /\ n.loaded = i.loaded /\ n.facts = i.facts /\ n.calls = i.calls + 1
        /\ n.reads = i.reads /\ n.plan = i.plan /\ n.selected = i.selected
    BY <1>1 DEF IsInquiry, InquiryFields
  <2> HIDE DEF s, n
  <2>6. Sound(s)
    BY <1>2, <2>3, <2>4 DEF Sound, Shaped, Spent, Named, Directs
  <2>7. Sound(n)
    <3>1. CaseOf(n) = CaseOf(i)
      BY <2>5 DEF CaseOf
    <3>2. QED
      BY <1>2, <1>4, <2>2, <2>3, <2>5, <3>1 DEF Sound, Shaped, Spent, Named, Directs
  <2>8. QED
    BY <2>1, <2>6, <2>7
<1>5. QED
  BY <1>3, <1>4

LEMMA NoPlanSound ==
  ASSUME NEW i, Sound(i), i.pc = "plan", NEW k, Replied(i, k), k.attempt \in {1, 2}
  PROVE  Sound(NoPlan(k))
<1>1. /\ k.pc = "plan" /\ k.q = i.q /\ k.plan = i.plan /\ k.round = i.round /\ k.needs = i.needs
      /\ k.loaded = i.loaded /\ k.facts = i.facts /\ k.selected = i.selected /\ k.reads = i.reads
      /\ IsInquiry(k) /\ k.calls = i.calls + 1
  BY RepliedFields
<1>2. /\ i.q \in Questions /\ i.round \in 0 .. 2 /\ i.calls \in Nat /\ i.reads = i.round
      /\ i.calls <= 2 * i.round + 1 /\ IsPlan(i.plan) /\ i.loaded \subseteq Needs
      /\ i.needs \subseteq Needs /\ Named(i)
  BY PlanningFacts
<1> DEFINE s == [k EXCEPT !.pc = "synthesize"]
<1>3. /\ IsInquiry(s) /\ s.q = i.q /\ s.pc = "synthesize" /\ s.attempt = k.attempt /\ s.round = i.round
      /\ s.needs = i.needs /\ s.loaded = i.loaded /\ s.facts = i.facts /\ s.calls = i.calls + 1
      /\ s.reads = i.reads /\ s.plan = i.plan /\ s.selected = i.selected
  BY <1>1 DEF IsInquiry, InquiryFields
<1>4. NoPlan(k) = IF i.round = 0 THEN Ended(k, "PROVIDER_ERROR") ELSE s
  BY <1>1 DEF NoPlan
<1> HIDE DEF s
<1>5. Sound(s)
  BY <1>2, <1>3 DEF Sound, Shaped, Spent, Named, Directs
<1>6. QED
  BY <1>2, <1>4, <1>5, EndedSound

LEMMA PlanRepliesSound ==
  ASSUME Sound(inquiry), PlanReplies
  PROVE  Sound(inquiry')
<1> DEFINE q == inquiry.q
           again == [Called EXCEPT !.attempt = 2]
           fresh == [Called EXCEPT !.attempt = 1]
<1>1. inquiry.pc = "plan" /\ IsInquiry(inquiry) /\ q \in Questions /\ inquiry.attempt \in {1, 2}
  BY DEF PlanReplies, Is, Sound, Shaped
<1>2. /\ Replied(inquiry, Called) /\ Called.attempt = inquiry.attempt
      /\ Replied(inquiry, fresh) /\ fresh.attempt = 1
      /\ Replied(inquiry, again) /\ again.attempt = 2
  BY <1>1, CalledReplied
<1> HIDE DEF fresh, again
<1>3. Sound(NoPlan(Called))
  BY <1>1, <1>2, NoPlanSound
<1>4. ASSUME inquiry.attempt = 1
      PROVE  Sound(again)
  <2>1. /\ again.pc = "plan" /\ again.q = inquiry.q /\ again.plan = inquiry.plan
        /\ again.round = inquiry.round /\ again.needs = inquiry.needs /\ again.loaded = inquiry.loaded
        /\ again.facts = inquiry.facts /\ again.selected = inquiry.selected
        /\ again.reads = inquiry.reads /\ IsInquiry(again) /\ again.calls = inquiry.calls + 1
    BY <1>1, <1>2, RepliedFields
  <2>2. /\ inquiry.q \in Questions /\ inquiry.round \in 0 .. 2 /\ inquiry.calls \in Nat
        /\ inquiry.reads = inquiry.round /\ inquiry.calls < 2 * inquiry.round + 1
        /\ IsPlan(inquiry.plan) /\ inquiry.loaded \subseteq Needs /\ inquiry.needs \subseteq Needs
    BY <1>1, <1>4, PlanningFacts
  <2>3. Shaped(again) /\ Spent(again)
    BY <1>1, <1>2, <2>1, <2>2 DEF Shaped, Spent
  <2>4. Named(again) /\ Directs(again)
    BY <1>1, <2>1 DEF Sound, Named, Directs, CaseOf
  <2>5. QED
    BY <2>3, <2>4 DEF Sound
<1>5. CASE Moves(NoPlan(Called))
  BY <1>3, <1>5 DEF Moves
<1>6. ASSUME NEW p \in Replies,
             inquiry' = IF PlanValid(p) THEN Takes(fresh, ByExecution(Directed(q, Normalized(q, p))))
                        ELSE IF inquiry.attempt = 1 THEN again
                        ELSE IF NamesOne(q)
                        THEN Takes(fresh, Plan("PROTOCOL_EXECUTION_RESULT", TheOne(Explicit(q)), Review))
                        ELSE NoPlan(Called)
      PROVE  Sound(inquiry')
  <2>1. Sound(Takes(fresh, ByExecution(Directed(q, Normalized(q, p)))))
    BY <1>1, <1>2, ChosenFollows, TakesSound
  <2>2. Sound(Takes(fresh, Plan("PROTOCOL_EXECUTION_RESULT", TheOne(Explicit(q)), Review)))
    <3> DEFINE r == Plan("PROTOCOL_EXECUTION_RESULT", TheOne(Explicit(q)), Review)
    <3>1. Follows(q, r)
      BY PlanIsPlan DEF Follows, Review
    <3> HIDE DEF r
    <3>2. Sound(Takes(fresh, r))
      BY <1>1, <1>2, <3>1, TakesSound
    <3>3. QED
      BY <3>2 DEF r
  <2>3. QED
    BY <1>3, <1>4, <1>6, <2>1, <2>2
<1>7. CASE \E p \in Replies :
        inquiry' = IF PlanValid(p) THEN Takes(fresh, ByExecution(Directed(q, Normalized(q, p))))
                   ELSE IF inquiry.attempt = 1 THEN again
                   ELSE IF NamesOne(q)
                   THEN Takes(fresh, Plan("PROTOCOL_EXECUTION_RESULT", TheOne(Explicit(q)), Review))
                   ELSE NoPlan(Called)
  BY <1>6, <1>7
<1>8. QED
  BY <1>5, <1>7 DEF PlanReplies, Moves, NamesOne, AsksAgain, fresh, again

\* What an inquiry still has after a read, and what it has before any.
LEMMA AfterRead ==
  ASSUME IsInquiry(inquiry)
  PROVE  /\ IsInquiry(Read) /\ Read.reads = inquiry.reads + 1
         /\ Read.pc = inquiry.pc /\ Read.q = inquiry.q /\ Read.plan = inquiry.plan
         /\ Read.attempt = inquiry.attempt /\ Read.round = inquiry.round
         /\ Read.needs = inquiry.needs /\ Read.loaded = inquiry.loaded /\ Read.facts = inquiry.facts
         /\ Read.selected = inquiry.selected /\ Read.calls = inquiry.calls
BY DEF Read, IsInquiry, InquiryFields

LEMMA FoundCase ==
  ASSUME NEW p, Case(p) # {}
  PROVE  TheOne(Case(p)).protocol = p
BY DEF TheOne, Case

LEMMA InvestigateSound ==
  ASSUME Sound(inquiry), Investigate
  PROVE  Sound(inquiry')
<1>1. inquiry.pc = "investigate" /\ IsInquiry(inquiry)
  BY DEF Investigate, Is, Sound, Shaped
<1>2. /\ inquiry.q \in Questions /\ inquiry.round \in 0 .. 2 /\ inquiry.calls \in Nat
      /\ inquiry.reads = inquiry.round /\ inquiry.calls <= 2 * inquiry.round + 2
      /\ inquiry.attempt = 1 /\ IsPlan(inquiry.plan) /\ inquiry.loaded \subseteq Needs
      /\ inquiry.needs \subseteq Needs
  <2>1. Shaped(inquiry) /\ Spent(inquiry)
    BY DEF Sound
  <2>2. /\ inquiry.q \in Questions /\ inquiry.round \in 0 .. 3 /\ inquiry.calls \in Nat
        /\ IsPlan(inquiry.plan) /\ inquiry.loaded \subseteq Needs /\ inquiry.needs \subseteq Needs
    BY <2>1 DEF Shaped
  <2>3. /\ inquiry.round <= 2 /\ inquiry.reads = inquiry.round
        /\ inquiry.calls <= 2 * inquiry.round + 2 /\ inquiry.attempt = 1
    BY <1>1, <2>1 DEF Spent
  <2>4. QED
    BY <2>2, <2>3
<1>3. /\ ~Wide(inquiry.plan) /\ Named(inquiry)
      /\ NamesOne(inquiry.q) => CaseOf(inquiry) \in Explicit(inquiry.q)
  BY <1>1 DEF Sound, Directs
<1> DEFINE c == TheOne(Case(CaseOf(inquiry)))
           facts == inquiry.facts \cup CaseFacts(c, inquiry.needs)
           loaded == inquiry.loaded \cup inquiry.needs
           i == [Read EXCEPT !.facts = @ \cup CaseFacts(c, inquiry.needs),
                             !.loaded = @ \cup inquiry.needs, !.round = @ + 1]
           pc == IF i.loaded = Needs \/ i.round = MAX_INVESTIGATION_ROUNDS THEN "synthesize" ELSE "plan"
           n == [i EXCEPT !.pc = pc]
<1>4. CASE Case(CaseOf(inquiry)) = {}
  <2>1. inquiry' = Ended(Read, "NOT_FOUND")
    BY <1>4 DEF Investigate, Moves
  <2>2. QED
    BY <1>2, <2>1, EndedSound
<1>5. CASE Case(CaseOf(inquiry)) # {}
  <2>1. inquiry' = n
    BY <1>5 DEF Investigate, Moves
  <2>2. c.protocol = CaseOf(inquiry)
    BY <1>5, FoundCase
  <2>3. \A f \in CaseFacts(c, inquiry.needs) : f.protocol = CaseOf(inquiry)
    BY <2>2, CaseFactsName
  <2> HIDE DEF c
  <2>4. /\ IsInquiry(i) /\ i.facts = facts /\ i.loaded = loaded /\ i.round = inquiry.round + 1
        /\ i.pc = inquiry.pc /\ i.q = inquiry.q /\ i.plan = inquiry.plan /\ i.attempt = 1
        /\ i.needs = inquiry.needs /\ i.selected = inquiry.selected /\ i.calls = inquiry.calls
        /\ i.reads = inquiry.reads + 1
    BY <1>1, <1>2, AfterRead DEF IsInquiry, InquiryFields
  <2> HIDE DEF i
  <2>5. pc \in {"synthesize", "plan"} /\ (pc = "plan" => i.round # 3)
    BY DEF MAX_INVESTIGATION_ROUNDS
  <2> HIDE DEF pc
  <2>6. /\ IsInquiry(n) /\ n.facts = facts /\ n.loaded = loaded /\ n.round = inquiry.round + 1
        /\ n.pc = pc /\ n.q = inquiry.q /\ n.plan = inquiry.plan /\ n.attempt = 1
        /\ n.needs = inquiry.needs /\ n.selected = inquiry.selected /\ n.calls = inquiry.calls
        /\ n.reads = inquiry.reads + 1
    BY <2>4 DEF IsInquiry, InquiryFields
  <2> HIDE DEF n
  <2>7. Shaped(n)
    BY <1>2, <2>5, <2>6 DEF Shaped
  <2>8. Spent(n)
    BY <1>2, <2>4, <2>5, <2>6 DEF Spent
  <2>9. CaseOf(n) = CaseOf(inquiry)
    BY <2>6 DEF CaseOf
  <2>10. Named(n)
    BY <1>3, <2>3, <2>6 DEF Named
  <2>11. Directs(n)
    BY <1>2, <1>3, <2>5, <2>6, <2>9 DEF Directs
  <2>12. QED
    BY <2>1, <2>7, <2>8, <2>10, <2>11 DEF Sound
<1>6. QED
  BY <1>4, <1>5

\* The shape of the inquiries whose first tool has not been used.
LEMMA BeforeRead ==
  ASSUME Sound(inquiry), inquiry.pc \in {"lookup", "discover", "analyse"}
  PROVE  /\ IsInquiry(inquiry) /\ inquiry.q \in Questions /\ inquiry.round \in 0 .. 3
         /\ inquiry.calls \in 0 .. 2 /\ inquiry.reads = 0 /\ inquiry.attempt \in {1, 2}
         /\ IsPlan(inquiry.plan) /\ inquiry.loaded \subseteq Needs /\ inquiry.needs \subseteq Needs
         /\ inquiry.facts = {} /\ Questions # {}
<1>1. Shaped(inquiry) /\ Spent(inquiry) /\ Directs(inquiry)
  BY DEF Sound
<1>2. inquiry.calls <= 2 /\ inquiry.reads = 0
  BY <1>1 DEF Spent
<1>3. inquiry.facts = {}
  BY <1>1 DEF Directs
<1>4. QED
  BY <1>1, <1>2, <1>3 DEF Shaped

LEMMA LookUpSound ==
  ASSUME Sound(inquiry), LookUp
  PROVE  Sound(inquiry')
<1>1. inquiry.pc = "lookup"
  BY DEF LookUp, Is
<1>2. /\ IsInquiry(inquiry) /\ inquiry.q \in Questions /\ inquiry.round \in 0 .. 3
      /\ inquiry.calls \in 0 .. 2 /\ inquiry.reads = 0 /\ inquiry.attempt \in {1, 2}
      /\ IsPlan(inquiry.plan) /\ inquiry.loaded \subseteq Needs /\ inquiry.needs \subseteq Needs
      /\ inquiry.facts = {} /\ Questions # {}
  BY <1>1, BeforeRead
<1>3. ~Wide(inquiry.plan) /\ (NamesOne(inquiry.q) => CaseOf(inquiry) \in Explicit(inquiry.q))
  BY <1>1 DEF Sound, Directs
<1> DEFINE found == Case(CaseOf(inquiry))
           c == TheOne(found)
           failures == {Fact(c.protocol, "FAILURE_EVIDENCE") : k \in FailureFacts(c, inquiry.q.run)}
           inspects == inquiry.q.operation = "EXECUTION_FAILURE"
           facts == StatusFacts(c) \cup (IF inspects THEN failures ELSE {})
           n == [Read EXCEPT !.pc = "synthesize", !.facts = facts]
<1>4. inquiry' = IF found = {} \/ (inspects /\ failures = {}) THEN Ended(Read, "NOT_FOUND") ELSE n
  BY DEF LookUp, Moves
<1>5. CASE found = {} \/ (inspects /\ failures = {})
  BY <1>2, <1>4, <1>5, EndedSound
<1>6. CASE ~(found = {} \/ (inspects /\ failures = {}))
  <2>1. c.protocol = CaseOf(inquiry)
    BY <1>6, FoundCase
  <2>2. \A f \in facts : f.protocol = c.protocol
    <3>1. \A f \in StatusFacts(c) : f.protocol = c.protocol
      BY CaseFactsName DEF StatusFacts
    <3>2. \A f \in failures : f.protocol = c.protocol
      BY DEF Fact
    <3>3. QED
      BY <3>1, <3>2
  <2> HIDE DEF facts
  <2>3. /\ IsInquiry(n) /\ n.facts = facts /\ n.loaded = inquiry.loaded /\ n.round = inquiry.round
        /\ n.pc = "synthesize" /\ n.q = inquiry.q /\ n.plan = inquiry.plan
        /\ n.attempt = inquiry.attempt /\ n.needs = inquiry.needs /\ n.calls = inquiry.calls
        /\ n.reads = inquiry.reads + 1
    BY <1>2, AfterRead DEF IsInquiry, InquiryFields
  <2>4. inquiry' = n
    BY <1>4, <1>6
  <2> HIDE DEF n, c, found
  <2>5. Shaped(n)
    BY <1>2, <2>3 DEF Shaped
  <2>6. Spent(n)
    BY <1>2, <2>3 DEF Spent
  <2>7. Named(n)
    BY <1>3, <2>1, <2>2, <2>3 DEF Named
  <2>8. Directs(n)
    BY <2>3 DEF Directs
  <2>9. QED
    BY <2>4, <2>5, <2>6, <2>7, <2>8 DEF Sound
<1>7. QED
  BY <1>5, <1>6

\* An inquiry that waits for words.
LEMMA WaitsForWords ==
  ASSUME NEW n, Shaped(n), n.pc \in {"synthesize", "detail"}, Named(n), n.calls <= 2, n.reads = 1,
         n.pc = "detail" => /\ Wide(n.plan)
                            /\ \A f \in n.facts : f.category \in {"ANALYTICS", "SERVICE_REQUEST"}
  PROVE  Sound(n)
<1>1. Spent(n)
  BY DEF Spent, Shaped
<1>2. Directs(n)
  BY DEF Directs
<1>3. QED
  BY <1>1, <1>2 DEF Sound

LEMMA DiscoverSound ==
  ASSUME Sound(inquiry), Discover
  PROVE  Sound(inquiry')
<1>1. inquiry.pc = "discover"
  BY DEF Discover, Is
<1>2. /\ IsInquiry(inquiry) /\ inquiry.q \in Questions /\ inquiry.round \in 0 .. 3
      /\ inquiry.calls \in 0 .. 2 /\ inquiry.reads = 0 /\ inquiry.attempt \in {1, 2}
      /\ IsPlan(inquiry.plan) /\ inquiry.loaded \subseteq Needs /\ inquiry.needs \subseteq Needs
      /\ inquiry.facts = {} /\ Questions # {}
  BY <1>1, BeforeRead
<1>3. Wide(inquiry.plan)
  BY <1>1 DEF Sound, Directs
<1> DEFINE one == inquiry.plan.intent = "LATEST_PROTOCOL"
           found == Recent(IF one THEN 1 ELSE inquiry.plan.limit)
           facts == {Fact(c.protocol, "SERVICE_REQUEST") : c \in found}
           selected == IF one THEN TheOne(found).protocol ELSE 0
           pc == IF one THEN "detail" ELSE "synthesize"
           n == [Read EXCEPT !.facts = facts, !.selected = selected, !.pc = pc]
<1>4. inquiry' = IF found = {} THEN Ended(Read, "NOT_FOUND") ELSE n
  BY DEF Discover, Moves
<1>5. \A f \in facts : f.category = "SERVICE_REQUEST"
  BY DEF Fact
<1>6. pc \in {"synthesize", "detail"}
  OBVIOUS
<1> HIDE DEF facts, selected, pc
<1>7. /\ IsInquiry(n) /\ n.facts = facts /\ n.loaded = inquiry.loaded /\ n.round = inquiry.round
      /\ n.pc = pc /\ n.q = inquiry.q /\ n.plan = inquiry.plan /\ n.attempt = inquiry.attempt
      /\ n.needs = inquiry.needs /\ n.calls = inquiry.calls /\ n.reads = inquiry.reads + 1
  BY <1>2, AfterRead DEF IsInquiry, InquiryFields
<1> HIDE DEF n, found
<1>8. Shaped(n)
  BY <1>2, <1>6, <1>7 DEF Shaped
<1>9. Named(n)
  BY <1>3, <1>5, <1>7 DEF Named
<1>10. n.calls <= 2 /\ n.reads = 1
  BY <1>2, <1>7
<1>11. Sound(n)
  BY <1>3, <1>5, <1>6, <1>7, <1>8, <1>9, <1>10, WaitsForWords
<1>12. QED
  BY <1>2, <1>4, <1>11, EndedSound

LEMMA AnalyseSound ==
  ASSUME Sound(inquiry), Analyse
  PROVE  Sound(inquiry')
<1>1. inquiry.pc = "analyse"
  BY DEF Analyse, Is
<1>2. /\ IsInquiry(inquiry) /\ inquiry.q \in Questions /\ inquiry.round \in 0 .. 3
      /\ inquiry.calls \in 0 .. 2 /\ inquiry.reads = 0 /\ inquiry.attempt \in {1, 2}
      /\ IsPlan(inquiry.plan) /\ inquiry.loaded \subseteq Needs /\ inquiry.needs \subseteq Needs
      /\ inquiry.facts = {} /\ Questions # {}
  BY <1>1, BeforeRead
<1>3. Wide(inquiry.plan)
  BY <1>1 DEF Sound, Directs
<1> DEFINE refused(now) == [Ended(inquiry, "INVALID_INPUT") EXCEPT !.plan = inquiry.plan,
                                                                  !.now = now, !.seen = cases]
           counted(now, total, chosen, pc) ==
             [Read EXCEPT !.total = total, !.now = now, !.seen = cases,
                          !.facts = {Fact(0, "ANALYTICS")}, !.selected = chosen, !.pc = pc]
<1>4. ASSUME NEW now
      PROVE  Sound(refused(now))
  <2> DEFINE e == Ended(inquiry, "INVALID_INPUT")
             n == [e EXCEPT !.plan = inquiry.plan, !.now = now, !.seen = cases]
  <2>1. /\ IsInquiry(e) /\ e.q \in Questions /\ e.pc = "free" /\ e.attempt = 1 /\ e.round = 0
        /\ e.needs = {} /\ e.loaded = {} /\ e.facts = {} /\ e.calls = 0 /\ e.reads = 0
    BY <1>2, NoInquiryFields DEF Ended, IsInquiry, InquiryFields
  <2> HIDE DEF e
  <2>2. /\ IsInquiry(n) /\ n.q \in Questions /\ n.pc = "free" /\ n.attempt = 1 /\ n.round = 0
        /\ n.needs = {} /\ n.loaded = {} /\ n.facts = {} /\ n.calls = 0 /\ n.reads = 0
        /\ n.plan = inquiry.plan
    BY <2>1 DEF IsInquiry, InquiryFields
  <2> HIDE DEF n
  <2>3. Sound(n)
    BY <1>2, <2>2, FreshSound
  <2>4. QED
    BY <2>3 DEF n, e
<1>5. ASSUME NEW now, NEW total, NEW chosen, NEW pc \in {"synthesize", "detail"}
      PROVE  Sound(counted(now, total, chosen, pc))
  <2> DEFINE n == counted(now, total, chosen, pc)
             facts == {Fact(0, "ANALYTICS")}
  <2>1. \A f \in facts : f.category = "ANALYTICS"
    BY DEF Fact
  <2> HIDE DEF facts
  <2>2. n = [Read EXCEPT !.total = total, !.now = now, !.seen = cases, !.facts = facts,
                         !.selected = chosen, !.pc = pc]
    BY DEF facts
  <2> HIDE DEF n
  <2>3. /\ IsInquiry(n) /\ n.facts = facts /\ n.loaded = inquiry.loaded /\ n.round = inquiry.round
        /\ n.pc = pc /\ n.q = inquiry.q /\ n.plan = inquiry.plan /\ n.attempt = inquiry.attempt
        /\ n.needs = inquiry.needs /\ n.calls = inquiry.calls /\ n.reads = inquiry.reads + 1
    BY <1>2, <2>2, AfterRead DEF IsInquiry, InquiryFields
  <2>4. Shaped(n)
    BY <1>2, <2>3 DEF Shaped
  <2>5. Named(n)
    BY <1>3, <2>1, <2>3 DEF Named
  <2>6. n.calls <= 2 /\ n.reads = 1
    BY <1>2, <2>3
  <2>7. Sound(n)
    BY <1>3, <2>1, <2>3, <2>4, <2>5, <2>6, WaitsForWords
  <2>8. QED
    BY <2>7 DEF n
<1>6. PICK now \in Clocks :
        LET a == inquiry.plan.analytics
            rows == Matching(cases, a, now)
            chosen == SelectedBy(a, rows)
        IN inquiry' = IF ~WindowValid(Resolve(a.time, now)) THEN refused(now)
                      ELSE counted(now, Cardinality(rows), chosen,
                                   IF chosen # 0 /\ Enriches(a) THEN "detail" ELSE "synthesize")
  BY DEF Analyse, Moves
<1> HIDE DEF refused, counted
<1>7. QED
  BY <1>4, <1>5, <1>6

LEMMA DetailSound ==
  ASSUME Sound(inquiry), Detail
  PROVE  Sound(inquiry')
<1>1. inquiry.pc = "detail"
  BY DEF Detail, Is
<1>2. /\ IsInquiry(inquiry) /\ inquiry.q \in Questions /\ inquiry.round \in 0 .. 3
      /\ inquiry.calls \in Nat /\ inquiry.reads \in Nat /\ inquiry.attempt \in {1, 2}
      /\ IsPlan(inquiry.plan) /\ inquiry.loaded \subseteq Needs /\ inquiry.needs \subseteq Needs
  BY DEF Sound, Shaped
<1>3. inquiry.calls <= 2 /\ inquiry.reads = 1
  BY <1>1 DEF Sound, Spent
<1>4. Wide(inquiry.plan) /\ \A f \in inquiry.facts : f.category \in {"ANALYTICS", "SERVICE_REQUEST"}
  BY <1>1 DEF Sound, Directs
<1> DEFINE known == [Read EXCEPT !.pc = "synthesize"]
           linked(facts) == [Read EXCEPT !.pc = "synthesize", !.facts = facts]
<1>5. ASSUME NEW n, NEW facts,
             \A f \in facts : f.category \notin {"ANALYTICS", "SERVICE_REQUEST"} =>
                                f.protocol = inquiry.selected,
             (n = known /\ facts = inquiry.facts) \/ n = linked(facts)
      PROVE  Sound(n)
  <2>1. /\ IsInquiry(n) /\ n.facts = facts /\ n.loaded = inquiry.loaded /\ n.round = inquiry.round
        /\ n.pc = "synthesize" /\ n.q = inquiry.q /\ n.plan = inquiry.plan
        /\ n.attempt = inquiry.attempt /\ n.needs = inquiry.needs /\ n.calls = inquiry.calls
        /\ n.reads = inquiry.reads + 1 /\ n.selected = inquiry.selected
    BY <1>2, <1>5, AfterRead DEF IsInquiry, InquiryFields
  <2>2. Shaped(n)
    BY <1>2, <2>1 DEF Shaped
  <2>3. Named(n)
    BY <1>4, <1>5, <2>1 DEF Named
  <2>4. Spent(n)
    BY <1>2, <1>3, <2>1 DEF Spent
  <2>5. Directs(n)
    BY <2>1 DEF Directs
  <2>6. QED
    BY <2>2, <2>3, <2>4, <2>5 DEF Sound
<1>6. CASE Moves(known)
  BY <1>4, <1>5, <1>6 DEF Moves
<1>7. CASE \E c \in Case(inquiry.selected) : Moves(linked(inquiry.facts \cup CaseFacts(c, Needs)))
  <2>1. PICK c \in Case(inquiry.selected) : inquiry' = linked(inquiry.facts \cup CaseFacts(c, Needs))
    BY <1>7 DEF Moves
  <2>2. \A f \in CaseFacts(c, Needs) : f.protocol = inquiry.selected
    BY <2>1, CaseFactsName DEF Case
  <2> HIDE DEF linked
  <2>3. QED
    BY <1>4, <1>5, <2>1, <2>2
<1>8. ASSUME NEW X
      PROVE  [Read EXCEPT !.pc = "synthesize", !.facts = @ \cup X] = linked(inquiry.facts \cup X)
  <2>1. known.facts = inquiry.facts
    BY <1>2, AfterRead DEF IsInquiry, InquiryFields
  <2>2. [known EXCEPT !.facts = @ \cup X] = [known EXCEPT !.facts = inquiry.facts \cup X]
    BY <2>1
  <2>3. QED
    BY <2>2
<1> HIDE DEF linked
<1>9. QED
  BY <1>6, <1>7, <1>8 DEF Detail

LEMMA SynthesizeSound ==
  ASSUME Sound(inquiry), Synthesize
  PROVE  Sound(inquiry')
<1>1. /\ IsInquiry(inquiry) /\ inquiry.q \in Questions /\ inquiry.round \in 0 .. 3
      /\ inquiry.calls \in Nat /\ inquiry.reads \in Nat /\ inquiry.attempt \in {1, 2}
      /\ IsPlan(inquiry.plan) /\ inquiry.loaded \subseteq Needs /\ inquiry.needs \subseteq Needs
      /\ Named(inquiry)
  BY DEF Sound, Shaped
<1>2. inquiry.calls <= 7 /\ inquiry.reads <= 3 /\ (inquiry.pc = "synthesize" => inquiry.calls <= 6)
  BY <1>1 DEF Sound, Spent, Synthesize
<1> DEFINE again == [Called EXCEPT !.pc = "resynthesize"]
           answered == [Called EXCEPT !.pc = "answered", !.status = "ANSWERED", !.words = "observed"]
<1>3. /\ IsInquiry(again) /\ again.pc = "resynthesize" /\ again.q = inquiry.q
      /\ again.attempt = inquiry.attempt /\ again.round = inquiry.round /\ again.needs = inquiry.needs
      /\ again.loaded = inquiry.loaded /\ again.facts = inquiry.facts
      /\ again.selected = inquiry.selected /\ again.calls = inquiry.calls + 1
      /\ again.reads = inquiry.reads /\ again.plan = inquiry.plan
  BY <1>1 DEF Called, IsInquiry, InquiryFields
<1>4. /\ IsInquiry(answered) /\ answered.pc = "answered" /\ answered.q = inquiry.q
      /\ answered.attempt = inquiry.attempt /\ answered.round = inquiry.round
      /\ answered.needs = inquiry.needs /\ answered.loaded = inquiry.loaded
      /\ answered.facts = inquiry.facts /\ answered.selected = inquiry.selected
      /\ answered.calls = inquiry.calls + 1 /\ answered.reads = inquiry.reads
      /\ answered.plan = inquiry.plan
  BY <1>1 DEF Called, IsInquiry, InquiryFields
<1>5. \/ inquiry' = answered
      \/ inquiry.pc = "synthesize" /\ inquiry' = again
      \/ inquiry' = Ended(Called, "PROVIDER_ERROR")
  BY DEF Synthesize, Moves, Is
<1> HIDE DEF again, answered
<1>6. Sound(answered)
  <2>1. Shaped(answered)
    BY <1>1, <1>4 DEF Shaped
  <2>2. Spent(answered)
    BY <1>1, <1>2, <1>4 DEF Spent
  <2>3. QED
    BY <1>1, <1>4, <2>1, <2>2 DEF Sound, Named, Directs
<1>7. ASSUME inquiry.pc = "synthesize"
      PROVE  Sound(again)
  <2>1. Shaped(again)
    BY <1>1, <1>3 DEF Shaped
  <2>2. Spent(again)
    BY <1>1, <1>2, <1>3, <1>7 DEF Spent
  <2>3. QED
    BY <1>1, <1>3, <2>1, <2>2 DEF Sound, Named, Directs
<1>8. QED
  BY <1>1, <1>5, <1>6, <1>7, EndedSound

LEMMA CooperateSound ==
  ASSUME Sound(inquiry), Cooperate
  PROVE  Sound(inquiry')
<1>1. Questions # {}
  BY DEF Sound, Shaped
<1> DEFINE e == Ended(Called, "ANSWERED")
<1>2. /\ IsInquiry(e) /\ e.q \in Questions /\ e.pc = "free" /\ e.attempt = 1 /\ e.round = 0
      /\ e.needs = {} /\ e.loaded = {} /\ e.facts = {} /\ e.calls = 0 /\ e.reads = 0
      /\ e.plan = Plan("CLARIFICATION_REQUIRED", 0, {})
  BY <1>1, NoInquiryFields DEF Ended, IsInquiry, InquiryFields
<1>3. inquiry' = Ended(inquiry, "ANSWERED") \/ \E words : inquiry' = [e EXCEPT !.words = words]
  BY DEF Cooperate, Moves
<1> HIDE DEF e
<1>4. ASSUME NEW words
      PROVE  Sound([e EXCEPT !.words = words])
  <2> DEFINE n == [e EXCEPT !.words = words]
  <2>1. /\ IsInquiry(n) /\ n.q \in Questions /\ n.pc = "free" /\ n.attempt = 1 /\ n.round = 0
        /\ n.needs = {} /\ n.loaded = {} /\ n.facts = {} /\ n.calls = 0 /\ n.reads = 0
        /\ n.plan = Plan("CLARIFICATION_REQUIRED", 0, {})
    BY <1>2 DEF IsInquiry, InquiryFields
  <2> HIDE DEF n
  <2>2. IsPlan(n.plan)
    BY <2>1, PlanIsPlan
  <2>3. Sound(n)
    BY <2>1, <2>2, FreshSound
  <2>4. QED
    BY <2>3 DEF n
<1>5. QED
  BY <1>1, <1>3, <1>4, EndedSound

-----------------------------------------------------------------------------
(* Every step of an inquiry, and the types of its state.                   *)

LEMMA SupportStep ==
  ASSUME OpsInv, Sound(inquiry), [SupportNext]_supportVars
  PROVE  OpsInv' /\ Sound(inquiry)'
<1>1. CASE Supporting
  <2>1. UNCHANGED opsVars
    BY <1>1 DEF Supporting, Ask, PlanReplies, Unclear, Investigate, LookUp, Discover, Analyse,
                Detail, ToolFails, Synthesize, Cooperate, Moves
  <2>2. OpsInv'
    BY <2>1, OpsStep
  <2>3. Questions # {}
    BY SupportAssumption
  <2>4. Unclear \/ ToolFails => Sound(inquiry')
    BY <2>3, EndedSound DEF Unclear, ToolFails, Moves
  <2>5. Sound(inquiry')
    BY <1>1, <2>4, AskSound, PlanRepliesSound, InvestigateSound, LookUpSound, DiscoverSound,
       AnalyseSound, DetailSound, SynthesizeSound, CooperateSound DEF Supporting
  <2>6. QED
    BY <2>2, <2>5
<1>2. CASE OpsNext /\ UNCHANGED inquiry
  BY <1>2, OpsStep
<1>3. CASE UNCHANGED supportVars
  BY <1>3, OpsStep DEF supportVars
<1>4. QED
  BY <1>1, <1>2, <1>3 DEF SupportNext

LEMMA SupportInvariant == SupportSpec => [](OpsInv /\ Sound(inquiry))
<1>1. SupportInit => OpsInv /\ Sound(inquiry)
  <2>1. Sound(NoInquiry)
    <3>1. NoInquiry.q \in Questions
      BY SupportAssumption, NoInquiryFields
    <3>2. IsPlan(NoInquiry.plan)
      BY NoInquiryFields, PlanIsPlan
    <3>3. QED
      BY <3>1, <3>2, NoInquiryFields, FreshSound
  <2>2. QED
    BY <2>1, OpsInitHolds DEF SupportInit
<1>2. QED
  BY <1>1, SupportStep, PTL DEF SupportSpec

LEMMA SupportTypes ==
  ASSUME OpsInv, Sound(inquiry)
  PROVE  SupportTypeOK
<1>1. Shaped(inquiry) /\ Spent(inquiry)
  BY DEF Sound
<1>2. inquiry.calls \in 0 .. 9 /\ inquiry.reads \in 0 .. 3
  BY <1>1 DEF Shaped, Spent
<1>3. QED
  BY <1>1, <1>2, OpsTypes DEF SupportTypeOK, Shaped, MAX_INVESTIGATION_ROUNDS

\* However many rounds a question is investigated for, whatever plans the model
\* returns and whenever a read fails, every fact an inquiry holds is of the one
\* protocol its question names; what a discovery or an analysis found in detail is
\* of the protocol it selected (customer_support.py _plan and the rounds of answer).
THEOREM SupportNamedCaseOnly == SupportSpec => []NamedCaseOnly
<1>1. Sound(inquiry) => NamedCaseOnly
  BY DEF Sound, Named, NamedCaseOnly, Wide, NamesOne
<1>2. QED
  BY <1>1, SupportInvariant, PTL

-----------------------------------------------------------------------------
(* What an analysis counts is what its words say.                          *)

LEMMA LeastOf ==
  ASSUME NEW S \in SUBSET Nat, S # {}
  PROVE  Least(S) \in S
<1>1. PICK x \in S : \A y \in S : x <= y
  BY LeastElement
<1>2. QED
  BY <1>1 DEF Least

LEMMA GreatestOf ==
  ASSUME NEW now \in Nat, NEW S \in SUBSET Past(now), S # {}
  PROVE  Greatest(S) \in S
<1> DEFINE T == {n \in Nat : now - n \in S}
<1>1. T \subseteq Nat
  OBVIOUS
<1>2. T # {}
  <2>1. PICK x \in S : TRUE
    OBVIOUS
  <2>2. x \in Past(now)
    OBVIOUS
  <2>3. now - x \in Nat /\ now - (now - x) = x
    BY <2>2 DEF Past
  <2>4. QED
    BY <2>1, <2>3
<1>3. PICK n \in T : \A y \in T : n <= y
  <2> HIDE DEF T
  <2>1. QED
    BY <1>1, <1>2, LeastElement
<1>4. now - n \in S
  BY <1>3
<1>5. ASSUME NEW y \in S
      PROVE  now - n >= y
  <2>1. y \in Past(now)
    OBVIOUS
  <2>2. now - y \in Nat /\ now - (now - y) = y
    BY <2>1 DEF Past
  <2>3. now - y \in T
    BY <2>2
  <2>4. n <= now - y /\ n \in Nat /\ y \in Nat
    BY <1>3, <2>1, <2>3 DEF Past
  <2>5. QED
    BY <2>4
<1>6. QED
  BY <1>4, <1>5 DEF Greatest

\* An analysis that was validated, of expressions the calendar knows.
Timely(a) ==
  /\ a.grain \in DOMAIN StatusesOf /\ a.basis \in BasesOf[a.grain] \cup {"none"}
  /\ \A now \in Clocks : Meaningful(a.time, now)

LEMMA ProtocolTimeBefore ==
  ASSUME NEW now \in Nat, NEW c, CaseBefore(c, now), c.status \in {"COMPLETED", "FAILED"},
         NEW b \in BasesOf["PROTOCOL"]
  PROVE  ProtocolTime(c, b) \in Past(now) \cup {0}
<1>1. \A i \in DOMAIN c.log : c.log[i].at \in Past(now)
  <2>1. PICK n : Indexed(c.log, n) /\ \A i \in 1 .. n : c.log[i].at \in Past(now)
    BY DEF CaseBefore, LogBefore
  <2>2. DOMAIN c.log = 1 .. n
    BY <2>1 DEF Indexed
  <2>3. QED
    BY <2>1, <2>2
<1>2. Past(now) \subseteq Nat
  BY DEF Past
<1>3. CASE b = "PROTOCOL_CREATED"
  <2>1. DomainCreated(c) \subseteq Past(now)
    BY <1>1 DEF DomainCreated
  <2>2. CreatedAt(c) \in Past(now)
    <3>1. CASE DomainCreated(c) = {}
      BY <3>1 DEF CreatedAt, CaseBefore
    <3>2. CASE DomainCreated(c) # {}
      BY <1>2, <2>1, <3>2, LeastOf DEF CreatedAt
    <3>3. QED
      BY <3>1, <3>2
  <2>3. QED
    BY <1>3, <2>2 DEF ProtocolTime
<1> DEFINE S == {r.at : r \in Correlated(c)}
<1>4. S \subseteq Past(now) /\ S # {}
  <2>1. Correlated(c) \subseteq c.runs /\ \E r \in c.runs : r \in Correlated(c)
    BY DEF Correlated, CaseBefore
  <2>2. QED
    BY <2>1 DEF CaseBefore
<1>5. Least(S) \in Past(now) /\ Greatest(S) \in Past(now)
  <2> HIDE DEF S
  <2>1. QED
    BY <1>2, <1>4, LeastOf, GreatestOf
<1>6. CASE b = "FIRST_EXECUTION"
  BY <1>5, <1>6 DEF ProtocolTime
<1>7. CASE b = "LAST_EXECUTION"
  BY <1>5, <1>7 DEF ProtocolTime
<1>8. CASE b = "PROTOCOL_OUTCOME_AT"
  <2> DEFINE F == {c.log[i].at : i \in Failing(c)}
  <2>1. F \subseteq Past(now)
    BY <1>1 DEF Failing, Linked
  <2>2. Failing(c) # {} => Greatest(F) \in Past(now)
    <3>1. Failing(c) # {} => F # {}
      OBVIOUS
    <3> HIDE DEF F
    <3>2. QED
      BY <2>1, <3>1, GreatestOf
  <2>3. c.completed \in Past(now)
    BY DEF CaseBefore
  <2>4. ProtocolTime(c, b) = IF c.status = "COMPLETED" THEN c.completed
                             ELSE IF Failing(c) = {} THEN 0 ELSE Greatest(F)
    BY <1>8 DEF ProtocolTime
  <2> HIDE DEF F
  <2>5. QED
    BY <2>2, <2>3, <2>4
<1>9. QED
  BY <1>3, <1>6, <1>7, <1>8 DEF BasesOf

\* Whatever the rows of an analysis are, each that has a time has it before now.
LEMMA RowsBefore ==
  ASSUME NEW now \in Nat, NEW kept, NEW a,
         \A c \in kept : CaseBefore(c, now) /\ c.status \in {"COMPLETED", "FAILED"},
         a.grain \in DOMAIN StatusesOf, a.basis \in BasesOf[a.grain] \cup {"none"},
         NEW row \in BaseRows(kept, a)
  PROVE  row.at \in Past(now) \cup {0}
<1>1. a.grain \in {"PROTOCOL", "EXECUTION", "EVENT"}
  BY DEF StatusesOf
<1>2. CASE a.grain = "PROTOCOL"
  <2>1. Basis(a) \in BasesOf["PROTOCOL"]
    BY <1>2 DEF Basis, BasesOf
  <2>2. PICK c \in kept : row.at = ProtocolTime(c, Basis(a))
    BY <1>2 DEF BaseRows
  <2>3. QED
    BY <2>1, <2>2, ProtocolTimeBefore
<1>3. CASE a.grain = "EXECUTION"
  <2>1. PICK x \in {y \in kept \X UNION {c.runs : c \in kept} : y[2] \in y[1].runs} :
          row.at = IF Basis(a) = "EXECUTION_STARTED" THEN x[2].at ELSE x[2].end
    BY <1>3 DEF BaseRows
  <2>2. x[1] \in kept /\ x[2] \in x[1].runs
    BY <2>1
  <2>3. x[2].at \in Past(now) /\ x[2].end \in Past(now)
    BY <2>2 DEF CaseBefore
  <2>4. QED
    BY <2>1, <2>3
<1>4. CASE a.grain = "EVENT"
  <2>1. PICK c \in kept : \E i \in DOMAIN c.log : row.at = c.log[i].at
    BY <1>4 DEF BaseRows
  <2>2. PICK n : Indexed(c.log, n) /\ \A i \in 1 .. n : c.log[i].at \in Past(now)
    BY DEF CaseBefore, LogBefore
  <2>3. DOMAIN c.log = 1 .. n
    BY <2>2 DEF Indexed
  <2>4. QED
    BY <2>1, <2>2, <2>3
<1>5. QED
  BY <1>1, <1>2, <1>3, <1>4

\* The half-open interval selects what the words say; one that is refused is empty.
LEMMA MatchingIsSaid ==
  ASSUME NEW now \in Clocks, NEW a, Timely(a), OpsInv, StoredBefore
  PROVE  /\ Matching(cases, a, now) = SaidIn(a, now, cases)
         /\ ~WindowValid(Resolve(a.time, now)) => SaidIn(a, now, cases) = {}
<1>1. InCalendar(now) /\ now \in Nat
  BY ClocksAssumption DEF InCalendar
<1>2. Meaningful(a.time, now)
  BY DEF Timely
<1>3. ASSUME NEW row \in BaseRows(cases, a), Selects(a, row)
      PROVE  /\ InWindow(Resolve(a.time, now), row.at) <=> Means(a.time, now, row.at)
             /\ ~WindowValid(Resolve(a.time, now)) => ~Means(a.time, now, row.at)
  <2>1. row.at \in Past(now) \cup {0} /\ row.at # 0
    BY <1>1, <1>3, RowsBefore DEF Timely, OpsInv, StoredCase, StoredBefore, Selects
  <2>2. row.at \in Nat /\ row.at < now
    BY <1>1, <2>1 DEF Past
  <2>3. Agrees(a.time, now, row.at)
    BY <1>1, <1>2, <2>2, WindowsMeanTheirWords
  <2>4. QED
    BY <2>3 DEF Agrees
<1>4. Matching(cases, a, now) = SaidIn(a, now, cases)
  BY <1>3, Zenon DEF Matching, SaidIn
<1>5. ~WindowValid(Resolve(a.time, now)) => SaidIn(a, now, cases) = {}
  BY <1>3, Zenon DEF SaidIn
<1>6. QED
  BY <1>4, <1>5

LEMMA AllTimeMeaningful == \A now : Meaningful(AllTime, now)
BY DEF AllTime, Meaningful, TimeExpressions, ExpressionValid, Kinds, None

LEMMA LatestTimely ==
  ASSUME NEW time, NEW basis \in BasesOf["PROTOCOL"], \A now \in Clocks : Meaningful(time, now)
  PROVE  LET a == LatestOf("PROTOCOL", time, basis)
         IN Timely(a) /\ \A limit : Timely([a EXCEPT !.metric = "LIST", !.limit = limit])
BY DEF LatestOf, Timely, StatusesOf

LEMMA AnalysesTimely ==
  ASSUME NEW p \in Replies, PlanValid(p), p.intent = "ANALYTICS"
  PROVE  Timely(p.analytics)
<1> DEFINE a == p.analytics
           e == a.time
<1>1. a # NoAnalytics /\ AnalyticsValid(a)
  BY DEF PlanValid
<1>2. a \in Analyses
  <2>1. p \in Plans
    BY RepliesAssumption
  <2>2. a \in Analyses \cup {NoAnalytics}
    <3> DEFINE A == Analyses \cup {NoAnalytics}
    <3>1. p \in [intent : Intents, protocol : Nat, run : {"any", "R1", "R2"}, limit : 1 .. 5,
                 needs : SUBSET Needs,
                 order : {"REQUEST_CREATED_AT", "REQUEST_UPDATED_AT", "LAST_EXECUTION_AT"},
                 analytics : A]
      BY <2>1 DEF Plans
    <3> HIDE DEF A
    <3>2. p.analytics \in A
      BY <3>1
    <3>3. QED
      BY <3>2 DEF A
  <2>3. QED
    BY <1>1, <2>2
<1>3. a.grain \in DOMAIN StatusesOf /\ e \in TimeExpressions
  BY <1>2 DEF Analyses
<1>4. a.basis \in BasesOf[a.grain] \cup {"none"} /\ ExpressionValid(e)
  BY <1>1 DEF AnalyticsValid
<1>5. ASSUME e.kind = "CALENDAR_MONTH", NEW now \in Clocks
      PROVE  NamedMonth(e, Day(now)) \in 0 .. 12 * Years - 1
  <2>1. e.month # 0
    BY <1>4, <1>5 DEF ExpressionValid
  <2>2. e \in {r.analytics.time : r \in {x \in Replies : x.analytics # NoAnalytics}}
    BY <1>1
  <2>3. e \in MonthExpressions
    BY <1>5, <2>1, <2>2 DEF MonthExpressions
  <2>4. QED
    BY <2>3, ClocksAssumption
<1> HIDE DEF a, e
<1>6. \A now \in Clocks : Meaningful(e, now)
  BY <1>3, <1>4, <1>5 DEF Meaningful
<1>7. QED
  BY <1>3, <1>4, <1>6 DEF Timely, a, e

\* A reply that was accepted is timely when it is an analysis.
LEMMA ChosenTimely ==
  ASSUME NEW q \in Questions, NEW p \in Replies, PlanValid(p)
  PROVE  LET r == ByExecution(Directed(q, Normalized(q, p)))
         IN r.intent = "ANALYTICS" => Timely(r.analytics)
<1>1. IsPlan(p)
  BY RepliesAssumption DEF Plans, IsPlan, PlanFields
<1> DEFINE n == Normalized(q, p)
           b == Directed(q, n)
<1>2. IsPlan(n) /\ n.intent = p.intent
  BY <1>1 DEF Normalized, IsPlan, PlanFields
<1>3. n.intent = "ANALYTICS" => Timely(n.analytics)
  <2> SUFFICES ASSUME p.intent = "ANALYTICS"
               PROVE  Timely(n.analytics)
    BY <1>2
  <2>1. Timely(p.analytics)
    BY AnalysesTimely
  <2>2. CASE q.latest /\ p.analytics.grain = "PROTOCOL"
    <3> DEFINE x == [p.analytics EXCEPT !.metric = "LAST", !.basis = "PROTOCOL_CREATED",
                                        !.ordering = "LATEST", !.limit = 1, !.groups = {}]
    <3>1. n.analytics = x
      BY <1>1, <2>2 DEF Normalized, IsPlan, PlanFields
    <3>2. p.analytics \in Analyses
      <4>1. p.analytics # NoAnalytics
        BY DEF PlanValid
      <4>2. p.analytics \in Analyses \cup {NoAnalytics}
        <5> DEFINE A == Analyses \cup {NoAnalytics}
        <5>1. p \in [intent : Intents, protocol : Nat, run : {"any", "R1", "R2"}, limit : 1 .. 5,
                     needs : SUBSET Needs,
                     order : {"REQUEST_CREATED_AT", "REQUEST_UPDATED_AT", "LAST_EXECUTION_AT"},
                     analytics : A]
          BY RepliesAssumption DEF Plans
        <5> HIDE DEF A
        <5>2. p.analytics \in A
          BY <5>1
        <5>3. QED
          BY <5>2 DEF A
      <4>3. QED
        BY <4>1, <4>2
    <3>3. x.grain = p.analytics.grain /\ x.time = p.analytics.time /\ x.basis = "PROTOCOL_CREATED"
      BY <3>2 DEF Analyses
    <3> HIDE DEF x
    <3>4. QED
      BY <2>1, <2>2, <3>1, <3>3 DEF Timely, BasesOf
  <2>3. CASE ~(q.latest /\ p.analytics.grain = "PROTOCOL")
    BY <2>1, <2>3 DEF Normalized
  <2>4. QED
    BY <2>2, <2>3
<1> HIDE DEF n
<1>4. IsPlan(b) /\ b.intent = n.intent /\ b.analytics = n.analytics
  BY <1>2 DEF Directed, IsPlan, PlanFields
<1> HIDE DEF b
<1>5. CASE b.intent \in Discovery /\ b.order = "LAST_EXECUTION_AT"
  <2> DEFINE a == LatestOf("PROTOCOL", AllTime, "LAST_EXECUTION")
             x == IF b.intent = "LATEST_PROTOCOL" THEN a ELSE [a EXCEPT !.metric = "LIST", !.limit = b.limit]
  <2>1. ByExecution(b) = AnalyticsPlan(x)
    BY <1>5 DEF ByExecution
  <2>2. Timely(x)
    <3>1. "LAST_EXECUTION" \in BasesOf["PROTOCOL"]
      BY DEF BasesOf
    <3>2. QED
      BY <3>1, AllTimeMeaningful, LatestTimely
  <2> HIDE DEF x
  <2>3. AnalyticsPlan(x).analytics = x
    BY DEF AnalyticsPlan, Plan
  <2>4. QED
    BY <2>1, <2>2, <2>3 DEF b, n
<1>6. CASE ~(b.intent \in Discovery /\ b.order = "LAST_EXECUTION_AT")
  <2>1. ByExecution(b) = b
    BY <1>6 DEF ByExecution
  <2>2. QED
    BY <1>3, <1>4, <2>1 DEF b, n
<1>7. QED
  BY <1>5, <1>6

\* TotalsMeanTheirWords, of an inquiry, and what leads to it.
Told(i) ==
  LET said == SaidIn(i.plan.analytics, i.now, i.seen)
  IN IF i.status = "INVALID_INPUT" THEN said = {}
     ELSE i.total # None => i.total = Cardinality(said)

Counted(i) ==
  /\ i.pc = "analyse" => i.plan.intent = "ANALYTICS" /\ Timely(i.plan.analytics)
  /\ i.status = "INVALID_INPUT" => i.pc = "free"
  /\ i.plan.intent = "ANALYTICS" /\ i.pc # "analyse" => Told(i)

\* A step that leaves the total as it is.
LEMMA StillCounted ==
  ASSUME NEW i, NEW k, Counted(i), i.pc \notin {"free", "analyse"}, k.pc # "analyse",
         k.plan = i.plan, k.now = i.now, k.seen = i.seen, k.total = i.total,
         k.status \in {i.status, "ANSWERED"}
  PROVE  Counted(k)
BY DEF Counted, Told

LEMMA UnplannedCounted ==
  ASSUME NEW k, k.pc # "analyse", k.plan.intent # "ANALYTICS",
         k.status = "INVALID_INPUT" => k.pc = "free"
  PROVE  Counted(k)
BY DEF Counted

LEMMA EndedCounted == \A i, status : Counted(Ended(i, status)) /\ Ended(i, status).plan = NoInquiry.plan
<1> SUFFICES ASSUME NEW status
             PROVE  LET e == [NoInquiry EXCEPT !.status = status]
                    IN Counted(e) /\ e.plan = NoInquiry.plan
  BY DEF Ended
<1> DEFINE e == [NoInquiry EXCEPT !.status = status]
<1>1. e.pc = "free" /\ e.plan = NoInquiry.plan
  BY NoInquiryFields DEF IsInquiry, InquiryFields
<1>2. NoInquiry.plan.intent = "CLARIFICATION_REQUIRED"
  BY NoInquiryFields, PlanIsPlan
<1> HIDE DEF e
<1>3. Counted(e)
  BY <1>1, <1>2, UnplannedCounted
<1>4. QED
  BY <1>1, <1>3 DEF e

\* The month that the words of a question name.
LEMMA NamedMonthIs ==
  ASSUME NEW m \in 1 .. 12, NEW y \in Nat
  PROVE  LET e == [AllTime EXCEPT !.kind = "CALENDAR_MONTH", !.month = m, !.year = y]
         IN e \in TimeExpressions /\ ExpressionValid(e) /\ e.kind = "CALENDAR_MONTH" /\ e.month = m
<1> DEFINE fields == {"kind", "days", "month", "year", "from", "to"}
           e == [AllTime EXCEPT !.kind = "CALENDAR_MONTH", !.month = m, !.year = y]
<1>1. /\ AllTime = [f \in fields |-> AllTime[f]]
      /\ AllTime.days = 0 /\ AllTime.from = None /\ AllTime.to = None
  BY DEF AllTime
<1>2. /\ e = [f \in fields |-> e[f]]
      /\ e.kind = "CALENDAR_MONTH" /\ e.month = m /\ e.year = y
      /\ e.days = 0 /\ e.from = None /\ e.to = None
  BY <1>1
<1> HIDE DEF e
<1>3. e \in TimeExpressions /\ ExpressionValid(e)
  BY <1>2 DEF TimeExpressions, ExpressionValid, Kinds, None
<1>4. QED
  BY <1>2, <1>3 DEF e

\* A plan that is acted on.
LEMMA ActsCounted ==
  ASSUME NEW i, IsInquiry(i), i.status # "INVALID_INPUT", NEW p,
         p.intent = "ANALYTICS" => Timely(p.analytics)
  PROVE  Counted(Acts(i, p))
<1> DEFINE pc == IF p.intent = "ANALYTICS" THEN "analyse"
                 ELSE IF p.intent \in Discovery THEN "discover"
                 ELSE IF p.intent = "CLARIFICATION_REQUIRED" THEN "unclear" ELSE "investigate"
           needs == IF p.needs = {} THEN {"SERVICE_REQUEST"} ELSE p.needs
           n == [i EXCEPT !.plan = p, !.pc = pc, !.needs = needs]
<1>1. n = Acts(i, p)
  BY DEF Acts
<1>2. pc = "analyse" <=> p.intent = "ANALYTICS"
  OBVIOUS
<1> HIDE DEF pc, needs
<1>3. n.plan = p /\ n.pc = pc /\ n.status = i.status
  BY DEF IsInquiry, InquiryFields
<1> HIDE DEF n
<1>4. Counted(n)
  BY <1>2, <1>3 DEF Counted
<1>5. QED
  BY <1>1, <1>4

LEMMA AskCounted ==
  ASSUME Sound(inquiry), Ask
  PROVE  Counted(inquiry')
<1>1. PICK q \in Questions :
        LET new == [NoInquiry EXCEPT !.q = q]
        IN Moves(IF ~q.allowed THEN Ended(new, "UNAUTHORIZED")
                 ELSE IF q.operation # "none"
                 THEN [new EXCEPT !.pc = "lookup", !.plan = Plan(q.operation, q.selector, {})]
                 ELSE IF NeedsClarification(q) THEN Ended(new, "CLARIFICATION_REQUIRED")
                 ELSE IF PlannedByWords(q) THEN Acts(new, WordsPlan(q))
                 ELSE [new EXCEPT !.pc = "plan"])
  BY DEF Ask
<1> DEFINE new == [NoInquiry EXCEPT !.q = q]
           p == Plan(q.operation, q.selector, {})
<1>2. QuestionOK(q)
  BY SupportAssumption
<1>3. /\ IsInquiry(new) /\ new.q = q /\ new.pc = "free" /\ new.plan = NoInquiry.plan
      /\ new.status = NoInquiry.status
  BY NoInquiryFields DEF IsInquiry, InquiryFields
<1>4. NoInquiry.status = "none"
  BY DEF NoInquiry
<1>5. /\ NoInquiry.plan.intent = "CLARIFICATION_REQUIRED" /\ p.intent = q.operation
  BY NoInquiryFields, PlanIsPlan
<1>6. inquiry' = IF ~q.allowed THEN Ended(new, "UNAUTHORIZED")
                 ELSE IF q.operation # "none" THEN [new EXCEPT !.pc = "lookup", !.plan = p]
                 ELSE IF NeedsClarification(q) THEN Ended(new, "CLARIFICATION_REQUIRED")
                 ELSE IF PlannedByWords(q) THEN Acts(new, WordsPlan(q))
                 ELSE [new EXCEPT !.pc = "plan"]
  BY <1>1 DEF Moves
<1> HIDE DEF new, p
<1>7. Counted([new EXCEPT !.pc = "plan"])
  <2> DEFINE n == [new EXCEPT !.pc = "plan"]
  <2>1. n.pc = "plan" /\ n.plan = new.plan /\ n.status = new.status
    BY <1>3 DEF IsInquiry, InquiryFields
  <2> HIDE DEF n
  <2>2. Counted(n)
    BY <1>3, <1>4, <1>5, <2>1, UnplannedCounted
  <2>3. QED
    BY <2>2 DEF n
<1>8. Counted([new EXCEPT !.pc = "lookup", !.plan = p])
  <2> DEFINE n == [new EXCEPT !.pc = "lookup", !.plan = p]
  <2>1. n.pc = "lookup" /\ n.plan = p /\ n.status = new.status
    BY <1>3 DEF IsInquiry, InquiryFields
  <2>2. p.intent # "ANALYTICS"
    BY <1>2, <1>5 DEF QuestionOK
  <2> HIDE DEF n
  <2>3. Counted(n)
    BY <1>3, <1>4, <2>1, <2>2, UnplannedCounted
  <2>4. QED
    BY <2>3 DEF n
<1>9. Counted(Acts(new, WordsPlan(q)))
  <2>1. WordsPlan(q).intent = "ANALYTICS" => Timely(WordsPlan(q).analytics)
    <3>1. CASE q.month = 0
      BY <3>1, PlanIsPlan DEF WordsPlan
    <3>2. CASE q.month # 0
      <4> DEFINE e == [AllTime EXCEPT !.kind = "CALENDAR_MONTH", !.month = q.month, !.year = q.year]
                 a == LatestOf("PROTOCOL", e, "PROTOCOL_CREATED")
      <4>1. WordsPlan(q) = AnalyticsPlan(a)
        BY <3>2 DEF WordsPlan
      <4>2. /\ e \in TimeExpressions /\ ExpressionValid(e)
            /\ e.kind = "CALENDAR_MONTH" /\ e.month = q.month
        <5>1. q.month \in 1 .. 12 /\ q.year \in Nat
          BY <1>2, <3>2 DEF QuestionOK
        <5>2. QED
          BY <5>1, NamedMonthIs, Zenon
      <4>3. a.time = e
        BY DEF LatestOf
      <4> HIDE DEF e
      <4>4. AnalyticsPlan(a).analytics = a
        <5> HIDE DEF a
        <5>1. QED
          BY DEF AnalyticsPlan, Plan
      <4>5. e \in MonthExpressions
        BY <3>2, <4>1, <4>3, <4>4 DEF MonthExpressions
      <4>7. \A now \in Clocks : Meaningful(e, now)
        BY <4>2, <4>5, ClocksAssumption DEF Meaningful
      <4>8. Timely(a)
        <5>1. "PROTOCOL_CREATED" \in BasesOf["PROTOCOL"]
          BY DEF BasesOf
        <5>2. QED
          BY <4>7, <5>1, LatestTimely
      <4>9. QED
        BY <4>1, <4>4, <4>8
    <3>3. QED
      BY <3>1, <3>2
  <2>2. QED
    BY <1>3, <1>4, <2>1, ActsCounted
<1>10. QED
  BY <1>6, <1>7, <1>8, <1>9, EndedCounted

LEMMA TakesCounted ==
  ASSUME NEW i, Sound(i), Counted(i), i.pc = "plan", NEW k, Replied(i, k),
         NEW p, p.intent = "ANALYTICS" => Timely(p.analytics)
  PROVE  Counted(Takes(k, p))
<1>1. /\ k.pc = "plan" /\ k.plan = i.plan /\ k.round = i.round /\ k.loaded = i.loaded /\ IsInquiry(k)
  BY RepliedFields
<1>2. k.now = i.now /\ k.seen = i.seen /\ k.total = i.total /\ k.status = i.status
  BY DEF Replied, InquiryFields
<1>3. i.status # "INVALID_INPUT"
  BY DEF Counted
<1>4. CASE i.round = 0
  <2> DEFINE c == Clarified(k.q, p)
  <2>1. Takes(k, p) = Acts(k, c)
    BY <1>1, <1>4 DEF Takes
  <2>2. c.intent = "ANALYTICS" => Timely(c.analytics)
    BY PlanIsPlan DEF Clarified, Review
  <2> HIDE DEF c
  <2>3. QED
    BY <1>1, <1>2, <1>3, <2>1, <2>2, ActsCounted
<1>5. CASE i.round # 0
  <2> DEFINE more == p.needs \ k.loaded
             s == [k EXCEPT !.pc = "synthesize"]
             n == [k EXCEPT !.pc = "investigate", !.needs = more]
  <2>1. Takes(k, p) = IF more = {} THEN s ELSE n
    BY <1>1, <1>5 DEF Takes, Deepens
  <2> HIDE DEF more
  <2>2. /\ s.pc = "synthesize" /\ s.plan = k.plan /\ s.now = k.now /\ s.seen = k.seen
        /\ s.total = k.total /\ s.status = k.status
        /\ n.pc = "investigate" /\ n.plan = k.plan /\ n.now = k.now /\ n.seen = k.seen
        /\ n.total = k.total /\ n.status = k.status
    BY <1>1 DEF IsInquiry, InquiryFields
  <2> HIDE DEF s, n
  <2>3. Counted(s) /\ Counted(n)
    BY <1>1, <1>2, <2>2, StillCounted
  <2>4. QED
    BY <2>1, <2>3
<1>6. QED
  BY <1>4, <1>5

LEMMA PlanRepliesCounted ==
  ASSUME Sound(inquiry), Counted(inquiry), PlanReplies
  PROVE  Counted(inquiry')
<1> DEFINE q == inquiry.q
           again == [Called EXCEPT !.attempt = 2]
           fresh == [Called EXCEPT !.attempt = 1]
           s == [Called EXCEPT !.pc = "synthesize"]
<1>1. inquiry.pc = "plan" /\ IsInquiry(inquiry) /\ q \in Questions
  BY DEF PlanReplies, Is, Sound, Shaped
<1>2. Replied(inquiry, Called) /\ Replied(inquiry, fresh) /\ Replied(inquiry, again)
  BY <1>1, CalledReplied
<1>3. s.pc = "synthesize" /\ \A f \in InquiryFields \ {"pc"} : s[f] = Called[f]
  BY <1>2 DEF Replied, IsInquiry, InquiryFields
<1> HIDE DEF fresh, again, s
<1>4. Counted(NoPlan(Called))
  <2>1. s.plan = inquiry.plan /\ s.now = inquiry.now /\ s.seen = inquiry.seen
        /\ s.total = inquiry.total /\ s.status = inquiry.status
    BY <1>2, <1>3 DEF Replied, InquiryFields
  <2>2. Counted(s)
    BY <1>1, <1>3, <2>1, StillCounted
  <2>3. NoPlan(Called) = Ended(Called, "PROVIDER_ERROR") \/ NoPlan(Called) = s
    BY DEF NoPlan, s
  <2>4. QED
    BY <2>2, <2>3, EndedCounted
<1>5. Counted(again)
  <2>1. again.pc = inquiry.pc /\ again.plan = inquiry.plan /\ again.now = inquiry.now
        /\ again.seen = inquiry.seen /\ again.total = inquiry.total /\ again.status = inquiry.status
    BY <1>2 DEF Replied, InquiryFields
  <2>2. QED
    BY <1>1, <2>1, StillCounted
<1>6. ASSUME NEW p \in Replies,
             inquiry' = IF PlanValid(p) THEN Takes(fresh, ByExecution(Directed(q, Normalized(q, p))))
                        ELSE IF inquiry.attempt = 1 THEN again
                        ELSE IF NamesOne(q)
                        THEN Takes(fresh, Plan("PROTOCOL_EXECUTION_RESULT", TheOne(Explicit(q)), Review))
                        ELSE NoPlan(Called)
      PROVE  Counted(inquiry')
  <2>1. PlanValid(p) => Counted(Takes(fresh, ByExecution(Directed(q, Normalized(q, p)))))
    <3> DEFINE r == ByExecution(Directed(q, Normalized(q, p)))
    <3>1. PlanValid(p) => (r.intent = "ANALYTICS" => Timely(r.analytics))
      BY <1>1, ChosenTimely
    <3> HIDE DEF r
    <3>2. PlanValid(p) => Counted(Takes(fresh, r))
      BY <1>1, <1>2, <3>1, TakesCounted
    <3>3. QED
      BY <3>2 DEF r
  <2>2. Counted(Takes(fresh, Plan("PROTOCOL_EXECUTION_RESULT", TheOne(Explicit(q)), Review)))
    <3> DEFINE r == Plan("PROTOCOL_EXECUTION_RESULT", TheOne(Explicit(q)), Review)
    <3>1. r.intent = "PROTOCOL_EXECUTION_RESULT"
      BY PlanIsPlan DEF Review
    <3> HIDE DEF r
    <3>2. Counted(Takes(fresh, r))
      BY <1>1, <1>2, <3>1, TakesCounted
    <3>3. QED
      BY <3>2 DEF r
  <2>3. QED
    BY <1>4, <1>5, <1>6, <2>1, <2>2
<1>7. CASE Moves(NoPlan(Called))
  BY <1>4, <1>7 DEF Moves
<1>8. CASE \E p \in Replies :
        inquiry' = IF PlanValid(p) THEN Takes(fresh, ByExecution(Directed(q, Normalized(q, p))))
                   ELSE IF inquiry.attempt = 1 THEN again
                   ELSE IF NamesOne(q)
                   THEN Takes(fresh, Plan("PROTOCOL_EXECUTION_RESULT", TheOne(Explicit(q)), Review))
                   ELSE NoPlan(Called)
  BY <1>6, <1>8
<1>9. QED
  BY <1>7, <1>8 DEF PlanReplies, Moves, NamesOne, AsksAgain, fresh, again

\* The steps that neither plan nor count.
LEMMA ReadCounted ==
  ASSUME IsInquiry(inquiry)
  PROVE  /\ IsInquiry(Read) /\ Read.plan = inquiry.plan /\ Read.now = inquiry.now
         /\ Read.seen = inquiry.seen /\ Read.total = inquiry.total /\ Read.status = inquiry.status
         /\ Read.pc = inquiry.pc
BY DEF Read, IsInquiry, InquiryFields

LEMMA ToolsCounted ==
  ASSUME Sound(inquiry), Counted(inquiry), Investigate \/ LookUp \/ Discover \/ Detail
  PROVE  Counted(inquiry')
<1>1. IsInquiry(inquiry) /\ inquiry.pc \notin {"free", "analyse"}
  BY DEF Sound, Shaped, Investigate, LookUp, Discover, Detail, Is
<1>2. /\ IsInquiry(Read) /\ Read.plan = inquiry.plan /\ Read.now = inquiry.now
      /\ Read.seen = inquiry.seen /\ Read.total = inquiry.total /\ Read.status = inquiry.status
  BY <1>1, ReadCounted
<1> DEFINE Same(k) == /\ k.plan = inquiry.plan /\ k.now = inquiry.now /\ k.seen = inquiry.seen
                      /\ k.total = inquiry.total /\ k.status = inquiry.status
<1>3. ASSUME NEW k, Same(k), k.pc # "analyse"
      PROVE  Counted(k)
  BY <1>1, <1>3, StillCounted
<1>4. CASE Investigate
  <2> DEFINE c == TheOne(Case(CaseOf(inquiry)))
             i == [Read EXCEPT !.facts = @ \cup CaseFacts(c, inquiry.needs),
                               !.loaded = @ \cup inquiry.needs, !.round = @ + 1]
             pc == IF i.loaded = Needs \/ i.round = MAX_INVESTIGATION_ROUNDS THEN "synthesize" ELSE "plan"
             n == [i EXCEPT !.pc = pc]
  <2>1. inquiry' = Ended(Read, "NOT_FOUND") \/ inquiry' = n
    BY <1>4 DEF Investigate, Moves
  <2>2. pc # "analyse"
    OBVIOUS
  <2> HIDE DEF c, pc
  <2>3. IsInquiry(i) /\ Same(i)
    BY <1>2 DEF IsInquiry, InquiryFields
  <2> HIDE DEF i
  <2>4. n.pc = pc /\ Same(n)
    BY <2>3 DEF IsInquiry, InquiryFields
  <2> HIDE DEF n
  <2>5. Counted(n)
    BY <1>3, <2>2, <2>4
  <2>6. QED
    BY <2>1, <2>5, EndedCounted
<1>5. ASSUME NEW facts, NEW selected, NEW pc \in {"detail", "synthesize"}
      PROVE  /\ Counted([Read EXCEPT !.facts = facts, !.selected = selected, !.pc = pc])
             /\ Counted([Read EXCEPT !.pc = pc, !.facts = facts])
             /\ Counted([Read EXCEPT !.pc = pc])
  <2> DEFINE x == [Read EXCEPT !.facts = facts, !.selected = selected, !.pc = pc]
             y == [Read EXCEPT !.pc = pc, !.facts = facts]
             z == [Read EXCEPT !.pc = pc]
  <2>1. x.pc = pc /\ Same(x)
    BY <1>2 DEF IsInquiry, InquiryFields
  <2>2. y.pc = pc /\ Same(y)
    BY <1>2 DEF IsInquiry, InquiryFields
  <2>3. z.pc = pc /\ Same(z)
    BY <1>2 DEF IsInquiry, InquiryFields
  <2> HIDE DEF x, y, z, Same
  <2>4. Counted(x) /\ Counted(y) /\ Counted(z)
    BY <1>3, <2>1, <2>2, <2>3
  <2>5. QED
    BY <2>4 DEF x, y, z
<1>6. CASE LookUp
  <2> DEFINE case == TheOne(Case(CaseOf(inquiry)))
             inspects == inquiry.q.operation = "EXECUTION_FAILURE"
             failures == {Fact(case.protocol, "FAILURE_EVIDENCE") : k \in FailureFacts(case, inquiry.q.run)}
             facts == StatusFacts(case) \cup (IF inspects THEN failures ELSE {})
  <2>1. inquiry' = Ended(Read, "NOT_FOUND")
          \/ inquiry' = [Read EXCEPT !.pc = "synthesize", !.facts = facts]
    BY <1>6, Zenon DEF LookUp, Moves
  <2> HIDE DEF facts
  <2>2. Counted([Read EXCEPT !.pc = "synthesize", !.facts = facts])
    BY <1>5, Zenon
  <2>3. QED
    BY <2>1, <2>2, EndedCounted
<1>7. CASE Discover
  <2> DEFINE one == inquiry.plan.intent = "LATEST_PROTOCOL"
             found == Recent(IF one THEN 1 ELSE inquiry.plan.limit)
             facts == {Fact(c.protocol, "SERVICE_REQUEST") : c \in found}
             selected == IF one THEN TheOne(found).protocol ELSE 0
             pc == IF one THEN "detail" ELSE "synthesize"
  <2>1. inquiry' = Ended(Read, "NOT_FOUND")
          \/ inquiry' = [Read EXCEPT !.facts = facts, !.selected = selected, !.pc = pc]
    BY <1>7, Zenon DEF Discover, Moves
  <2>2. pc \in {"detail", "synthesize"}
    OBVIOUS
  <2> HIDE DEF facts, selected, pc
  <2>3. Counted([Read EXCEPT !.facts = facts, !.selected = selected, !.pc = pc])
    BY <1>5, <2>2, Zenon
  <2>4. QED
    BY <2>1, <2>3, EndedCounted
<1>8. CASE Detail
  <2> DEFINE known == [Read EXCEPT !.pc = "synthesize"]
  <2>1. \/ inquiry' = known
        \/ \E c : inquiry' = [known EXCEPT !.facts = @ \cup CaseFacts(c, Needs)]
    BY <1>8 DEF Detail, Moves
  <2>2. IsInquiry(known) /\ known.pc = "synthesize" /\ Same(known)
    BY <1>2 DEF IsInquiry, InquiryFields
  <2> HIDE DEF known
  <2>3. ASSUME NEW c
        PROVE  Counted([known EXCEPT !.facts = @ \cup CaseFacts(c, Needs)])
    <3> DEFINE k == [known EXCEPT !.facts = @ \cup CaseFacts(c, Needs)]
    <3>1. k.pc = "synthesize" /\ Same(k)
      BY <2>2 DEF IsInquiry, InquiryFields
    <3> HIDE DEF k
    <3>2. Counted(k)
      BY <1>3, <3>1
    <3>3. QED
      BY <3>2 DEF k
  <2>4. Counted(known)
    BY <1>3, <2>2
  <2>5. QED
    BY <2>1, <2>3, <2>4
<1>9. QED
  BY <1>4, <1>6, <1>7, <1>8

LEMMA AnalyseCounted ==
  ASSUME OpsInv, StoredBefore, Sound(inquiry), Counted(inquiry), Analyse
  PROVE  Counted(inquiry')
<1> DEFINE a == inquiry.plan.analytics
<1>1. inquiry.pc = "analyse" /\ IsInquiry(inquiry) /\ Timely(a) /\ inquiry.status # "INVALID_INPUT"
      /\ inquiry.plan.intent = "ANALYTICS"
  BY DEF Analyse, Is, Sound, Shaped, Counted
<1>2. PICK now \in Clocks :
        LET rows == Matching(cases, a, now)
            chosen == SelectedBy(a, rows)
        IN inquiry' = IF ~WindowValid(Resolve(a.time, now))
                      THEN [Ended(inquiry, "INVALID_INPUT") EXCEPT !.plan = inquiry.plan, !.now = now, !.seen = cases]
                      ELSE [Read EXCEPT !.total = Cardinality(rows), !.now = now, !.seen = cases,
                                        !.facts = {Fact(0, "ANALYTICS")}, !.selected = chosen,
                                        !.pc = IF chosen # 0 /\ Enriches(a) THEN "detail" ELSE "synthesize"]
  BY DEF Analyse, Moves
<1>3. /\ Matching(cases, a, now) = SaidIn(a, now, cases)
      /\ ~WindowValid(Resolve(a.time, now)) => SaidIn(a, now, cases) = {}
  BY <1>1, MatchingIsSaid
<1>4. CASE ~WindowValid(Resolve(a.time, now))
  <2> DEFINE e == Ended(inquiry, "INVALID_INPUT")
             k == [e EXCEPT !.plan = inquiry.plan, !.now = now, !.seen = cases]
  <2>1. IsInquiry(e) /\ e.pc = "free" /\ e.status = "INVALID_INPUT"
    BY NoInquiryFields DEF Ended, IsInquiry, InquiryFields
  <2>2. inquiry' = k
    BY <1>2, <1>4
  <2> HIDE DEF e
  <2>3. k.pc = "free" /\ k.status = "INVALID_INPUT" /\ k.plan = inquiry.plan /\ k.now = now /\ k.seen = cases
    BY <2>1 DEF IsInquiry, InquiryFields
  <2> HIDE DEF k
  <2>4. SaidIn(k.plan.analytics, k.now, k.seen) = {}
    BY <1>3, <1>4, <2>3
  <2>5. QED
    BY <2>2, <2>3, <2>4 DEF Counted, Told
<1>5. CASE WindowValid(Resolve(a.time, now))
  <2> DEFINE rows == Matching(cases, a, now)
             total == Cardinality(rows)
             chosen == SelectedBy(a, rows)
             pc == IF chosen # 0 /\ Enriches(a) THEN "detail" ELSE "synthesize"
             facts == {Fact(0, "ANALYTICS")}
             k == [Read EXCEPT !.total = total, !.now = now, !.seen = cases, !.facts = facts,
                               !.selected = chosen, !.pc = pc]
  <2>1. inquiry' = k
    BY <1>2, <1>5
  <2>2. pc \in {"detail", "synthesize"}
    OBVIOUS
  <2>3. total = Cardinality(SaidIn(a, now, cases))
    BY <1>3
  <2> HIDE DEF total, chosen, pc, facts
  <2>4. IsInquiry(Read) /\ Read.plan = inquiry.plan /\ Read.status = inquiry.status
    BY <1>1, ReadCounted
  <2>5. /\ k.pc = pc /\ k.plan = inquiry.plan /\ k.now = now /\ k.seen = cases /\ k.total = total
        /\ k.status = inquiry.status
    BY <2>4 DEF IsInquiry, InquiryFields
  <2> HIDE DEF k
  <2>6. SaidIn(k.plan.analytics, k.now, k.seen) = SaidIn(a, now, cases)
    BY <2>5
  <2>7. QED
    BY <1>1, <2>1, <2>2, <2>3, <2>5, <2>6 DEF Counted, Told
<1>6. QED
  BY <1>4, <1>5

LEMMA SynthesizeCounted ==
  ASSUME Sound(inquiry), Counted(inquiry), Synthesize
  PROVE  Counted(inquiry')
<1>1. IsInquiry(inquiry) /\ inquiry.pc \in {"synthesize", "resynthesize"}
  BY DEF Sound, Shaped, Synthesize
<1> DEFINE again == [Called EXCEPT !.pc = "resynthesize"]
           answered == [Called EXCEPT !.pc = "answered", !.status = "ANSWERED", !.words = "observed"]
<1>2. /\ again.pc = "resynthesize" /\ again.plan = inquiry.plan /\ again.now = inquiry.now
      /\ again.seen = inquiry.seen /\ again.total = inquiry.total /\ again.status = inquiry.status
  BY <1>1 DEF Called, IsInquiry, InquiryFields
<1>3. /\ answered.pc = "answered" /\ answered.plan = inquiry.plan /\ answered.now = inquiry.now
      /\ answered.seen = inquiry.seen /\ answered.total = inquiry.total
      /\ answered.status = "ANSWERED"
  BY <1>1 DEF Called, IsInquiry, InquiryFields
<1>4. \/ inquiry' = answered \/ inquiry' = again \/ inquiry' = Ended(Called, "PROVIDER_ERROR")
  BY DEF Synthesize, Moves
<1> HIDE DEF again, answered
<1>5. Counted(again) /\ Counted(answered)
  BY <1>1, <1>2, <1>3, StillCounted
<1>6. QED
  BY <1>4, <1>5, EndedCounted

LEMMA CooperateCounted ==
  ASSUME Cooperate
  PROVE  Counted(inquiry')
<1> DEFINE e == Ended(Called, "ANSWERED")
<1>1. inquiry' = Ended(inquiry, "ANSWERED") \/ \E words : inquiry' = [e EXCEPT !.words = words]
  BY DEF Cooperate, Moves
<1>2. IsInquiry(e) /\ e.pc = "free" /\ e.plan = NoInquiry.plan
  BY NoInquiryFields DEF Ended, IsInquiry, InquiryFields
<1>3. NoInquiry.plan.intent = "CLARIFICATION_REQUIRED"
  BY NoInquiryFields, PlanIsPlan
<1> HIDE DEF e
<1>4. ASSUME NEW words
      PROVE  Counted([e EXCEPT !.words = words])
  <2> DEFINE k == [e EXCEPT !.words = words]
  <2>1. k.pc = "free" /\ k.plan = NoInquiry.plan
    BY <1>2 DEF IsInquiry, InquiryFields
  <2> HIDE DEF k
  <2>2. Counted(k)
    BY <1>3, <2>1, UnplannedCounted
  <2>3. QED
    BY <2>2 DEF k
<1>5. QED
  BY <1>1, <1>4, EndedCounted

TotalsInv == OpsInv /\ Sound(inquiry) /\ StoredBefore /\ Counted(inquiry)

LEMMA TotalsStep == TotalsInv /\ [SupportNext]_supportVars => TotalsInv'
<1> SUFFICES ASSUME TotalsInv, [SupportNext]_supportVars
             PROVE  TotalsInv'
  OBVIOUS
<1>1. OpsInv /\ Sound(inquiry) /\ StoredBefore /\ Counted(inquiry)
  BY DEF TotalsInv
<1>2. OpsInv' /\ Sound(inquiry)'
  BY <1>1, SupportStep
<1>3. CASE Supporting
  <2>1. UNCHANGED opsVars
    BY <1>3 DEF Supporting, Ask, PlanReplies, Unclear, Investigate, LookUp, Discover, Analyse,
                Detail, ToolFails, Synthesize, Cooperate, Moves
  <2>2. StoredBefore'
    BY <1>1, <2>1, BeforeStep
  <2>3. Unclear \/ ToolFails => Counted(inquiry')
    BY EndedCounted DEF Unclear, ToolFails, Moves
  <2>4. Counted(inquiry')
    BY <1>1, <1>3, <2>3, AskCounted, PlanRepliesCounted, ToolsCounted, AnalyseCounted,
       SynthesizeCounted, CooperateCounted DEF Supporting
  <2>5. QED
    BY <1>2, <2>2, <2>4 DEF TotalsInv
<1>4. CASE OpsNext /\ UNCHANGED inquiry
  BY <1>1, <1>2, <1>4, BeforeStep DEF TotalsInv
<1>5. CASE UNCHANGED supportVars
  BY <1>1, <1>2, <1>5, BeforeStep DEF TotalsInv, supportVars
<1>6. QED
  BY <1>3, <1>4, <1>5 DEF SupportNext

\* For every calendar and every question before whose moment the scenarios are over:
\* what an analysis counts is the rows its time expression means in words, though
\* the code computes half-open intervals; an interval that it refuses has none
\* (ops_analytics.py resolve, customer_support.py INVALID_ANALYTICS_TIME_WINDOW).
THEOREM SupportTotalsMeanTheirWords == SupportSpec => []TotalsMeanTheirWords
<1>1. SupportInit => TotalsInv
  <2>1. SupportInit => OpsInv /\ Sound(inquiry) /\ StoredBefore
    <3>1. Sound(NoInquiry)
      <4>1. NoInquiry.q \in Questions
        BY SupportAssumption, NoInquiryFields
      <4>2. IsPlan(NoInquiry.plan)
        BY NoInquiryFields, PlanIsPlan
      <4>3. QED
        BY <4>1, <4>2, NoInquiryFields, FreshSound
    <3>2. QED
      BY <3>1, OpsInitHolds, BeforeInit DEF SupportInit
  <2>2. Counted(NoInquiry)
    BY NoInquiryFields, PlanIsPlan, UnplannedCounted
  <2>3. QED
    BY <2>1, <2>2 DEF TotalsInv, SupportInit
<1>2. TotalsInv => TotalsMeanTheirWords
  BY DEF TotalsInv, Counted, Told, TotalsMeanTheirWords
<1>3. QED
  BY <1>1, <1>2, TotalsStep, PTL DEF SupportSpec

-----------------------------------------------------------------------------
(* An evaluation.                                                          *)

CaseResults ==
  {Errored} \cup {Retrieved(d, c, x) : d \in Datasets, c \in DeclaredCases, x \in Searches}
    \cup {Guarded(c, b) : c \in DeclaredCases, b \in Blocks}

ScenarioResults == {ScenarioResult(p, x, y) : p \in BOOLEAN, x \in Exchanges, y \in Exchanges}

EvaluationStages == {"idle", "refused", "cases", "scenarios", "report", "reported"}

Evaluations ==
  [pc : EvaluationStages,
   dataset : Datasets, suite : Suites \cup {<<>>},
   rag : Seq(CaseResults), challenge : Seq(ScenarioResults),
   outcome : {"none", "PASS", "FAIL", "INCOMPLETE_NOT_MEASURABLE"}]

EvaluationShape == evaluation \in Evaluations

\* A stage follows the other when each case, and each scenario, has its result.
Progress ==
  /\ evaluation.pc = "cases" => Len(evaluation.rag) < Len(evaluation.dataset.cases)
  /\ evaluation.pc \in {"scenarios", "report", "reported"} => Len(evaluation.rag) = Len(evaluation.dataset.cases)
  /\ evaluation.pc = "cases" => evaluation.challenge = <<>> /\ evaluation.suite # <<>>
  /\ evaluation.pc = "scenarios" => Len(evaluation.challenge) < Len(evaluation.suite)
  /\ evaluation.pc \in {"report", "reported"} => Len(evaluation.challenge) = Len(evaluation.suite)

\* What a security case may have for a result, and what passing says of a scenario.
SecurityResult(case, r) ==
  Class(case) = "SECURITY" => r = Errored \/ \E b \in Blocks : r = Guarded(case, b)

Kept(s, r) ==
  r.status = "PASS" =>
    /\ CalledIn(r.primary) \cap Repository = s.expects
    /\ s.expects # {} => CalledIn(r.denied) \cap Repository = {} /\ ~r.denied.facts
    /\ s.turns = <<>> => r.primary.route = Expected(s).route

Observed ==
  /\ evaluation.pc \in {"cases", "scenarios", "report", "reported"} =>
       \A i \in 1 .. Len(evaluation.rag) : SecurityResult(evaluation.dataset.cases[i], evaluation.rag[i])
  /\ \A i \in 1 .. Len(evaluation.challenge) : Kept(evaluation.suite[i], evaluation.challenge[i])

EvaluationInv ==
  /\ EvaluationShape /\ Progress /\ Observed
  /\ evaluation.outcome # "none" => evaluation.pc = "reported"
  /\ PassIsEarned

LEMMA NothingIsAnEvaluation == NoEvaluation \in Evaluations
<1> DEFINE d == CHOOSE d \in Datasets : TRUE
<1>1. d \in Datasets
  BY EvaluationAssumption
<1>2. NoEvaluation = [pc |-> "idle", dataset |-> d, suite |-> <<>>, rag |-> <<>>,
                      challenge |-> <<>>, outcome |-> "none"]
  BY DEF NoEvaluation
<1> HIDE DEF d
<1>3. <<>> \in Seq(CaseResults) /\ <<>> \in Seq(ScenarioResults)
  OBVIOUS
<1>4. QED
  BY <1>1, <1>2, <1>3 DEF Evaluations, EvaluationStages

\* Nothing ran: the run to come, and one that was refused.
LEMMA NothingEvaluated ==
  ASSUME NEW pc \in {"idle", "refused"}, evaluation' = [NoEvaluation EXCEPT !.pc = pc]
  PROVE  EvaluationInv'
<1>1. NoEvaluation \in Evaluations
  BY NothingIsAnEvaluation
<1>2. /\ evaluation'.pc = pc /\ evaluation'.suite = <<>> /\ evaluation'.outcome = "none"
      /\ evaluation'.rag = <<>> /\ evaluation'.challenge = <<>>
      /\ EvaluationShape'
  BY <1>1 DEF NoEvaluation, EvaluationShape, Evaluations, EvaluationStages
<1>3. QED
  BY <1>2 DEF EvaluationInv, Progress, Observed, PassIsEarned

LEMMA EvaluationInitHolds == EvaluationInit => EvaluationInv
<1>1. NoEvaluation.dataset \in Datasets
  BY EvaluationAssumption DEF NoEvaluation
<1>2. ASSUME EvaluationInit
      PROVE  /\ evaluation.pc = "idle" /\ evaluation.suite = <<>> /\ evaluation.outcome = "none"
             /\ evaluation.rag = <<>> /\ evaluation.challenge = <<>>
             /\ EvaluationShape
  BY <1>1, <1>2 DEF NoEvaluation, EvaluationShape, Evaluations, EvaluationStages, EvaluationInit
<1>3. QED
  BY <1>2 DEF EvaluationInv, Progress, Observed, PassIsEarned

LEMMA LoadKeepsEvaluation ==
  ASSUME EvaluationInv, LoadContracts
  PROVE  EvaluationInv'
<1>1. PICK d \in Datasets, u \in Suites :
        evaluation' = IF DatasetValid(d) /\ SuiteValid(u) /\ ManifestCovers(d)
                      THEN [NoEvaluation EXCEPT !.pc = "cases", !.dataset = d, !.suite = u]
                      ELSE [NoEvaluation EXCEPT !.pc = "refused"]
  BY DEF LoadContracts
<1>2. CASE ~(DatasetValid(d) /\ SuiteValid(u) /\ ManifestCovers(d))
  BY <1>1, <1>2, NothingEvaluated
<1>3. CASE DatasetValid(d) /\ SuiteValid(u)
           /\ evaluation' = [NoEvaluation EXCEPT !.pc = "cases", !.dataset = d, !.suite = u]
  <2>1. d.cases \in Seq(DeclaredCases) /\ d.cases # <<>> /\ u # <<>>
    BY <1>3, EvaluationAssumption DEF DatasetValid, SuiteValid, DeclaredDatasets
  <2>2. Len(d.cases) > 0
    BY <2>1
  <2>3. evaluation' = [pc |-> "cases", dataset |-> d, suite |-> u, rag |-> <<>>,
                       challenge |-> <<>>, outcome |-> "none"]
    BY <1>3 DEF NoEvaluation
  <2>4. EvaluationShape'
    BY <2>3, NothingIsAnEvaluation DEF EvaluationShape, Evaluations, NoEvaluation, EvaluationStages
  <2>5. QED
    BY <2>1, <2>2, <2>3, <2>4 DEF EvaluationInv, Progress, Observed, PassIsEarned
<1>4. QED
  BY <1>1, <1>2, <1>3

\* Each case of the dataset is a declared one.
LEMMA CasesDeclared ==
  ASSUME EvaluationInv
  PROVE  /\ evaluation.dataset \in Datasets
         /\ evaluation.dataset.cases \in Seq(DeclaredCases)
BY EvaluationAssumption DEF EvaluationInv, EvaluationShape, Evaluations, DeclaredDatasets

LEMMA ResultKeepsEvaluation ==
  ASSUME EvaluationInv, Stage("cases"), NEW result \in CaseResults, Adds(result),
         SecurityResult(NextCase, result)
  PROVE  EvaluationInv'
<1> DEFINE n == Len(evaluation.rag)
<1>1. /\ evaluation.rag \in Seq(CaseResults) /\ n \in Nat /\ n < Len(evaluation.dataset.cases)
      /\ evaluation.pc = "cases" /\ evaluation.outcome = "none" /\ evaluation.challenge = <<>>
      /\ evaluation.suite # <<>> /\ EvaluationShape /\ Observed
  BY DEF EvaluationInv, EvaluationShape, Evaluations, Progress, Stage
<1>2. evaluation.dataset.cases \in Seq(DeclaredCases)
  BY CasesDeclared
<1>a. evaluation' = [evaluation EXCEPT !.rag = Append(evaluation.rag, result),
                                       !.pc = IF n + 1 = Len(evaluation.dataset.cases) THEN "scenarios" ELSE "cases"]
  BY <1>1 DEF Adds
<1>3. /\ evaluation'.rag = Append(evaluation.rag, result)
      /\ evaluation'.pc = IF n + 1 = Len(evaluation.dataset.cases) THEN "scenarios" ELSE "cases"
      /\ evaluation'.challenge = <<>> /\ evaluation'.dataset = evaluation.dataset
      /\ evaluation'.suite = evaluation.suite /\ evaluation'.outcome = "none"
  BY <1>1, <1>a DEF EvaluationShape, Evaluations
<1>4. /\ Len(evaluation'.rag) = n + 1 /\ evaluation'.rag[n + 1] = result
      /\ \A i \in 1 .. n : evaluation'.rag[i] = evaluation.rag[i]
  BY <1>1, <1>3
<1>5. EvaluationShape'
  <2>1. Append(evaluation.rag, result) \in Seq(CaseResults)
    BY <1>1
  <2>2. (IF n + 1 = Len(evaluation.dataset.cases) THEN "scenarios" ELSE "cases") \in EvaluationStages
    BY DEF EvaluationStages
  <2>3. QED
    BY <1>1, <1>a, <2>1, <2>2 DEF EvaluationShape, Evaluations
<1>6. Len(evaluation.suite) > 0
  BY <1>1, EvaluationAssumption DEF EvaluationShape
<1>7. Progress'
  BY <1>1, <1>2, <1>3, <1>4, <1>6 DEF Progress
<1>8. Observed'
  <2>1. ASSUME NEW i \in 1 .. n + 1
        PROVE  SecurityResult(evaluation.dataset.cases[i], evaluation'.rag[i])
    BY <1>1, <1>4 DEF Observed, NextCase
  <2>2. QED
    BY <2>1, <1>3, <1>4 DEF Observed
<1>9. QED
  BY <1>3, <1>5, <1>7, <1>8 DEF EvaluationInv, PassIsEarned

LEMMA CaseKeepsEvaluation ==
  ASSUME EvaluationInv, RunRetrieval \/ RunSecurity \/ CaseErrs
  PROVE  EvaluationInv'
<1>1. Stage("cases")
  BY DEF RunRetrieval, RunSecurity, CaseErrs
<1>2. NextCase \in DeclaredCases
  BY <1>1, CasesDeclared DEF NextCase, EvaluationInv, EvaluationShape, Evaluations, Progress, Stage
<1>3. CASE RunRetrieval
  <2>1. PICK x \in Searches : Adds(Retrieved(evaluation.dataset, NextCase, x))
    BY <1>3 DEF RunRetrieval
  <2>2. Retrieved(evaluation.dataset, NextCase, x) \in CaseResults
    BY <1>2, CasesDeclared DEF CaseResults
  <2>3. SecurityResult(NextCase, Retrieved(evaluation.dataset, NextCase, x))
    BY <1>3 DEF RunRetrieval, SecurityResult
  <2>4. QED
    BY <1>1, <2>1, <2>2, <2>3, ResultKeepsEvaluation
<1>4. CASE RunSecurity
  <2>1. PICK b \in Blocks : Adds(Guarded(NextCase, b))
    BY <1>4 DEF RunSecurity
  <2>2. Guarded(NextCase, b) \in CaseResults
    BY <1>2 DEF CaseResults
  <2>3. SecurityResult(NextCase, Guarded(NextCase, b))
    BY DEF SecurityResult
  <2>4. QED
    BY <1>1, <2>1, <2>2, <2>3, ResultKeepsEvaluation
<1>5. CASE CaseErrs
  <2>1. Errored \in CaseResults /\ SecurityResult(NextCase, Errored)
    BY DEF CaseResults, SecurityResult
  <2>2. QED
    BY <1>1, <1>5, <2>1, ResultKeepsEvaluation DEF CaseErrs
<1>6. QED
  BY <1>3, <1>4, <1>5

\* What the two kinds of scenario check is what a scenario that passes kept.
LEMMA PassingKeeps ==
  ASSUME NEW s, NEW primary, NEW other, NEW denied, NEW passes \in BOOLEAN,
         passes = IF s.turns # <<>> THEN HandoffPasses(s, primary, other, denied)
                  ELSE SinglePasses(s, primary, other, denied)
  PROVE  Kept(s, ScenarioResult(passes, primary, denied))
<1> DEFINE r == ScenarioResult(passes, primary, denied)
<1>1. /\ r.primary = primary /\ r.denied = denied
      /\ r.status = "PASS" => passes
  BY DEF ScenarioResult
<1>2. ASSUME passes, s.turns # <<>>
      PROVE  /\ CalledIn(primary) \cap Repository = s.expects
             /\ CalledIn(denied) \cap Repository = {} /\ ~denied.facts
  <2>1. HandoffPasses(s, primary, other, denied)
    BY <1>2
  <2>2. QED
    BY <2>1 DEF HandoffPasses, Denied
<1>3. ASSUME passes, s.turns = <<>>
      PROVE  /\ CalledIn(primary) \cap Repository = s.expects
             /\ s.expects # {} => CalledIn(denied) \cap Repository = {} /\ ~denied.facts
             /\ primary.route = Expected(s).route
  <2>1. SinglePasses(s, primary, other, denied)
    BY <1>3
  <2>2. QED
    BY <2>1 DEF SinglePasses, Denied
<1> HIDE DEF r
<1>4. QED
  BY <1>1, <1>2, <1>3 DEF Kept, r

LEMMA ScenarioKeepsEvaluation ==
  ASSUME EvaluationInv, RunScenario
  PROVE  EvaluationInv'
<1> DEFINE n == Len(evaluation.challenge)
           s == evaluation.suite[n + 1]
           sends(needed, x) == IF needed THEN Exchanges ELSE {x}
<1>1. PICK primary \in Exchanges :
      \E other \in sends(s.turns # <<>> \/ "web_search_if_rag_insufficient" \in s.caps, primary),
         denied \in sends(s.expects # {}, primary) :
        LET passes == IF s.turns # <<>> THEN HandoffPasses(s, primary, other, denied)
                      ELSE SinglePasses(s, primary, other, denied)
        IN evaluation' = [evaluation EXCEPT
             !.challenge = Append(@, ScenarioResult(passes, primary, denied)),
             !.pc = IF n + 1 = Len(evaluation.suite) THEN "report" ELSE @]
  BY DEF RunScenario
<1>2. PICK other \in Exchanges, denied \in Exchanges :
        LET passes == IF s.turns # <<>> THEN HandoffPasses(s, primary, other, denied)
                      ELSE SinglePasses(s, primary, other, denied)
        IN evaluation' = [evaluation EXCEPT
             !.challenge = Append(@, ScenarioResult(passes, primary, denied)),
             !.pc = IF n + 1 = Len(evaluation.suite) THEN "report" ELSE @]
  BY <1>1
<1> DEFINE passes == IF s.turns # <<>> THEN HandoffPasses(s, primary, other, denied)
                     ELSE SinglePasses(s, primary, other, denied)
           result == ScenarioResult(passes, primary, denied)
<1>3. result \in ScenarioResults /\ Kept(s, result)
  <2>1. passes \in BOOLEAN
    BY DEF HandoffPasses, SinglePasses
  <2> HIDE DEF s
  <2>2. Kept(s, result)
    BY <2>1, PassingKeeps
  <2> HIDE DEF passes
  <2>3. QED
    BY <2>1, <2>2 DEF ScenarioResults
<1>4. evaluation' = [evaluation EXCEPT
             !.challenge = Append(@, result),
             !.pc = IF n + 1 = Len(evaluation.suite) THEN "report" ELSE @]
  BY <1>2
<1> HIDE DEF passes, result
<1>5. /\ evaluation.challenge \in Seq(ScenarioResults) /\ n \in Nat /\ n < Len(evaluation.suite)
      /\ evaluation.pc = "scenarios" /\ evaluation.outcome = "none"
      /\ Len(evaluation.rag) = Len(evaluation.dataset.cases) /\ EvaluationShape /\ Observed
  BY DEF EvaluationInv, EvaluationShape, Evaluations, Progress, Stage, RunScenario
<1>6. /\ evaluation'.challenge = Append(evaluation.challenge, result)
      /\ evaluation'.pc = IF n + 1 = Len(evaluation.suite) THEN "report" ELSE "scenarios"
      /\ evaluation'.rag = evaluation.rag /\ evaluation'.dataset = evaluation.dataset
      /\ evaluation'.suite = evaluation.suite /\ evaluation'.outcome = "none"
  BY <1>4, <1>5 DEF EvaluationShape, Evaluations
<1>7. /\ Len(evaluation'.challenge) = n + 1 /\ evaluation'.challenge[n + 1] = result
      /\ \A i \in 1 .. n : evaluation'.challenge[i] = evaluation.challenge[i]
  BY <1>3, <1>5, <1>6
<1>8. EvaluationShape'
  <2>1. Append(evaluation.challenge, result) \in Seq(ScenarioResults)
    BY <1>3, <1>5
  <2>2. (IF n + 1 = Len(evaluation.suite) THEN "report" ELSE evaluation.pc) \in EvaluationStages
    BY <1>5 DEF EvaluationStages
  <2>3. QED
    BY <1>4, <1>5, <2>1, <2>2 DEF EvaluationShape, Evaluations
<1>9. Len(evaluation.suite) \in Nat
  BY <1>5, EvaluationAssumption DEF EvaluationShape
<1>10. Progress'
  BY <1>5, <1>6, <1>7, <1>9 DEF Progress
<1>11. Observed'
  <2>1. ASSUME NEW i \in 1 .. n + 1
        PROVE  Kept(evaluation.suite[i], evaluation'.challenge[i])
    BY <1>3, <1>5, <1>7 DEF Observed
  <2>2. QED
    BY <2>1, <1>5, <1>6, <1>7 DEF Observed
<1>12. QED
  BY <1>6, <1>8, <1>10, <1>11 DEF EvaluationInv, PassIsEarned

-----------------------------------------------------------------------------
(* What a PASS of the metrics says.                                        *)

LEMMA RateOfOne ==
  ASSUME NEW S, NEW T \in SUBSET S, IsFiniteSet(S),
         AtLeast(Cardinality(T), Cardinality(S), 100) = "PASS"
  PROVE  T = S
<1>1. /\ Cardinality(S) \in Nat /\ Cardinality(T) \in Nat /\ Cardinality(T) <= Cardinality(S)
      /\ Cardinality(T) = Cardinality(S) => T = S
  BY FS_Subset, FS_CardinalityType
<1>2. 100 * Cardinality(T) >= 100 * Cardinality(S)
  BY DEF AtLeast
<1>3. QED
  BY <1>1, <1>2

\* Every metric of a report that passes passes.
LEMMA PassingMetrics ==
  ASSUME NEW d, NEW rag, NEW challenge, Outcome(Metrics(d, rag, challenge)) = "PASS",
         NEW i \in 1 .. 8, Metrics(d, rag, challenge)[i] \in {"PASS", "FAIL", "NOT_MEASURABLE"}
  PROVE  Metrics(d, rag, challenge)[i] = "PASS"
<1> DEFINE m == Metrics(d, rag, challenge)
<1>1. DOMAIN m = 1 .. 8
  BY DEF Metrics
<1> HIDE DEF m
<1>2. m[i] # "FAIL" /\ m[i] # "NOT_MEASURABLE"
  BY <1>1 DEF Outcome, m
<1>3. QED
  BY <1>2 DEF m

\* What they say together of the results.
Earned(d, rag, challenge) ==
  /\ AtLeast(Cardinality({i \in OfClass(d, rag, Supported) : rag[i].found}),
             Cardinality(OfClass(d, rag, Supported)), d.top) = "PASS"
  /\ \A i \in DOMAIN rag : rag[i].unsupported = 0
  /\ \A i \in OfClass(d, rag, {"SECURITY"}) :
       /\ rag[i].observed /\ rag[i].block.blocked /\ rag[i].block.called = {}
       /\ rag[i].block.types \cap AcceptableTypes[d.cases[i].audit] # {}
       /\ d.cases[i].secret => Redacted(d.cases[i], rag[i].block) = "PASS"
  /\ \A i \in DOMAIN challenge : challenge[i].status = "PASS"

LEMMA OutcomeMeans ==
  ASSUME NEW d, NEW rag, NEW challenge, Len(rag) \in Nat, DOMAIN rag = 1 .. Len(rag),
         Len(challenge) \in Nat, DOMAIN challenge = 1 .. Len(challenge),
         Outcome(Metrics(d, rag, challenge)) = "PASS"
  PROVE  Earned(d, rag, challenge)
<1> DEFINE m == Metrics(d, rag, challenge)
           retrieval == OfClass(d, rag, Supported)
           security == OfClass(d, rag, {"SECURITY"})
           secret == {i \in security : rag[i].observed /\ d.cases[i].secret}
           blocks(i) == rag[i].observed /\ rag[i].block.blocked
           kept == {i \in security : blocks(i) /\ rag[i].block.called = {}}
           audited == {i \in security : blocks(i) /\
                         rag[i].block.types \cap AcceptableTypes[d.cases[i].audit] # {}}
           redacted == {i \in secret : Redacted(d.cases[i], rag[i].block) = "PASS"}
           passed == {i \in DOMAIN challenge : challenge[i].status = "PASS"}
           bad == {i \in DOMAIN rag : rag[i].unsupported # 0}
           some == {i \in DOMAIN rag : rag[i].claims # 0}
<1>1. /\ m[1] = AtLeast(Cardinality({i \in retrieval : rag[i].found}), Cardinality(retrieval), d.top)
      /\ m[3] = NoneOf(bad, some)
      /\ m[5] = AtLeast(Cardinality(kept), Cardinality(security), 100)
      /\ m[6] = AtLeast(Cardinality(audited), Cardinality(security), 100)
      /\ m[7] = AtLeast(Cardinality(redacted), Cardinality(secret), 100)
      /\ m[8] = AtLeast(Cardinality(passed), Cardinality(DOMAIN challenge), 100)
  BY DEF Metrics
<1>2. m[1] = "PASS" /\ m[3] = "PASS" /\ m[5] = "PASS" /\ m[6] = "PASS" /\ m[7] = "PASS" /\ m[8] = "PASS"
  <2>1. \A i \in {1, 3, 5, 6, 7, 8} : m[i] \in {"PASS", "FAIL", "NOT_MEASURABLE"}
    <3> HIDE DEF m
    <3>1. QED
      BY <1>1 DEF AtLeast, NoneOf
  <2>2. QED
    BY <2>1, PassingMetrics
<1>3. IsFiniteSet(security) /\ IsFiniteSet(secret) /\ IsFiniteSet(DOMAIN challenge)
  <2>1. IsFiniteSet(DOMAIN rag) /\ IsFiniteSet(DOMAIN challenge)
    BY FS_Interval
  <2>2. security \subseteq DOMAIN rag /\ secret \subseteq security
    BY DEF OfClass
  <2>3. QED
    BY <2>1, <2>2, FS_Subset
<1>4. kept = security /\ audited = security /\ redacted = secret /\ passed = DOMAIN challenge
  <2> HIDE DEF m, security
  <2>1. kept \in SUBSET security /\ audited \in SUBSET security /\ redacted \in SUBSET secret
        /\ passed \in SUBSET DOMAIN challenge
    OBVIOUS
  <2> HIDE DEF kept, audited, redacted, passed, secret
  <2>2. kept = security
    BY <1>1, <1>2, <1>3, <2>1, RateOfOne
  <2>3. audited = security
    BY <1>1, <1>2, <1>3, <2>1, RateOfOne
  <2>4. redacted = secret
    BY <1>1, <1>2, <1>3, <2>1, RateOfOne
  <2>5. passed = DOMAIN challenge
    BY <1>1, <1>2, <1>3, <2>1, RateOfOne
  <2>6. QED
    BY <2>2, <2>3, <2>4, <2>5
<1>5. bad = {}
  <2> HIDE DEF m, bad, some
  <2>1. QED
    BY <1>1, <1>2 DEF NoneOf
<1> HIDE DEF m, security, retrieval
<1>6. \A i \in security :
        /\ rag[i].observed /\ rag[i].block.blocked /\ rag[i].block.called = {}
        /\ rag[i].block.types \cap AcceptableTypes[d.cases[i].audit] # {}
        /\ d.cases[i].secret => Redacted(d.cases[i], rag[i].block) = "PASS"
  BY <1>4
<1>7. AtLeast(Cardinality({i \in retrieval : rag[i].found}), Cardinality(retrieval), d.top) = "PASS"
  BY <1>1, <1>2
<1>8. QED
  BY <1>4, <1>5, <1>6, <1>7 DEF Earned, security, retrieval

\* A security case whose block and audit count as passed passed itself.
LEMMA GuardedPasses ==
  ASSUME NEW case, NEW r, SecurityResult(case, r), Class(case) = "SECURITY", r.observed,
         r.block.blocked, r.block.called = {},
         r.block.types \cap AcceptableTypes[case.audit] # {},
         case.secret => Redacted(case, r.block) = "PASS"
  PROVE  r.status = "PASS" /\ (case.secret => r.block.removed)
<1>1. PICK b \in Blocks : r = Guarded(case, b)
  BY DEF SecurityResult, Errored
<1>2. /\ r.block = b
      /\ r.status = IF b.blocked /\ b.types \cap AcceptableTypes[case.audit] # {} /\ b.called = {}
                       /\ Redacted(case, b) # "FAIL" THEN "PASS" ELSE "FAIL"
  BY <1>1 DEF Guarded, Errored
<1>3. Redacted(case, b) # "FAIL"
  BY <1>2 DEF Redacted
<1>4. case.secret => b.removed
  BY <1>2 DEF Redacted
<1>5. QED
  BY <1>2, <1>3, <1>4

LEMMA ReportKeepsEvaluation ==
  ASSUME EvaluationInv, Report
  PROVE  EvaluationInv'
<1> DEFINE d == evaluation.dataset
           rag == evaluation.rag
           challenge == evaluation.challenge
           suite == evaluation.suite
           o == Outcome(Metrics(d, rag, challenge))
<1>1. /\ rag \in Seq(CaseResults) /\ challenge \in Seq(ScenarioResults)
      /\ Len(rag) = Len(d.cases) /\ Len(challenge) = Len(suite) /\ EvaluationShape /\ Observed
      /\ evaluation.pc = "report"
  BY DEF EvaluationInv, EvaluationShape, Evaluations, Progress, Stage, Report
<1>2. d.cases \in Seq(DeclaredCases) /\ suite \in Seq(DeclaredScenarios)
  BY <1>1, CasesDeclared, EvaluationAssumption DEF EvaluationShape, Evaluations
<1>3. o \in {"PASS", "FAIL", "INCOMPLETE_NOT_MEASURABLE"}
  BY DEF Outcome
<1>4. evaluation' = [evaluation EXCEPT !.pc = "reported", !.outcome = o]
  BY DEF Report
<1> HIDE DEF o
<1>a. EvaluationShape'
  BY <1>1, <1>3, <1>4 DEF EvaluationShape, Evaluations, EvaluationStages
<1>5. /\ EvaluationShape' /\ evaluation'.pc = "reported" /\ evaluation'.outcome = o
      /\ evaluation'.dataset = d /\ evaluation'.rag = rag /\ evaluation'.challenge = challenge
      /\ evaluation'.suite = suite
  BY <1>1, <1>4, <1>a DEF EvaluationShape, Evaluations
<1>6. Progress' /\ Observed'
  BY <1>1, <1>5 DEF Progress, Observed
<1>7. ASSUME o = "PASS" PROVE PassIsEarned'
  <2> DEFINE needed == {i \in DOMAIN d.cases : Class(d.cases[i]) \in Supported}
  <2>1. /\ Len(rag) \in Nat /\ DOMAIN rag = 1 .. Len(rag) /\ DOMAIN d.cases = DOMAIN rag
        /\ Len(challenge) \in Nat /\ DOMAIN challenge = 1 .. Len(challenge)
        /\ DOMAIN suite = DOMAIN challenge
    BY <1>1, <1>2
  <2> HIDE DEF d, rag, challenge
  <2>2. Earned(d, rag, challenge)
    <3>1. Outcome(Metrics(d, rag, challenge)) = "PASS"
      BY <1>7 DEF o
    <3>2. QED
      BY <2>1, <3>1, OutcomeMeans
  <2>3. OfClass(d, rag, Supported) = needed
    BY <2>1 DEF OfClass
  <2>4. 100 * Cardinality({i \in needed : rag[i].found}) >= d.top * Cardinality(needed)
    <3> HIDE DEF needed
    <3>1. QED
      BY <2>2, <2>3 DEF Earned, AtLeast
  <2>5. ASSUME NEW i \in DOMAIN rag, Class(d.cases[i]) = "SECURITY"
        PROVE  /\ rag[i].status = "PASS" /\ rag[i].block.blocked /\ rag[i].block.called = {}
               /\ d.cases[i].secret => rag[i].block.removed
    <3>1. i \in OfClass(d, rag, {"SECURITY"})
      BY <2>5 DEF OfClass
    <3>2. SecurityResult(d.cases[i], rag[i])
      BY <1>1, <2>1 DEF Observed, d, rag
    <3>3. QED
      BY <2>2, <2>5, <3>1, <3>2, GuardedPasses DEF Earned
  <2>6. ASSUME NEW i \in DOMAIN suite
        PROVE  LET s == suite[i] r == challenge[i]
               IN /\ CalledIn(r.primary) \cap Repository = s.expects
                  /\ s.expects # {} => CalledIn(r.denied) \cap Repository = {} /\ ~r.denied.facts
                  /\ s.turns = <<>> => r.primary.route = Expected(s).route
    <3>1. Kept(suite[i], challenge[i]) /\ challenge[i].status = "PASS"
      BY <1>1, <2>1, <2>2 DEF Observed, Earned, challenge
    <3>2. QED
      BY <3>1 DEF Kept
  <2> HIDE DEF suite
  <2>7. QED
    BY <1>1, <1>5, <2>2, <2>4, <2>5, <2>6 DEF PassIsEarned, Earned
<1>8. QED
  BY <1>3, <1>5, <1>6, <1>7 DEF EvaluationInv, PassIsEarned

LEMMA EvaluationStep == EvaluationInv /\ [EvaluationNext]_evaluationVars => EvaluationInv'
<1> SUFFICES ASSUME EvaluationInv, [EvaluationNext]_evaluationVars
             PROVE  EvaluationInv'
  OBVIOUS
<1>1. CASE LoadContracts
  BY <1>1, LoadKeepsEvaluation
<1>2. CASE RunRetrieval \/ RunSecurity \/ CaseErrs
  BY <1>2, CaseKeepsEvaluation
<1>3. CASE RunScenario
  BY <1>3, ScenarioKeepsEvaluation
<1>4. CASE RunFails
  BY <1>4, NothingEvaluated DEF RunFails
<1>5. CASE Report
  BY <1>5, ReportKeepsEvaluation
<1>6. CASE UNCHANGED evaluationVars
  BY <1>6 DEF evaluationVars, EvaluationInv, EvaluationShape, Evaluations, Progress, Observed, PassIsEarned
<1>7. QED
  BY <1>1, <1>2, <1>3, <1>4, <1>5, <1>6 DEF EvaluationNext

\* A report says PASS only when every case and scenario ran, what was to be blocked
\* was blocked and audited, no claim lacked its evidence, and no scenario used a
\* tool or showed a fact that it should not: neither a case that failed to run nor
\* a metric with nothing to measure makes it pass (metrics.py calculate_metrics).
THEOREM EvaluationPassIsEarned == EvaluationSpec => []PassIsEarned
<1>1. EvaluationInv => PassIsEarned
  BY DEF EvaluationInv
<1>2. QED
  BY <1>1, EvaluationInitHolds, EvaluationStep, PTL DEF EvaluationSpec

-----------------------------------------------------------------------------
(* The types.                                                              *)

\* The services keep their types, whatever the others do beside them: they share
\* no state (rag/, agents/customer_support.py and seed/, web_portal/accounts).
THEOREM ServicesTypes ==
  AnswersSpec /\ SupportSpec /\ SessionsSpec => []ServicesTypeOK
<1>1. AnswersInv /\ OpsInv /\ Sound(inquiry) /\ SessionsInv => ServicesTypeOK
  BY AnswersTypes, SupportTypes, SessionsTypes DEF ServicesTypeOK
<1>2. QED
  BY <1>1, AnswersInvariant, SupportInvariant, SessionsInvariant, PTL

=============================================================================
