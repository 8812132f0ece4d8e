-------------------------- MODULE AgentTurns_proofs -------------------------
(***************************************************************************)
(* Automated turns for any number of conversations, messages, answers and  *)
(* requests, with or without faults: the types, the agreement of a turn    *)
(* with its AGENT row, and the implementation of TurnPromise.              *)
(*                                                                         *)
(* The argument: a request that runs a turn works on a message that was    *)
(* kept and carries an answer when it appends one (Standing), and an       *)
(* answer is only appended to an ACTIVE conversation, which by the         *)
(* agreement of its rows (RowsAgree) was never handed over.                *)
(***************************************************************************)
EXTENDS AgentTurns, ConversationLifecycle_proofs, SequenceTheorems

\* A list of offers as the session may hold it.
Short(list) == list \in Seq(Messages) /\ Len(list) <= RetryCap /\ IsInjective(list)

OnKeptTurn == {"check", "prepare", "call", "append", "mark"}

\* What is true of a request that carries q at a stage, given the turns t.
Stands(q, stage, t) ==
  /\ Short(q.list)
  /\ q.kind = "retry" \/ stage \in OnKeptTurn => t[q.msg] # "UNSENT"
  /\ stage = "read" => q.kind \in {"message", "retry"}
  /\ stage = "check" => q.kind = "retry"
  /\ stage = "append" => q.result \in Answers

Standing(r) == req[r] # None => Stands(req[r], pc[r], turn)

TInv ==
  /\ TypeOK
  /\ RowsAgree
  /\ CompletedIffAnswered
  /\ \A r \in Requests : Standing(r)

-----------------------------------------------------------------------------
(* The retry offers.                                                       *)

\* A piece of a sequence.
LEMMA PieceOf ==
  ASSUME NEW S, NEW s \in Seq(S), NEW m \in Nat, NEW n \in Nat,
         1 <= m, m <= n + 1, n <= Len(s)
  PROVE  /\ SubSeq(s, m, n) \in Seq(S)
         /\ Len(SubSeq(s, m, n)) = n - m + 1
         /\ \A i \in 1 .. n - m + 1 : SubSeq(s, m, n)[i] = s[m + i - 1]
<1>1. \A i \in m .. n : s[i] \in S
  OBVIOUS
<1>2. m \in Int /\ n \in Int
  OBVIOUS
<1>3. /\ SubSeq(s, m, n) \in Seq(S)
      /\ Len(SubSeq(s, m, n)) = IF m <= n THEN n - m + 1 ELSE 0
      /\ \A i \in 1 .. n - m + 1 : SubSeq(s, m, n)[i] = s[m + i - 1]
  BY ONLY <1>1, <1>2, SubSeqProperties
<1>4. QED
  BY <1>3

\* Two sequences one after the other.
LEMMA Joined ==
  ASSUME NEW S, NEW s \in Seq(S), NEW t \in Seq(S)
  PROVE  /\ s \o t \in Seq(S)
         /\ Len(s \o t) = Len(s) + Len(t)
         /\ \A i \in 1 .. Len(s) + Len(t) :
              (s \o t)[i] = IF i <= Len(s) THEN s[i] ELSE t[i - Len(s)]
  BY ConcatProperties

\* Withdrawing an offer leaves the others as they were, once each.
LEMMA WithdrawIsShort ==
  ASSUME NEW list, Short(list), NEW m \in Messages
  PROVE  /\ Short(Withdraw(list, m))
         /\ ~Contains(Withdraw(list, m), m)
<1>1. list \in Seq(Messages) /\ Len(list) \in Nat /\ DOMAIN list = 1 .. Len(list)
      /\ \A i \in 1 .. Len(list) : list[i] \in Messages
  BY DEF Short
<1>2. CASE Contains(list, m)
  <2> DEFINE k == CHOOSE i \in DOMAIN list : list[i] = m
             front == SubSeq(list, 1, k - 1)
             back == SubSeq(list, k + 1, Len(list))
  <2>1. k \in 1 .. Len(list) /\ list[k] = m
    BY <1>1, <1>2 DEF Contains
  <2> HIDE DEF k
  <2>2. /\ front \in Seq(Messages) /\ Len(front) = k - 1
        /\ \A i \in 1 .. k - 1 : front[i] = list[i]
    <3>1. 1 \in Nat /\ k - 1 \in Nat /\ 1 <= (k - 1) + 1 /\ k - 1 <= Len(list)
          /\ k - 1 - 1 + 1 = k - 1 /\ \A i \in 1 .. k - 1 : 1 + i - 1 = i
      BY <1>1, <2>1
    <3>2. /\ front \in Seq(Messages) /\ Len(front) = k - 1 - 1 + 1
          /\ \A i \in 1 .. k - 1 - 1 + 1 : front[i] = list[1 + i - 1]
      BY <1>1, <3>1, PieceOf
    <3> HIDE DEF front
    <3>3. QED
      BY <3>1, <3>2
  <2>3. /\ back \in Seq(Messages) /\ Len(back) = Len(list) - k
        /\ \A i \in 1 .. Len(list) - k : back[i] = list[k + i]
    <3>1. /\ k + 1 \in Nat /\ Len(list) \in Nat /\ 1 <= k + 1
          /\ k + 1 <= Len(list) + 1 /\ Len(list) <= Len(list)
          /\ Len(list) - (k + 1) + 1 = Len(list) - k
          /\ \A i \in 1 .. Len(list) - k : k + 1 + i - 1 = k + i
      BY <1>1, <2>1
    <3>2. /\ back \in Seq(Messages) /\ Len(back) = Len(list) - (k + 1) + 1
          /\ \A i \in 1 .. Len(list) - (k + 1) + 1 : back[i] = list[k + 1 + i - 1]
      BY <1>1, <3>1, PieceOf
    <3> HIDE DEF back
    <3>3. QED
      BY <3>1, <3>2
  <2> HIDE DEF front, back
  <2>4. /\ front \o back \in Seq(Messages)
        /\ Len(front \o back) = Len(list) - 1
        /\ \A i \in 1 .. Len(list) - 1 :
             (front \o back)[i] = IF i <= k - 1 THEN front[i] ELSE back[i - (k - 1)]
    <3>1. /\ front \o back \in Seq(Messages)
          /\ Len(front \o back) = Len(front) + Len(back)
          /\ \A i \in 1 .. Len(front) + Len(back) :
               (front \o back)[i] = IF i <= Len(front) THEN front[i] ELSE back[i - Len(front)]
      BY <2>2, <2>3, Joined
    <3>2. Len(front) + Len(back) = Len(list) - 1
      BY <1>1, <2>1, <2>2, <2>3
    <3>3. QED
      BY <2>2, <3>1, <3>2
  <2>5. \A i \in 1 .. Len(list) - 1 :
          (front \o back)[i] = IF i <= k - 1 THEN list[i] ELSE list[i + 1]
    BY <1>1, <2>1, <2>2, <2>3, <2>4
  <2>6. Withdraw(list, m) = front \o back
    BY <1>2 DEF Withdraw, RemoveAt, k, front, back
  <2>7. \A i, j \in 1 .. Len(list) : list[i] = list[j] => i = j
    BY <1>1 DEF Short, IsInjective
  <2>8. IsInjective(front \o back)
    <3> SUFFICES ASSUME NEW i \in 1 .. Len(list) - 1, NEW j \in 1 .. Len(list) - 1,
                        (front \o back)[i] = (front \o back)[j]
                 PROVE  i = j
      <4>1. DOMAIN (front \o back) = 1 .. Len(list) - 1
        BY <2>4
      <4>2. QED
        BY <4>1 DEF IsInjective
    <3> DEFINE at(n) == IF n <= k - 1 THEN n ELSE n + 1
    <3>1. at(i) \in 1 .. Len(list) /\ at(j) \in 1 .. Len(list)
      BY <1>1, <2>1
    <3>2. list[at(i)] = list[at(j)]
      BY <2>5
    <3>3. at(i) = at(j)
      BY <2>7, <3>1, <3>2
    <3>4. QED
      BY <1>1, <2>1, <3>3
  <2>9. ~Contains(front \o back, m)
    BY <1>1, <2>1, <2>4, <2>5, <2>7 DEF Contains
  <2>10. QED
    BY <1>1, <2>4, <2>6, <2>8, <2>9, TurnsAssumption DEF Short
<1>3. CASE ~Contains(list, m)
  BY <1>3 DEF Withdraw
<1>4. QED
  BY <1>2, <1>3

\* Offering a turn again puts it last, and never keeps more than the cap.
LEMMA OfferIsShort ==
  ASSUME NEW list, Short(list), NEW m \in Messages
  PROVE  Short(Offer(list, m))
<1> DEFINE rest == Withdraw(list, m)
           longer == Append(rest, m)
           extra == IF Len(longer) > RetryCap THEN Len(longer) - RetryCap ELSE 0
           kept == SubSeq(longer, extra + 1, Len(longer))
<1>1. Short(rest) /\ ~Contains(rest, m)
  BY WithdrawIsShort
<1> HIDE DEF rest
<1>2. rest \in Seq(Messages) /\ Len(rest) \in Nat /\ DOMAIN rest = 1 .. Len(rest)
  BY <1>1 DEF Short
<1>3. /\ longer \in Seq(Messages)
      /\ Len(longer) = Len(rest) + 1
      /\ \A i \in 1 .. Len(rest) : longer[i] = rest[i]
      /\ longer[Len(rest) + 1] = m
  BY <1>2, AppendProperties
<1>4. \A i, j \in 1 .. Len(longer) : longer[i] = longer[j] => i = j
  BY <1>1, <1>2, <1>3 DEF Short, IsInjective, Contains
<1> HIDE DEF longer
<1>5. extra \in 0 .. Len(longer) /\ Len(longer) - extra <= RetryCap
  BY <1>2, <1>3, TurnsAssumption
<1>6. \A i \in extra + 1 .. Len(longer) : longer[i] \in Messages
  BY <1>2, <1>3, <1>5
<1> HIDE DEF extra
<1>7. /\ kept \in Seq(Messages)
      /\ Len(kept) = Len(longer) - extra
      /\ \A i \in 1 .. Len(longer) - extra : kept[i] = longer[extra + i]
  <2>1. /\ extra + 1 \in Int /\ Len(longer) \in Int
        /\ Len(longer) - (extra + 1) + 1 = Len(longer) - extra
        /\ \A i \in Int : extra + 1 + i - 1 = extra + i
    BY <1>2, <1>3, <1>5
  <2>2. /\ kept \in Seq(Messages)
        /\ Len(kept) = IF extra + 1 <= Len(longer) THEN Len(longer) - (extra + 1) + 1 ELSE 0
        /\ \A i \in 1 .. Len(longer) - (extra + 1) + 1 : kept[i] = longer[extra + 1 + i - 1]
    <3>1. 1 <= extra + 1 /\ extra + 1 \in Nat /\ Len(longer) \in Nat
          /\ extra + 1 <= Len(longer) + 1 /\ Len(longer) <= Len(longer)
      BY <1>2, <1>3, <1>5
    <3>2. /\ kept \in Seq(Messages)
          /\ Len(kept) = Len(longer) - (extra + 1) + 1
          /\ \A i \in 1 .. Len(longer) - (extra + 1) + 1 : kept[i] = longer[extra + 1 + i - 1]
      BY <1>3, <3>1, PieceOf
    <3> HIDE DEF kept
    <3>3. QED
      BY <1>5, <3>1, <3>2
  <2> HIDE DEF kept
  <2>3. QED
    BY <1>2, <1>3, <1>5, <2>1, <2>2
<1>8. Offer(list, m) = kept
  BY DEF Offer, rest, longer, extra
<1> HIDE DEF kept
<1>9. IsInjective(kept)
  <2> SUFFICES ASSUME NEW i \in DOMAIN kept, NEW j \in DOMAIN kept, kept[i] = kept[j]
               PROVE  i = j
    BY DEF IsInjective
  <2>1. i \in 1 .. Len(longer) - extra /\ j \in 1 .. Len(longer) - extra
    BY <1>7
  <2>2. extra + i \in 1 .. Len(longer) /\ extra + j \in 1 .. Len(longer)
    BY <1>2, <1>3, <1>5, <2>1
  <2>3. longer[extra + i] = longer[extra + j]
    BY <1>7, <2>1
  <2>4. QED
    BY <1>4, <1>5, <2>1, <2>2, <2>3
<1>10. QED
  BY <1>5, <1>7, <1>8, <1>9 DEF Short

-----------------------------------------------------------------------------
(* The steps.                                                              *)

LEMMA TurnsInitHolds == Init => TInv
<1> SUFFICES ASSUME Init
             PROVE  TInv
  OBVIOUS
<1>1. LifecycleTypeOK /\ RowsAgree
  BY LifecycleInitAgrees DEF Init
<1>2. offers \in Seq(Messages) /\ Len(offers) <= RetryCap /\ IsInjective(offers)
  BY TurnsAssumption DEF Init, IsInjective
<1>3. QED
  BY <1>1, <1>2
  DEF Init, TInv, TypeOK, TurnStates, Notices, Stages, CompletedIffAnswered, Standing

\* Whatever a request does, it moves only itself: TInv is kept when what it
\* carries fits its next stage and the turns it writes stay kept.
LEMMA RequestKeepsTInv ==
  ASSUME TInv, [LifecycleNext]_lifecycleVars,
         NEW r \in Requests, NEW stage \in Stages, NEW q \in Carried \cup {None},
         Goto(r, stage), req' = [req EXCEPT ![r] = q],
         stage = "idle" <=> q = None,
         q # None => Stands(q, stage, turn'),
         turn' \in [Messages -> TurnStates],
         \A m \in Messages : turn[m] # "UNSENT" => turn'[m] # "UNSENT",
         response' \in [Messages -> Answers \cup {None}],
         CompletedIffAnswered',
         Short(offers'),
         notice' \in [Messages -> Notices]
  PROVE  TInv'
<1>1. LifecycleTypeOK' /\ RowsAgree'
  BY LifecycleNextAgrees DEF TInv, TypeOK
<1>2. /\ pc' \in [Requests -> Stages]
      /\ req' \in [Requests -> Carried \cup {None}]
      /\ \A p \in Requests : pc'[p] = "idle" <=> req'[p] = None
  BY DEF TInv, TypeOK, Goto
<1>3. ASSUME NEW p \in Requests
      PROVE  Standing(p)'
  <2>1. CASE p = r
    BY <2>1 DEF TInv, TypeOK, Goto, Standing
  <2>2. CASE p # r
    <3>1. pc'[p] = pc[p] /\ req'[p] = req[p]
      BY <2>2 DEF TInv, TypeOK, Goto
    <3>2. req[p] # None => req[p].msg \in Messages
      BY DEF TInv, TypeOK, Carried
    <3>3. Standing(p)
      BY DEF TInv
    <3>4. QED
      BY <3>1, <3>2, <3>3 DEF Standing, Stands
  <2>3. QED
    BY <2>1, <2>2
<1>4. QED
  BY <1>1, <1>2, <1>3 DEF TInv, TypeOK, Short

\* A request that only reads rows.
LEMMA ReadingKeepsTInv ==
  ASSUME TInv, [LifecycleNext]_lifecycleVars, UNCHANGED <<turn, response, offers, notice>>,
         NEW r \in Requests, NEW stage \in Stages, NEW q \in Carried \cup {None},
         Goto(r, stage), req' = [req EXCEPT ![r] = q],
         stage = "idle" <=> q = None,
         q # None => Stands(q, stage, turn)
  PROVE  TInv'
<1>1. CompletedIffAnswered' /\ Short(offers')
  BY DEF TInv, TypeOK, CompletedIffAnswered, Short
<1>2. QED
  BY <1>1, RequestKeepsTInv DEF TInv, TypeOK

\* What a working request carries.
LEMMA WorkingRequest ==
  ASSUME TInv, NEW r \in Requests, pc[r] # "idle"
  PROVE  /\ req[r] \in Carried /\ req[r] # None
         /\ req[r].msg \in Messages /\ Short(req[r].list)
         /\ Stands(req[r], pc[r], turn)
         /\ In[req[r].msg] \in Conversations
  BY TurnsAssumption DEF TInv, TypeOK, Standing, Stands, Carried

\* The request is dropped: nothing is left of it.
LEMMA DropKeepsTInv ==
  ASSUME TInv, NEW r \in Requests, Drop(r), UNCHANGED <<lifecycleVars, turn, response, notice>>,
         Short(offers')
  PROVE  TInv'
<1>1. CompletedIffAnswered'
  BY DEF TInv, CompletedIffAnswered
<1>2. QED
  BY <1>1, RequestKeepsTInv DEF Drop, TInv, TypeOK, Stages

\* A request proceeds with what it carries.
LEMMA Proceeding ==
  ASSUME TInv, NEW r \in Requests, NEW stage, Proceed(r, stage)
  PROVE  Goto(r, stage) /\ req' = [req EXCEPT ![r] = req[r]]
  BY DEF Proceed, TInv, TypeOK

\* A view that finishes carries its changed copy of the offers.
LEMMA Finishing ==
  ASSUME TInv, NEW r \in Requests, pc[r] # "idle", NEW list, Short(list), Finish(r, list)
  PROVE  \E q \in Carried :
           /\ Goto(r, "save") /\ req' = [req EXCEPT ![r] = q]
           /\ q # None
           /\ q.list = list /\ q.msg = req[r].msg /\ q.kind = req[r].kind
           /\ Stands(q, "save", turn)
<1> DEFINE q == [req[r] EXCEPT !.list = list]
<1>1. /\ q \in Carried /\ q.list = list /\ q.msg = req[r].msg /\ q.kind = req[r].kind
  BY WorkingRequest DEF Carried, Short
<1>2. Goto(r, "save") /\ req' = [req EXCEPT ![r] = q]
  BY DEF Finish
<1>3. Stands(q, "save", turn)
  BY <1>1, WorkingRequest DEF Stands, OnKeptTurn
<1>4. QED
  BY <1>1, <1>2, <1>3, CarriedAssumption

LEMMA ArriveKeepsTInv ==
  ASSUME TInv, NEW r \in Requests, Arrive(r)
  PROVE  TInv'
<1>1. PICK kind \in {"new", "message", "retry", "view"}, m \in Messages :
        LET q == [kind |-> kind, msg |-> m, list |-> offers, seen |-> None, result |-> None]
        IN /\ kind \in {"retry", "view"} => turn[m] # "UNSENT"
           /\ req' = [req EXCEPT ![r] = q]
           /\ Goto(r, CASE kind = "new" -> "create"
                        [] kind = "view" -> "save"
                        [] OTHER -> "read")
  BY DEF Arrive
<1> DEFINE q == [kind |-> kind, msg |-> m, list |-> offers, seen |-> None, result |-> None]
           stage == CASE kind = "new" -> "create" [] kind = "view" -> "save" [] OTHER -> "read"
<1>2. q \in Carried /\ q # None
  BY CarriedAssumption DEF TInv, TypeOK, Carried
<1>3. stage \in Stages /\ stage # "idle"
  BY DEF Stages
<1>4. Stands(q, stage, turn)
  BY <1>1 DEF Stands, OnKeptTurn, Short, TInv, TypeOK
<1>5. Goto(r, stage) /\ req' = [req EXCEPT ![r] = q]
  BY <1>1
<1> HIDE DEF q, stage
<1>6. QED
  BY <1>2, <1>3, <1>4, <1>5, ReadingKeepsTInv DEF Arrive

\* A message is kept and its request goes on to the turn, or to its page.
LEMMA KeptMessageKeepsTInv ==
  ASSUME TInv, NEW r \in Requests, pc[r] # "idle",
         turn' = [turn EXCEPT ![req[r].msg] = "PENDING"], turn[req[r].msg] = "UNSENT",
         NEW stage \in {"save", "handover", "prepare"}, Proceed(r, stage),
         UNCHANGED <<lifecycleVars, response, offers, notice>>
  PROVE  TInv'
<1> DEFINE m == req[r].msg
<1>1. /\ m \in Messages /\ req[r] \in Carried /\ req[r] # None
      /\ Stands(req[r], pc[r], turn)
  BY WorkingRequest
<1>2. Stands(req[r], stage, turn') /\ stage \in Stages \ {"idle"}
  BY <1>1 DEF Stands, OnKeptTurn, TInv, TypeOK, Stages
<1>3. CompletedIffAnswered'
  BY <1>1 DEF TInv, TypeOK, CompletedIffAnswered
<1>4. /\ turn' \in [Messages -> TurnStates]
      /\ \A n \in Messages : turn[n] # "UNSENT" => turn'[n] # "UNSENT"
  BY <1>1 DEF TInv, TypeOK, TurnStates
<1>5. /\ Goto(r, stage) /\ req' = [req EXCEPT ![r] = req[r]]
      /\ response' \in [Messages -> Answers \cup {None}]
      /\ Short(offers') /\ notice' \in [Messages -> Notices]
  BY Proceeding DEF TInv, TypeOK, Short
<1>6. QED
  BY <1>1, <1>2, <1>3, <1>4, <1>5, RequestKeepsTInv

LEMMA CreateKeepsTInv ==
  ASSUME TInv, NEW r \in Requests, Create(r)
  PROVE  TInv'
<1>1. /\ pc[r] = "create" /\ req[r] \in Carried /\ req[r] # None
      /\ Stands(req[r], "create", turn)
  BY WorkingRequest DEF Create
<1>2. CASE /\ turn[req[r].msg] = "UNSENT"
           /\ turn' = [turn EXCEPT ![req[r].msg] = "PENDING"]
           /\ Proceed(r, Route(req[r].msg))
  BY <1>1, <1>2, KeptMessageKeepsTInv DEF Create, Route
<1>3. CASE Drop(r) /\ UNCHANGED turn
  BY <1>3, DropKeepsTInv DEF Create, TInv, TypeOK, Short
<1>4. CASE Proceed(r, "save") /\ UNCHANGED turn
  <2>1. Stands(req[r], "save", turn)
    BY <1>1 DEF Stands, OnKeptTurn
  <2>2. QED
    BY <1>1, <1>4, <2>1, Proceeding, ReadingKeepsTInv DEF Create, Stages
<1>5. QED
  BY <1>2, <1>3, <1>4 DEF Create

LEMMA ReadConversationKeepsTInv ==
  ASSUME TInv, NEW r \in Requests, ReadConversation(r)
  PROVE  TInv'
<1>1. /\ pc[r] = "read" /\ req[r] \in Carried /\ Stands(req[r], "read", turn)
      /\ In[req[r].msg] \in Conversations
  BY WorkingRequest DEF ReadConversation
<1>2. CASE Drop(r)
  BY <1>2, DropKeepsTInv DEF ReadConversation, TInv, TypeOK, Short
<1>3. ASSUME NEW s, s = status[In[req[r].msg]],
             req' = [req EXCEPT ![r].seen = s],
             Goto(r, IF req[r].kind = "message" THEN "persist" ELSE "check")
      PROVE  TInv'
  <2> DEFINE q == [req[r] EXCEPT !.seen = s]
             stage == IF req[r].kind = "message" THEN "persist" ELSE "check"
  <2>1. s \in Statuses
    BY <1>1, <1>3 DEF TInv, TypeOK, LifecycleTypeOK
  <2>2. /\ q \in Carried /\ q.list = req[r].list /\ q.msg = req[r].msg
        /\ q.kind = req[r].kind
    BY <1>1, <2>1 DEF Carried
  <2>3. req' = [req EXCEPT ![r] = q]
    BY <1>3
  <2>4. Stands(q, stage, turn) /\ stage \in Stages /\ stage # "idle"
    BY <1>1, <2>2 DEF Stands, OnKeptTurn, Stages
  <2> HIDE DEF q
  <2>5. QED
    BY <1>3, <2>2, <2>3, <2>4, CarriedAssumption, ReadingKeepsTInv DEF ReadConversation
<1>4. QED
  BY <1>2, <1>3 DEF ReadConversation

LEMMA PersistKeepsTInv ==
  ASSUME TInv, NEW r \in Requests, Persist(r)
  PROVE  TInv'
<1>1. /\ pc[r] = "persist" /\ req[r] \in Carried /\ req[r] # None
      /\ Stands(req[r], "persist", turn)
  BY WorkingRequest DEF Persist
<1>2. CASE Drop(r) /\ UNCHANGED turn
  BY <1>2, DropKeepsTInv DEF Persist, TInv, TypeOK, Short
<1>3. CASE Proceed(r, "save") /\ UNCHANGED turn
  <2>1. Stands(req[r], "save", turn)
    BY <1>1 DEF Stands, OnKeptTurn
  <2>2. QED
    BY <1>1, <1>3, <2>1, Proceeding, ReadingKeepsTInv DEF Persist, Stages
<1>4. CASE /\ turn[req[r].msg] = "UNSENT"
           /\ turn' = [turn EXCEPT ![req[r].msg] = "PENDING"]
           /\ Proceed(r, IF req[r].seen = "ACTIVE" THEN Route(req[r].msg) ELSE "save")
  BY <1>1, <1>4, KeptMessageKeepsTInv DEF Persist, Route
<1>5. QED
  BY <1>2, <1>3, <1>4 DEF Persist

\* A view that finishes after reading.
LEMMA FinishKeepsTInv ==
  ASSUME TInv, [LifecycleNext]_lifecycleVars, UNCHANGED <<turn, response, offers, notice>>,
         NEW r \in Requests, pc[r] # "idle", FinishWithdrawn(r)
  PROVE  TInv'
<1>1. req[r].msg \in Messages /\ Short(req[r].list)
  BY WorkingRequest
<1>2. Short(Withdraw(req[r].list, req[r].msg))
  BY <1>1, WithdrawIsShort
<1>3. PICK q \in Carried :
        /\ Goto(r, "save") /\ req' = [req EXCEPT ![r] = q]
        /\ q # None /\ Stands(q, "save", turn)
  BY <1>2, Finishing DEF FinishWithdrawn
<1>4. QED
  BY <1>3, ReadingKeepsTInv DEF Stages

LEMMA CheckRetryKeepsTInv ==
  ASSUME TInv, NEW r \in Requests, CheckRetry(r)
  PROVE  TInv'
<1>1. /\ pc[r] = "check" /\ req[r] \in Carried /\ req[r] # None
      /\ Stands(req[r], "check", turn)
  BY WorkingRequest DEF CheckRetry
<1>2. CASE FinishWithdrawn(r)
  BY <1>1, <1>2, FinishKeepsTInv DEF CheckRetry
<1>3. ASSUME NEW stage \in {"save", "handover", "prepare"}, Proceed(r, stage)
      PROVE  TInv'
  <2>1. Stands(req[r], stage, turn)
    BY <1>1 DEF Stands, OnKeptTurn
  <2>2. QED
    BY <1>1, <1>3, <2>1, Proceeding, ReadingKeepsTInv DEF CheckRetry, Stages
<1>4. QED
  BY <1>2, <1>3 DEF CheckRetry, Route

LEMMA HandToHumanKeepsTInv ==
  ASSUME TInv, NEW r \in Requests, HandToHuman(r)
  PROVE  TInv'
<1>1. pc[r] = "handover" /\ In[req[r].msg] \in Conversations
  BY WorkingRequest DEF HandToHuman
<1>2. [LifecycleNext]_lifecycleVars
  BY <1>1 DEF HandToHuman, LifecycleNext, LifecycleStep
<1>3. QED
  BY <1>1, <1>2, FinishKeepsTInv DEF HandToHuman

LEMMA PrepareKeepsTInv ==
  ASSUME TInv, NEW r \in Requests, Prepare(r)
  PROVE  TInv'
<1>1. /\ pc[r] = "prepare" /\ req[r] \in Carried /\ req[r] # None
      /\ Stands(req[r], "prepare", turn)
  BY WorkingRequest DEF Prepare
<1>2. CASE FinishWithdrawn(r)
  BY <1>1, <1>2, FinishKeepsTInv DEF Prepare
<1>3. CASE Drop(r)
  BY <1>3, DropKeepsTInv DEF Prepare, TInv, TypeOK, Short
<1>4. ASSUME NEW stage \in {"save", "call"}, Proceed(r, stage)
      PROVE  TInv'
  <2>1. Stands(req[r], stage, turn)
    BY <1>1 DEF Stands, OnKeptTurn
  <2>2. QED
    BY <1>1, <1>4, <2>1, Proceeding, ReadingKeepsTInv DEF Prepare, Stages
<1>5. QED
  BY <1>2, <1>3, <1>4 DEF Prepare, DatabaseError

LEMMA CallKeepsTInv ==
  ASSUME TInv, NEW r \in Requests, Call(r)
  PROVE  TInv'
<1>1. /\ pc[r] = "call" /\ req[r] \in Carried /\ req[r] # None
      /\ Stands(req[r], "call", turn)
  BY WorkingRequest DEF Call
<1>2. PICK result \in Results :
        /\ req' = [req EXCEPT ![r].result = result]
        /\ Goto(r, IF result \in Answers THEN "append" ELSE "mark")
  BY DEF Call
<1> DEFINE q == [req[r] EXCEPT !.result = result]
           stage == IF result \in Answers THEN "append" ELSE "mark"
<1>3. /\ q \in Carried /\ q.list = req[r].list /\ q.msg = req[r].msg
      /\ q.kind = req[r].kind /\ q.result = result
  BY <1>1 DEF Carried
<1>4. req' = [req EXCEPT ![r] = q]
  BY <1>2
<1>5. Stands(q, stage, turn) /\ stage \in Stages /\ stage # "idle"
  BY <1>1, <1>3 DEF Stands, OnKeptTurn, Stages
<1> HIDE DEF q
<1>6. QED
  BY <1>2, <1>3, <1>4, <1>5, CarriedAssumption, ReadingKeepsTInv DEF Call

LEMMA AppendAnswerKeepsTInv ==
  ASSUME TInv, NEW r \in Requests, AppendAnswer(r)
  PROVE  TInv'
<1> DEFINE m == req[r].msg
<1>1. /\ pc[r] = "append" /\ m \in Messages /\ req[r] \in Carried /\ req[r] # None
      /\ Short(req[r].list) /\ Stands(req[r], "append", turn)
  BY WorkingRequest DEF AppendAnswer
<1>2. CASE req' = [req EXCEPT ![r].result = "suspended"] /\ Goto(r, "mark")
           /\ UNCHANGED <<turn, response>>
  <2> DEFINE q == [req[r] EXCEPT !.result = "suspended"]
  <2>1. /\ q \in Carried /\ q.list = req[r].list /\ q.msg = req[r].msg
        /\ q.kind = req[r].kind
    BY <1>1 DEF Carried, Results
  <2>2. req' = [req EXCEPT ![r] = q]
    BY <1>2
  <2>3. Stands(q, "mark", turn)
    BY <1>1, <2>1 DEF Stands, OnKeptTurn
  <2> HIDE DEF q
  <2>4. QED
    BY <1>2, <2>1, <2>2, <2>3, CarriedAssumption, ReadingKeepsTInv DEF AppendAnswer, Stages
<1>3. CASE FinishWithdrawn(r) /\ UNCHANGED <<turn, response>>
  BY <1>1, <1>3, FinishKeepsTInv DEF AppendAnswer
<1>4. CASE /\ response' = [response EXCEPT ![m] = req[r].result]
           /\ turn' = [turn EXCEPT ![m] = "COMPLETED"]
           /\ FinishWithdrawn(r)
  <2>1. req[r].result \in Answers /\ req[r].result # None
    BY <1>1, TurnsAssumption DEF Stands
  <2>2. /\ turn' \in [Messages -> TurnStates]
        /\ \A n \in Messages : turn[n] # "UNSENT" => turn'[n] # "UNSENT"
        /\ response' \in [Messages -> Answers \cup {None}]
        /\ CompletedIffAnswered'
    BY <1>1, <1>4, <2>1 DEF TInv, TypeOK, TurnStates, CompletedIffAnswered
  <2>3. Short(Withdraw(req[r].list, m))
    BY <1>1, WithdrawIsShort
  <2>4. PICK q \in Carried :
          /\ Goto(r, "save") /\ req' = [req EXCEPT ![r] = q] /\ q # None
          /\ q.list = Withdraw(req[r].list, m) /\ q.msg = m
    BY <1>1, <1>4, <2>3, Finishing DEF FinishWithdrawn
  <2>5. Stands(q, "save", turn')
    BY <1>1, <1>4, <2>3, <2>4 DEF Stands, OnKeptTurn, TInv, TypeOK
  <2>6. QED
    BY <2>2, <2>4, <2>5, RequestKeepsTInv DEF AppendAnswer, TInv, TypeOK, Short, Stages
<1>5. CASE DatabaseError(r) /\ UNCHANGED <<turn, response>>
  <2>1. Stands(req[r], "save", turn)
    BY <1>1 DEF Stands, OnKeptTurn
  <2>2. QED
    BY <1>1, <1>5, <2>1, Proceeding, ReadingKeepsTInv
    DEF AppendAnswer, DatabaseError, Stages
<1>6. QED
  BY <1>2, <1>3, <1>4, <1>5 DEF AppendAnswer

LEMMA MarkFailedKeepsTInv ==
  ASSUME TInv, NEW r \in Requests, MarkFailed(r)
  PROVE  TInv'
<1> DEFINE m == req[r].msg
<1>1. /\ pc[r] = "mark" /\ m \in Messages /\ req[r] \in Carried /\ req[r] # None
      /\ Short(req[r].list) /\ Stands(req[r], "mark", turn)
  BY WorkingRequest DEF MarkFailed
<1>2. ASSUME turn' = FailedUnlessAnswered(m) \/ UNCHANGED turn,
             NEW list, Short(list), Finish(r, list),
             NEW told \in Notices, notice' = [notice EXCEPT ![m] = told]
      PROVE  TInv'
  <2>1. /\ turn' \in [Messages -> TurnStates]
        /\ \A n \in Messages : turn[n] # "UNSENT" => turn'[n] # "UNSENT"
        /\ CompletedIffAnswered'
    BY <1>1, <1>2 DEF MarkFailed, FailedUnlessAnswered, TInv, TypeOK, TurnStates,
                      CompletedIffAnswered
  <2>2. PICK q \in Carried :
          /\ Goto(r, "save") /\ req' = [req EXCEPT ![r] = q] /\ q # None
          /\ q.list = list /\ q.msg = m
    BY <1>1, <1>2, Finishing
  <2>3. Stands(q, "save", turn')
    BY <1>1, <1>2, <2>1, <2>2 DEF Stands, OnKeptTurn
  <2>4. QED
    BY <1>2, <2>1, <2>2, <2>3, RequestKeepsTInv DEF MarkFailed, TInv, TypeOK, Short, Stages
<1>3. CASE /\ turn' = FailedUnlessAnswered(m) \/ UNCHANGED turn
           /\ Finish(r, IF req[r].result = "retryable"
                        THEN Offer(req[r].list, m) ELSE Withdraw(req[r].list, m))
           /\ notice' = [notice EXCEPT ![m] =
                           CASE req[r].result = "retryable" -> "tryAgain"
                             [] req[r].result = "suspended" -> @
                             [] OTHER -> "kept"]
  <2>1. Short(IF req[r].result = "retryable"
              THEN Offer(req[r].list, m) ELSE Withdraw(req[r].list, m))
    BY <1>1, OfferIsShort, WithdrawIsShort
  <2>2. \E told \in Notices : notice' = [notice EXCEPT ![m] = told]
    BY <1>1, <1>3 DEF TInv, TypeOK, Notices
  <2>3. QED
    BY <1>2, <1>3, <2>1, <2>2
<1>4. CASE DatabaseError(r) /\ UNCHANGED <<turn, notice>>
  <2>1. Stands(req[r], "save", turn)
    BY <1>1 DEF Stands, OnKeptTurn
  <2>2. QED
    BY <1>1, <1>4, <2>1, Proceeding, ReadingKeepsTInv
    DEF MarkFailed, DatabaseError, Stages
<1>5. QED
  BY <1>3, <1>4 DEF MarkFailed

LEMMA SaveSessionKeepsTInv ==
  ASSUME TInv, NEW r \in Requests, SaveSession(r)
  PROVE  TInv'
<1>1. Short(offers')
  BY WorkingRequest DEF SaveSession
<1>2. QED
  BY <1>1, DropKeepsTInv DEF SaveSession

LEMMA FailKeepsTInv ==
  ASSUME TInv, NEW r \in Requests, Fail(r)
  PROVE  TInv'
  BY DropKeepsTInv DEF Fail, TInv, TypeOK, Short

\* Nobody moves, or somebody else moves a conversation.
LEMMA RestKeepsTInv ==
  ASSUME TInv, [LifecycleNext]_lifecycleVars, UNCHANGED turnVars
  PROVE  TInv'
<1>1. LifecycleTypeOK' /\ RowsAgree'
  BY LifecycleNextAgrees DEF TInv, TypeOK
<1>2. \A r \in Requests : Standing(r)'
  BY DEF TInv, Standing, turnVars
<1>3. CompletedIffAnswered'
  BY DEF TInv, CompletedIffAnswered, turnVars
<1>4. QED
  BY <1>1, <1>2, <1>3 DEF TInv, TypeOK, turnVars

LEMMA TurnsNextKeepsTInv ==
  TInv /\ [Next]_vars => TInv'
<1> SUFFICES ASSUME TInv, [Next]_vars
             PROVE  TInv'
  OBVIOUS
<1>1. ASSUME NEW r \in Requests, Arrive(r) \/ Work(r) \/ Fail(r)
      PROVE  TInv'
  BY <1>1, ArriveKeepsTInv, CreateKeepsTInv, ReadConversationKeepsTInv, PersistKeepsTInv,
     CheckRetryKeepsTInv, HandToHumanKeepsTInv, PrepareKeepsTInv, CallKeepsTInv,
     AppendAnswerKeepsTInv, MarkFailedKeepsTInv, SaveSessionKeepsTInv, FailKeepsTInv
  DEF Work
<1>2. CASE Elsewhere
  BY <1>2, RestKeepsTInv DEF Elsewhere, LifecycleNext
<1>3. CASE UNCHANGED vars
  BY <1>3, RestKeepsTInv DEF vars, turnVars, lifecycleVars
<1>4. QED
  BY <1>1, <1>2, <1>3 DEF Next

LEMMA TurnsInvariant == Spec => []TInv
<1>1. QED
  BY TurnsInitHolds, TurnsNextKeepsTInv, PTL DEF Spec

\* THEOREM: the rows, the sessions and the requests keep their types, and a
\* session keeps at most RetryCap retry offers, none twice, whichever requests
\* overwrite one another's session (_update_retry_session).
THEOREM TurnsTypeOK == Spec => []TypeOK
<1>1. TInv => TypeOK
  BY DEF TInv
<1>2. QED
  BY <1>1, TurnsInvariant, PTL

\* THEOREM: a turn is COMPLETED exactly when its AGENT row exists, whichever of
\* several attempts failed after another succeeded (append_agent_message
\* against mark_client_turn_failed).
THEOREM TurnsCompletedIffAnswered == Spec => []CompletedIffAnswered
<1>1. TInv => CompletedIffAnswered
  BY DEF TInv
<1>2. QED
  BY <1>1, TurnsInvariant, PTL

-----------------------------------------------------------------------------
(* The promise.                                                            *)

\* A step that keeps the messages, the answers and the handoffs shows nothing.
LEMMA StutterOfPromise ==
  ASSUME UNCHANGED <<handoff, response>>,
         {m \in Messages : turn'[m] # "UNSENT"} = {m \in Messages : turn[m] # "UNSENT"}
  PROVE  UNCHANGED Promise!promiseVars
  BY DEF Promise!promiseVars

\* A step of a conversation is a handover or shows nothing.
LEMMA LifecycleStepOfPromise ==
  ASSUME TInv, NEW c \in Conversations, LifecycleStep(c), UNCHANGED <<turn, response>>
  PROVE  [Promise!PromiseNext]_Promise!promiseVars
<1>1. handoff \in [Conversations -> HandoffStates]
  BY DEF TInv, TypeOK, LifecycleTypeOK
<1>2. CASE Confirm(c)
  <2>1. {d \in Conversations : handoff'[d] # "NONE"}
          = {d \in Conversations : handoff[d] # "NONE"} \cup {c}
    BY <1>1, <1>2 DEF Confirm
  <2>2. Promise!HandOver(c)
    BY <2>1 DEF Promise!HandOver
  <2>3. QED
    BY <2>2 DEF Promise!PromiseNext
<1>3. CASE ~Confirm(c)
  <2>1. {d \in Conversations : handoff'[d] # "NONE"} = {d \in Conversations : handoff[d] # "NONE"}
    BY <1>1, <1>3 DEF LifecycleStep, Accept, Resolve, Block, Unblock, SoftDelete
  <2>2. QED
    BY <2>1 DEF Promise!promiseVars
<1>4. QED
  BY <1>2, <1>3

\* A message that enters the transcript.
LEMMA KeepOfPromise ==
  ASSUME TInv, NEW m \in Messages, turn' = [turn EXCEPT ![m] = "PENDING"],
         UNCHANGED <<handoff, response>>
  PROVE  [Promise!PromiseNext]_Promise!promiseVars
<1>1. {n \in Messages : turn'[n] # "UNSENT"} = {n \in Messages : turn[n] # "UNSENT"} \cup {m}
  BY DEF TInv, TypeOK
<1>2. Promise!Keep(m)
  BY <1>1 DEF Promise!Keep
<1>3. QED
  BY <1>2 DEF Promise!PromiseNext

\* A request answers only a kept message of a conversation nobody handed over:
\* the rows of an ACTIVE conversation agree that it was not.
LEMMA AppendOfPromise ==
  ASSUME TInv, NEW r \in Requests, AppendAnswer(r)
  PROVE  [Promise!PromiseNext]_Promise!promiseVars
<1> DEFINE m == req[r].msg
<1>1. /\ m \in Messages /\ In[m] \in Conversations /\ pc[r] = "append"
      /\ Stands(req[r], "append", turn)
  BY WorkingRequest DEF AppendAnswer
<1>2. CASE /\ status[In[m]] = "ACTIVE" /\ response[m] = None
           /\ response' = [response EXCEPT ![m] = req[r].result]
           /\ turn' = [turn EXCEPT ![m] = "COMPLETED"]
  <2>1. turn[m] # "UNSENT" /\ req[r].result \in Answers
    BY <1>1 DEF Stands, OnKeptTurn
  <2>2. handoff[In[m]] = "NONE"
    BY <1>1, <1>2 DEF TInv, RowsAgree, Effective
  <2>3. {n \in Messages : turn'[n] # "UNSENT"} = {n \in Messages : turn[n] # "UNSENT"}
    BY <1>1, <1>2, <2>1 DEF TInv, TypeOK
  <2>4. UNCHANGED handoff
    BY DEF AppendAnswer, lifecycleVars
  <2>5. Promise!Reply(m)
    BY <1>1, <1>2, <2>1, <2>2, <2>3, <2>4 DEF Promise!Reply
  <2>6. QED
    BY <1>1, <2>5 DEF Promise!PromiseNext
<1>3. CASE UNCHANGED <<turn, response>>
  BY <1>3, StutterOfPromise DEF AppendAnswer, lifecycleVars
<1>4. QED
  BY <1>2, <1>3 DEF AppendAnswer

LEMMA MarkOfPromise ==
  ASSUME TInv, NEW r \in Requests, MarkFailed(r)
  PROVE  [Promise!PromiseNext]_Promise!promiseVars
<1>1. /\ req[r].msg \in Messages /\ pc[r] = "mark" /\ Stands(req[r], "mark", turn)
  BY WorkingRequest DEF MarkFailed
<1>2. {n \in Messages : turn'[n] # "UNSENT"} = {n \in Messages : turn[n] # "UNSENT"}
  BY <1>1 DEF MarkFailed, FailedUnlessAnswered, Stands, OnKeptTurn, TInv, TypeOK
<1>3. QED
  BY <1>2, StutterOfPromise DEF MarkFailed, lifecycleVars

LEMMA StepOfPromise ==
  ASSUME TInv, [Next]_vars
  PROVE  [Promise!PromiseNext]_Promise!promiseVars
<1>1. ASSUME NEW r \in Requests, Create(r) \/ Persist(r)
      PROVE  [Promise!PromiseNext]_Promise!promiseVars
  <2>1. req[r].msg \in Messages
    BY <1>1, WorkingRequest DEF Create, Persist
  <2>2. CASE turn' = [turn EXCEPT ![req[r].msg] = "PENDING"]
    BY <1>1, <2>1, <2>2, KeepOfPromise DEF Create, Persist, lifecycleVars
  <2>3. CASE UNCHANGED turn
    BY <1>1, <2>3, StutterOfPromise DEF Create, Persist, lifecycleVars
  <2>4. QED
    BY <1>1, <2>2, <2>3 DEF Create, Persist
<1>2. ASSUME NEW r \in Requests, HandToHuman(r)
      PROVE  [Promise!PromiseNext]_Promise!promiseVars
  <2>1. In[req[r].msg] \in Conversations
    BY <1>2, WorkingRequest DEF HandToHuman
  <2>2. CASE Confirm(In[req[r].msg])
    BY <1>2, <2>1, <2>2, LifecycleStepOfPromise DEF HandToHuman, LifecycleStep
  <2>3. CASE UNCHANGED lifecycleVars
    BY <1>2, <2>3, StutterOfPromise DEF HandToHuman, lifecycleVars
  <2>4. QED
    BY <1>2, <2>2, <2>3 DEF HandToHuman
<1>3. ASSUME NEW r \in Requests,
             \/ Arrive(r) \/ ReadConversation(r) \/ CheckRetry(r) \/ Prepare(r)
             \/ Call(r) \/ SaveSession(r) \/ Fail(r)
      PROVE  [Promise!PromiseNext]_Promise!promiseVars
  <2>1. UNCHANGED <<turn, response, handoff>>
    BY <1>3 DEF Arrive, ReadConversation, CheckRetry, Prepare, Call, SaveSession, Fail,
                lifecycleVars
  <2>2. QED
    BY <2>1, StutterOfPromise
<1>4. CASE Elsewhere
  BY <1>4, LifecycleStepOfPromise DEF Elsewhere, turnVars
<1>5. CASE UNCHANGED vars
  BY <1>5, StutterOfPromise DEF vars
<1>6. QED
  BY <1>1, <1>2, <1>3, <1>4, <1>5, AppendOfPromise, MarkOfPromise DEF Next, Work

\* THEOREM: replays, concurrent retries and late answers never give a turn a
\* second answer, change one, or answer after the handoff, also not when the
\* conversation was blocked and unblocked in between (append_agent_message,
\* which reads the status again under the lock).
THEOREM TurnsImplementPromise == Spec => ImplementsPromise
<1>1. Init => Promise!PromiseInit
  BY DEF Init, LifecycleInit, Promise!PromiseInit
<1>2. TInv /\ [Next]_vars => [Promise!PromiseNext]_Promise!promiseVars
  BY StepOfPromise
<1>3. QED
  BY <1>1, <1>2, TurnsInvariant, PTL DEF Spec, ImplementsPromise, Promise!PromiseSpec

=============================================================================
