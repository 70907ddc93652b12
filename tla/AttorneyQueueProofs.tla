------------------------- MODULE AttorneyQueueProofs -------------------------
(***************************************************************************)
(* The attorney queue only drives LeadService: what is proved of the       *)
(* service holds while pages go stale and attorneys click on them.         *)
(***************************************************************************)
EXTENDS AttorneyQueueProperties, LeadTrailProofs

USE RequestsAssumption, NoneAssumption, QueueAssumption

LEMMA QueueStep == [QueueNext]_queueVars => [Next]_vars
<1> SUFFICES ASSUME [QueueNext]_queueVars PROVE [Next]_vars
  OBVIOUS
<1>1. CASE \E r \in Request : Serve(r)
  BY <1>1 DEF Serve, Next
<1>2. CASE \E c \in Creates : Flush(c)
  BY <1>2 DEF Flush
<1>3. CASE \E a \in Tab : Browse(a)
  BY <1>3 DEF Browse, OpenTab, NextPage, PreviousPage, Open, CountLeads, SelectPage,
              PressState, PressAssign, Press
<1>4. CASE \E r \in Clicks : CallFails(r) \/ Tell(r)
  BY <1>4 DEF CallFails, Tell
<1>5. CASE UNCHANGED queueVars
  BY <1>5 DEF queueVars
<1> QED
  BY <1>1, <1>2, <1>3, <1>4, <1>5 DEF QueueNext

\* The queue implements LeadService: clicks from stale pages, for any number of
\* tabs, pages and leads, are requests like any other.
THEOREM QueueServes == QueueSpec => Spec
<1>1. QueueInit => Init
  BY DEF QueueInit
<1> QED
  BY <1>1, QueueStep, PTL DEF QueueSpec, Spec

-----------------------------------------------------------------------------
(***************************************************************************)
(* What the trail holds of a change of state                               *)
(***************************************************************************)

\* The entries of a change move the lead to the state it asked for, and a
\* change that came too late found the lead moved there.
Moved(r) ==
  /\ \A l \in Lead : \A i \in EntriesBy(r, l) :
       /\ trail[l][i].from_state \in LeadStates /\ Moves(trail[l][i])
       /\ trail[l][i].to_state = want[r]
  /\ reply[r] = "already_in_state" => on[r] \in Lead /\ MovedTo(on[r], want[r])

\* An answer that says the lead is there already is right when it is given.
LEMMA AlreadyThere ==
  ASSUME IInv, MailInv, NEW r \in Changes, NEW q \in Request, Act(q), Told(r),
         reply'[r] = "already_in_state", reply[r] # "already_in_state"
  PROVE  on'[r] \in Lead /\ MovedTo(on[r], want[r])'
<1>1. q = r
  <2>1. r \in Request
    OBVIOUS
  <2> QED
    BY <2>1, ActAlone
<1>2. r \notin Creates /\ r \notin Assigns /\ reply \in [Request -> Answers]
      /\ on \in [Request -> Lead \cup {None}] /\ want \in [Request -> LeadStates \cup Owner]
  BY DEF IInv, TypeOK, HandlersTypeOK
<1>3. ReadForChange(r)
  BY <1>1, <1>2 DEF Act, Arrive, Proceed, UpdateState, StateLost, RefreshChanged, CommitUpdate,
     SendMail, Fail, WriteFails, RefreshFails, Die, Goto, Finish
<1>4. PICK l \in Lead, new \in LeadStates :
        /\ on' = [on EXCEPT ![r] = l] /\ want' = [want EXCEPT ![r] = new] /\ UNCHANGED db
        /\ Exists(l) /\ assert_transition(leadState[l], new) = "already_in_state"
  <2>1. PICK l \in Lead, new \in LeadStates :
          /\ on' = [on EXCEPT ![r] = l] /\ want' = [want EXCEPT ![r] = new] /\ UNCHANGED db
          /\ \/ Finish(r, "lead_not_found")
             \/ Exists(l) /\ UNCHANGED reply
             \/ Exists(l) /\ Finish(r, assert_transition(leadState[l], new))
    BY <1>3 DEF ReadForChange
  <2>2. Exists(l) /\ Finish(r, assert_transition(leadState[l], new))
    BY <1>2, <2>1 DEF Finish
  <2>3. reply'[r] = assert_transition(leadState[l], new)
    BY <1>2, <2>2 DEF Finish
  <2> QED
    BY <2>1, <2>2, <2>3
<1>5. leadState[l] = new
  BY <1>4 DEF assert_transition
<1>6. MovedTo(l, new)
  BY <1>4, <1>5 DEF MailInv
<1>7. on'[r] = l /\ want'[r] = new /\ UNCHANGED trail
  BY <1>2, <1>4 DEF db
<1> QED
  BY <1>6, <1>7 DEF MovedTo

LEMMA MovedKeeps ==
  ASSUME IInv, MailInv, NEW r \in Changes, Told(r), Moved(r), [Next]_vars
  PROVE  Moved(r)'
<1>1. CASE UNCHANGED vars
  BY <1>1 DEF Moved, EntriesBy, MovedTo, vars, db, local
<1>2. CASE Next
  <2>1. PICK q \in Request : Act(q)
    BY <1>2 DEF Next, Act
  <2>2. r \in Request /\ r \notin Creates /\ r \notin Assigns
    OBVIOUS
  <2>3. At(r, "idle") => \A l \in Lead : EntriesBy(r, l) = {}
    BY DEF Told, At
  <2>4. ASSUME NEW l \in Lead, NEW i \in EntriesBy(r, l)
        PROVE  /\ i \in DOMAIN trail'[l] /\ trail'[l][i] = trail[l][i]
               /\ want'[r] = want[r] /\ trail[l][i].actor = r
    <3>1. ~At(r, "idle")
      BY <2>3, <2>4
    <3>2. i \in DOMAIN trail[l] /\ trail[l][i].actor = r
      BY DEF EntriesBy
    <3> QED
      BY <2>1, <3>1, <3>2, TrailGrows, WantStays
  <2>5. ASSUME NEW l \in Lead, NEW i, i \in EntriesBy(r, l)', i \notin EntriesBy(r, l)
        PROVE  /\ trail'[l][i].from_state \in LeadStates
               /\ trail'[l][i].from_state # trail'[l][i].to_state
               /\ trail'[l][i].to_state = want'[r]
    <3>1. ~UNCHANGED trail
      BY <2>5 DEF EntriesBy
    <3>2. Appends(q, Event(q)) /\ Enters(q)
      BY <2>1, <3>1, TrailOfStep
    <3>3. q = r /\ l = on[r] /\ i = Len(trail[l]) + 1
      BY <2>2, <2>5, <3>2, EntriesOfAppend
    <3>4. Event(r) = StateEvent(leadState[l], leadState'[l], r) /\ Exists(l)
          /\ rule_for(leadState[l], leadState'[l]) # {}
      BY <3>2, <3>3 DEF Enters
    <3>5. Event(r) = StateEvent(lead[r].state, want[r], r)
      BY <2>2 DEF Event
    <3>6. trail'[l] = Append(trail[l], Event(r)) /\ trail[l] \in Seq(LeadEvent)
      BY <3>2, <3>3 DEF Appends, IInv, TypeOK, RowsTypeOK
    <3>7. trail'[l][i] = Event(r)
      BY <3>3, <3>6
    <3>8. want'[r] = want[r]
      BY <3>2, <3>3, <1>2, WantStays DEF Appends, At
    <3>9. leadState[l] \in LeadStates /\ leadState[l] # leadState'[l]
      BY <3>4 DEF rule_for, TRANSITIONS, LeadStates
    <3> QED
      BY <3>4, <3>5, <3>7, <3>8, <3>9 DEF StateEvent
  <2>6. reply'[r] = "already_in_state" => on'[r] \in Lead /\ MovedTo(on[r], want[r])'
    <3>1. CASE reply[r] = "already_in_state"
      <4>1. on[r] \in Lead /\ MovedTo(on[r], want[r]) /\ ~At(r, "idle")
        BY <3>1 DEF Moved, Told, At
      <4>2. on'[r] = on[r] /\ want'[r] = want[r]
        BY <4>1, <1>2, WantStays
      <4> QED
        BY <2>1, <4>1, <4>2, HistoryStays DEF MovedTo
    <3> QED
      BY <2>1, <3>1, AlreadyThere
  <2> QED
    BY <2>4, <2>5, <2>6 DEF Moved, Moves
<1> QED
  BY <1>1, <1>2

LEMMA Moving ==
  Spec => [](IInv /\ TrailAgrees /\ WinnerInv /\ MailInv
             /\ (\A r \in Request : Told(r)) /\ \A r \in Changes : Moved(r))
<1> DEFINE AllTold == \A r \in Request : Told(r)
           AllMoved == \A r \in Changes : Moved(r)
<1>1. Init => AllTold /\ AllMoved /\ MailInv /\ MailIsTruthful /\ WinnerInv
  <2>1. Init => AllTold
    BY DEF Init, Told, EntriesBy, Creation, At, Refusals
  <2>2. Init => AllMoved
    BY DEF Init, Moved, EntriesBy, Creation
  <2>3. Init => MailInv /\ MailIsTruthful
    BY DEF Init, MailInv, MailIsTruthful, MovedTo, Moves, Creation, Exists, At, LeadStates
  <2>4. Init => WinnerInv
    BY DEF Init, WinnerInv, Won
  <2> QED
    BY <2>1, <2>2, <2>3, <2>4
<1>2. IInv /\ AllTold /\ [Next]_vars => AllTold'
  BY ToldKeeps
<1>3. IInv /\ AllTold /\ MailInv /\ MailIsTruthful /\ [Next]_vars => MailInv' /\ MailIsTruthful'
  BY MailKeeps
<1>4. IInv /\ AllTold /\ MailInv /\ AllMoved /\ [Next]_vars => AllMoved'
  <2> SUFFICES ASSUME IInv, AllTold, MailInv, AllMoved, [Next]_vars, NEW r \in Changes
      PROVE  Moved(r)'
    OBVIOUS
  <2>1. r \in Request
    OBVIOUS
  <2> QED
    BY <2>1, MovedKeeps
<1>5. IInv /\ WinnerInv /\ [Next]_vars => WinnerInv'
  BY WinnerKeeps
<1> HIDE DEF AllTold, AllMoved
<1>6. Spec => [](IInv /\ TrailAgrees /\ WinnerInv /\ MailInv /\ AllTold /\ AllMoved)
  BY <1>1, <1>2, <1>3, <1>4, <1>5, Invariance, Agreement, PTL DEF Spec
<1> QED
  BY <1>6 DEF AllTold, AllMoved

-----------------------------------------------------------------------------
(***************************************************************************)
(* Clicks                                                                  *)
(***************************************************************************)

\* A click on a state button asks for the move its row offered, its request is
\* about that row, and the attorney is told what the API answered.
Clicked(r) ==
  /\ click[r] = NoClick => At(r, "idle")
  /\ click[r] # NoClick => click[r].target \in NEXT_ACTION(click[r].state)
  /\ ~At(r, "idle") => on[r] = click[r].lead /\ want[r] = click[r].target
  /\ told[r] = "ok" => reply[r] = "ok"
  /\ told[r] = "already" => reply[r] = "already_in_state"

ClickInv ==
  /\ click = [r \in Clicks |-> click[r]] /\ told = [r \in Clicks |-> told[r]]
  /\ \A r \in Clicks \cap Changes : Clicked(r)

\* The answer to a change is final.
LEMMA ReplyStays ==
  ASSUME IInv, [Next]_vars, NEW r \in Changes, Told(r), reply[r] # "none"
  PROVE  reply'[r] = reply[r]
<1>1. pc[r] \in {"mailing", "done", "dead"} /\ r \in Request
  BY DEF Told, IInv, TypeOK, HandlersTypeOK, Labels, RequestInv, ChangeInv
<1>2. CASE UNCHANGED vars
  BY <1>2 DEF vars, local
<1>3. CASE Next
  <2>1. PICK q \in Request : Act(q)
    BY <1>3 DEF Next, Act
  <2>2. CASE q # r
    BY <1>1, <2>1, <2>2, ActAlone
  <2>3. CASE q = r
    <3>1. r \notin Creates /\ r \notin Assigns
      OBVIOUS
    <3> QED
      BY <1>1, <2>1, <2>3, <3>1 DEF Act, Arrive, ReadForChange, Proceed, UpdateState, StateLost,
         RefreshChanged, CommitUpdate, SendMail, Fail, WriteFails, RefreshFails, Die, Finish, At
  <2> QED
    BY <2>2, <2>3
<1> QED
  BY <1>2, <1>3

ServiceInv == IInv /\ TrailAgrees /\ WinnerInv /\ MailInv
              /\ (\A r \in Request : Told(r)) /\ \A r \in Changes : Moved(r)

LEMMA ClickKeeps == ServiceInv /\ ClickInv /\ [QueueNext]_queueVars => ClickInv'
<1> SUFFICES ASSUME ServiceInv, ClickInv, [QueueNext]_queueVars PROVE ClickInv'
  OBVIOUS
<1>1. [Next]_vars /\ IInv /\ WinnerInv
  BY QueueStep DEF ServiceInv
<1>2. \A r \in Clicks \cap Changes :
        /\ reply[r] # "none" => reply'[r] = reply[r]
        /\ ~At(r, "idle") => on'[r] = on[r] /\ want'[r] = want[r] /\ pc'[r] # "idle"
  BY <1>1, ReplyStays, WantStays DEF ServiceInv, At
<1>3. CASE UNCHANGED <<vars, click, told>>
  BY <1>3 DEF ClickInv, Clicked, At, vars, local
<1>4. CASE \E r \in Request : Serve(r)
  <2>1. PICK q \in Request : Serve(q)
    BY <1>4
  <2>2. UNCHANGED <<click, told>> /\ Act(q)
    BY <2>1 DEF Serve, Act
  <2>3. ASSUME NEW r \in Clicks \cap Changes PROVE Clicked(r)'
    <3>1. Clicked(r)
      BY DEF ClickInv
    <3>2. CASE ~At(r, "idle")
      BY <1>2, <2>2, <3>1, <3>2 DEF Clicked, At
    <3>3. CASE At(r, "idle") /\ q # r
      <4>1. r \in Request
        OBVIOUS
      <4>2. pc'[r] = pc[r] /\ reply'[r] = reply[r]
        BY <1>1, <2>2, <3>3, <4>1, ActAlone
      <4> QED
        BY <2>2, <3>1, <3>3, <4>2 DEF Clicked, At
    <3>4. CASE At(r, "idle") /\ q = r
      <4>1. AsClicked(r)
        <5>1. r \notin Creates /\ r \notin Assigns
          OBVIOUS
        <5>2. ~(pc[r] \notin {"mailing", "notifying"} /\ (Proceed(r) \/ Fail(r)))
          BY <3>4, <5>1 DEF Proceed, UpdateState, RefreshChanged, CommitUpdate, SendMail,
                            Fail, WriteFails, RefreshFails, Die, At
        <5> QED
          BY <2>1, <3>4, <5>2 DEF Serve
      <4>2. reply[r] = "none"
        BY <3>4 DEF ServiceInv, Told, At
      <4> QED
        BY <1>2, <2>2, <3>1, <4>1, <4>2 DEF Clicked, AsClicked, At
    <3> QED
      BY <3>2, <3>3, <3>4
  <2> QED
    BY <2>2, <2>3 DEF ClickInv
<1>5. CASE \E a \in Tab, r \in Clicks : PressState(a, r) \/ PressAssign(a, r)
  <2>1. PICK a \in Tab, q \in Clicks : PressState(a, q) \/ PressAssign(a, q)
    BY <1>5
  <2>2. PICK row, target :
          /\ Press(a, q, row, target)
          /\ q \in Changes => target \in NEXT_ACTION(row.state)
    BY <2>1 DEF PressState, PressAssign
  <2> DEFINE new == [by |-> a, lead |-> row.lead, state |-> row.state, target |-> target]
  <2>3. UNCHANGED <<vars, told>> /\ click[q] = NoClick /\ click' = [click EXCEPT ![q] = new]
    BY <2>2 DEF Press
  <2>4. click' = [r \in Clicks |-> click'[r]] /\ click'[q] = new
        /\ \A r \in Clicks \ {q} : click'[r] = click[r]
    BY <2>3 DEF ClickInv
  <2>5. ASSUME NEW r \in Clicks \cap Changes PROVE Clicked(r)'
    <3>1. Clicked(r)
      BY DEF ClickInv
    <3>2. CASE r # q
      BY <2>3, <2>4, <3>1, <3>2 DEF Clicked, At, vars, local
    <3>3. CASE r = q
      <4>1. At(r, "idle") /\ reply[r] = "none"
        BY <2>3, <3>1, <3>3 DEF Clicked, ServiceInv, Told, At
      <4> QED
        BY <2>2, <2>3, <2>4, <3>1, <3>3, <4>1 DEF Clicked, At, vars, local
    <3> QED
      BY <3>2, <3>3
  <2> QED
    BY <2>3, <2>4, <2>5 DEF ClickInv
<1>6. CASE \E r \in Clicks : CallFails(r) \/ Tell(r)
  <2>1. PICK q \in Clicks : CallFails(q) \/ Tell(q)
    BY <1>6
  <2>2. UNCHANGED <<vars, click>>
    BY <2>1 DEF CallFails, Tell
  <2>3. PICK result : /\ told' = [told EXCEPT ![q] = result]
                      /\ result = "ok" => reply[q] = "ok"
                      /\ result = "already" => reply[q] = "already_in_state"
    BY <2>1 DEF CallFails, Tell, MarkResult
  <2>4. told' = [r \in Clicks |-> told'[r]] /\ told'[q] = result
        /\ \A r \in Clicks \ {q} : told'[r] = told[r]
    BY <2>3 DEF ClickInv
  <2> QED
    BY <2>2, <2>3, <2>4 DEF ClickInv, Clicked, At, vars, local
<1> QED
  BY <1>3, <1>4, <1>5, <1>6 DEF QueueNext, Browse, OpenTab, NextPage, PreviousPage, Open,
     CountLeads, SelectPage, Flush, queueVars

LEMMA Clicking == QueueSpec => [](ServiceInv /\ ClickInv)
<1>1. QueueInit => ClickInv
  BY DEF QueueInit, Init, ClickInv, Clicked, At
<1>2. Spec => []ServiceInv
  BY Moving DEF ServiceInv
<1> QED
  BY <1>1, <1>2, ClickKeeps, QueueServes, PTL DEF QueueSpec

\* Whoever is told "Updated." moved the lead himself, from the state the row
\* showed to the one on the button, and whoever is told that it was there
\* already finds the move in the trail, however old the page was.
THEOREM TellsTruth == QueueSpec => []ToldTheTruth
<1>1. ServiceInv /\ ClickInv => ToldTheTruth
  <2> SUFFICES ASSUME ServiceInv, ClickInv, NEW r \in Clicks \cap Changes
      PROVE  LET t == trail[click[r].lead] IN
             /\ told[r] = "ok" => \E i \in EntriesBy(r, click[r].lead), k \in DOMAIN t :
                  /\ LastMove(t, i - 1, k) /\ t[k].to_state = click[r].state
                  /\ t[i].to_state = click[r].target
             /\ told[r] = "already" => MovedTo(click[r].lead, click[r].target)
    BY DEF ToldTheTruth
  <2>1. Clicked(r) /\ r \in Request /\ Told(r) /\ Moved(r)
    BY DEF ServiceInv, ClickInv
  <2>2. ASSUME told[r] = "already" PROVE MovedTo(click[r].lead, click[r].target)
    BY <2>1, <2>2 DEF Clicked, Moved, Told, Refusals, At
  <2>3. ASSUME told[r] = "ok"
        PROVE  \E i \in EntriesBy(r, click[r].lead), k \in DOMAIN trail[click[r].lead] :
                 /\ LastMove(trail[click[r].lead], i - 1, k)
                 /\ trail[click[r].lead][k].to_state = click[r].state
                 /\ trail[click[r].lead][i].to_state = click[r].target
    <3> DEFINE l == click[r].lead
               t == trail[l]
    <3>1. reply[r] = "ok" /\ ~At(r, "idle")
      BY <2>1, <2>3 DEF Clicked, Told, At
    <3>2. on[r] = l /\ want[r] = click[r].target /\ click[r].target \in NEXT_ACTION(click[r].state)
      BY <2>1, <3>1 DEF Clicked
    <3>3. l \in Lead /\ Exists(l)
      BY <3>1, <3>2 DEF ServiceInv, WinnerInv, Won
    <3>4. EntriesBy(r, l) # {}
      BY <2>1, <3>1, <3>2, <3>3 DEF Told
    <3>5. PICK i \in EntriesBy(r, l) : TRUE
      BY <3>4
    <3>6. t[i].from_state \in LeadStates /\ Moves(t[i]) /\ t[i].to_state = click[r].target
      BY <2>1, <3>2, <3>3 DEF Moved
    <3>7. t \in Seq(LeadEvent) /\ i \in 1..Len(t) /\ Len(t) \in Nat
      BY <3>3 DEF EntriesBy, ServiceInv, IInv, TypeOK, RowsTypeOK
    <3>8. t[1].from_state = None /\ MoveChain(t)
      BY <3>3 DEF ServiceInv, TrailAgrees
    <3>9. i \in 2..Len(t)
      BY <3>6, <3>7, <3>8
    <3>10. PICK k \in 1..(i - 1) : LastMove(t, i - 1, k) /\ t[k].to_state = t[i].from_state
      BY <3>6, <3>8, <3>9 DEF MoveChain
    <3>11. rule_for(t[i].from_state, t[i].to_state) # {}
      BY <3>6, <3>8, <3>9 DEF MoveChain
    <3>12. t[i].from_state = click[r].state
      BY <3>2, <3>6, <3>11 DEF NEXT_ACTION, rule_for, TRANSITIONS
    <3>13. k \in DOMAIN t
      BY <3>7, <3>10
    <3> QED
      BY <3>5, <3>6, <3>10, <3>12, <3>13
  <2> QED
    BY <2>2, <2>3
<1> QED
  BY <1>1, Clicking, PTL
=============================================================================
