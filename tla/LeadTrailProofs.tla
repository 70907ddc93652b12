--------------------------- MODULE LeadTrailProofs ---------------------------
(***************************************************************************)
(* Proofs about the audit trail as a history of the row: every mail can be *)
(* justified from it, and it replays to the row's two columns.             *)
(***************************************************************************)
EXTENDS LeadServiceSafety

USE RequestsAssumption, NoneAssumption

-----------------------------------------------------------------------------
(***************************************************************************)
(* Mail                                                                    *)
(***************************************************************************)

\* The trail is append-only.
LEMMA TrailGrows ==
  ASSUME IInv, NEW r \in Request, Act(r), NEW l \in Lead, NEW i \in DOMAIN trail[l]
  PROVE  i \in DOMAIN trail'[l] /\ trail'[l][i] = trail[l][i]
<1>1. trail \in [Lead -> Seq(LeadEvent)]
  BY DEF IInv, TypeOK, RowsTypeOK
<1>2. CASE UNCHANGED trail
  BY <1>2
<1>3. CASE Appends(r, Event(r))
  <2>1. trail'[l] = IF l = on[r] THEN Append(trail[l], Event(r)) ELSE trail[l]
    BY <1>1, <1>3 DEF Appends
  <2>2. trail[l] \in Seq(LeadEvent) /\ Event(r) \in LeadEvent
    BY <1>1, <1>3 DEF Appends
  <2> QED
    BY <2>1, <2>2
<1> QED
  BY <1>2, <1>3, TrailOfStep

\* The entry r appends is the last of its lead's trail.
LEMMA LastEntry ==
  ASSUME IInv, NEW r, Appends(r, Event(r))
  PROVE  LET n == Len(trail'[on[r]]) IN n \in DOMAIN trail'[on[r]] /\ trail'[on[r]][n] = Event(r)
<1>1. trail \in [Lead -> Seq(LeadEvent)] /\ on[r] \in Lead /\ Event(r) \in LeadEvent
  BY DEF IInv, TypeOK, RowsTypeOK, Appends
<1>2. trail'[on[r]] = Append(trail[on[r]], Event(r)) /\ trail[on[r]] \in Seq(LeadEvent)
  BY <1>1 DEF Appends
<1> QED
  BY <1>1, <1>2

\* Once the trail has moved a lead to s, or holds an entry of a request, it does so for good.
LEMMA HistoryStays ==
  ASSUME IInv, NEW r \in Request, Act(r), NEW l \in Lead
  PROVE  /\ \A s : MovedTo(l, s) =>
              \E i \in DOMAIN trail'[l] : Moves(trail'[l][i]) /\ trail'[l][i].to_state = s
         /\ \A q : EntriesBy(q, l) # {} => EntriesBy(q, l)' # {}
  BY TrailGrows DEF MovedTo, EntriesBy, Moves

LEMMA StateIsMovedTo ==
  ASSUME IInv, MailInv, NEW r \in Request, Act(r), NEW l \in Lead, leadState'[l] # "absent"
  PROVE  MovedTo(l, leadState[l])'
<1>1. CASE leadState'[l] = leadState[l]
  <2>1. MovedTo(l, leadState[l])
    BY <1>1 DEF MailInv, Exists
  <2> QED
    BY <1>1, <2>1, HistoryStays DEF MovedTo
<1>2. CASE leadState'[l] # leadState[l]
  <2>1. Appends(r, Event(r)) /\ Enters(r) /\ l = on[r] /\ r \notin Assigns
    BY <1>2, TrailOfStep DEF Enters
  <2>2. leadState[l] \in LeadStates \cup {"absent"}
    BY DEF IInv, TypeOK, RowsTypeOK
  <2>3. Event(r).from_state # Event(r).to_state /\ Event(r).to_state = leadState'[l]
    BY <1>2, <2>1, <2>2 DEF Enters, Creation, StateEvent, LeadStates
  <2> QED
    BY <2>1, <2>3, LastEntry DEF MovedTo, Moves
<1> QED
  BY <1>1, <1>2

LEMMA MailKeeps ==
  ASSUME IInv, \A q \in Request : Told(q), MailInv, MailIsTruthful, [Next]_vars
  PROVE  MailInv' /\ MailIsTruthful'
<1>1. CASE UNCHANGED vars
  BY <1>1 DEF MailInv, MailIsTruthful, MovedTo, EntriesBy, Exists, At, Moves, vars, db, local
<1>2. CASE Next
  <2>1. PICK r \in Request : Act(r)
    BY <1>2 DEF Next, Act
  <2>2. \A l \in Lead : leadState'[l] # "absent" => MovedTo(l, leadState[l])'
    BY <2>1, StateIsMovedTo
  <2>3. ASSUME NEW s \in Changes, pc'[s] = "mailing" PROVE MovedTo(on[s], lead[s].state)'
    <3>1. CASE RefreshChanged(s)
      <4>1. on'[s] = on[s] /\ on[s] \in Lead /\ Exists(on[s]) /\ UNCHANGED <<leadState, trail>>
        BY <3>1 DEF RefreshChanged, At, IInv, RequestInv, LockInv, ChangeInv, db
      <4>2. lead'[s].state = leadState[on[s]]
        BY <3>1 DEF RefreshChanged, get, IInv, TypeOK, HandlersTypeOK
      <4> QED
        BY <4>1, <4>2 DEF MailInv, MovedTo
    <3>2. CASE ~RefreshChanged(s)
      <4>1. pc[s] = "mailing" /\ on'[s] = on[s] /\ lead'[s] = lead[s]
        <5>1. CASE s # r
          BY <2>1, <2>3, <5>1, ActAlone
        <5>2. CASE s = r
          BY <2>1, <2>3, <3>2, <5>2 DEF Act, Arrive, ReadForChange, Proceed, UpdateState, StateLost,
             CommitUpdate, SendMail, Fail, WriteFails, RefreshFails, Die, Goto, Finish, At,
             IInv, TypeOK, HandlersTypeOK
        <5> QED
          BY <5>1, <5>2
      <4>2. on[s] \in Lead /\ MovedTo(on[s], lead[s].state)
        BY <4>1 DEF MailInv, At, IInv, RequestInv, LockInv
      <4> QED
        BY <2>1, <4>1, <4>2, HistoryStays DEF MovedTo
    <3> QED
      BY <3>1, <3>2
  <2>4. ASSUME NEW m \in sent'
        PROVE  /\ leadState'[m.lead] # "absent" /\ EntriesBy(m.by, m.lead)' # {}
               /\ m.kind = "status" => MovedTo(m.lead, m.state)'
    <3>1. /\ m.lead \in Lead /\ leadState[m.lead] # "absent" /\ EntriesBy(m.by, m.lead) # {}
          /\ m.kind = "status" => MovedTo(m.lead, m.state)
      <4>1. CASE m \in sent
        BY <4>1 DEF MailIsTruthful, MovedTo, Exists, IInv, TypeOK, OutsideTypeOK, Mails
      <4>2. CASE m \notin sent
        <5>1. /\ SendMail(r) /\ m.by = r /\ m.lead = on[r] /\ m.state = lead[r].state
              /\ m.kind = "status" => r \in Changes /\ At(r, "mailing")
          BY <2>1, <2>4, <4>2, MailsOfStep
        <5>2. pc[r] \in {"mailing", "notifying"}
          BY <5>1 DEF SendMail, At
        <5>3. on[r] \in Lead /\ Exists(on[r])
          BY <5>2 DEF IInv, RequestInv, LockInv, CreateInv, ChangeInv, AssignInv
        <5>4. EntriesBy(r, on[r]) # {}
          BY <5>2 DEF Told
        <5> QED
          BY <5>1, <5>3, <5>4 DEF MailInv, Exists
      <4> QED
        BY <4>1, <4>2
    <3>2. leadState'[m.lead] # "absent"
      BY <3>1, LeadsAdvance DEF Exists
    <3> QED
      BY <2>1, <3>1, <3>2, HistoryStays DEF MovedTo
  <2> QED
    BY <2>2, <2>3, <2>4 DEF MailInv, MailIsTruthful, MovedTo, Exists, At
<1> QED
  BY <1>1, <1>2

\* R1: no mail runs ahead of its commit, through any crash or failure.
THEOREM Truthful == Spec => []MailIsTruthful
<1> DEFINE Replied == \A r \in Request : Told(r)
<1>1. Init => MailInv /\ MailIsTruthful
  BY DEF Init, MailInv, MailIsTruthful, MovedTo, Moves, Creation, Exists, At, LeadStates
<1>2. Init => Replied
  BY DEF Init, Told, EntriesBy, Creation, At, Refusals
<1>3. IInv /\ Replied /\ [Next]_vars => Replied'
  BY ToldKeeps
<1>4. IInv /\ Replied /\ MailInv /\ MailIsTruthful /\ [Next]_vars => MailInv' /\ MailIsTruthful'
  BY MailKeeps
<1> HIDE DEF Replied
<1> QED
  BY <1>1, <1>2, <1>3, <1>4, Invariance, PTL DEF Spec

-----------------------------------------------------------------------------
(***************************************************************************)
(* Replaying the trail                                                     *)
(***************************************************************************)

\* The state the last move of t leads to; the owner its last handover names.
MovesEndIn(t, s) == \E i \in 1..Len(t) : LastMove(t, Len(t), i) /\ t[i].to_state = s
HandsEndIn(t, o) == \E i \in 1..Len(t) : LastHand(t, Len(t), i) /\ t[i].to_assignee = o

\* Appending an entry that starts where the last move ended, or moves nothing,
\* extends the chain of moves.
LEMMA MoveChainGrows ==
  ASSUME NEW t \in Seq(LeadEvent), NEW e \in LeadEvent, NEW s, MoveChain(t),
         MovesEndIn(t, s),
         Moves(e) => e.from_state = s /\ rule_for(e.from_state, e.to_state) # {}
  PROVE  /\ MoveChain(Append(t, e))
         /\ MovesEndIn(Append(t, e), IF Moves(e) THEN e.to_state ELSE s)
<1> DEFINE u == Append(t, e)
           n == Len(t)
<1>1. /\ n \in Nat /\ Len(u) = n + 1 /\ u[n + 1] = e
      /\ \A i \in 1..n : u[i] = t[i]
  OBVIOUS
<1>2. PICK i \in 1..n : LastMove(t, n, i) /\ t[i].to_state = s
  BY DEF MovesEndIn
<1> HIDE DEF u, n
<1>3. ASSUME NEW m \in 0..n, NEW k \in 1..m PROVE LastMove(u, m, k) <=> LastMove(t, m, k)
  <2>1. \A x \in 1..m : u[x] = t[x]
    BY <1>1
  <2>2. (k + 1)..m \subseteq 1..m
    BY <1>1
  <2> QED
    BY <2>1, <2>2 DEF LastMove
<1>4. ASSUME NEW j \in 2..(n + 1), Moves(u[j])
      PROVE  /\ \E k \in 1..(j - 1) : LastMove(u, j - 1, k) /\ u[k].to_state = u[j].from_state
             /\ rule_for(u[j].from_state, u[j].to_state) # {}
  <2>1. CASE j \in 2..n
    <3>1. /\ \E k \in 1..(j - 1) : LastMove(t, j - 1, k) /\ t[k].to_state = t[j].from_state
          /\ rule_for(t[j].from_state, t[j].to_state) # {}
      BY <1>1, <1>4, <2>1 DEF MoveChain, n
    <3>2. PICK k \in 1..(j - 1) : LastMove(t, j - 1, k) /\ t[k].to_state = t[j].from_state
      BY <3>1
    <3>3. j - 1 \in 0..n /\ u[j] = t[j] /\ u[k] = t[k]
      BY <1>1, <2>1
    <3>4. LastMove(u, j - 1, k)
      BY <1>3, <3>2, <3>3
    <3> QED
      BY <3>1, <3>2, <3>3, <3>4
  <2>2. CASE j = n + 1
    <3>1. j - 1 = n /\ i < j /\ Moves(e)
      BY <1>1, <1>4, <2>2
    <3>2. LastMove(u, j - 1, i) /\ u[i] = t[i] /\ u[j] = e
      BY <1>1, <1>2, <1>3, <2>2, <3>1
    <3> QED
      BY <1>1, <1>2, <2>2, <3>1, <3>2
  <2> QED
    BY <1>1, <2>1, <2>2
<1>5. \E k \in 1..(n + 1) : LastMove(u, n + 1, k)
                            /\ u[k].to_state = IF Moves(e) THEN e.to_state ELSE s
  <2>1. CASE Moves(e)
    BY <1>1, <2>1 DEF LastMove
  <2>2. CASE ~Moves(e)
    BY <1>1, <1>2, <2>2 DEF LastMove
  <2> QED
    BY <2>1, <2>2
<1> QED
  BY <1>1, <1>4, <1>5 DEF MoveChain, MovesEndIn, u

\* The same for handovers.
LEMMA HandChainGrows ==
  ASSUME NEW t \in Seq(LeadEvent), NEW e \in LeadEvent, NEW o, HandChain(t),
         HandsEndIn(t, o),
         Hands(e) => e.from_assignee = o /\ e.from_assignee # e.to_assignee
  PROVE  /\ HandChain(Append(t, e))
         /\ HandsEndIn(Append(t, e), IF Hands(e) THEN e.to_assignee ELSE o)
<1> DEFINE u == Append(t, e)
           n == Len(t)
<1>1. /\ n \in Nat /\ Len(u) = n + 1 /\ u[n + 1] = e
      /\ \A i \in 1..n : u[i] = t[i]
  OBVIOUS
<1>2. PICK i \in 1..n : LastHand(t, n, i) /\ t[i].to_assignee = o
  BY DEF HandsEndIn
<1> HIDE DEF u, n
<1>3. ASSUME NEW m \in 0..n, NEW k \in 1..m PROVE LastHand(u, m, k) <=> LastHand(t, m, k)
  <2>1. \A x \in 1..m : u[x] = t[x]
    BY <1>1
  <2>2. (k + 1)..m \subseteq 1..m
    BY <1>1
  <2> QED
    BY <2>1, <2>2 DEF LastHand
<1>4. ASSUME NEW j \in 2..(n + 1), Hands(u[j])
      PROVE  /\ \E k \in 1..(j - 1) : LastHand(u, j - 1, k) /\ u[k].to_assignee = u[j].from_assignee
             /\ u[j].from_assignee # u[j].to_assignee
  <2>1. CASE j \in 2..n
    <3>1. /\ \E k \in 1..(j - 1) : LastHand(t, j - 1, k) /\ t[k].to_assignee = t[j].from_assignee
          /\ t[j].from_assignee # t[j].to_assignee
      BY <1>1, <1>4, <2>1 DEF HandChain, n
    <3>2. PICK k \in 1..(j - 1) : LastHand(t, j - 1, k) /\ t[k].to_assignee = t[j].from_assignee
      BY <3>1
    <3>3. j - 1 \in 0..n /\ u[j] = t[j] /\ u[k] = t[k]
      BY <1>1, <2>1
    <3>4. LastHand(u, j - 1, k)
      BY <1>3, <3>2, <3>3
    <3> QED
      BY <3>1, <3>2, <3>3, <3>4
  <2>2. CASE j = n + 1
    <3>1. j - 1 = n /\ i < j /\ Hands(e)
      BY <1>1, <1>4, <2>2
    <3>2. LastHand(u, j - 1, i) /\ u[i] = t[i] /\ u[j] = e
      BY <1>1, <1>2, <1>3, <2>2, <3>1
    <3> QED
      BY <1>1, <1>2, <2>2, <3>1, <3>2
  <2> QED
    BY <1>1, <2>1, <2>2
<1>5. \E k \in 1..(n + 1) : LastHand(u, n + 1, k)
                            /\ u[k].to_assignee = IF Hands(e) THEN e.to_assignee ELSE o
  <2>1. CASE Hands(e)
    BY <1>1, <2>1 DEF LastHand
  <2>2. CASE ~Hands(e)
    BY <1>1, <1>2, <2>2 DEF LastHand
  <2> QED
    BY <2>1, <2>2
<1> QED
  BY <1>1, <1>4, <1>5 DEF HandChain, HandsEndIn, u

\* TrailAgrees of one trail t, whose lead is in state s and owned by o.
Replays(t, s, o) ==
  /\ t # << >> /\ t[1].from_state = None /\ t[1].to_state = "PENDING"
  /\ MoveChain(t) /\ HandChain(t)
  /\ MovesEndIn(t, s)
  /\ HandsEndIn(t, o)

LEMMA CreationReplays ==
  ASSUME NEW owner, NEW actor
  PROVE  Replays(<<Creation(owner, actor)>>, "PENDING", owner)
<1> DEFINE t == <<Creation(owner, actor)>>
<1>1. Len(t) = 1 /\ t[1] = Creation(owner, actor) /\ t # << >>
  OBVIOUS
<1>2. /\ t[1].from_state = None /\ t[1].to_state = "PENDING" /\ t[1].to_assignee = owner
      /\ Moves(t[1]) /\ Hands(t[1])
  BY <1>1 DEF Creation, Moves, Hands, LeadStates
<1> HIDE DEF t
<1>3. MoveChain(t) /\ HandChain(t)
  BY <1>1 DEF MoveChain, HandChain
<1>4. LastMove(t, Len(t), 1) /\ LastHand(t, Len(t), 1)
  BY <1>1, <1>2 DEF LastMove, LastHand
<1> QED
  BY <1>1, <1>2, <1>3, <1>4 DEF Replays, MovesEndIn, HandsEndIn, t

LEMMA AppendReplays ==
  ASSUME NEW t \in Seq(LeadEvent), NEW e \in LeadEvent, NEW s, NEW o, Replays(t, s, o),
         Moves(e) => e.from_state = s /\ rule_for(e.from_state, e.to_state) # {},
         Hands(e) => e.from_assignee = o /\ e.from_assignee # e.to_assignee
  PROVE  Replays(Append(t, e), IF Moves(e) THEN e.to_state ELSE s, IF Hands(e) THEN e.to_assignee ELSE o)
<1>1. /\ MoveChain(Append(t, e))
      /\ MovesEndIn(Append(t, e), IF Moves(e) THEN e.to_state ELSE s)
  BY MoveChainGrows DEF Replays
<1>2. /\ HandChain(Append(t, e))
      /\ HandsEndIn(Append(t, e), IF Hands(e) THEN e.to_assignee ELSE o)
  BY HandChainGrows DEF Replays
<1>3. Append(t, e) # << >> /\ Append(t, e)[1] = t[1]
  BY DEF Replays
<1> QED
  BY <1>1, <1>2, <1>3 DEF Replays

LEMMA TrailMeans == TrailAgrees <=> \A l \in Lead : Exists(l) => Replays(trail[l], leadState[l], assignedTo[l])
  BY DEF TrailAgrees, Replays, MovesEndIn, HandsEndIn

LEMMA CommitReplays ==
  ASSUME IInv, TrailAgrees, NEW r \in Request, Appends(r, Event(r)), Enters(r)
  PROVE  Replays(trail'[on[r]], leadState'[on[r]], assignedTo'[on[r]])
<1> DEFINE l == on[r]
           e == Event(r)
<1>1. /\ l \in Lead /\ e \in LeadEvent /\ trail[l] \in Seq(LeadEvent)
      /\ trail'[l] = Append(trail[l], e)
      /\ leadState[l] \in LeadStates \cup {"absent"}
  BY DEF Appends, IInv, TypeOK, RowsTypeOK
<1>2. Exists(l) => Replays(trail[l], leadState[l], assignedTo[l])
  BY <1>1, TrailMeans
<1>3. CASE r \in Creates
  <2>1. trail[l] = << >> /\ leadState'[l] = "PENDING" /\ e = Creation(assignedTo'[l], r)
    BY <1>1, <1>3 DEF Enters, IInv, RowInv
  <2>2. trail'[l] = <<Creation(assignedTo'[l], r)>>
    BY <1>1, <2>1
  <2> QED
    BY <2>1, <2>2, CreationReplays
<1>4. CASE r \in Changes
  <2>1. /\ Exists(l) /\ assignedTo'[l] = assignedTo[l]
        /\ e = StateEvent(leadState[l], leadState'[l], r)
        /\ rule_for(leadState[l], leadState'[l]) # {}
    BY <1>4 DEF Enters
  <2>2. leadState[l] # leadState'[l] /\ leadState[l] # None
    BY <1>1, <2>1 DEF rule_for, TRANSITIONS, Exists
  <2>3. /\ e.from_state = leadState[l] /\ e.to_state = leadState'[l]
        /\ Moves(e) /\ ~Hands(e)
    BY <2>1, <2>2 DEF StateEvent, Moves, Hands
  <2> HIDE DEF l, e
  <2> QED
    BY <1>1, <1>2, <2>1, <2>3, AppendReplays DEF l
<1>5. CASE r \in Assigns
  <2>1. /\ Exists(l) /\ leadState'[l] = leadState[l] /\ assignedTo'[l] # assignedTo[l]
        /\ \E s \in LeadStates : e = OwnerEvent(s, assignedTo[l], assignedTo'[l], r)
    BY <1>5 DEF Enters
  <2>2. /\ e.from_assignee = assignedTo[l] /\ e.to_assignee = assignedTo'[l]
        /\ ~Moves(e) /\ Hands(e)
    BY <2>1 DEF OwnerEvent, Moves, Hands
  <2> HIDE DEF l, e
  <2> QED
    BY <1>1, <1>2, <2>1, <2>2, AppendReplays DEF l
<1> QED
  BY <1>3, <1>4, <1>5

LEMMA TrailKeeps == IInv /\ TrailAgrees /\ [Next]_vars => TrailAgrees'
<1> SUFFICES ASSUME IInv, TrailAgrees, [Next]_vars,
                    NEW l \in Lead, leadState'[l] # "absent"
             PROVE  Replays(trail'[l], leadState'[l], assignedTo'[l])
  BY DEF TrailAgrees, Replays, MovesEndIn, HandsEndIn, Exists
<1>1. Exists(l) => Replays(trail[l], leadState[l], assignedTo[l])
  BY TrailMeans
<1>2. CASE leadState'[l] = leadState[l] /\ assignedTo'[l] = assignedTo[l] /\ trail'[l] = trail[l]
  BY <1>1, <1>2 DEF Exists
<1>3. CASE Next
  <2>1. PICK r \in Request : Act(r)
    BY <1>3 DEF Next, Act
  <2>2. CASE Appends(r, Event(r)) /\ Enters(r)
    <3>1. CASE l = on[r]
      BY <2>2, <3>1, CommitReplays
    <3>2. CASE l # on[r]
      BY <1>2, <2>2, <3>2 DEF Appends, Enters, IInv, TypeOK, RowsTypeOK
    <3> QED
      BY <3>1, <3>2
  <2> QED
    BY <1>2, <2>1, <2>2, TrailOfStep
<1> QED
  BY <1>2, <1>3 DEF vars, db

\* SEC9, for any number of requests racing over a lead and failing: its trail
\* replays to its state and its owner.
THEOREM Agreement == Spec => []TrailAgrees
<1>1. Init => TrailAgrees
  <2> SUFFICES ASSUME Init, NEW l \in Lead, Exists(l)
               PROVE  Replays(trail[l], leadState[l], assignedTo[l])
    BY TrailMeans
  <2>1. leadState[l] = "PENDING" /\ trail[l] = <<Creation(assignedTo[l], None)>>
    BY DEF Init, Exists
  <2> QED
    BY <2>1, CreationReplays
<1>2. IInv /\ TrailAgrees /\ [Next]_vars => TrailAgrees'
  BY TrailKeeps
<1> QED
  BY <1>1, <1>2, Invariance, PTL DEF Spec
-----------------------------------------------------------------------------
(***************************************************************************)
(* The state a status mail names                                           *)
(***************************************************************************)

\* Once it has arrived a request keeps its lead and what it asks for.
LEMMA WantStays ==
  ASSUME IInv, [Next]_vars, NEW r \in Request, ~At(r, "idle")
  PROVE  on'[r] = on[r] /\ want'[r] = want[r] /\ ~At(r, "idle")'
<1>1. CASE UNCHANGED vars
  BY <1>1 DEF vars, local, At
<1>2. CASE Next
  <2>1. PICK q \in Request : Act(q)
    BY <1>2 DEF Next, Act
  <2>2. CASE q # r
    BY <2>1, <2>2, ActAlone DEF At
  <2>3. CASE q = r
    <3>1. pc \in [Request -> Labels] /\ want \in [Request -> LeadStates \cup Owner]
      BY DEF IInv, TypeOK, HandlersTypeOK
    <3> QED
      BY <2>1, <2>3, <3>1 DEF Act, Arrive, TurnAway, SaveResume, SaveFails, ReadForChange,
         ReadForAssign, Proceed, choose_assignee, InsertLead, CompensatingDelete, RefreshCreated,
         UpdateState, StateLost, RefreshChanged, UpdateAssignee, OwnerLost, RefreshAssigned,
         CommitUpdate, SendMail, Fail, ChooseFails, InsertFails, WriteFails, RefreshFails, Die,
         Goto, Finish, At
  <2> QED
    BY <2>2, <2>3
<1> QED
  BY <1>1, <1>2

\* The states that some edge of the table enters.
Entered == {"REACHED_OUT", "QUALIFIED"}

\* A change that will mail asked for a state with an edge into it, and its
\* refreshed instance is there or beyond; so is every mail that went out.
CurrentInv ==
  /\ \A r \in Changes : pc[r] \in {"committed", "mailing"} => want[r] \in Entered
  /\ \A r \in Changes : At(r, "mailing") => Rank(want[r]) <= Rank(lead[r].state)
  /\ \A m \in sent : pc[m.by] # "idle"
  /\ StatusMailIsCurrent

LEMMA Onward ==
  ASSUME NEW s \in Entered, NEW t \in LeadStates, Rank(s) <= Rank(t)
  PROVE  t = s \/ rule_for(s, t) # {}
<1> USE DEF Rank, Entered, LeadStates
<1>1. CASE s = "REACHED_OUT" /\ t = "QUALIFIED"
  <2> DEFINE rule == [from |-> "REACHED_OUT", to |-> "QUALIFIED", notify_prospect |-> TRUE]
  <2>1. rule \in TRANSITIONS /\ rule.from = s /\ rule.to = t
    BY <1>1 DEF TRANSITIONS
  <2> QED
    BY <2>1 DEF rule_for
<1> QED
  BY <1>1

LEMMA CurrentKeeps == IInv /\ WinnerInv /\ CurrentInv /\ [Next]_vars => CurrentInv'
<1> SUFFICES ASSUME IInv, WinnerInv, CurrentInv, [Next]_vars PROVE CurrentInv'
  OBVIOUS
<1>1. CASE UNCHANGED vars
  BY <1>1 DEF CurrentInv, StatusMailIsCurrent, At, vars, db, local
<1>2. CASE Next
  <2>1. PICK r \in Request : Act(r)
    BY <1>2 DEF Next, Act
  <2>2. ASSUME NEW s \in Changes, pc'[s] \in {"committed", "mailing"}
        PROVE  /\ want'[s] \in Entered
               /\ pc'[s] = "mailing" => Rank(want'[s]) <= Rank(lead'[s].state)
    <3>1. s \in Request /\ s \notin Creates /\ s \notin Assigns
      OBVIOUS
    <3>2. CASE s # r
      BY <2>1, <2>2, <3>1, <3>2, ActAlone DEF CurrentInv, At
    <3>3. CASE s = r /\ At(s, "updated")
      <4>1. CommitUpdate(s) /\ want[s] \in LeadStates /\ rule_for(lead[s].state, want[s]) # {}
        BY <2>1, <2>2, <3>1, <3>3 DEF Act, Arrive, ReadForChange, Proceed, UpdateState,
           RefreshChanged, SendMail, Fail, WriteFails, RefreshFails, Die, Goto, Finish, At,
           IInv, TypeOK, HandlersTypeOK, RequestInv, ChangeInv
      <4> QED
        BY <3>1, <4>1 DEF CommitUpdate, Goto, IInv, TypeOK, HandlersTypeOK, rule_for, TRANSITIONS,
           Entered
    <3>4. CASE s = r /\ RefreshChanged(s)
      <4>1. /\ Won(s) /\ want[s] \in Entered /\ on[s] \in Lead
            /\ Rank(want[s]) <= Rank(leadState[on[s]])
        BY <3>4 DEF RefreshChanged, At, Won, WinnerInv, CurrentInv
      <4>2. lead'[s].state = leadState[on[s]] /\ want' = want
        BY <3>1, <3>4 DEF RefreshChanged, get, IInv, TypeOK, HandlersTypeOK
      <4> QED
        BY <4>1, <4>2
    <3>5. CASE s = r /\ ~At(s, "updated") /\ ~RefreshChanged(s)
      BY <2>1, <2>2, <3>1, <3>5 DEF Act, Arrive, ReadForChange, Proceed, UpdateState, StateLost,
         CommitUpdate, SendMail, Fail, WriteFails, RefreshFails, Die, Goto, Finish, At,
         IInv, TypeOK, HandlersTypeOK
    <3> QED
      BY <3>2, <3>3, <3>4, <3>5
  <2>3. ASSUME NEW m \in sent'
        PROVE  /\ pc'[m.by] # "idle"
               /\ m.kind = "status" => m.state = want'[m.by] \/ rule_for(want'[m.by], m.state) # {}
    <3>1. CASE m \in sent
      <4>1. m.by \in Request /\ pc[m.by] # "idle"
        BY <3>1 DEF CurrentInv, IInv, TypeOK, OutsideTypeOK, Mails
      <4> QED
        BY <3>1, <4>1, WantStays DEF CurrentInv, StatusMailIsCurrent, At
    <3>2. CASE m \notin sent
      <4>1. /\ SendMail(r) /\ m.by = r /\ m.state = lead[r].state
            /\ m.kind = "status" => r \in Changes /\ At(r, "mailing")
        BY <2>1, <2>3, <3>2, MailsOfStep
      <4>2. pc[r] # "idle" /\ lead[r].state \in LeadStates
        BY <4>1 DEF SendMail, At, IInv, TypeOK, HandlersTypeOK, Row
      <4>3. want'[r] = want[r] /\ pc'[r] # "idle"
        BY <4>2, WantStays DEF At
      <4>4. m.kind = "status" => want[r] \in Entered /\ Rank(want[r]) <= Rank(lead[r].state)
        BY <4>1 DEF CurrentInv, At
      <4> QED
        BY <4>1, <4>2, <4>3, <4>4, Onward
    <3> QED
      BY <3>1, <3>2
  <2> QED
    BY <2>2, <2>3 DEF CurrentInv, StatusMailIsCurrent, At
<1> QED
  BY <1>1, <1>2

\* What finding 2 leaves standing: the mail of a change may be ahead of the change,
\* and so a double, but it never falls behind.
THEOREM MailCurrent == Spec => []StatusMailIsCurrent
<1>1. Init => WinnerInv /\ CurrentInv
  BY DEF Init, WinnerInv, Won, CurrentInv, StatusMailIsCurrent, At
<1>2. IInv /\ WinnerInv /\ [Next]_vars => WinnerInv'
  BY WinnerKeeps
<1>3. IInv /\ WinnerInv /\ CurrentInv /\ [Next]_vars => CurrentInv'
  BY CurrentKeeps
<1>4. CurrentInv => StatusMailIsCurrent
  BY DEF CurrentInv
<1> QED
  BY <1>1, <1>2, <1>3, <1>4, Invariance, PTL DEF Spec

-----------------------------------------------------------------------------
(***************************************************************************)
(* The states a timeline shows                                             *)
(***************************************************************************)

\* What an assignment has read of its lead's state had been reached.
ReadInv ==
  \A r \in Assigns : pc[r] \in {"loaded", "updated"} => MovedTo(on[r], lead[r].state)

LEMMA ReadKeeps == IInv /\ MailInv /\ ReadInv /\ [Next]_vars => ReadInv'
<1> SUFFICES ASSUME IInv, MailInv, ReadInv, [Next]_vars,
                    NEW r \in Assigns, pc'[r] \in {"loaded", "updated"}
             PROVE  MovedTo(on[r], lead[r].state)'
  BY DEF ReadInv
<1>0. r \in Request /\ r \notin Creates /\ r \notin Changes
  OBVIOUS
<1>1. CASE UNCHANGED vars
  BY <1>1 DEF ReadInv, MovedTo, Moves, vars, db, local
<1>2. CASE Next
  <2>1. PICK q \in Request : Act(q)
    BY <1>2 DEF Next, Act
  <2>2. CASE q = r /\ ReadForAssign(r)
    <3>1. /\ on \in [Request -> Lead \cup {None}] /\ lead \in [Request -> Row]
          /\ pc \in [Request -> Labels]
      BY DEF IInv, TypeOK, HandlersTypeOK
    <3>2. PICK l \in Lead : /\ on' = [on EXCEPT ![r] = l] /\ UNCHANGED trail
                            /\ Exists(l) /\ lead' = [lead EXCEPT ![r] = get(l)]
      BY <1>0, <2>2, <3>1 DEF ReadForAssign, Finish, db
    <3>3. on'[r] = l /\ lead'[r].state = leadState[l]
      BY <1>0, <3>1, <3>2 DEF get
    <3>4. MovedTo(l, leadState[l])
      BY <3>2 DEF MailInv
    <3> QED
      BY <3>2, <3>3, <3>4 DEF MovedTo
  <2>3. CASE ~(q = r /\ ReadForAssign(r))
    <3>1. pc[r] \in {"loaded", "updated"} /\ on'[r] = on[r] /\ lead'[r] = lead[r]
      <4>1. CASE q # r
        BY <1>0, <2>1, <4>1, ActAlone
      <4>2. CASE q = r
        BY <1>0, <2>1, <2>3, <4>2 DEF Act, Arrive, Proceed, UpdateAssignee, OwnerLost,
           RefreshAssigned, CommitUpdate, SendMail, Fail, WriteFails, RefreshFails, Die,
           Goto, Finish, At, IInv, TypeOK, HandlersTypeOK
      <4> QED
        BY <4>1, <4>2
    <3>2. on[r] \in Lead /\ MovedTo(on[r], lead[r].state)
      BY <1>0, <3>1 DEF ReadInv, IInv, RequestInv, LockInv
    <3> QED
      BY <2>1, <3>1, <3>2, HistoryStays DEF MovedTo
  <2> QED
    BY <2>2, <2>3
<1> QED
  BY <1>1, <1>2

\* An entry's state is one that an entry up to it moved the lead to.
Happened(t) ==
  \A i \in DOMAIN t : \E k \in 1..i : Moves(t[k]) /\ t[k].to_state = t[i].to_state

LEMMA HappenedGrows ==
  ASSUME NEW t \in Seq(LeadEvent), NEW e \in LeadEvent, Happened(t),
         Moves(e) \/ \E k \in DOMAIN t : Moves(t[k]) /\ t[k].to_state = e.to_state
  PROVE  Happened(Append(t, e))
<1> DEFINE u == Append(t, e)
           n == Len(t)
<1>1. /\ n \in Nat /\ DOMAIN t = 1..n /\ DOMAIN u = 1..(n + 1) /\ u[n + 1] = e
      /\ \A i \in 1..n : u[i] = t[i]
  OBVIOUS
<1> HIDE DEF u, n
<1> SUFFICES ASSUME NEW i \in 1..(n + 1)
             PROVE  \E k \in 1..i : Moves(u[k]) /\ u[k].to_state = u[i].to_state
  BY <1>1 DEF Happened, u
<1>2. CASE i = n + 1 /\ Moves(e)
  BY <1>1, <1>2
<1>3. CASE i = n + 1 /\ ~Moves(e)
  <2>1. PICK k \in 1..n : Moves(t[k]) /\ t[k].to_state = e.to_state
    BY <1>1, <1>3
  <2>2. k \in 1..i /\ u[k] = t[k] /\ u[i] = e
    BY <1>1, <1>3
  <2> QED
    BY <2>1, <2>2
<1>4. CASE i # n + 1
  <2>1. i \in 1..n /\ \A k \in 1..i : k \in 1..n
    BY <1>1, <1>4
  <2>2. PICK k \in 1..i : Moves(t[k]) /\ t[k].to_state = t[i].to_state
    BY <1>1, <2>1 DEF Happened
  <2>3. u[k] = t[k] /\ u[i] = t[i]
    BY <1>1, <2>1
  <2> QED
    BY <2>2, <2>3
<1> QED
  BY <1>2, <1>3, <1>4

LEMMA AheadMeans == TimelineNeverAhead <=> \A l \in Lead : Happened(trail[l])
  BY DEF TimelineNeverAhead, Happened

LEMMA TimelineKeeps == IInv /\ ReadInv /\ TimelineNeverAhead /\ [Next]_vars => TimelineNeverAhead'
<1> SUFFICES ASSUME IInv, ReadInv, TimelineNeverAhead, [Next]_vars, NEW l \in Lead
             PROVE  Happened(trail'[l])
  BY DEF TimelineNeverAhead, Happened, Moves
<1>1. Happened(trail[l])
  BY AheadMeans
<1>2. CASE trail'[l] = trail[l]
  BY <1>1, <1>2
<1>3. CASE Next
  <2>1. PICK r \in Request : Act(r)
    BY <1>3 DEF Next, Act
  <2>2. CASE Appends(r, Event(r)) /\ Enters(r)
    <3>1. CASE l # on[r]
      BY <1>2, <2>2, <3>1 DEF Appends, IInv, TypeOK, RowsTypeOK
    <3>2. CASE l = on[r]
      <4> DEFINE e == Event(r)
      <4>1. trail[l] \in Seq(LeadEvent) /\ e \in LeadEvent /\ trail'[l] = Append(trail[l], e)
        BY <2>2, <3>2 DEF Appends, IInv, TypeOK, RowsTypeOK
      <4>2. CASE r \in Assigns
        <5>1. r \notin Creates /\ r \notin Changes /\ e.to_state = lead[r].state
          BY <4>2 DEF Event, OwnerEvent
        <5>2. pc[r] = "updated"
          BY <2>2, <4>2, <5>1 DEF Appends, IInv, RequestInv, AssignInv
        <5>3. MovedTo(l, lead[r].state)
          BY <3>2, <4>2, <5>2 DEF ReadInv
        <5> QED
          BY <1>1, <4>1, <5>1, <5>3, HappenedGrows DEF MovedTo
      <4>3. CASE r \in Creates
        <5>1. Moves(e)
          BY <4>3 DEF Event, Creation, Moves, LeadStates
        <5> QED
          BY <1>1, <4>1, <5>1, HappenedGrows
      <4>4. CASE r \in Changes
        <5>1. /\ e = StateEvent(leadState[l], leadState'[l], r)
              /\ rule_for(leadState[l], leadState'[l]) # {}
          BY <2>2, <3>2, <4>4 DEF Enters
        <5>2. Moves(e)
          BY <5>1 DEF StateEvent, Moves, rule_for, TRANSITIONS
        <5> QED
          BY <1>1, <4>1, <5>2, HappenedGrows
      <4> QED
        BY <4>2, <4>3, <4>4
    <3> QED
      BY <3>1, <3>2
  <2> QED
    BY <1>2, <2>1, <2>2, TrailOfStep
<1> QED
  BY <1>2, <1>3 DEF vars, db

\* What finding 1 leaves standing: an overtaken handover may show a state that the
\* lead has left, never one that it has not been in.
THEOREM NeverAhead == Spec => []TimelineNeverAhead
<1> DEFINE Replied == \A r \in Request : Told(r)
<1>1. Init => MailInv /\ MailIsTruthful /\ ReadInv
  BY DEF Init, MailInv, MailIsTruthful, ReadInv, MovedTo, Moves, Creation, Exists, At, LeadStates
<1>2. Init => TimelineNeverAhead
  BY DEF Init, TimelineNeverAhead, Moves, Creation, LeadStates
<1>3. Init => Replied
  BY DEF Init, Told, EntriesBy, Creation, At, Refusals
<1>4. IInv /\ Replied /\ [Next]_vars => Replied'
  BY ToldKeeps
<1>5. IInv /\ Replied /\ MailInv /\ MailIsTruthful /\ [Next]_vars => MailInv' /\ MailIsTruthful'
  BY MailKeeps
<1>6. IInv /\ MailInv /\ ReadInv /\ [Next]_vars => ReadInv'
  BY ReadKeeps
<1>7. IInv /\ ReadInv /\ TimelineNeverAhead /\ [Next]_vars => TimelineNeverAhead'
  BY TimelineKeeps
<1> HIDE DEF Replied
<1> QED
  BY <1>1, <1>2, <1>3, <1>4, <1>5, <1>6, <1>7, Invariance, PTL DEF Spec
-----------------------------------------------------------------------------
(***************************************************************************)
(* The answers to assignments                                              *)
(***************************************************************************)

\* The entry of an assignment hands the lead to the owner asked for.
LEMMA HandoverEntered ==
  ASSUME IInv, [Next]_vars, NEW r \in Assigns, Act(r), pc[r] # "committed", pc'[r] = "committed"
  PROVE  HandedOver(r)'
<1>1. /\ r \in Request /\ r \notin Creates /\ r \notin Changes
      /\ pc \in [Request -> Labels]
  BY DEF IInv, TypeOK, HandlersTypeOK
<1>2. CommitUpdate(r)
  BY <1>1 DEF Act, Arrive, ReadForAssign, Proceed, UpdateAssignee, OwnerLost, RefreshAssigned,
     SendMail, Fail, WriteFails, RefreshFails, Die, Goto, Finish, At
<1>3. At(r, "updated") /\ CommitAssign(r) /\ UNCHANGED <<on, want>>
  BY <1>1, <1>2 DEF CommitUpdate
<1>4. Event(r).actor = r /\ Event(r).to_assignee = want[r] /\ on[r] \in Lead
  BY <1>1, <1>3, EventType DEF Event, OwnerEvent
<1>5. trail' = [trail EXCEPT ![on[r]] = Append(@, Event(r))]
  BY <1>1, <1>3 DEF CommitAssign, CommitRow, Event
<1>6. Event(r) \in LeadEvent /\ trail \in [Lead -> Seq(LeadEvent)]
  BY <1>1, <1>3, EventType DEF IInv, TypeOK, RowsTypeOK
<1> DEFINE n == Len(trail[on[r]]) + 1
<1>7. n \in DOMAIN trail'[on[r]] /\ trail'[on[r]][n] = Event(r)
  <2>1. trail[on[r]] \in Seq(LeadEvent) /\ trail'[on[r]] = Append(trail[on[r]], Event(r))
    BY <1>4, <1>5, <1>6
  <2> HIDE DEF Event
  <2> QED
    BY <1>6, <2>1
<1> HIDE DEF n, Event
<1> QED
  BY <1>3, <1>4, <1>7 DEF HandedOver, EntriesBy

LEMMA HandedKeeps ==
  ASSUME IInv, HandedInv, [Next]_vars
  PROVE  HandedInv'
<1> SUFFICES ASSUME NEW r \in Assigns, pc'[r] = "committed" PROVE HandedOver(r)'
  BY DEF HandedInv, At
<1>1. r \in Request
  OBVIOUS
<1>2. CASE UNCHANGED vars
  BY <1>2 DEF HandedInv, HandedOver, EntriesBy, At, vars, db, local
<1>3. CASE Next
  <2>1. PICK q \in Request : Act(q)
    BY <1>3 DEF Next, Act
  <2>2. CASE pc[r] # "committed"
    <3>1. q = r
      BY <1>1, <2>1, <2>2, ActAlone
    <3> QED
      BY <2>1, <2>2, <3>1, HandoverEntered
  <2>3. CASE pc[r] = "committed"
    <3>1. on'[r] = on[r] /\ want'[r] = want[r] /\ on[r] \in Lead
      BY <1>1, <2>3, WantStays DEF At, IInv, RequestInv, LockInv
    <3>2. PICK i \in EntriesBy(r, on[r]) : trail[on[r]][i].to_assignee = want[r]
      BY <2>3 DEF HandedInv, HandedOver, At
    <3>3. i \in DOMAIN trail'[on[r]] /\ trail'[on[r]][i] = trail[on[r]][i]
      BY <2>1, <3>1, <3>2, TrailGrows DEF EntriesBy
    <3> QED
      BY <3>1, <3>2, <3>3 DEF HandedOver, EntriesBy
  <2> QED
    BY <2>2, <2>3
<1> QED
  BY <1>2, <1>3

\* Only the read that finds the owner in place and the end of a committed
\* handover answer an assignment with 200.
LEMMA OkOfStep ==
  ASSUME IInv, HandedInv, [Next]_vars, NEW r \in Assigns, reply[r] # "ok", reply'[r] = "ok"
  PROVE  HandedOver(r)' \/ (At(r, "idle") /\ assignedTo[on'[r]] = want'[r])
<1>1. /\ r \in Request /\ r \notin Creates /\ r \notin Changes
      /\ reply \in [Request -> Answers] /\ on \in [Request -> Lead \cup {None}]
      /\ want \in [Request -> LeadStates \cup Owner]
  BY DEF IInv, TypeOK, HandlersTypeOK
<1>2. PICK q \in Request : Act(q)
  BY DEF Next, Act, vars, local
<1>3. q = r
  BY <1>1, <1>2, ActAlone
<1>4. pc[r] \notin {"mailing", "notifying"}
  BY <1>1 DEF IInv, RequestInv, AssignInv
<1>5. ReadForAssign(r) \/ (RefreshAssigned(r) /\ At(r, "committed"))
  BY <1>1, <1>2, <1>3, <1>4 DEF Act, Arrive, Proceed, UpdateAssignee, OwnerLost, RefreshAssigned,
     CommitUpdate, SendMail, Fail, WriteFails, RefreshFails, Die, Goto, Finish, At
<1>6. CASE ReadForAssign(r)
  <2>1. PICK l \in Lead, target \in Owner :
          /\ At(r, "idle") /\ on' = [on EXCEPT ![r] = l] /\ want' = [want EXCEPT ![r] = target]
          /\ \/ Finish(r, "unknown_assignee")
             \/ Finish(r, "lead_not_found")
             \/ assignedTo[l] = target
             \/ UNCHANGED reply
    BY <1>6 DEF ReadForAssign
  <2>2. assignedTo[l] = target
    BY <1>1, <2>1 DEF Finish
  <2> QED
    BY <1>1, <2>1, <2>2
<1>7. CASE RefreshAssigned(r) /\ At(r, "committed")
  BY <1>1, <1>7 DEF RefreshAssigned, HandedInv, HandedOver, EntriesBy, db
<1> QED
  BY <1>5, <1>6, <1>7

\* For any number of racing assignments and any failure: a 200 means a handover
\* in the trail or an owner who was in place already.
THEOREM Handovers == Spec => HandoverIsWritten
<1>1. Init => HandedInv
  BY DEF Init, HandedInv, At
<1>2. IInv /\ HandedInv /\ [Next]_vars => HandedInv'
  BY HandedKeeps
<1>3. IInv /\ HandedInv /\ [Next]_vars => [AnswersHandovers]_vars
  BY OkOfStep DEF AnswersHandovers
<1> QED
  BY <1>1, <1>2, <1>3, Invariance, PTL DEF Spec, HandoverIsWritten
===============================================================================
