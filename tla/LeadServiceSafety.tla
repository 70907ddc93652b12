-------------------------- MODULE LeadServiceSafety --------------------------
(***************************************************************************)
(* Proofs of the safety properties that need more than IInv: each is an    *)
(* invariant of its own on top of IInv, preserved by what a step of one    *)
(* request can do to its answer, its file, its mails and the trail.        *)
(***************************************************************************)
EXTENDS LeadServiceProofs

USE RequestsAssumption, NoneAssumption

Act(r) == Arrive(r) \/ Proceed(r) \/ Fail(r)

-----------------------------------------------------------------------------
(***************************************************************************)
(* What a step of r leaves alone.                                          *)
(***************************************************************************)

LEMMA ActAlone ==
  ASSUME IInv, NEW r \in Request, Act(r), NEW s \in Request, s # r
  PROVE  /\ pc'[s] = pc[s] /\ on'[s] = on[s] /\ want'[s] = want[s]
         /\ lead'[s] = lead[s] /\ reply'[s] = reply[s]
         /\ s \in Creates => files'[s] = files[s]
<1>1. CASE Arrive(r)
  BY <1>1 DEF Arrive, TurnAway, SaveResume, SaveFails, ReadForChange, ReadForAssign, Goto, Finish,
              IInv, TypeOK, HandlersTypeOK, OutsideTypeOK
<1>2. CASE Proceed(r)
  BY <1>2 DEF Proceed, choose_assignee, InsertLead, CompensatingDelete, RefreshCreated,
              UpdateState, StateLost, RefreshChanged, UpdateAssignee, OwnerLost, RefreshAssigned,
              CommitUpdate, SendMail, Goto, Finish,
              IInv, TypeOK, HandlersTypeOK, OutsideTypeOK
<1>3. CASE Fail(r)
  BY <1>3 DEF Fail, ChooseFails, InsertFails, WriteFails, RefreshFails, Die, Goto, Finish,
              IInv, TypeOK, HandlersTypeOK, OutsideTypeOK
<1> QED
  BY <1>1, <1>2, <1>3 DEF Act

\* A lead that exists stays, and never goes back in the pipeline: the
\* refinement shows it.
LEMMA LeadsAdvance ==
  ASSUME IInv, [Next]_vars, NEW l \in Lead, Exists(l)
  PROVE  leadState'[l] # "absent" /\ Rank(leadState[l]) <= Rank(leadState'[l])
<1>1. [Lifecycle!Next]_(Lifecycle!vars)
  BY StepRefines
<1>2. leadState \in [Lead -> LeadStates \cup {"absent"}]
  BY DEF IInv, TypeOK, RowsTypeOK
<1>3. CASE UNCHANGED leadState
  BY <1>2, <1>3 DEF Exists, Rank
<1>4. CASE \E k \in Lead : \E owner \in Owner : Lifecycle!Submit(k, owner)
  BY <1>2, <1>4 DEF Exists, Rank, Lifecycle!Submit
<1>5. CASE \E k \in Lead : \E new \in LeadStates : Lifecycle!Advance(k, new)
  BY <1>2, <1>5 DEF Exists, Rank, Lifecycle!Advance, Lifecycle!rule_for, Lifecycle!TRANSITIONS, LeadStates
<1> QED
  BY <1>1, <1>3, <1>4, <1>5 DEF Lifecycle!Next, Lifecycle!vars, Lifecycle!HandOver, Lifecycle!LeadStates,
                                LeadStates, Owner

-----------------------------------------------------------------------------
(***************************************************************************)
(* One winner                                                              *)
(***************************************************************************)

\* A change wins by committing, and by nothing else.
LEMMA WinnerStep ==
  ASSUME IInv, WinnerInv, NEW r \in Changes, Act(r)
  PROVE  /\ reply'[r] = "ok" => pc'[r] \in {"mailing", "done", "dead"}
         /\ Won(r)' => /\ on'[r] = on[r] /\ want'[r] = want[r]
                       /\ Won(r) \/ (At(r, "updated") /\ CommitState(r))
<1>1. r \in Request /\ r \notin Creates /\ r \notin Assigns
  OBVIOUS
<1>2. reply[r] = "ok" => pc[r] \in {"mailing", "done", "dead"}
  BY DEF WinnerInv
<1> USE <1>1, <1>2 DEF Won, At, Goto, Finish
<1>3. CASE ReadForChange(r)
  BY <1>3, VerdictType DEF ReadForChange, IInv, TypeOK, HandlersTypeOK
<1>4. CASE UpdateState(r)
  BY <1>4 DEF UpdateState, StateLost, IInv, TypeOK, HandlersTypeOK
<1>5. CASE RefreshChanged(r)
  BY <1>5 DEF RefreshChanged, IInv, TypeOK, HandlersTypeOK
<1>6. CASE CommitUpdate(r)
  BY <1>6 DEF CommitUpdate, IInv, TypeOK, HandlersTypeOK
<1>7. CASE SendMail(r)
  BY <1>7 DEF SendMail, IInv, TypeOK, HandlersTypeOK, RequestInv, ChangeInv
<1>8. CASE Fail(r)
  BY <1>8 DEF Fail, WriteFails, RefreshFails, Die, IInv, TypeOK, HandlersTypeOK
<1> QED
  BY <1>3, <1>4, <1>5, <1>6, <1>7, <1>8 DEF Act, Arrive, Proceed

\* Whoever commits a change finds no other winner of the same move: the lead
\* was behind it until now.
LEMMA CommitIsFirst ==
  ASSUME IInv, WinnerInv, NEW r \in Changes, At(r, "updated"), CommitState(r)
  PROVE  /\ on[r] \in Lead /\ want[r] \in LeadStates /\ leadState'[on[r]] = want[r]
         /\ \A s \in Changes : Won(s) /\ on[s] = on[r] => want[s] # want[r]
<1>1. /\ on[r] \in Lead /\ leadState[on[r]] = lead[r].state
      /\ rule_for(lead[r].state, want[r]) # {}
  BY DEF IInv, RequestInv, LockInv, ChangeInv, At
<1>2. want[r] \in LeadStates /\ Rank(leadState[on[r]]) < Rank(want[r])
  BY <1>1 DEF rule_for, TRANSITIONS, Rank, LeadStates
<1>3. leadState'[on[r]] = want[r]
  BY <1>1, <1>2 DEF CommitState, CommitRow, IInv, TypeOK, RowsTypeOK, Exists, LeadStates
<1>4. ASSUME NEW s \in Changes, Won(s), on[s] = on[r] PROVE want[s] # want[r]
  <2>1. Rank(want[s]) <= Rank(leadState[on[r]])
    BY <1>4 DEF WinnerInv
  <2>2. Rank(leadState[on[r]]) \in Nat /\ Rank(want[r]) \in Nat
    BY DEF Rank
  <2> QED
    BY <1>2, <2>1, <2>2
<1> QED
  BY <1>1, <1>2, <1>3, <1>4

LEMMA WinnerKeeps == IInv /\ WinnerInv /\ [Next]_vars => WinnerInv'
<1> SUFFICES ASSUME IInv, WinnerInv, [Next]_vars PROVE WinnerInv'
  OBVIOUS
<1>1. CASE UNCHANGED vars
  BY <1>1 DEF WinnerInv, Won, Exists, vars, db, local
<1>2. CASE Next
  <2>1. PICK r \in Request : Act(r)
    BY <1>2 DEF Next, Act
  <2>2. ASSUME NEW s \in Changes
        PROVE  /\ reply'[s] = "ok" => pc'[s] \in {"mailing", "done", "dead"}
               /\ Won(s)' => on'[s] = on[s] /\ want'[s] = want[s]
               /\ Won(s)' => Won(s) \/ (s = r /\ At(r, "updated") /\ CommitState(r))
    <3>1. CASE s = r
      BY <2>1, <3>1, WinnerStep
    <3>2. CASE s # r
      BY <2>1, <3>2, ActAlone DEF WinnerInv, Won
    <3> QED
      BY <3>1, <3>2
  <2>3. ASSUME NEW s \in Changes, Won(s)'
        PROVE  /\ on'[s] \in Lead /\ want'[s] \in LeadStates /\ leadState'[on'[s]] # "absent"
               /\ Rank(want'[s]) <= Rank(leadState'[on'[s]])
    <3>1. CASE Won(s)
      <4>1. /\ on[s] \in Lead /\ want[s] \in LeadStates /\ Exists(on[s])
            /\ Rank(want[s]) <= Rank(leadState[on[s]])
        BY <3>1 DEF WinnerInv
      <4>2. leadState'[on[s]] # "absent" /\ Rank(leadState[on[s]]) <= Rank(leadState'[on[s]])
        BY <4>1, LeadsAdvance
      <4>3. \A v : Rank(v) \in Nat
        BY DEF Rank
      <4>4. Rank(want[s]) <= Rank(leadState'[on[s]])
        BY <4>1, <4>2, <4>3
      <4> QED
        BY <2>2, <2>3, <4>1, <4>2, <4>4
    <3>2. CASE s = r /\ At(r, "updated") /\ CommitState(r)
      BY <2>2, <2>3, <3>2, CommitIsFirst DEF Rank, LeadStates
    <3> QED
      BY <2>2, <2>3, <3>1, <3>2
  <2>4. ASSUME NEW s \in Changes, NEW t \in Changes, Won(s)', Won(t)', on'[s] = on'[t], want'[s] = want'[t]
        PROVE  s = t
    <3>1. CASE Won(s) /\ Won(t)
      BY <2>2, <2>4, <3>1 DEF WinnerInv
    <3>2. CASE ~Won(s) \/ ~Won(t)
      BY <2>2, <2>4, <3>2, CommitIsFirst
    <3> QED
      BY <3>1, <3>2
  <2> QED
    BY <2>2, <2>3, <2>4 DEF WinnerInv, Exists
<1> QED
  BY <1>1, <1>2

\* R2, for any number of concurrent callers: at most one of those who ask for
\* one lead to enter one state is told it did.
THEOREM Winner == Spec => []OneWinner
<1>1. Init => WinnerInv
  BY DEF Init, WinnerInv, Won
<1>2. IInv /\ WinnerInv /\ [Next]_vars => WinnerInv'
  BY WinnerKeeps
<1>3. WinnerInv => OneWinner
  BY DEF WinnerInv, OneWinner, Won
<1> QED
  BY <1>1, <1>2, <1>3, Invariance, PTL DEF Spec

-----------------------------------------------------------------------------
(***************************************************************************)
(* Files                                                                   *)
(***************************************************************************)

LEMMA MailsOfStep ==
  ASSUME IInv, NEW r \in Request, Act(r), NEW m \in sent', m \notin sent
  PROVE  SendMail(r) /\ m.by = r /\ m.lead = on[r] /\ m.state = lead[r].state
         /\ (m.kind = "status" => r \in Changes /\ At(r, "mailing"))
<1>1. SendMail(r)
  BY DEF Act, Arrive, TurnAway, SaveResume, SaveFails, ReadForChange, ReadForAssign,
         Proceed, choose_assignee, InsertLead, CompensatingDelete, RefreshCreated,
         UpdateState, StateLost, RefreshChanged, UpdateAssignee, OwnerLost, RefreshAssigned,
         CommitUpdate, Fail, ChooseFails, InsertFails, WriteFails, RefreshFails, Die
<1> QED
  BY <1>1 DEF SendMail, Send, Mail

LEMMA FileStep ==
  ASSUME IInv, FileInv, [Next]_vars, NEW c \in Creates, Act(c)
  PROVE  /\ pc'[c] \in {"saved", "chosen", "committed", "mailing", "notifying"} => files'[c] = "whole"
         /\ reply'[c] = "ok" => pc'[c] \in {"mailing", "notifying", "done", "dead"}
                                /\ files'[c] = "whole" /\ Exists(c)
         /\ \A m \in sent' : m.by = c =>
              pc'[c] \in {"notifying", "done", "dead"} /\ files'[c] = "whole"
<1>1. c \in Request /\ c \notin Changes /\ c \notin Assigns
  OBVIOUS
<1>2. /\ pc[c] \in {"saved", "chosen", "committed", "mailing", "notifying"} => files[c] = "whole"
      /\ reply[c] = "ok" =>
           pc[c] \in {"mailing", "notifying", "done", "dead"} /\ files[c] = "whole" /\ Exists(c)
      /\ \A m \in sent : m.by = c => pc[c] \in {"notifying", "done", "dead"} /\ files[c] = "whole"
  BY DEF FileInv
<1>3. pc[c] \in {"committed", "mailing", "notifying"} => Exists(c)
  BY DEF IInv, RequestInv, CreateInv
<1>4. /\ pc \in [Request -> Labels] /\ reply \in [Request -> Answers]
      /\ files \in [Creates -> {"none", "partial", "whole"}]
  BY DEF IInv, TypeOK, HandlersTypeOK, OutsideTypeOK
<1> USE <1>1, <1>2, <1>3, <1>4 DEF At, Goto, Finish
<1>5. CASE TurnAway(c) \/ SaveFails(c) \/ SaveResume(c)
  BY <1>5 DEF TurnAway, SaveFails, SaveResume
<1>6. CASE choose_assignee(c) \/ ChooseFails(c) \/ InsertLead(c) \/ InsertFails(c)
  BY <1>6 DEF choose_assignee, ChooseFails, InsertLead, InsertFails
<1>7. CASE CompensatingDelete(c) \/ RefreshCreated(c) \/ RefreshFails(c) \/ Die(c)
  BY <1>7 DEF CompensatingDelete, RefreshCreated, RefreshFails, Die
<1>8. CASE SendMail(c)
  <2>1. /\ pc[c] \in {"mailing", "notifying"} /\ pc'[c] \in {"notifying", "done"}
        /\ UNCHANGED <<files, reply>>
    BY <1>8 DEF SendMail
  <2> QED
    BY <2>1
<1> QED
  BY <1>5, <1>6, <1>7, <1>8 DEF Act, Arrive, Proceed, Fail

LEMMA FileKeeps == IInv /\ FileInv /\ [Next]_vars => FileInv'
<1> SUFFICES ASSUME IInv, FileInv, [Next]_vars PROVE FileInv'
  OBVIOUS
<1>1. CASE UNCHANGED vars
  BY <1>1 DEF FileInv, Exists, vars, db, local
<1>2. CASE Next
  <2>1. PICK r \in Request : Act(r)
    BY <1>2 DEF Next, Act
  <2>2. ASSUME NEW c \in Creates
        PROVE  /\ pc'[c] \in {"saved", "chosen", "committed", "mailing", "notifying"} =>
                    files'[c] = "whole"
               /\ reply'[c] = "ok" => pc'[c] \in {"mailing", "notifying", "done", "dead"}
                                      /\ files'[c] = "whole" /\ Exists(c)
               /\ \A m \in sent' : m.by = c =>
                    pc'[c] \in {"notifying", "done", "dead"} /\ files'[c] = "whole"
    <3>1. CASE c = r
      BY <2>1, <3>1, FileStep
    <3>2. CASE c # r
      <4>1. pc'[c] = pc[c] /\ reply'[c] = reply[c] /\ files'[c] = files[c]
        BY <2>1, <3>2, ActAlone
      <4>2. \A m \in sent' : m.by = c => m \in sent
        BY <2>1, <3>2, MailsOfStep
      <4> QED
        BY <4>1, <4>2 DEF FileInv
    <3> QED
      BY <3>1, <3>2
  <2>3. \A c \in Creates : Exists(c) => Exists(c)'
    BY LeadsAdvance DEF Exists
  <2> QED
    BY <2>2, <2>3 DEF FileInv
<1> QED
  BY <1>1, <1>2

\* A1: a submission that was answered 201 or mailed about has its lead and its
\* whole resume, whatever the store and the database do later.
THEOREM Accepted == Spec => []AcceptedHasResume
<1>1. Init => FileInv
  BY DEF Init, FileInv
<1>2. IInv /\ FileInv /\ [Next]_vars => FileInv'
  BY FileKeeps
<1>3. FileInv => AcceptedHasResume
  BY DEF FileInv, AcceptedHasResume
<1> QED
  BY <1>1, <1>2, <1>3, Invariance, PTL DEF Spec

-----------------------------------------------------------------------------
(***************************************************************************)
(* Answers and the trail                                                   *)
(***************************************************************************)

\* A step of r appends e to the trail of r's lead: r commits, or fails after
\* its COMMIT took effect.
Appends(r, e) ==
  /\ on[r] \in Lead /\ e \in LeadEvent /\ e.actor = r
  /\ trail' = [trail EXCEPT ![on[r]] = Append(@, e)]
  /\ pc[r] \in {"chosen", "updated"} /\ on'[r] = on[r]
  /\ \/ pc'[r] \in {"committed", "failed"} /\ reply'[r] = reply[r]
     \/ pc'[r] = "done" /\ reply'[r] = "error"

\* The event each commit writes.
Event(r) ==
  IF r \in Creates THEN Creation(lead[r].owner, r)
  ELSE IF r \in Changes THEN StateEvent(lead[r].state, want[r], r)
  ELSE OwnerEvent(lead[r].state, lead[r].owner, want[r], r)

LEMMA EventType ==
  ASSUME IInv, NEW r \in Request,
         \/ r \in Creates /\ At(r, "chosen")
         \/ r \notin Creates /\ At(r, "updated")
  PROVE  Event(r) \in LeadEvent /\ Event(r).actor = r /\ on[r] \in Lead
<1>1. lead[r].state \in LeadStates /\ lead[r].owner \in Owner /\ RequestInv(r)
  BY DEF IInv, TypeOK, HandlersTypeOK, Row
<1>2. on[r] \in Lead
  BY <1>1 DEF RequestInv, LockInv, At
<1>3. CASE r \in Creates
  BY <1>1, <1>2, <1>3, CreationType DEF Event, Creation
<1>4. CASE r \in Changes
  BY <1>1, <1>2, <1>4, StateEventType DEF Event, StateEvent, RequestInv, ChangeInv, At
<1>5. CASE r \in Assigns
  BY <1>1, <1>2, <1>5, OwnerEventType DEF Event, OwnerEvent, RequestInv, AssignInv, At
<1> QED
  BY <1>3, <1>4, <1>5

\* The event r appends says what r's commit does to the row of its lead.
Enters(r) ==
  LET l == on[r]
      e == Event(r)
  IN  /\ \A k \in Lead : k # l => leadState'[k] = leadState[k] /\ assignedTo'[k] = assignedTo[k]
      /\ r \in Creates =>
           ~Exists(l) /\ leadState'[l] = "PENDING" /\ e = Creation(assignedTo'[l], r)
      /\ r \in Changes =>
           /\ Exists(l) /\ assignedTo'[l] = assignedTo[l]
           /\ e = StateEvent(leadState[l], leadState'[l], r)
           /\ rule_for(leadState[l], leadState'[l]) # {}
      /\ r \in Assigns =>
           /\ Exists(l) /\ leadState'[l] = leadState[l]
           /\ \E s \in LeadStates : e = OwnerEvent(s, assignedTo[l], assignedTo'[l], r)
           /\ assignedTo'[l] # assignedTo[l]

LEMMA InsertEnters ==
  ASSUME IInv, NEW r \in Creates, At(r, "chosen"), InsertRow(r, lead[r].owner, r)
  PROVE  Enters(r)
<1>1. r \in Lead /\ on[r] = r /\ ~Exists(r) /\ r \notin Changes /\ r \notin Assigns
  BY DEF IInv, RequestInv, CreateInv, At
<1> QED
  BY <1>1 DEF Enters, Event, InsertRow, IInv, TypeOK, RowsTypeOK

LEMMA ChangeEnters ==
  ASSUME IInv, NEW r \in Changes, At(r, "updated"), CommitState(r)
  PROVE  Enters(r)
<1>1. /\ on[r] \in Lead /\ Exists(on[r]) /\ leadState[on[r]] = lead[r].state
      /\ rule_for(lead[r].state, want[r]) # {} /\ r \notin Creates /\ r \notin Assigns
  BY DEF IInv, RequestInv, LockInv, ChangeInv, At
<1> QED
  BY <1>1 DEF Enters, Event, CommitState, CommitRow, IInv, TypeOK, RowsTypeOK

LEMMA AssignEnters ==
  ASSUME IInv, NEW r \in Assigns, At(r, "updated"), CommitAssign(r)
  PROVE  Enters(r)
<1>1. /\ on[r] \in Lead /\ Exists(on[r]) /\ assignedTo[on[r]] = lead[r].owner
      /\ want[r] # lead[r].owner /\ r \notin Creates /\ r \notin Changes
  BY DEF IInv, RequestInv, LockInv, AssignInv, At
<1>2. lead[r].state \in LeadStates
  BY DEF IInv, TypeOK, HandlersTypeOK, Row
<1> QED
  BY <1>1, <1>2 DEF Enters, Event, CommitAssign, CommitRow, IInv, TypeOK, RowsTypeOK

LEMMA TrailOfStep ==
  ASSUME IInv, NEW r \in Request, Act(r)
  PROVE  UNCHANGED <<leadState, assignedTo, trail>> \/ (Appends(r, Event(r)) /\ Enters(r))
<1> USE DEF At, Goto, Finish
<1>1. pc \in [Request -> Labels] /\ reply \in [Request -> Answers]
  BY DEF IInv, TypeOK, HandlersTypeOK
<1>2. CASE Arrive(r)
  BY <1>2 DEF Arrive, TurnAway, SaveResume, SaveFails, ReadForChange, ReadForAssign, db
<1>3. CASE r \in Creates /\ (InsertLead(r) \/ InsertFails(r))
  <2>1. on[r] = r /\ At(r, "chosen")
    BY <1>3 DEF IInv, RequestInv, CreateInv, InsertLead, InsertFails
  <2>2. CASE InsertRow(r, lead[r].owner, r)
    <3>1. Appends(r, Event(r))
      BY <1>1, <1>3, <2>1, <2>2, EventType DEF Appends, InsertRow, InsertLead, InsertFails, Event
    <3> QED
      BY <1>3, <2>1, <2>2, <3>1, InsertEnters
  <2>3. CASE ~InsertRow(r, lead[r].owner, r)
    BY <1>3, <2>3 DEF InsertLead, InsertFails, db
  <2> QED
    BY <2>2, <2>3
<1>4. CASE r \in Changes \cup Assigns /\ (CommitUpdate(r) \/ WriteFails(r))
  <2>1. r \notin Creates
    BY <1>4
  <2>2. CASE At(r, "updated") /\ (IF r \in Changes THEN CommitState(r) ELSE CommitAssign(r))
    <3>1. trail' = [trail EXCEPT ![on[r]] = Append(@, Event(r))]
      BY <2>1, <2>2 DEF CommitState, CommitAssign, CommitRow, Event
    <3>2. Event(r) \in LeadEvent /\ Event(r).actor = r /\ on[r] \in Lead
      BY <2>1, <2>2, EventType
    <3> HIDE DEF Event
    <3>3. Appends(r, Event(r))
      BY <1>1, <1>4, <2>2, <3>1, <3>2 DEF Appends, CommitUpdate, WriteFails
    <3> QED
      BY <1>4, <2>2, <3>3, ChangeEnters, AssignEnters
  <2>3. CASE ~(At(r, "updated") /\ (IF r \in Changes THEN CommitState(r) ELSE CommitAssign(r)))
    BY <1>4, <2>3 DEF CommitUpdate, WriteFails, Rollback
  <2> QED
    BY <2>2, <2>3
<1>5. CASE Proceed(r) /\ ~InsertLead(r) /\ ~CommitUpdate(r)
  BY <1>5 DEF Proceed, choose_assignee, CompensatingDelete, RefreshCreated, UpdateState, StateLost,
              update_state, RefreshChanged, UpdateAssignee, OwnerLost, update_assignee,
              RefreshAssigned, SendMail, db
<1>6. CASE (r \in Creates /\ ChooseFails(r)) \/ RefreshFails(r) \/ Die(r)
  BY <1>6 DEF ChooseFails, RefreshFails, Die, Rollback, db
<1>7. InsertLead(r) => r \in Creates
  BY DEF InsertLead, IInv, RequestInv, ChangeInv, AssignInv
<1>8. CommitUpdate(r) => r \in Changes \cup Assigns
  BY DEF CommitUpdate, IInv, RequestInv, CreateInv
<1> QED
  BY <1>2, <1>3, <1>4, <1>5, <1>6, <1>7, <1>8 DEF Act, Proceed, Fail

\* What an append does to the entries of a request.
LEMMA EntriesOfAppend ==
  ASSUME IInv, NEW r \in Request, NEW e, Appends(r, e), NEW s \in Request, NEW l \in Lead
  PROVE  EntriesBy(s, l)' = IF s = r /\ l = on[r] THEN EntriesBy(s, l) \cup {Len(trail[l]) + 1}
                            ELSE EntriesBy(s, l)
<1>1. trail[l] \in Seq(LeadEvent)
  BY DEF IInv, TypeOK, RowsTypeOK
<1>2. trail'[l] = IF l = on[r] THEN Append(trail[l], e) ELSE trail[l]
  BY DEF Appends, IInv, TypeOK, RowsTypeOK
<1>3. CASE l # on[r]
  BY <1>2, <1>3 DEF EntriesBy
<1>4. CASE l = on[r]
  <2>1. /\ DOMAIN trail[l] = 1..Len(trail[l]) /\ Len(trail[l]) \in Nat
        /\ DOMAIN trail'[l] = 1..(Len(trail[l]) + 1)
        /\ \A i \in 1..Len(trail[l]) : trail'[l][i] = trail[l][i]
        /\ trail'[l][Len(trail[l]) + 1] = e
    BY <1>1, <1>2, <1>4 DEF Appends
  <2>2. e.actor = r
    BY DEF Appends
  <2> QED
    BY <1>4, <2>1, <2>2 DEF EntriesBy
<1> QED
  BY <1>3, <1>4

\* The two invariants of one request.
Told(r) ==
  /\ pc[r] \in {"idle", "saved", "chosen", "loaded", "updated"} =>
       reply[r] = "none" /\ \A l \in Lead : EntriesBy(r, l) = {}
  /\ pc[r] \in {"committed", "mailing", "notifying"} => EntriesBy(r, on[r]) # {}
  /\ pc[r] \in {"committed", "failed"} => reply[r] = "none"
  /\ reply[r] \in Refusals \cup {"storage_unavailable"} => At(r, "done")
  /\ pc[r] \in {"mailing", "notifying"} => reply[r] = "ok"
  /\ \A l \in Lead :
       /\ reply[r] \in Refusals \cup {"storage_unavailable"} => EntriesBy(r, l) = {}
       /\ reply[r] = "ok" /\ r \notin Assigns /\ on[r] = l => EntriesBy(r, l) # {}
       /\ EntriesBy(r, l) # {} => on[r] = l
       /\ \A i, j \in EntriesBy(r, l) : i = j

LEMMA ToldMeans == ReplyInv /\ RepliesMatchTrail <=> \A r \in Request : Told(r)
  BY DEF ReplyInv, RepliesMatchTrail, Told

LEMMA ToldOfCommit ==
  ASSUME IInv, NEW r \in Request, Told(r), NEW e, Appends(r, e)
  PROVE  Told(r)'
<1>1. reply[r] = "none" /\ \A l \in Lead : EntriesBy(r, l) = {}
  BY DEF Told, Appends
<1>2. \A l \in Lead : EntriesBy(r, l)' = IF l = on[r] THEN {Len(trail[l]) + 1} ELSE {}
  BY <1>1, EntriesOfAppend
<1> QED
  BY <1>1, <1>2 DEF Told, Appends, At, Refusals

LEMMA ToldOfOthers ==
  ASSUME IInv, NEW r \in Request, UNCHANGED trail, Told(r), Act(r)
  PROVE  Told(r)'
<1> USE DEF At, Goto, Finish
<1>1. /\ pc \in [Request -> Labels] /\ reply \in [Request -> Answers]
      /\ on \in [Request -> Lead \cup {None}]
  BY DEF IInv, TypeOK, HandlersTypeOK
<1>2. \A l : EntriesBy(r, l)' = EntriesBy(r, l)
  BY DEF EntriesBy
<1>3. RequestInv(r)
  BY DEF IInv
<1>4. CASE r \in Creates /\ (TurnAway(r) \/ SaveResume(r) \/ SaveFails(r) \/ choose_assignee(r)
                             \/ ChooseFails(r) \/ CompensatingDelete(r) \/ RefreshCreated(r))
  BY <1>1, <1>2, <1>4 DEF Told, TurnAway, SaveResume, SaveFails, choose_assignee, ChooseFails,
                          CompensatingDelete, RefreshCreated, Refusals
<1>5. CASE r \in Changes /\ (ReadForChange(r) \/ UpdateState(r) \/ RefreshChanged(r))
  BY <1>1, <1>2, <1>5, VerdictType DEF Told, ReadForChange, UpdateState, StateLost, RefreshChanged, Refusals
<1>6. CASE r \in Assigns /\ (ReadForAssign(r) \/ UpdateAssignee(r) \/ RefreshAssigned(r))
  BY <1>1, <1>2, <1>6 DEF Told, ReadForAssign, UpdateAssignee, OwnerLost, RefreshAssigned, Refusals
<1>7. CASE SendMail(r)
  BY <1>1, <1>2, <1>7 DEF Told, SendMail, Refusals
<1>8. CASE InsertFails(r) \/ WriteFails(r) \/ RefreshFails(r) \/ Die(r)
  BY <1>1, <1>2, <1>8 DEF Told, InsertFails, WriteFails, RefreshFails, Die, Refusals
<1>9. CASE InsertLead(r) \/ CommitUpdate(r)
  <2>1. \E l \in Lead : \E e : trail' = [trail EXCEPT ![l] = Append(@, e)]
    BY <1>3, <1>9 DEF InsertLead, CommitUpdate, InsertRow, CommitState, CommitAssign, CommitRow,
                      RequestInv, CreateInv, LockInv, ChangeInv, AssignInv
  <2>2. \A l \in Lead : trail[l] \in Seq(LeadEvent) /\ Len(trail[l]) \in Nat
    BY DEF IInv, TypeOK, RowsTypeOK
  <2>3. PICK l \in Lead : \E e : trail'[l] = Append(trail[l], e)
    BY <2>1 DEF IInv, TypeOK, RowsTypeOK
  <2>4. PICK e : trail'[l] = Append(trail[l], e)
    BY <2>3
  <2>5. FALSE
    BY <2>2, <2>4
  <2> QED
    BY <2>5
<1> QED
  BY <1>4, <1>5, <1>6, <1>7, <1>8, <1>9 DEF Act, Arrive, Proceed, Fail

LEMMA ToldKeeps ==
  ASSUME IInv, \A r \in Request : Told(r), [Next]_vars
  PROVE  \A r \in Request : Told(r)'
<1>1. CASE UNCHANGED vars
  BY <1>1 DEF Told, EntriesBy, At, vars, db, local
<1>2. CASE Next
  <2>1. PICK r \in Request : Act(r)
    BY <1>2 DEF Next, Act
  <2>2. CASE UNCHANGED trail
    <3>1. ASSUME NEW s \in Request, s # r PROVE Told(s)'
      BY <2>1, <2>2, <3>1, ActAlone DEF Told, EntriesBy, At
    <3> QED
      BY <2>1, <2>2, <3>1, ToldOfOthers
  <2>3. CASE Appends(r, Event(r))
    <3>1. ASSUME NEW s \in Request, s # r PROVE Told(s)'
      <4>1. \A l \in Lead : EntriesBy(s, l)' = EntriesBy(s, l)
        BY <2>3, <3>1, EntriesOfAppend
      <4>2. pc'[s] = pc[s] /\ on'[s] = on[s] /\ reply'[s] = reply[s]
        BY <2>1, <3>1, ActAlone
      <4>3. pc[s] \in {"committed", "mailing", "notifying"} => on[s] \in Lead
        BY DEF IInv, RequestInv, LockInv
      <4> QED
        BY <4>1, <4>2, <4>3 DEF Told, At
    <3> QED
      BY <2>1, <2>3, <3>1, ToldOfCommit
  <2> QED
    BY <2>1, <2>2, <2>3, TrailOfStep
<1> QED
  BY <1>1, <1>2

\* What a client was told is what the trail holds of its request.
THEOREM Replies == Spec => []RepliesMatchTrail
<1> DEFINE Inv == \A r \in Request : Told(r)
<1>1. Init => Inv
  BY NoneAssumption DEF Init, Told, EntriesBy, Creation, At, Refusals
<1>2. IInv /\ Inv /\ [Next]_vars => Inv'
  BY ToldKeeps
<1>3. Inv => RepliesMatchTrail
  BY ToldMeans
<1> HIDE DEF Inv
<1> QED
  BY <1>1, <1>2, <1>3, Invariance, PTL DEF Spec

-----------------------------------------------------------------------------
(***************************************************************************)
(* Rows and files                                                          *)
(***************************************************************************)

\* Only a submission's own request makes its row appear.
LEMMA OthersInsertNothing ==
  ASSUME IInv, NEW r \in Request, Act(r), NEW c \in Creates, c # r
  PROVE  leadState'[c] # "absent" <=> Exists(c)
<1>1. CASE UNCHANGED <<leadState, assignedTo, trail>>
  BY <1>1 DEF Exists
<1>2. CASE Enters(r) /\ on[r] # c
  BY <1>2 DEF Enters, Exists
<1>3. CASE Enters(r) /\ on[r] = c
  <2>1. r \notin Creates
    BY <1>3 DEF IInv, RequestInv, CreateInv
  <2>2. Exists(c)
    BY <1>3, <2>1 DEF Enters
  <2>3. [Next]_vars
    BY DEF Next, Act
  <2> QED
    BY <2>2, <2>3, LeadsAdvance
<1> QED
  BY <1>1, <1>2, <1>3, TrailOfStep

\* StoreInv of submission c.
Stored(c) ==
  /\ At(c, "idle") => files[c] = "none"
  /\ "ack" \notin Faults =>
       (Exists(c) => files[c] = "whole") /\ (At(c, "failed") => ~Exists(c))
  /\ Faults \cap {"disk", "choose", "delete"} = {} =>
       (At(c, "done") /\ ~Exists(c) => files[c] = "none")

LEMMA StoredStep ==
  ASSUME IInv, FileInv, NEW c \in Creates, Stored(c), Act(c)
  PROVE  Stored(c)'
<1>1. c \in Request /\ c \notin Changes /\ c \notin Assigns /\ c \in Lead
  OBVIOUS
<1>2. /\ pc[c] \in {"saved", "chosen", "committed", "mailing", "notifying"} => files[c] = "whole"
      /\ pc[c] \in {"committed", "mailing", "notifying"} => Exists(c)
      /\ pc[c] \in {"idle", "saved", "chosen"} => ~Exists(c)
  BY DEF FileInv, IInv, RequestInv, CreateInv
<1>3. /\ pc \in [Request -> Labels] /\ leadState \in [Lead -> LeadStates \cup {"absent"}]
      /\ files \in [Creates -> {"none", "partial", "whole"}]
  BY DEF IInv, TypeOK, HandlersTypeOK, OutsideTypeOK, RowsTypeOK
<1> USE <1>1, <1>2, <1>3 DEF Stored, At, Goto, Finish, Exists
<1>4. CASE TurnAway(c) \/ SaveFails(c) \/ SaveResume(c)
  BY <1>4 DEF TurnAway, SaveFails, SaveResume, db
<1>5. CASE choose_assignee(c) \/ ChooseFails(c)
  BY <1>5 DEF choose_assignee, ChooseFails, db
<1>6. CASE InsertLead(c) \/ InsertFails(c)
  BY <1>6 DEF InsertLead, InsertFails, InsertRow, db
<1>7. CASE CompensatingDelete(c) \/ RefreshCreated(c) \/ RefreshFails(c)
  BY <1>7 DEF CompensatingDelete, RefreshCreated, RefreshFails, db
<1>8. CASE Die(c)
  BY <1>8 DEF Die, Rollback
<1>9. CASE SendMail(c)
  <2>1. /\ pc[c] \in {"mailing", "notifying"} /\ pc'[c] \in {"notifying", "done"}
        /\ UNCHANGED <<files, leadState>>
    BY <1>9 DEF SendMail, db
  <2> QED
    BY <2>1
<1> QED
  BY <1>4, <1>5, <1>6, <1>7, <1>8, <1>9 DEF Act, Arrive, Proceed, Fail

LEMMA StoreKeeps == IInv /\ FileInv /\ StoreInv /\ [Next]_vars => StoreInv'
<1> SUFFICES ASSUME IInv, FileInv, StoreInv, [Next]_vars PROVE StoreInv'
  OBVIOUS
<1>1. CASE UNCHANGED vars
  BY <1>1 DEF StoreInv, At, Exists, vars, db, local
<1>2. CASE Next
  <2>1. PICK r \in Request : Act(r)
    BY <1>2 DEF Next, Act
  <2>2. ASSUME NEW c \in Creates PROVE Stored(c)'
    <3>1. Stored(c)
      BY DEF StoreInv, Stored
    <3>2. CASE c = r
      BY <2>1, <3>1, <3>2, StoredStep
    <3>3. CASE c # r
      <4>1. pc'[c] = pc[c] /\ files'[c] = files[c]
        BY <2>1, <3>3, ActAlone
      <4>2. leadState'[c] # "absent" <=> Exists(c)
        BY <2>1, <3>3, OthersInsertNothing
      <4> QED
        BY <3>1, <4>1, <4>2 DEF Stored, At, Exists
    <3> QED
      BY <3>2, <3>3
  <2> QED
    BY <2>2 DEF StoreInv, Stored, At, Exists
<1> QED
  BY <1>1, <1>2

LEMMA Storing == Spec => []StoreInv
<1>1. Init => FileInv /\ StoreInv
  BY DEF Init, FileInv, StoreInv, At, Exists
<1>2. IInv /\ FileInv /\ [Next]_vars => FileInv'
  BY FileKeeps
<1>3. IInv /\ FileInv /\ StoreInv /\ [Next]_vars => StoreInv'
  BY StoreKeeps
<1> QED
  BY <1>1, <1>2, <1>3, Invariance, PTL DEF Spec

\* A1 and the leak of lead_service.py:160: a lost acknowledgement is the only
\* fault that costs a committed lead its resume.
THEOREM ResumeKept ==
  ASSUME "ack" \notin Faults
  PROVE  Spec => []CommittedHasResume
<1>1. StoreInv => CommittedHasResume
  BY DEF StoreInv, CommittedHasResume
<1> QED
  BY <1>1, Storing, PTL

\* The compensation leaves no file behind, unless the save stopped half way,
\* choose_assignee failed outside the try block, or the delete itself failed.
THEOREM NoLeak ==
  ASSUME Faults \cap {"disk", "choose", "delete"} = {}
  PROVE  Spec => []NoLeakOnError
<1>1. StoreInv => NoLeakOnError
  BY DEF StoreInv, NoLeakOnError
<1> QED
  BY <1>1, Storing, PTL
===============================================================================
