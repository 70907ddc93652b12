-------------------------- MODULE LeadServiceProofs --------------------------
(***************************************************************************)
(* Proofs about LeadService, for any set of leads, requests, attorneys and *)
(* any roster, with every fault allowed.                                   *)
(***************************************************************************)
EXTENDS LeadServiceProperties, SequenceTheorems, TLAPS

USE RequestsAssumption, NoneAssumption

-----------------------------------------------------------------------------
\* The columns and events the repository hands out are well typed.
LEMMA GetType ==
  ASSUME TypeOK, NEW l \in Lead, Exists(l)
  PROVE  get(l) \in Row
  BY DEF TypeOK, RowsTypeOK, Exists, get, Row

LEMMA CreationType ==
  ASSUME NEW owner \in Owner, NEW actor \in Request \cup {None}
  PROVE  Creation(owner, actor) \in LeadEvent
  BY DEF Creation, LeadEvent, LeadStates, Owner

LEMMA StateEventType ==
  ASSUME NEW s \in LeadStates, NEW t \in LeadStates, NEW actor \in Request
  PROVE  StateEvent(s, t, actor) \in LeadEvent
  BY DEF StateEvent, LeadEvent, Owner

LEMMA OwnerEventType ==
  ASSUME NEW s \in LeadStates, NEW o \in Owner, NEW p \in Owner, NEW actor \in Request
  PROVE  OwnerEvent(s, o, p, actor) \in LeadEvent
  BY DEF OwnerEvent, LeadEvent

LEMMA VerdictType ==
  ASSUME NEW s, NEW t
  PROVE  assert_transition(s, t) \in {"already_in_state", "invalid_transition", "allowed"}
  BY DEF assert_transition

\* choose_assignee returns an address of the roster, or None without one.
LEMMA LeastLoadedType == LeastLoaded \subseteq Owner
  BY RosterAssumption DEF LeastLoaded, Owner

-----------------------------------------------------------------------------
(***************************************************************************)
(* How the steps of one request leave the others alone.  A step of r writes *)
(* r's own entries only (Frame), and of the database only what no other    *)
(* request relies on (Rely): rows stay, no row but r's own appears, and    *)
(* what another request has locked stays as it is.                         *)
(***************************************************************************)

Frame(r) ==
  \A s \in Request : s # r =>
    pc'[s] = pc[s] /\ on'[s] = on[s] /\ want'[s] = want[s] /\ lead'[s] = lead[s]

Rely(r) ==
  /\ \A l \in Lead : Exists(l) => Exists(l)'
  /\ \A l \in Lead : ~Exists(l) /\ l # r => ~Exists(l)'
  /\ \A l \in Lead, s \in Request : s # r =>
       /\ lock'[l] = s <=> lock[l] = s
       /\ lock[l] = s => leadState'[l] = leadState[l] /\ assignedTo'[l] = assignedTo[l]

DatabaseStep(r) == RowsTypeOK' /\ RowInv' /\ Rely(r)

LEMMA OthersKeep ==
  ASSUME IInv, NEW r \in Request, Frame(r), Rely(r), NEW s \in Request, s # r
  PROVE  RequestInv(s)'
<1>1. RequestInv(s) /\ pc'[s] = pc[s] /\ on'[s] = on[s] /\ want'[s] = want[s] /\ lead'[s] = lead[s]
  BY DEF IInv, Frame
<1>2. LockInv(s)'
  BY <1>1 DEF RequestInv, LockInv, Rely, At
<1>3. s \in Creates => CreateInv(s)'
  BY <1>1 DEF RequestInv, CreateInv, Rely
<1>4. s \in Changes => ChangeInv(s)'
  BY <1>1 DEF RequestInv, ChangeInv, LockInv, Rely, At
<1>5. s \in Assigns => AssignInv(s)'
  BY <1>1 DEF RequestInv, AssignInv, LockInv, Rely, At
<1> QED
  BY <1>2, <1>3, <1>4, <1>5 DEF RequestInv

LEMMA Preserved ==
  ASSUME IInv, NEW r \in Request, Frame(r), DatabaseStep(r),
         HandlersTypeOK', OutsideTypeOK', RequestInv(r)'
  PROVE  IInv'
  BY OthersKeep DEF IInv, TypeOK, DatabaseStep

\* The four kinds of database step.
LEMMA QuietStep ==
  ASSUME IInv, NEW r \in Request, UNCHANGED db
  PROVE  DatabaseStep(r)
  BY DEF IInv, TypeOK, RowsTypeOK, RowInv, DatabaseStep, Rely, Exists, db

LEMMA LockStep ==
  ASSUME IInv, NEW r \in Request, NEW l \in Lead, lock[l] = None,
         lock' = [lock EXCEPT ![l] = r], UNCHANGED <<leadState, assignedTo, trail>>
  PROVE  DatabaseStep(r)
  BY DEF IInv, TypeOK, RowsTypeOK, RowInv, DatabaseStep, Rely, Exists

LEMMA RollbackStep ==
  ASSUME IInv, NEW r \in Request, Rollback(r)
  PROVE  DatabaseStep(r)
  BY DEF IInv, TypeOK, RowsTypeOK, RowInv, DatabaseStep, Rely, Exists, Rollback

LEMMA InsertStep ==
  ASSUME IInv, NEW r \in Creates, At(r, "chosen"), InsertRow(r, lead[r].owner, r)
  PROVE  DatabaseStep(r) /\ Exists(r)'
<1>1. r \in Lead /\ r \in Request /\ lead[r].owner \in Owner
  BY DEF IInv, TypeOK, HandlersTypeOK, Row
<1>2. ~Exists(r)
  BY <1>1 DEF IInv, RequestInv, CreateInv, At
<1>3. \A s \in Request : lock[r] # s
  BY <1>1, <1>2 DEF IInv, RequestInv, LockInv, CreateInv, ChangeInv, AssignInv, At
<1>4. RowsTypeOK'
  BY <1>1, CreationType DEF IInv, TypeOK, RowsTypeOK, InsertRow, LeadStates
<1>5. RowInv'
  BY <1>1 DEF IInv, TypeOK, RowsTypeOK, RowInv, InsertRow, Exists
<1>6. Rely(r) /\ Exists(r)'
  BY <1>1, <1>2, <1>3 DEF IInv, TypeOK, RowsTypeOK, Rely, InsertRow, Exists
<1> QED
  BY <1>4, <1>5, <1>6 DEF DatabaseStep

LEMMA CommitStep ==
  ASSUME IInv, NEW r \in Changes \cup Assigns, At(r, "updated"),
         IF r \in Changes THEN CommitState(r) ELSE CommitAssign(r)
  PROVE  DatabaseStep(r) /\ leadState'[on[r]] # "absent" /\ \A l \in Lead : lock'[l] # r
<1> DEFINE l == on[r]
           event == IF r \in Changes THEN StateEvent(lead[r].state, want[r], r)
                    ELSE OwnerEvent(lead[r].state, lead[r].owner, want[r], r)
           state == IF r \in Changes THEN want[r] ELSE leadState[l]
           owner == IF r \in Changes THEN assignedTo[l] ELSE want[r]
<1>1. r \in Request /\ RequestInv(r)
  BY DEF IInv
<1>2. l \in Lead /\ Exists(l) /\ lead[r].state \in LeadStates /\ lead[r].owner \in Owner
  BY <1>1 DEF IInv, TypeOK, HandlersTypeOK, Row, RequestInv, LockInv, ChangeInv, AssignInv, At
<1>3. \A k \in Lead : lock[k] = r <=> k = l
  BY <1>1 DEF RequestInv, LockInv
<1>4. state \in LeadStates /\ owner \in Owner
  BY <1>1, <1>2 DEF IInv, TypeOK, RowsTypeOK, RequestInv, ChangeInv, AssignInv, At, Exists
<1>5. event \in LeadEvent
  <2>1. CASE r \in Changes
    BY <2>1, <1>1, <1>2, <1>4, StateEventType
  <2>2. CASE r \notin Changes
    BY <2>2, <1>1, <1>2, <1>4, OwnerEventType
  <2> QED
    BY <2>1, <2>2
<1>6. CommitRow(l, state, owner, event)
  BY DEF CommitState, CommitAssign
<1> HIDE DEF l, event, state, owner
<1>7. RowsTypeOK'
  BY <1>2, <1>4, <1>5, <1>6 DEF IInv, TypeOK, RowsTypeOK, CommitRow
<1>8. RowInv'
  BY <1>2, <1>4, <1>5, <1>6 DEF IInv, TypeOK, RowsTypeOK, RowInv, CommitRow, Exists, LeadStates
<1>9. Rely(r) /\ leadState'[l] # "absent" /\ \A k \in Lead : lock'[k] # r
  BY <1>1, <1>2, <1>3, <1>4, <1>6 DEF IInv, TypeOK, RowsTypeOK, Rely, CommitRow, Exists, LeadStates
<1> QED
  BY <1>7, <1>8, <1>9 DEF DatabaseStep, l

-----------------------------------------------------------------------------
\* The initial states satisfy the invariant.
LEMMA InitIInv == Init => IInv
<1> SUFFICES ASSUME Init PROVE IInv
  OBVIOUS
<1>1. RowsTypeOK
  <2>1. assignedTo \in [Lead -> Owner]
    BY DEF Init
  <2>2. trail \in [Lead -> Seq(LeadEvent)]
    <3>1. \A l \in Lead : Creation(assignedTo[l], None) \in LeadEvent
      BY <2>1, CreationType
    <3>2. \A l \in Lead : <<Creation(assignedTo[l], None)>> \in Seq(LeadEvent)
      BY <3>1
    <3> QED
      BY <3>2 DEF Init
  <2> QED
    BY <2>1, <2>2 DEF Init, RowsTypeOK, LeadStates
<1>2. HandlersTypeOK
  BY DEF Init, HandlersTypeOK, Labels, Owner, Row, Answers, LeadStates
<1>3. OutsideTypeOK
  BY DEF Init, OutsideTypeOK
<1>4. RowInv
  BY DEF Init, RowInv, Exists
<1>5. ASSUME NEW r \in Request PROVE RequestInv(r)
  BY DEF Init, RequestInv, LockInv, CreateInv, ChangeInv, AssignInv, At, Exists
<1> QED
  BY <1>1, <1>2, <1>3, <1>4, <1>5 DEF IInv, TypeOK

-----------------------------------------------------------------------------
(***************************************************************************)
(* Every action preserves the invariant: the types of what it writes, its  *)
(* database step, and what the new position of r says of r's lead.         *)
(***************************************************************************)

LEMMA TurnAwayKeeps ==
  ASSUME IInv, NEW r \in Creates, TurnAway(r)
  PROVE  IInv'
<1> r \in Request
  OBVIOUS
<1> USE DEF TurnAway, At, Goto, Finish
<1>1. HandlersTypeOK' /\ Frame(r)
  BY DEF IInv, TypeOK, HandlersTypeOK, Frame, Labels, Answers, Refusals
<1>2. OutsideTypeOK'
  BY DEF IInv, TypeOK, OutsideTypeOK
<1>3. DatabaseStep(r)
  BY QuietStep
<1>4. RequestInv(r)'
  BY DEF IInv, RequestInv, TypeOK, HandlersTypeOK, LockInv, CreateInv, Exists, db
<1> QED
  BY <1>1, <1>2, <1>3, <1>4, Preserved

LEMMA SaveResumeKeeps ==
  ASSUME IInv, NEW r \in Creates, SaveResume(r)
  PROVE  IInv'
<1> r \in Request
  OBVIOUS
<1> USE DEF SaveResume, At, Goto, Finish
<1>1. HandlersTypeOK' /\ Frame(r)
  BY DEF IInv, TypeOK, HandlersTypeOK, Frame, Labels, Answers, Refusals
<1>2. OutsideTypeOK'
  BY DEF IInv, TypeOK, OutsideTypeOK
<1>3. DatabaseStep(r)
  BY QuietStep
<1>4. RequestInv(r)'
  BY DEF IInv, RequestInv, TypeOK, HandlersTypeOK, LockInv, CreateInv, Exists, db
<1> QED
  BY <1>1, <1>2, <1>3, <1>4, Preserved

LEMMA SaveFailsKeeps ==
  ASSUME IInv, NEW r \in Creates, SaveFails(r)
  PROVE  IInv'
<1> r \in Request
  OBVIOUS
<1> USE DEF SaveFails, At, Goto, Finish
<1>1. HandlersTypeOK' /\ Frame(r)
  BY DEF IInv, TypeOK, HandlersTypeOK, Frame, Labels, Answers, Refusals
<1>2. OutsideTypeOK'
  BY DEF IInv, TypeOK, OutsideTypeOK
<1>3. DatabaseStep(r)
  BY QuietStep
<1>4. RequestInv(r)'
  BY DEF IInv, RequestInv, TypeOK, HandlersTypeOK, LockInv, CreateInv, Exists, db
<1> QED
  BY <1>1, <1>2, <1>3, <1>4, Preserved

LEMMA ChooseFailsKeeps ==
  ASSUME IInv, NEW r \in Creates, ChooseFails(r)
  PROVE  IInv'
<1> r \in Request
  OBVIOUS
<1> USE DEF ChooseFails, At, Goto, Finish
<1>1. HandlersTypeOK' /\ Frame(r)
  BY DEF IInv, TypeOK, HandlersTypeOK, Frame, Labels, Answers, Refusals
<1>2. OutsideTypeOK'
  BY DEF IInv, TypeOK, OutsideTypeOK
<1>3. DatabaseStep(r)
  BY QuietStep
<1>4. RequestInv(r)'
  BY DEF IInv, RequestInv, TypeOK, HandlersTypeOK, LockInv, CreateInv, Exists, db
<1> QED
  BY <1>1, <1>2, <1>3, <1>4, Preserved

LEMMA CompensatingDeleteKeeps ==
  ASSUME IInv, NEW r \in Creates, CompensatingDelete(r)
  PROVE  IInv'
<1> r \in Request
  OBVIOUS
<1> USE DEF CompensatingDelete, At, Goto, Finish
<1>1. HandlersTypeOK' /\ Frame(r)
  BY DEF IInv, TypeOK, HandlersTypeOK, Frame, Labels, Answers, Refusals
<1>2. OutsideTypeOK'
  BY DEF IInv, TypeOK, OutsideTypeOK
<1>3. DatabaseStep(r)
  BY QuietStep
<1>4. RequestInv(r)'
  BY DEF IInv, RequestInv, TypeOK, HandlersTypeOK, LockInv, CreateInv, Exists, db
<1> QED
  BY <1>1, <1>2, <1>3, <1>4, Preserved

LEMMA choose_assigneeKeeps ==
  ASSUME IInv, NEW r \in Creates, choose_assignee(r)
  PROVE  IInv'
<1> r \in Request
  OBVIOUS
<1> USE DEF choose_assignee, At, Goto, Finish
<1>0. \A owner \in Owner : [state |-> "PENDING", owner |-> owner] \in Row
  BY DEF Row, LeadStates
<1>1. HandlersTypeOK' /\ Frame(r)
  BY <1>0, LeastLoadedType DEF IInv, TypeOK, HandlersTypeOK, Frame, Labels, Answers, Refusals
<1>2. OutsideTypeOK'
  BY DEF IInv, TypeOK, OutsideTypeOK
<1>3. DatabaseStep(r)
  BY QuietStep
<1>4. RequestInv(r)'
  BY DEF IInv, RequestInv, TypeOK, HandlersTypeOK, LockInv, CreateInv, Exists, db
<1> QED
  BY <1>1, <1>2, <1>3, <1>4, Preserved

LEMMA InsertLeadKeeps ==
  ASSUME IInv, NEW r \in Creates, InsertLead(r)
  PROVE  IInv'
<1> r \in Request
  OBVIOUS
<1> USE DEF InsertLead, At, Goto, Finish
<1>1. HandlersTypeOK' /\ Frame(r)
  BY DEF IInv, TypeOK, HandlersTypeOK, Frame, Labels, Answers, Refusals
<1>2. OutsideTypeOK'
  BY DEF IInv, TypeOK, OutsideTypeOK
<1>3. DatabaseStep(r)
  BY InsertStep
<1>4. RequestInv(r)'
  BY InsertStep DEF IInv, RequestInv, TypeOK, HandlersTypeOK, LockInv, CreateInv, Exists, InsertRow
<1> QED
  BY <1>1, <1>2, <1>3, <1>4, Preserved

LEMMA InsertFailsKeeps ==
  ASSUME IInv, NEW r \in Creates, InsertFails(r)
  PROVE  IInv'
<1> r \in Request
  OBVIOUS
<1> USE DEF InsertFails, At, Goto, Finish
<1>1. HandlersTypeOK' /\ Frame(r)
  BY DEF IInv, TypeOK, HandlersTypeOK, Frame, Labels, Answers, Refusals
<1>2. OutsideTypeOK'
  BY DEF IInv, TypeOK, OutsideTypeOK
<1>3. DatabaseStep(r)
  BY InsertStep, QuietStep
<1>4. RequestInv(r)'
  BY DEF IInv, RequestInv, TypeOK, HandlersTypeOK, LockInv, CreateInv, Exists, InsertRow, db
<1> QED
  BY <1>1, <1>2, <1>3, <1>4, Preserved

LEMMA RefreshCreatedKeeps ==
  ASSUME IInv, NEW r \in Creates, RefreshCreated(r)
  PROVE  IInv'
<1> r \in Request
  OBVIOUS
<1> USE DEF RefreshCreated, At, Goto, Finish
<1>0. get(r) \in Row
  BY GetType DEF IInv, RequestInv, CreateInv
<1>1. HandlersTypeOK' /\ Frame(r)
  BY <1>0 DEF IInv, TypeOK, HandlersTypeOK, Frame, Labels, Answers, Refusals
<1>2. OutsideTypeOK'
  BY DEF IInv, TypeOK, OutsideTypeOK
<1>3. DatabaseStep(r)
  BY QuietStep
<1>4. RequestInv(r)'
  BY DEF IInv, RequestInv, TypeOK, HandlersTypeOK, LockInv, CreateInv, Exists, db
<1> QED
  BY <1>1, <1>2, <1>3, <1>4, Preserved

LEMMA ReadForChangeKeeps ==
  ASSUME IInv, NEW r \in Changes, ReadForChange(r)
  PROVE  IInv'
<1> r \in Request
  OBVIOUS
<1> USE DEF ReadForChange, At, Goto, Finish
<1>0. \A l \in Lead : Exists(l) => get(l) \in Row
  BY GetType DEF IInv
<1>1. HandlersTypeOK' /\ Frame(r)
  BY <1>0, VerdictType DEF IInv, TypeOK, HandlersTypeOK, Frame, Labels, Answers, Refusals
<1>2. OutsideTypeOK'
  BY DEF IInv, TypeOK, OutsideTypeOK
<1>3. DatabaseStep(r)
  BY QuietStep DEF assert_transition
<1>4. RequestInv(r)'
  BY DEF IInv, RequestInv, TypeOK, HandlersTypeOK, LockInv, ChangeInv, Exists, db, get, assert_transition, Owner
<1> QED
  BY <1>1, <1>2, <1>3, <1>4, Preserved

LEMMA UpdateStateKeeps ==
  ASSUME IInv, NEW r \in Changes, UpdateState(r)
  PROVE  IInv'
<1> r \in Request
  OBVIOUS
<1> USE DEF UpdateState, StateLost, update_state, At, Goto, Finish
<1>1. HandlersTypeOK' /\ Frame(r)
  BY DEF IInv, TypeOK, HandlersTypeOK, Frame, Labels, Answers, Refusals
<1>2. OutsideTypeOK'
  BY DEF IInv, TypeOK, OutsideTypeOK
<1>3. DatabaseStep(r)
  BY QuietStep, LockStep DEF IInv, RequestInv, LockInv
<1>4. RequestInv(r)'
  <2>1. /\ on[r] \in Lead /\ on'[r] = on[r] /\ want'[r] = want[r] /\ lead'[r] = lead[r]
        /\ ChangeInv(r) /\ \A l \in Lead : lock[l] # r
    BY DEF IInv, RequestInv, LockInv
  <2>2. CASE StateLost(r)
    BY <2>1, <2>2 DEF IInv, TypeOK, HandlersTypeOK, RequestInv, LockInv, ChangeInv, db
  <2>3. CASE update_state(r, on[r], lead[r].state) /\ Goto(r, "updated")
    <3>1. pc'[r] = "updated" /\ \A l \in Lead : lock'[l] = r <=> l = on[r]
      BY <2>1, <2>3 DEF IInv, TypeOK, HandlersTypeOK, RowsTypeOK
    <3> QED
      BY <2>1, <2>3, <3>1 DEF RequestInv, LockInv, ChangeInv, Exists
  <2> QED
    BY <2>2, <2>3
<1> QED
  BY <1>1, <1>2, <1>3, <1>4, Preserved

LEMMA RefreshChangedKeeps ==
  ASSUME IInv, NEW r \in Changes, RefreshChanged(r)
  PROVE  IInv'
<1> r \in Request
  OBVIOUS
<1> USE DEF RefreshChanged, At, Goto, Finish
<1>0. get(on[r]) \in Row
  BY GetType DEF IInv, RequestInv, LockInv, ChangeInv
<1>1. HandlersTypeOK' /\ Frame(r)
  BY <1>0 DEF IInv, TypeOK, HandlersTypeOK, Frame, Labels, Answers, Refusals
<1>2. OutsideTypeOK'
  BY DEF IInv, TypeOK, OutsideTypeOK
<1>3. DatabaseStep(r)
  BY QuietStep
<1>4. RequestInv(r)'
  BY DEF IInv, RequestInv, TypeOK, HandlersTypeOK, LockInv, ChangeInv, Exists, db
<1> QED
  BY <1>1, <1>2, <1>3, <1>4, Preserved

LEMMA ReadForAssignKeeps ==
  ASSUME IInv, NEW r \in Assigns, ReadForAssign(r)
  PROVE  IInv'
<1> r \in Request
  OBVIOUS
<1> USE DEF ReadForAssign, At, Goto, Finish
<1>0. \A l \in Lead : Exists(l) => get(l) \in Row
  BY GetType DEF IInv
<1>1. HandlersTypeOK' /\ Frame(r)
  BY <1>0 DEF IInv, TypeOK, HandlersTypeOK, Frame, Labels, Answers, Refusals
<1>2. OutsideTypeOK'
  BY DEF IInv, TypeOK, OutsideTypeOK
<1>3. DatabaseStep(r)
  BY QuietStep
<1>4. RequestInv(r)'
  BY DEF IInv, RequestInv, TypeOK, HandlersTypeOK, LockInv, AssignInv, Exists, db, get, Owner
<1> QED
  BY <1>1, <1>2, <1>3, <1>4, Preserved

LEMMA UpdateAssigneeKeeps ==
  ASSUME IInv, NEW r \in Assigns, UpdateAssignee(r)
  PROVE  IInv'
<1> r \in Request
  OBVIOUS
<1> USE DEF UpdateAssignee, OwnerLost, update_assignee, At, Goto, Finish
<1>1. HandlersTypeOK' /\ Frame(r)
  BY DEF IInv, TypeOK, HandlersTypeOK, Frame, Labels, Answers, Refusals
<1>2. OutsideTypeOK'
  BY DEF IInv, TypeOK, OutsideTypeOK
<1>3. DatabaseStep(r)
  BY QuietStep, LockStep DEF IInv, RequestInv, LockInv
<1>4. RequestInv(r)'
  <2>1. /\ on[r] \in Lead /\ on'[r] = on[r] /\ want'[r] = want[r] /\ lead'[r] = lead[r]
        /\ AssignInv(r) /\ \A l \in Lead : lock[l] # r
    BY DEF IInv, RequestInv, LockInv
  <2>2. CASE OwnerLost(r)
    BY <2>1, <2>2 DEF IInv, TypeOK, HandlersTypeOK, RequestInv, LockInv, AssignInv, db
  <2>3. CASE update_assignee(r, on[r], lead[r].owner) /\ Goto(r, "updated")
    <3>1. pc'[r] = "updated" /\ \A l \in Lead : lock'[l] = r <=> l = on[r]
      BY <2>1, <2>3 DEF IInv, TypeOK, HandlersTypeOK, RowsTypeOK
    <3> QED
      BY <2>1, <2>3, <3>1 DEF RequestInv, LockInv, AssignInv, Exists
  <2> QED
    BY <2>2, <2>3
<1> QED
  BY <1>1, <1>2, <1>3, <1>4, Preserved

LEMMA RefreshAssignedKeeps ==
  ASSUME IInv, NEW r \in Assigns, RefreshAssigned(r)
  PROVE  IInv'
<1> r \in Request
  OBVIOUS
<1> USE DEF RefreshAssigned, At, Goto, Finish
<1>0. get(on[r]) \in Row
  BY GetType DEF IInv, RequestInv, LockInv, AssignInv
<1>1. HandlersTypeOK' /\ Frame(r)
  BY <1>0 DEF IInv, TypeOK, HandlersTypeOK, Frame, Labels, Answers, Refusals
<1>2. OutsideTypeOK'
  BY DEF IInv, TypeOK, OutsideTypeOK
<1>3. DatabaseStep(r)
  BY QuietStep
<1>4. RequestInv(r)'
  BY DEF IInv, RequestInv, TypeOK, HandlersTypeOK, LockInv, AssignInv, Exists, db
<1> QED
  BY <1>1, <1>2, <1>3, <1>4, Preserved

LEMMA CommitUpdateKeeps ==
  ASSUME IInv, NEW r \in Changes \cup Assigns, CommitUpdate(r)
  PROVE  IInv'
<1> r \in Request
  OBVIOUS
<1> USE DEF CommitUpdate, At, Goto
<1>1. HandlersTypeOK' /\ Frame(r) /\ pc'[r] = "committed"
  BY DEF IInv, TypeOK, HandlersTypeOK, Frame, Labels
<1>2. OutsideTypeOK'
  BY DEF IInv, TypeOK, OutsideTypeOK
<1>3. DatabaseStep(r) /\ leadState'[on[r]] # "absent" /\ \A l \in Lead : lock'[l] # r
  BY CommitStep
<1>4. RequestInv(r)'
  BY <1>1, <1>3 DEF IInv, RequestInv, LockInv, ChangeInv, AssignInv, Exists
<1> QED
  BY <1>1, <1>2, <1>3, <1>4, Preserved

LEMMA WriteFailsKeeps ==
  ASSUME IInv, NEW r \in Changes \cup Assigns, WriteFails(r)
  PROVE  IInv'
<1> r \in Request
  OBVIOUS
<1> USE DEF WriteFails, At, Finish
<1>1. HandlersTypeOK' /\ Frame(r) /\ pc'[r] = "done"
  BY DEF IInv, TypeOK, HandlersTypeOK, Frame, Labels, Answers
<1>2. OutsideTypeOK'
  BY DEF IInv, TypeOK, OutsideTypeOK
<1>3. DatabaseStep(r) /\ \A l \in Lead : lock'[l] # r
  <2>1. CASE Rollback(r)
    BY <2>1, RollbackStep DEF Rollback
  <2>2. CASE ~Rollback(r)
    BY <2>2, CommitStep
  <2> QED
    BY <2>1, <2>2
<1>4. RequestInv(r)'
  BY <1>1, <1>3 DEF IInv, RequestInv, LockInv, ChangeInv, AssignInv
<1> QED
  BY <1>1, <1>2, <1>3, <1>4, Preserved

LEMMA RefreshFailsKeeps ==
  ASSUME IInv, NEW r \in Request, RefreshFails(r)
  PROVE  IInv'
<1> USE DEF RefreshFails, At, Finish
<1>1. HandlersTypeOK' /\ Frame(r) /\ pc'[r] = "done"
  BY DEF IInv, TypeOK, HandlersTypeOK, Frame, Labels, Answers
<1>2. OutsideTypeOK'
  BY DEF IInv, TypeOK, OutsideTypeOK
<1>3. DatabaseStep(r)
  BY QuietStep
<1>4. RequestInv(r)'
  BY <1>1 DEF IInv, RequestInv, LockInv, CreateInv, ChangeInv, AssignInv, db
<1> QED
  BY <1>1, <1>2, <1>3, <1>4, Preserved

LEMMA SendMailKeeps ==
  ASSUME IInv, NEW r \in Request, SendMail(r)
  PROVE  IInv'
<1> USE DEF SendMail, At, Goto
<1>1. /\ HandlersTypeOK' /\ Frame(r)
      /\ pc'[r] = "done" \/ (pc'[r] = "notifying" /\ pc[r] = "mailing" /\ r \in Creates)
  BY DEF IInv, TypeOK, HandlersTypeOK, Frame, Labels
<1>2. OutsideTypeOK'
  <2>1. pc[r] \in {"mailing", "notifying"}
    OBVIOUS
  <2>2. on[r] \in Lead
    BY <2>1 DEF IInv, RequestInv, LockInv
  <2>3. lead[r] \in [state : LeadStates, owner : Email \cup {None}]
    BY DEF IInv, TypeOK, HandlersTypeOK, Row, Owner
  <2>4. NotifyAddress(lead[r]) \in Email \cup {"shared inbox"} /\ lead[r].state \in LeadStates
    BY <2>3 DEF NotifyAddress
  <2>5. sent' = sent \/ \E kind \in {"confirmation", "notification", "status"},
                            to \in Email \cup {"prospect", "shared inbox"} :
                          sent' = sent \cup {Mail(r, kind, to)}
    BY <2>4 DEF Send
  <2>6. \A kind \in {"confirmation", "notification", "status"},
           to \in Email \cup {"prospect", "shared inbox"} :
          Mail(r, kind, to) \in Mails
    BY <2>2, <2>4 DEF Mail, Mails
  <2>7. UNCHANGED files
    OBVIOUS
  <2> QED
    BY <2>5, <2>6, <2>7 DEF IInv, TypeOK, OutsideTypeOK
<1>3. DatabaseStep(r)
  BY QuietStep
<1>4. RequestInv(r)'
  BY <1>1 DEF IInv, RequestInv, LockInv, CreateInv, ChangeInv, AssignInv, Exists, db
<1> QED
  BY <1>1, <1>2, <1>3, <1>4, Preserved

LEMMA DieKeeps ==
  ASSUME IInv, NEW r \in Request, Die(r)
  PROVE  IInv'
<1> USE DEF Die, Goto
<1>1. HandlersTypeOK' /\ Frame(r) /\ pc'[r] = "dead"
  BY DEF IInv, TypeOK, HandlersTypeOK, Frame, Labels
<1>2. OutsideTypeOK'
  BY DEF IInv, TypeOK, OutsideTypeOK
<1>3. DatabaseStep(r)
  BY RollbackStep
<1>4. RequestInv(r)'
  BY <1>1 DEF IInv, RequestInv, LockInv, CreateInv, ChangeInv, AssignInv, Rollback, At
<1> QED
  BY <1>1, <1>2, <1>3, <1>4, Preserved

LEMMA NextKeeps == IInv /\ [Next]_vars => IInv'
<1> SUFFICES ASSUME IInv, [Next]_vars PROVE IInv'
  OBVIOUS
<1>1. CASE UNCHANGED vars
  <2> USE <1>1 DEF vars, db, local, IInv
  <2>1. TypeOK'
    BY DEF TypeOK, RowsTypeOK, HandlersTypeOK, OutsideTypeOK
  <2>2. RowInv'
    BY DEF RowInv, Exists
  <2>3. \A r \in Request : RequestInv(r)'
    BY DEF RequestInv, LockInv, CreateInv, ChangeInv, AssignInv, At, Exists
  <2> QED
    BY <2>1, <2>2, <2>3
<1>2. ASSUME NEW r \in Request, Arrive(r) PROVE IInv'
  BY <1>2, TurnAwayKeeps, SaveResumeKeeps, SaveFailsKeeps, ReadForChangeKeeps, ReadForAssignKeeps
  DEF Arrive
<1>3. ASSUME NEW r \in Request, Proceed(r) PROVE IInv'
  BY <1>3, choose_assigneeKeeps, InsertLeadKeeps, CompensatingDeleteKeeps, RefreshCreatedKeeps,
     UpdateStateKeeps, RefreshChangedKeeps, UpdateAssigneeKeeps, RefreshAssignedKeeps,
     CommitUpdateKeeps, SendMailKeeps
  DEF Proceed
<1>4. ASSUME NEW r \in Request, Fail(r) PROVE IInv'
  BY <1>4, ChooseFailsKeeps, InsertFailsKeeps, WriteFailsKeeps, RefreshFailsKeeps, DieKeeps
  DEF Fail
<1> QED
  BY <1>1, <1>2, <1>3, <1>4 DEF Next

\* Every reachable state is well typed and satisfies the invariant that ties
\* each request's progress to the lead it works on, whatever fails and whoever
\* else is at work.
THEOREM Invariance == Spec => []IInv
<1>1. Init => IInv
  BY InitIInv
<1>2. IInv /\ [Next]_vars => IInv'
  BY NextKeeps
<1> QED
  BY <1>1, <1>2, PTL DEF Spec

THEOREM TypeCorrect == Spec => []TypeOK
<1>1. IInv => TypeOK
  BY DEF IInv
<1> QED
  BY <1>1, Invariance, PTL

-----------------------------------------------------------------------------
(***************************************************************************)
(* Refinement of LeadLifecycle.  A commit is the only step that shows: it  *)
(* appends one event, whose summary is the abstract log entry.             *)
(***************************************************************************)

LEMMA LogAppend ==
  ASSUME NEW t \in Seq(LeadEvent), NEW e \in LeadEvent
  PROVE  LogOf(Append(t, e)) = Append(LogOf(t), Summary(e))
<1> DEFINE u == Append(t, e)
<1>1. Len(u) = Len(t) + 1 /\ u[Len(t) + 1] = e /\ \A i \in 1..Len(t) : u[i] = t[i]
  OBVIOUS
<1> DEFINE S == {Summary(f) : f \in LeadEvent}
<1>2. LogOf(t) \in Seq(S) /\ Len(LogOf(t)) = Len(t) /\ \A i \in 1..Len(t) : LogOf(t)[i] = Summary(t[i])
  BY DEF LogOf
<1>3. LogOf(u) \in Seq(S) /\ Len(LogOf(u)) = Len(u) /\ \A i \in 1..Len(u) : LogOf(u)[i] = Summary(u[i])
  BY DEF LogOf
<1>4. Summary(e) \in S
  OBVIOUS
<1> HIDE DEF S
<1>5. /\ Append(LogOf(t), Summary(e)) \in Seq(S)
      /\ Len(Append(LogOf(t), Summary(e))) = Len(t) + 1
      /\ \A i \in 1..(Len(t) + 1) : Append(LogOf(t), Summary(e))[i] = LogOf(u)[i]
  BY <1>1, <1>2, <1>3, <1>4, AppendProperties
<1> QED
  BY <1>1, <1>3, <1>5, SeqEqual

\* What a step does to the abstract log when it appends one event to one trail.
LEMMA LogOfAppend ==
  ASSUME trail \in [Lead -> Seq(LeadEvent)], NEW l \in Lead, NEW e \in LeadEvent,
         trail' = [trail EXCEPT ![l] = Append(@, e)]
  PROVE  [k \in Lead |-> LogOf(trail'[k])]
           = [[k \in Lead |-> LogOf(trail[k])] EXCEPT ![l] = Append(@, Summary(e))]
<1>1. \A k \in Lead : LogOf(trail'[k])
         = IF k = l THEN Append(LogOf(trail[l]), Summary(e)) ELSE LogOf(trail[k])
  BY LogAppend
<1> QED
  BY <1>1

LEMMA CreationSummary ==
  ASSUME NEW owner, NEW actor
  PROVE  Summary(Creation(owner, actor)) = [what |-> "opened", old |-> None, new |-> owner]
  BY DEF Summary, Creation

LEMMA StateSummary ==
  ASSUME NEW s \in LeadStates, NEW t \in LeadStates, s # t, NEW actor
  PROVE  Summary(StateEvent(s, t, actor)) = [what |-> "moved", old |-> s, new |-> t]
  BY DEF Summary, StateEvent, Moves

LEMMA OwnerSummary ==
  ASSUME NEW s \in LeadStates, NEW o, NEW p, NEW actor
  PROVE  Summary(OwnerEvent(s, o, p, actor)) = [what |-> "handed", old |-> o, new |-> p]
  BY DEF Summary, OwnerEvent, Moves

LEMMA InitLifecycle == Init => Lifecycle!Init
<1> SUFFICES ASSUME Init PROVE Lifecycle!Init
  OBVIOUS
<1>1. leadState \in [Lead -> {"absent", "PENDING"}] /\ assignedTo \in [Lead -> Email \cup {None}]
  BY DEF Init, Owner
<1>2. LogOf(<< >>) = << >>
  BY DEF LogOf
<1>3. \A owner : LogOf(<<Creation(owner, None)>>) = <<Lifecycle!Entry("opened", None, owner)>>
  BY CreationSummary DEF LogOf, Lifecycle!Entry
<1>4. \A l \in Lead : LogOf(trail[l]) =
         IF leadState[l] = "absent" THEN << >> ELSE <<Lifecycle!Entry("opened", None, assignedTo[l])>>
  BY <1>2, <1>3 DEF Init
<1> QED
  BY <1>1, <1>4 DEF Lifecycle!Init

\* An insert is a submission.
LEMMA InsertIsSubmit ==
  ASSUME IInv, NEW r \in Creates, At(r, "chosen"), InsertRow(r, lead[r].owner, r)
  PROVE  Lifecycle!Next
<1>1. r \in Lead /\ r \in Request /\ lead[r].owner \in Owner
  BY DEF IInv, TypeOK, HandlersTypeOK, Row
<1>2. leadState[r] = "absent"
  BY <1>1 DEF IInv, RequestInv, CreateInv, At, Exists
<1>3. Creation(lead[r].owner, r) \in LeadEvent
  BY <1>1, CreationType
<1>4. [k \in Lead |-> LogOf(trail'[k])] = [[k \in Lead |-> LogOf(trail[k])] EXCEPT
         ![r] = Append(@, Lifecycle!Entry("opened", None, lead[r].owner))]
  BY <1>1, <1>3, LogOfAppend, CreationSummary DEF IInv, TypeOK, RowsTypeOK, InsertRow, Lifecycle!Entry
<1>5. Lifecycle!Submit(r, lead[r].owner)
  BY <1>2, <1>4 DEF Lifecycle!Submit, InsertRow
<1> QED
  BY <1>1, <1>5 DEF Lifecycle!Next, Owner

\* The commit of a change is a move along an edge.
LEMMA CommitIsAdvance ==
  ASSUME IInv, NEW r \in Changes, At(r, "updated"), CommitState(r)
  PROVE  Lifecycle!Next
<1>1. r \in Request /\ on[r] \in Lead /\ leadState[on[r]] = lead[r].state
      /\ rule_for(lead[r].state, want[r]) # {}
  BY DEF IInv, RequestInv, LockInv, ChangeInv, At
<1>2. lead[r].state \in LeadStates /\ want[r] \in LeadStates /\ lead[r].state # want[r]
  BY <1>1 DEF rule_for, TRANSITIONS, LeadStates
<1>3. StateEvent(lead[r].state, want[r], r) \in LeadEvent
  BY <1>1, <1>2, StateEventType
<1>4. [k \in Lead |-> LogOf(trail'[k])] = [[k \in Lead |-> LogOf(trail[k])] EXCEPT
         ![on[r]] = Append(@, Lifecycle!Entry("moved", leadState[on[r]], want[r]))]
  <2>1. trail' = [trail EXCEPT ![on[r]] = Append(@, StateEvent(lead[r].state, want[r], r))]
    BY DEF CommitState, CommitRow
  <2>2. Summary(StateEvent(lead[r].state, want[r], r)) = Lifecycle!Entry("moved", leadState[on[r]], want[r])
    BY <1>1, <1>2, StateSummary DEF Lifecycle!Entry
  <2>3. trail \in [Lead -> Seq(LeadEvent)]
    BY DEF IInv, TypeOK, RowsTypeOK
  <2> QED
    BY <1>1, <1>3, <2>1, <2>2, <2>3, LogOfAppend
<1>5. UNCHANGED assignedTo
  BY <1>1 DEF IInv, TypeOK, RowsTypeOK, CommitState, CommitRow
<1>6. Lifecycle!Advance(on[r], want[r])
  BY <1>1, <1>4, <1>5 DEF Lifecycle!Advance, Lifecycle!rule_for, Lifecycle!TRANSITIONS,
                          rule_for, TRANSITIONS, CommitState, CommitRow
<1> QED
  BY <1>1, <1>2, <1>6 DEF Lifecycle!Next, Lifecycle!LeadStates, LeadStates

\* The commit of an assignment is a handover.
LEMMA CommitIsHandOver ==
  ASSUME IInv, NEW r \in Assigns, At(r, "updated"), CommitAssign(r)
  PROVE  Lifecycle!Next
<1>1. r \in Request /\ on[r] \in Lead /\ assignedTo[on[r]] = lead[r].owner
      /\ want[r] # lead[r].owner /\ want[r] \in Owner /\ leadState[on[r]] # "absent"
  BY DEF IInv, RequestInv, LockInv, AssignInv, At, Exists
<1>2. lead[r].state \in LeadStates /\ lead[r].owner \in Owner
  BY <1>1 DEF IInv, TypeOK, HandlersTypeOK, Row
<1>3. OwnerEvent(lead[r].state, lead[r].owner, want[r], r) \in LeadEvent
  BY <1>1, <1>2, OwnerEventType
<1>4. [k \in Lead |-> LogOf(trail'[k])] = [[k \in Lead |-> LogOf(trail[k])] EXCEPT
         ![on[r]] = Append(@, Lifecycle!Entry("handed", assignedTo[on[r]], want[r]))]
  <2> DEFINE event == OwnerEvent(lead[r].state, lead[r].owner, want[r], r)
  <2>1. trail' = [trail EXCEPT ![on[r]] = Append(@, event)]
    BY DEF CommitAssign, CommitRow
  <2>2. Summary(event) = Lifecycle!Entry("handed", assignedTo[on[r]], want[r])
    BY <1>1, <1>2, OwnerSummary DEF Lifecycle!Entry
  <2>3. trail \in [Lead -> Seq(LeadEvent)]
    BY DEF IInv, TypeOK, RowsTypeOK
  <2>4. event \in LeadEvent
    BY <1>3
  <2> HIDE DEF event
  <2>5. [k \in Lead |-> LogOf(trail'[k])]
          = [[k \in Lead |-> LogOf(trail[k])] EXCEPT ![on[r]] = Append(@, Summary(event))]
    BY <1>1, <2>1, <2>3, <2>4, LogOfAppend
  <2> QED
    BY <2>2, <2>5
<1>5. UNCHANGED leadState
  BY <1>1 DEF IInv, TypeOK, RowsTypeOK, CommitAssign, CommitRow
<1>6. Lifecycle!HandOver(on[r], want[r])
  BY <1>1, <1>4, <1>5 DEF Lifecycle!HandOver, CommitAssign, CommitRow
<1> QED
  BY <1>1, <1>6 DEF Lifecycle!Next, Owner

\* Every other step leaves the rows and the trail alone, and stutters.
LEMMA StepRefines ==
  ASSUME IInv, [Next]_vars
  PROVE  [Lifecycle!Next]_(Lifecycle!vars)
<1> DEFINE Same == UNCHANGED <<leadState, assignedTo, trail>>
<1>1. Same => UNCHANGED Lifecycle!vars
  BY DEF Lifecycle!vars
<1>2. CASE UNCHANGED vars
  BY <1>1, <1>2 DEF vars, db
<1>3. CASE Next
  <2>1. PICK r \in Request : Arrive(r) \/ Proceed(r) \/ Fail(r)
    BY <1>3 DEF Next
  <2>2. CASE Arrive(r)
    <3>1. Same
      BY <2>2 DEF Arrive, TurnAway, SaveResume, SaveFails, ReadForChange, ReadForAssign, db
    <3> QED
      BY <1>1, <3>1
  <2>3. CASE Fail(r) /\ (RefreshFails(r) \/ Die(r))
    <3>1. Same
      BY <2>3 DEF RefreshFails, Die, Rollback, db
    <3> QED
      BY <1>1, <3>1
  <2>4. CASE r \in Creates /\ (InsertLead(r) \/ InsertFails(r))
    <3>1. CASE InsertRow(r, lead[r].owner, r)
      BY <2>4, <3>1, InsertIsSubmit DEF InsertLead, InsertFails
    <3>2. CASE ~InsertRow(r, lead[r].owner, r)
      <4>1. Same
        BY <2>4, <3>2 DEF InsertLead, InsertFails, db
      <4> QED
        BY <1>1, <4>1
    <3> QED
      BY <3>1, <3>2
  <2>5. CASE r \in Creates /\ (choose_assignee(r) \/ ChooseFails(r) \/ CompensatingDelete(r) \/ RefreshCreated(r))
    <3>1. Same
      BY <2>5 DEF choose_assignee, ChooseFails, CompensatingDelete, RefreshCreated, db
    <3> QED
      BY <1>1, <3>1
  <2>6. CASE (r \in Changes /\ (UpdateState(r) \/ RefreshChanged(r)))
          \/ (r \in Assigns /\ (UpdateAssignee(r) \/ RefreshAssigned(r)))
    <3>1. Same
      BY <2>6 DEF UpdateState, StateLost, update_state, RefreshChanged, UpdateAssignee, OwnerLost,
                  update_assignee, RefreshAssigned, db
    <3> QED
      BY <1>1, <3>1
  <2>7. CASE r \in Changes \cup Assigns /\ (CommitUpdate(r) \/ WriteFails(r))
    <3>1. Changes \cap Assigns = {}
      BY RequestsAssumption
    <3>2. CASE Same
      BY <1>1, <3>2
    <3>3. CASE ~Same
      <4>1. At(r, "updated") /\ (IF r \in Changes THEN CommitState(r) ELSE CommitAssign(r))
        BY <2>7, <3>3 DEF CommitUpdate, WriteFails, Rollback
      <4> QED
        BY <2>7, <3>1, <4>1, CommitIsAdvance, CommitIsHandOver
    <3> QED
      BY <3>2, <3>3
  <2>8. CASE SendMail(r)
    <3>1. Same
      BY <2>8 DEF SendMail, db
    <3> QED
      BY <1>1, <3>1
  <2> QED
    BY <2>1, <2>2, <2>3, <2>4, <2>5, <2>6, <2>7, <2>8 DEF Proceed, Fail
<1> QED
  BY <1>2, <1>3

\* Seen through its committed rows, the service implements the abstract
\* lifecycle, for any number of leads, requests and attorneys and any faults.
THEOREM Implementation == Spec => ImplementsLifecycle
<1>1. Init => Lifecycle!Init
  BY InitLifecycle
<1>2. IInv /\ [Next]_vars => [Lifecycle!Next]_(Lifecycle!vars)
  BY StepRefines
<1> QED
  BY <1>1, <1>2, Invariance, PTL DEF Spec, ImplementsLifecycle, Lifecycle!Spec
=============================================================================
