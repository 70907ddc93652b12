----------------------------- MODULE LeadService -----------------------------
(***************************************************************************)
(* The write side of the API: create_lead, change_state and assign_lead of *)
(* api/app/services/lead_service.py together with their handlers in        *)
(* api/app/api/v1/leads.py, running concurrently.  Every statement sent to *)
(* the database, every call of the file store and every mail is a step of  *)
(* its own, and each may fail in the ways Faults allows.                   *)
(***************************************************************************)
EXTENDS LeadRepository

CONSTANTS
  Creates, Changes, Assigns,  \* the requests, by endpoint
  Roster,                     \* settings.attorneys, lowercased, in order
  FallbackAttorney,           \* the one account when the roster is empty
  Faults                      \* which faults may strike, see FaultNames

FaultNames ==
  {"save",      \* storage.save raises before it writes anything
   "disk",      \* storage.save raises after it wrote part of the file
   "choose",    \* the SELECT of choose_assignee fails
   "write",     \* a write or its COMMIT fails and is rolled back
   "ack",       \* a COMMIT takes effect, its answer is lost
   "delete",    \* the compensating delete fails
   "refresh",   \* the SELECT after the COMMIT fails
   "mail",      \* the mail provider fails
   "die"}       \* the worker process is killed

\* A create request's own name stands for the id, the tracking code and the
\* storage key it draws: all three are fresh.
ASSUME RequestsAssumption ==
  /\ Request = Creates \cup Changes \cup Assigns
  /\ Creates \subseteq Lead
  /\ Creates \cap Changes = {} /\ Creates \cap Assigns = {} /\ Changes \cap Assigns = {}

ASSUME RosterAssumption ==
  /\ Roster \in Seq(Email)
  /\ FallbackAttorney \in Email

ASSUME NoneAssumption ==
  /\ None \notin LeadStates /\ None \notin Email /\ None \notin Request /\ None \notin Lead
  /\ Email \cap LeadStates = {}

ASSUME FaultsAssumption == Faults \subseteq FaultNames

VARIABLES
  files,  \* create request -> its object in the file store
  pc,     \* request -> how far its handler is
  on,     \* request -> the lead it is about
  want,   \* request -> the state or owner asked for
  lead,   \* request -> the fields of its ORM instance, later of its mail snapshot
  reply,  \* request -> the answer sent to the client
  sent    \* the mails accepted by the provider

local == <<pc, on, want, lead, reply>>
vars == <<db, files, local, sent>>

Labels == {"idle", "saved", "chosen", "failed", "loaded", "updated", "committed",
           "mailing", "notifying", "done", "dead"}

Refusals == {"discarded", "rejected", "unknown_assignee", "lead_not_found",
             "already_in_state", "invalid_transition"}
Answers == {"none", "ok", "storage_unavailable", "error"} \cup Refusals

AssignRoster ==
  IF Roster = << >> THEN {FallbackAttorney} ELSE {Roster[i] : i \in DOMAIN Roster}

Init ==
  /\ leadState = [l \in Lead |-> IF l \in Creates THEN "absent" ELSE "PENDING"]
  /\ \E owner \in [Lead -> Owner] :
       /\ \A l \in Creates : owner[l] = None
       /\ assignedTo = owner
  /\ trail = [l \in Lead |-> IF l \in Creates THEN << >>
                             ELSE <<Creation(assignedTo[l], None)>>]
  /\ lock = [l \in Lead |-> None]
  /\ files = [c \in Creates |-> "none"]
  /\ pc = [r \in Request |-> "idle"]
  /\ on = [r \in Request |-> IF r \in Creates THEN r ELSE None]
  /\ want = [r \in Request |-> None]
  /\ lead = [r \in Request |-> [state |-> "PENDING", owner |-> None]]
  /\ reply = [r \in Request |-> "none"]
  /\ sent = {}

-----------------------------------------------------------------------------
At(r, label) == pc[r] = label
Goto(r, label) == pc' = [pc EXCEPT ![r] = label]
Finish(r, answer) ==
  /\ pc' = [pc EXCEPT ![r] = "done"]
  /\ reply' = [reply EXCEPT ![r] = answer]

(***************************************************************************)
(* POST /leads                                                             *)
(***************************************************************************)

\* The honeypot and every validation answer before anything is stored.
TurnAway(r) ==
  /\ At(r, "idle")
  /\ \E answer \in {"discarded", "rejected"} : Finish(r, answer)
  /\ UNCHANGED <<db, files, on, want, lead, sent>>

SaveResume(r) ==
  /\ At(r, "idle")
  /\ files' = [files EXCEPT ![r] = "whole"]
  /\ Goto(r, "saved")
  /\ UNCHANGED <<db, on, want, lead, reply, sent>>

\* Mutant of SaveFails: the storage error is logged and the submission goes on.
SaveFails_Ignored(r) ==
  /\ At(r, "idle") /\ "disk" \in Faults
  /\ files' = [files EXCEPT ![r] = "partial"]
  /\ Goto(r, "saved")
  /\ UNCHANGED <<db, on, want, lead, reply, sent>>

SaveFails(r) ==
  /\ At(r, "idle")
  /\ \/ "save" \in Faults /\ UNCHANGED files
     \/ "disk" \in Faults /\ files' = [files EXCEPT ![r] = "partial"]
  /\ Finish(r, "storage_unavailable")
  /\ UNCHANGED <<db, on, want, lead, sent>>

\* The roster entries choose_assignee may return: the first with the fewest
\* open leads, or None when there is no roster.
LeastLoaded ==
  IF Roster = << >> THEN {None}
  ELSE {Roster[i] : i \in {i \in DOMAIN Roster :
          /\ \A j \in DOMAIN Roster : open_lead_counts(Roster[i]) <= open_lead_counts(Roster[j])
          /\ \A j \in 1..(i - 1) : open_lead_counts(Roster[i]) < open_lead_counts(Roster[j])}}

choose_assignee(r) ==
  /\ At(r, "saved")
  /\ \E owner \in LeastLoaded :
       lead' = [lead EXCEPT ![r] = [state |-> "PENDING", owner |-> owner]]
  /\ Goto(r, "chosen")
  /\ UNCHANGED <<db, files, on, want, reply, sent>>

\* Outside the try block: the exception leaves the handler, the file stays.
ChooseFails(r) ==
  /\ At(r, "saved")
  /\ "choose" \in Faults
  /\ Finish(r, "error")
  /\ UNCHANGED <<db, files, on, want, lead, sent>>

InsertLead(r) ==
  /\ At(r, "chosen")
  /\ InsertRow(r, lead[r].owner, r)
  /\ Goto(r, "committed")
  /\ UNCHANGED <<files, on, want, lead, reply, sent>>

InsertFails(r) ==
  /\ At(r, "chosen")
  /\ \/ "write" \in Faults /\ UNCHANGED db
     \/ "ack" \in Faults /\ InsertRow(r, lead[r].owner, r)
  /\ Goto(r, "failed")
  /\ UNCHANGED <<files, on, want, lead, reply, sent>>

\* Mutant of CompensatingDelete: the except block only rolls back.
CompensatingDelete_Skipped(r) ==
  /\ At(r, "failed")
  /\ Finish(r, "error")
  /\ UNCHANGED <<db, files, on, want, lead, sent>>

CompensatingDelete(r) ==
  /\ At(r, "failed")
  /\ \/ files' = [files EXCEPT ![r] = "none"]
     \/ "delete" \in Faults /\ UNCHANGED files
  /\ Finish(r, "error")
  /\ UNCHANGED <<db, on, want, lead, sent>>

\* db.refresh, the snapshot for the mails, and the 201.
RefreshCreated(r) ==
  /\ At(r, "committed")
  /\ lead' = [lead EXCEPT ![r] = get(r)]
  /\ reply' = [reply EXCEPT ![r] = "ok"]
  /\ Goto(r, "mailing")
  /\ UNCHANGED <<db, files, on, want, sent>>
-----------------------------------------------------------------------------
(***************************************************************************)
(* PATCH /leads/{id}/state                                                 *)
(***************************************************************************)

ReadForChange(r) ==
  \E l \in Lead, new \in LeadStates :
    /\ At(r, "idle")
    /\ on' = [on EXCEPT ![r] = l]
    /\ want' = [want EXCEPT ![r] = new]
    /\ \/ ~Exists(l) /\ Finish(r, "lead_not_found") /\ UNCHANGED lead
       \/ /\ Exists(l)
          /\ lead' = [lead EXCEPT ![r] = get(l)]
          /\ LET verdict == assert_transition(leadState[l], new) IN
             \/ verdict = "allowed" /\ Goto(r, "loaded") /\ UNCHANGED reply
             \/ verdict # "allowed" /\ Finish(r, verdict)
    /\ UNCHANGED <<db, files, sent>>

\* Mutant of StateLost: the event is added before the row count is looked at.
StateLost_EventKept(r) ==
  /\ leadState[on[r]] # lead[r].state
  /\ Finish(r, "invalid_transition")
  /\ trail' = [trail EXCEPT ![on[r]] = Append(@, StateEvent(lead[r].state, want[r], r))]
  /\ UNCHANGED <<leadState, assignedTo, lock>>

\* Zero rows matched: rollback and 409.
StateLost(r) ==
  /\ leadState[on[r]] # lead[r].state
  /\ Finish(r, "invalid_transition")
  /\ UNCHANGED db

UpdateState(r) ==
  /\ At(r, "loaded")
  /\ \/ StateLost(r)
     \/ update_state(r, on[r], lead[r].state) /\ Goto(r, "updated") /\ UNCHANGED reply
  /\ UNCHANGED <<files, on, want, lead, sent>>

\* Mutant of CommitState: the change is committed without its event.
CommitState_NoEvent(r) ==
  /\ leadState' = [leadState EXCEPT ![on[r]] = want[r]]
  /\ lock' = [lock EXCEPT ![on[r]] = None]
  /\ UNCHANGED <<assignedTo, trail>>

CommitState(r) ==
  CommitRow(on[r], want[r], assignedTo[on[r]], StateEvent(lead[r].state, want[r], r))

\* Mutant of notify_prospect: the previous state is taken from the refreshed row.
notify_prospect_Late(r) ==
  \E t \in rule_for(leadState[on[r]], want[r]) : t.notify_prospect

\* The rule is looked up with the state read before the update.
notify_prospect(r) == \E t \in rule_for(lead[r].state, want[r]) : t.notify_prospect

\* Mutant of RefreshChanged: the refresh is left out, and the instance keeps what it
\* had read (expire_on_commit is off).
RefreshChanged_Skipped(r) ==
  /\ At(r, "committed")
  /\ reply' = [reply EXCEPT ![r] = "ok"]
  /\ Goto(r, IF notify_prospect(r) THEN "mailing" ELSE "done")
  /\ UNCHANGED <<db, files, on, want, lead, sent>>

RefreshChanged(r) ==
  /\ At(r, "committed")
  /\ lead' = [lead EXCEPT ![r] = get(on[r])]
  /\ reply' = [reply EXCEPT ![r] = "ok"]
  /\ Goto(r, IF notify_prospect(r) THEN "mailing" ELSE "done")
  /\ UNCHANGED <<db, files, on, want, sent>>
-----------------------------------------------------------------------------
(***************************************************************************)
(* PATCH /leads/{id}/assign                                                 *)
(***************************************************************************)

ReadForAssign(r) ==
  \E l \in Lead, target \in Owner :
    /\ At(r, "idle")
    /\ on' = [on EXCEPT ![r] = l]
    /\ want' = [want EXCEPT ![r] = target]
    /\ \/ target \notin AssignRoster \cup {None} /\ Finish(r, "unknown_assignee") /\ UNCHANGED lead
       \/ /\ target \in AssignRoster \cup {None}
          /\ \/ ~Exists(l) /\ Finish(r, "lead_not_found") /\ UNCHANGED lead
             \/ /\ Exists(l)
                /\ lead' = [lead EXCEPT ![r] = get(l)]
                /\ \/ assignedTo[l] = target /\ Finish(r, "ok")
                   \/ assignedTo[l] # target /\ Goto(r, "loaded") /\ UNCHANGED reply
    /\ UNCHANGED <<db, files, sent>>

\* Mutant of OwnerLost: an update that matches no row counts as done.
OwnerLost_Benign(r) ==
  /\ assignedTo[on[r]] # lead[r].owner
  /\ Finish(r, "ok")
  /\ UNCHANGED db

OwnerLost(r) ==
  /\ assignedTo[on[r]] # lead[r].owner
  /\ Finish(r, "unknown_assignee")
  /\ UNCHANGED db

UpdateAssignee(r) ==
  /\ At(r, "loaded")
  /\ \/ OwnerLost(r)
     \/ update_assignee(r, on[r], lead[r].owner) /\ Goto(r, "updated") /\ UNCHANGED reply
  /\ UNCHANGED <<files, on, want, lead, sent>>

\* Mutant of CommitAssign: the whole loaded row is written, not one column.
CommitAssign_WholeRow(r) ==
  CommitRow(on[r], lead[r].state, want[r],
            OwnerEvent(lead[r].state, lead[r].owner, want[r], r))

\* The event carries the state read when the request began.
CommitAssign(r) ==
  CommitRow(on[r], leadState[on[r]], want[r],
            OwnerEvent(lead[r].state, lead[r].owner, want[r], r))

RefreshAssigned(r) ==
  /\ At(r, "committed")
  /\ lead' = [lead EXCEPT ![r] = get(on[r])]
  /\ Finish(r, "ok")
  /\ UNCHANGED <<db, files, on, want, sent>>
-----------------------------------------------------------------------------
(***************************************************************************)
(* Shared by the two updates and by every request                          *)
(***************************************************************************)

\* add_event and commit.
CommitUpdate(r) ==
  /\ At(r, "updated")
  /\ IF r \in Changes THEN CommitState(r) ELSE CommitAssign(r)
  /\ Goto(r, "committed")
  /\ UNCHANGED <<files, on, want, lead, reply, sent>>

\* Mutant of WriteFails: the exception is swallowed and the handler goes on.
WriteFails_Swallowed(r) ==
  /\ pc[r] \in {"loaded", "updated"} /\ "write" \in Faults
  /\ Rollback(r)
  /\ Goto(r, "committed")
  /\ UNCHANGED <<files, on, want, lead, reply, sent>>

\* The UPDATE, the event's INSERT or the COMMIT fails: get_db closes the
\* session, which rolls back, and the client gets a 500.
WriteFails(r) ==
  /\ \/ pc[r] \in {"loaded", "updated"} /\ "write" \in Faults /\ Rollback(r)
     \/ At(r, "updated") /\ "ack" \in Faults
        /\ (IF r \in Changes THEN CommitState(r) ELSE CommitAssign(r))
  /\ Finish(r, "error")
  /\ UNCHANGED <<files, on, want, lead, sent>>

\* Mutant of RefreshFails: the refresh sits inside the try block of the insert.
RefreshFails_Deletes(r) ==
  /\ At(r, "committed")
  /\ "refresh" \in Faults
  /\ Finish(r, "error")
  /\ files' = [c \in Creates |-> IF c = r THEN "none" ELSE files[c]]
  /\ UNCHANGED <<db, on, want, lead, sent>>

\* The SELECT of db.refresh fails: a 500 for what was committed, and no mail.
RefreshFails(r) ==
  /\ At(r, "committed")
  /\ "refresh" \in Faults
  /\ Finish(r, "error")
  /\ UNCHANGED <<db, files, on, want, lead, sent>>

\* Mutant of NotifyAddress: no fallback for a lead nobody owns.
NotifyAddress_NoFallback(row) == row.owner

NotifyAddress(row) == IF row.owner = None THEN "shared inbox" ELSE row.owner

Mail(r, kind, to) ==
  [kind |-> kind, by |-> r, lead |-> on[r], state |-> lead[r].state, to |-> to]

\* A provider failure is logged and swallowed: the step goes on without mail.
Send(mail) ==
  \/ sent' = sent \cup {mail}
  \/ "mail" \in Faults /\ UNCHANGED sent

\* The background task: one mail of a state change, two of an intake.
SendMail(r) ==
  /\ \/ At(r, "mailing") /\ r \in Creates
        /\ Send(Mail(r, "confirmation", "prospect")) /\ Goto(r, "notifying")
     \/ At(r, "notifying")
        /\ Send(Mail(r, "notification", NotifyAddress(lead[r]))) /\ Goto(r, "done")
     \/ At(r, "mailing") /\ r \in Changes
        /\ Send(Mail(r, "status", "prospect")) /\ Goto(r, "done")
  /\ UNCHANGED <<db, files, on, want, lead, reply>>

\* The process dies: the connection drops, the background task is lost.
Die(r) ==
  /\ "die" \in Faults
  /\ pc[r] \notin {"idle", "done", "dead"}
  /\ Goto(r, "dead")
  /\ Rollback(r)
  /\ UNCHANGED <<files, on, want, lead, reply, sent>>

Arrive(r) ==
  \/ r \in Creates /\ (TurnAway(r) \/ SaveResume(r) \/ SaveFails(r))
  \/ r \in Changes /\ ReadForChange(r)
  \/ r \in Assigns /\ ReadForAssign(r)

Proceed(r) ==
  \/ r \in Creates /\ (choose_assignee(r) \/ InsertLead(r) \/ CompensatingDelete(r)
                       \/ RefreshCreated(r))
  \/ r \in Changes /\ (UpdateState(r) \/ RefreshChanged(r))
  \/ r \in Assigns /\ (UpdateAssignee(r) \/ RefreshAssigned(r))
  \/ r \in Changes \cup Assigns /\ CommitUpdate(r)
  \/ SendMail(r)

Fail(r) ==
  \/ r \in Creates /\ (ChooseFails(r) \/ InsertFails(r))
  \/ r \in Changes \cup Assigns /\ WriteFails(r)
  \/ RefreshFails(r)
  \/ Die(r)

Next == \E r \in Request : Arrive(r) \/ Proceed(r) \/ Fail(r)

Spec == Init /\ [][Next]_vars

\* A request that has arrived is worked on: the server runs handlers on its
\* thread pool and background tasks after the answer.  Clients need not come,
\* and no fault can be counted on, least of all to end a wait for a row lock.
FairSpec == Spec /\ \A r \in Request : WF_vars(Proceed(r))
=============================================================================
