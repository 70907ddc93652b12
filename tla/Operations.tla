----------------------------- MODULE Operations ------------------------------
(***************************************************************************)
(* A roster that changes while the system runs: workers with old and new   *)
(* settings, attorneys who are signed in, leads that are given to them by  *)
(* whichever worker answers, and the operator's doctor script, which reads *)
(* the settings afresh and reports leads nobody will pick up.              *)
(***************************************************************************)
EXTENDS AttorneySession

CONSTANT Lead

VARIABLES owner,   \* lead -> its assigned_to column, "absent" before it comes in
          healthy  \* the doctor found nothing, with every worker current, since the last edit

opsVars == <<deployment, session, owner, healthy>>

OpsInit ==
  /\ DeploymentInit /\ SessionInit
  /\ owner = [l \in Lead |-> "absent"]
  /\ healthy = FALSE

\* choose_assignee of the worker that takes the submission: anyone who is least
\* loaded among the attorneys it was started with.
Intake(w, l) ==
  /\ Up(w) /\ owner[l] = "absent"
  /\ \E a \in IF worker[w].settings.attorneys.emails = {} THEN {None}
             ELSE worker[w].settings.attorneys.emails :
       owner' = [owner EXCEPT ![l] = a]
  /\ UNCHANGED <<deployment, session, healthy>>

\* Mutant of Assign: the target is not checked against the roster.
Assign_AnyTarget(w, a, l) ==
  /\ Up(w) /\ owner[l] # "absent" /\ current_attorney(w, a)
  /\ \E target \in Attorney \cup {None} : owner' = [owner EXCEPT ![l] = target]
  /\ UNCHANGED <<deployment, session, healthy>>

\* PATCH /leads/{id}/assign with the token of the browser.
Assign(w, a, l) ==
  /\ Up(w) /\ owner[l] # "absent" /\ current_attorney(w, a)
  /\ \E target \in roster(worker[w].settings) \cup {None} : owner' = [owner EXCEPT ![l] = target]
  /\ UNCHANGED <<deployment, session, healthy>>

\* check_assignments: the leads of owners the roster in .env does not know.
orphaned == {l \in Lead : owner[l] \notin roster(env) \cup {"absent", None}}

Doctor ==
  /\ healthy' = (orphaned = {} /\ insecure_defaults(env) = {} /\ Current)
  /\ UNCHANGED <<deployment, session, owner>>

OpsNext ==
  \/ Edit /\ healthy' = FALSE /\ UNCHANGED <<session, owner>>
  \/ \E w \in Worker :
       \/ Boot(w) /\ Restarted(w) /\ UNCHANGED <<cookie, page, owner, healthy>>
       \/ (CreateBucket(w) \/ Stop(w)) /\ UNCHANGED <<session, owner, healthy>>
       \/ OtherLogin(w) /\ UNCHANGED <<owner, healthy>>
       \/ \E l \in Lead : Intake(w, l) \/ \E a \in Browser : Assign(w, a, l)
  \/ \E a \in Browser : (Attend(a) \/ Logout(a)) /\ UNCHANGED <<owner, healthy>>
  \/ Tick /\ UNCHANGED <<owner, healthy>>
  \/ Doctor

OpsSpec == OpsInit /\ [][OpsNext]_opsVars

\* A browser that began to open a page finishes, as long as a worker serves.
FairOpsSpec ==
  /\ OpsSpec
  /\ \A a \in Browser :
       WF_opsVars((Turned(a) \/ \E w \in Worker : Opened(w, a)) /\ UNCHANGED <<owner, healthy>>)
=============================================================================
