----------------------------- MODULE LeadLookup ------------------------------
(***************************************************************************)
(* The readers of one lead beside the running write side: public_status,   *)
(* get_lead_with_events and open_resume of api/app/services/               *)
(* lead_service.py.  Each is two reads, and anything may happen between.   *)
(***************************************************************************)
EXTENDS LeadService

CONSTANT Readers  \* requests of GET /leads/track/{code}, /leads/{id}, /leads/{id}/resume

VARIABLE look     \* reader -> how far it is and what it has read

Unread == [step |-> "idle", lead |-> None, state |-> None, events |-> << >>, file |-> "none"]

\* get_by_tracking_code, or get: the first read of a reader.
FindLead(q) ==
  /\ look[q].step = "idle"
  /\ \E l \in Lead :
       look' = [look EXCEPT ![q] =
         IF Exists(l) THEN [Unread EXCEPT !.step = "found", !.lead = l, !.state = leadState[l]]
         ELSE [Unread EXCEPT !.step = "missing"]]
  /\ UNCHANGED vars

\* Mutant of ListEvents: the lead is read after its events, as a lazy load would.
ListEvents_Early(q) ==
  /\ \/ /\ look[q].step = "found" /\ look[q].events = << >>
        /\ look' = [look EXCEPT ![q].events = trail[look[q].lead]]
     \/ /\ look[q].step = "found" /\ look[q].events # << >>
        /\ look' = [look EXCEPT ![q].step = "shown", ![q].state = leadState[look[q].lead]]
  /\ UNCHANGED vars

\* list_events: the second read of a status page and of the attorney's detail.
ListEvents(q) ==
  /\ look[q].step = "found"
  /\ look' = [look EXCEPT ![q] = [@ EXCEPT !.step = "shown", !.events = trail[look[q].lead]]]
  /\ UNCHANGED vars

\* The object behind a lead's resume_key.  Leads from before were stored whole.
stored(l) == IF l \in Creates THEN files[l] ELSE "whole"

\* open_resume: a missing object is a 404, like a missing lead.
OpenResume(q) ==
  /\ look[q].step = "found"
  /\ LET file == stored(look[q].lead) IN
     look' = [look EXCEPT ![q] =
       [@ EXCEPT !.step = IF file = "none" THEN "missing" ELSE "shown", !.file = file]]
  /\ UNCHANGED vars

Read(q) == FindLead(q) \/ ListEvents(q) \/ OpenResume(q)
=============================================================================
