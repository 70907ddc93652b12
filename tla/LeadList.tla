------------------------------ MODULE LeadList -------------------------------
(***************************************************************************)
(* list_leads of api/app/services/lead_service.py beside the running write *)
(* side: two SELECTs under READ COMMITTED over leads in the order of       *)
(* created_at, which is not the order of their COMMITs.                    *)
(***************************************************************************)
EXTENDS LeadService, SequencesExt

CONSTANTS Older,     \* the leads that exist at the start, oldest first
          PAGE_SIZE

ASSUME ListAssumption ==
  /\ Older \in Seq(Lead) /\ ToSet(Older) = Lead \ Creates
  /\ PAGE_SIZE \in Nat \ {0}

VARIABLE stamped  \* the leads flushed so far, in the order of created_at

\* created_at is drawn when the INSERT is flushed, some time before its COMMIT.
Flush(c) ==
  /\ At(c, "chosen") /\ ~Contains(stamped, c)
  /\ stamped' = Append(stamped, c)
  /\ UNCHANGED vars

\* The WHERE clauses: all leads, a state, the unowned pool, or one owner's.
Matches(l, filter) ==
  \/ filter = "all"
  \/ filter = leadState[l]
  \/ filter = "unassigned" /\ assignedTo[l] = None
  \/ filter = assignedTo[l]

\* The committed rows of a filter, by their place in the order of created_at.
Matching(filter) == {i \in DOMAIN stamped : Exists(stamped[i]) /\ Matches(stamped[i], filter)}

\* How many rows of the filter are newer, and so listed before the one at i.
Newer(filter, i) == Cardinality({k \in Matching(filter) : k > i})

\* The two SELECTs of LeadRepository.list; what a page shows of each row.
count(filter) == Cardinality(Matching(filter))
select(filter, offset) ==
  {[lead |-> stamped[i], state |-> leadState[stamped[i]], owner |-> assignedTo[stamped[i]]] :
     i \in {i \in Matching(filter) : Newer(filter, i) \in offset..(offset + PAGE_SIZE - 1)}}
=============================================================================
