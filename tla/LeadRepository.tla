---------------------------- MODULE LeadRepository ----------------------------
(***************************************************************************)
(* The two tables of api/app/db/models/lead.py and the statements of       *)
(* api/app/repositories/lead_repo.py, under READ COMMITTED: a SELECT sees  *)
(* committed rows, an UPDATE evaluates its predicate on the committed row  *)
(* and holds the row's lock until its transaction ends.  What a            *)
(* transaction has flushed but not committed stays with the request; the   *)
(* variables below are the committed contents.                             *)
(***************************************************************************)
EXTENDS LeadState, Sequences, FiniteSets

CONSTANTS Lead,   \* lead ids, those of rows that do not exist yet included
          Email,  \* attorney addresses, lowercased
          Request,\* one transaction per request
          None    \* Python's None, SQL's NULL

VARIABLES leadState,   \* lead -> its state column, "absent" while there is no row
          assignedTo,  \* lead -> its assigned_to column
          trail,       \* lead -> its lead_events rows, oldest first
          lock         \* lead -> the transaction holding the row lock, or None

db == <<leadState, assignedTo, trail, lock>>

Owner == Email \cup {None}

\* The columns of a lead row a request works with: the ORM instance.
Row == [state : LeadStates, owner : Owner]

Exists(l) == leadState[l] # "absent"

get(l) == [state |-> leadState[l], owner |-> assignedTo[l]]

LeadEvent == [from_state : LeadStates \cup {None}, to_state : LeadStates,
              from_assignee : Owner, to_assignee : Owner, actor : Request \cup {None}]

\* The three calls of add_event: creation, change of state, change of owner.
Creation(owner, actor) ==
  [from_state |-> None, to_state |-> "PENDING",
   from_assignee |-> None, to_assignee |-> owner, actor |-> actor]

StateEvent(previous, new, actor) ==
  [from_state |-> previous, to_state |-> new,
   from_assignee |-> None, to_assignee |-> None, actor |-> actor]

OwnerEvent(state, previous, new, actor) ==
  [from_state |-> state, to_state |-> state,
   from_assignee |-> previous, to_assignee |-> new, actor |-> actor]

-----------------------------------------------------------------------------
OpenStates == {"PENDING", "REACHED_OUT"}

open_lead_counts(email) ==
  Cardinality({l \in Lead : leadState[l] \in OpenStates /\ assignedTo[l] = email})

\* create, add_event and commit of one transaction.
InsertRow(l, owner, actor) ==
  /\ leadState' = [leadState EXCEPT ![l] = "PENDING"]
  /\ assignedTo' = [assignedTo EXCEPT ![l] = owner]
  /\ trail' = [trail EXCEPT ![l] = Append(@, Creation(owner, actor))]
  /\ UNCHANGED lock

\* Mutant of update_state: the expected state is missing from the WHERE clause.
update_state_NoPredicate(t, l, current) ==
  /\ lock[l] = None
  /\ lock' = [lock EXCEPT ![l] = t]
  /\ UNCHANGED <<leadState, assignedTo, trail>>

\* The UPDATEs that match: they wait for the row lock, re-evaluate their
\* predicate and keep the lock.  The new value is written by the commit.
update_state(t, l, current) ==
  /\ lock[l] = None
  /\ leadState[l] = current
  /\ lock' = [lock EXCEPT ![l] = t]
  /\ UNCHANGED <<leadState, assignedTo, trail>>

\* Mutant of update_assignee: the expected owner is missing from the WHERE clause.
update_assignee_NoPredicate(t, l, current) ==
  /\ lock[l] = None
  /\ lock' = [lock EXCEPT ![l] = t]
  /\ UNCHANGED <<leadState, assignedTo, trail>>

update_assignee(t, l, current) ==
  /\ lock[l] = None
  /\ assignedTo[l] = current
  /\ lock' = [lock EXCEPT ![l] = t]
  /\ UNCHANGED <<leadState, assignedTo, trail>>

\* add_event and commit after a matching UPDATE.
CommitRow(l, state, owner, event) ==
  /\ leadState' = [leadState EXCEPT ![l] = state]
  /\ assignedTo' = [assignedTo EXCEPT ![l] = owner]
  /\ trail' = [trail EXCEPT ![l] = Append(@, event)]
  /\ lock' = [lock EXCEPT ![l] = None]

\* Mutant of Rollback: the session goes back to the pool with its transaction open.
Rollback_Forgotten(t) == UNCHANGED db

\* rollback, or the loss of the connection: every lock of t is released.
Rollback(t) ==
  /\ lock' = [l \in Lead |-> IF lock[l] = t THEN None ELSE lock[l]]
  /\ UNCHANGED <<leadState, assignedTo, trail>>
=============================================================================
