------------------------------ MODULE LeadState ------------------------------
(***************************************************************************)
(* The lead pipeline: the states of api/app/db/models/lead.py and the      *)
(* transition table of api/app/services/lead_state.py, as pure operators.  *)
(***************************************************************************)
EXTENDS Naturals

LeadStates == {"PENDING", "REACHED_OUT", "QUALIFIED"}

\* One record per edge of the table; the table's outer and inner keys are the
\* fields from and to, the TransitionRule is the field notify_prospect.
TRANSITIONS ==
  { [from |-> "PENDING",     to |-> "REACHED_OUT", notify_prospect |-> TRUE],
    [from |-> "REACHED_OUT", to |-> "QUALIFIED",   notify_prospect |-> TRUE] }

\* rule_for: the set of rules of the edge, empty where the code returns None.
rule_for(current, new) == {t \in TRANSITIONS : t.from = current /\ t.to = new}

\* Mutant of assert_transition: only the "already there" case is checked.
assert_transition_SameOnly(current, new) ==
  IF current = new THEN "already_in_state" ELSE "allowed"

\* assert_transition: what it raises, or "allowed" when it returns.
assert_transition(current, new) ==
  IF current = new THEN "already_in_state"
  ELSE IF rule_for(current, new) = {} THEN "invalid_transition"
  ELSE "allowed"
===============================================================================
