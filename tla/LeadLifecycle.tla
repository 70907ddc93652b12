----------------------------- MODULE LeadLifecycle -----------------------------
(***************************************************************************)
(* What the lead service promises, as atomic steps: a lead is submitted    *)
(* once, moves along the transition table, changes hands, and every step   *)
(* leaves exactly one log entry that starts where the lead really was.     *)
(* No requests, row locks, files or mail.                                 *)
(***************************************************************************)
EXTENDS LeadState, Sequences

CONSTANTS Lead, Email, None

VARIABLES stage,   \* lead -> state, "absent" before submission
          holder,  \* lead -> owner
          log      \* lead -> entries [what, old, new]

vars == <<stage, holder, log>>

Entry(what, old, new) == [what |-> what, old |-> old, new |-> new]

\* At start a lead is unknown, or submitted and not yet worked on.
Init ==
  /\ stage \in [Lead -> {"absent", "PENDING"}]
  /\ holder \in [Lead -> Email \cup {None}]
  /\ log = [l \in Lead |-> IF stage[l] = "absent" THEN << >>
                           ELSE <<Entry("opened", None, holder[l])>>]

Submit(l, owner) ==
  /\ stage[l] = "absent"
  /\ stage' = [stage EXCEPT ![l] = "PENDING"]
  /\ holder' = [holder EXCEPT ![l] = owner]
  /\ log' = [log EXCEPT ![l] = Append(@, Entry("opened", None, owner))]

Advance(l, new) ==
  /\ rule_for(stage[l], new) # {}
  /\ stage' = [stage EXCEPT ![l] = new]
  /\ log' = [log EXCEPT ![l] = Append(@, Entry("moved", stage[l], new))]
  /\ UNCHANGED holder

HandOver(l, owner) ==
  /\ stage[l] # "absent"
  /\ owner # holder[l]
  /\ holder' = [holder EXCEPT ![l] = owner]
  /\ log' = [log EXCEPT ![l] = Append(@, Entry("handed", holder[l], owner))]
  /\ UNCHANGED stage

Next ==
  \E l \in Lead :
    \/ \E owner \in Email \cup {None} : Submit(l, owner) \/ HandOver(l, owner)
    \/ \E new \in LeadStates : Advance(l, new)

Spec == Init /\ [][Next]_vars
=============================================================================
