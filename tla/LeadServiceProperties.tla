------------------------ MODULE LeadServiceProperties ------------------------
(***************************************************************************)
(* What the write side of the API guarantees: the type invariant, safety,  *)
(* the invariant the proofs carry, the refinement of LeadLifecycle, and    *)
(* liveness.                                                               *)
(***************************************************************************)
EXTENDS LeadService

RowsTypeOK ==
  /\ leadState \in [Lead -> LeadStates \cup {"absent"}]
  /\ assignedTo \in [Lead -> Owner]
  /\ trail \in [Lead -> Seq(LeadEvent)]
  /\ lock \in [Lead -> Request \cup {None}]

HandlersTypeOK ==
  /\ pc \in [Request -> Labels]
  /\ on \in [Request -> Lead \cup {None}]
  /\ want \in [Request -> LeadStates \cup Owner]
  /\ lead \in [Request -> Row]
  /\ reply \in [Request -> Answers]

Mails == [kind : {"confirmation", "notification", "status"}, by : Request, lead : Lead,
          state : LeadStates, to : Email \cup {"prospect", "shared inbox"}]

OutsideTypeOK ==
  /\ files \in [Creates -> {"none", "partial", "whole"}]
  /\ sent \subseteq Mails

TypeOK == RowsTypeOK /\ HandlersTypeOK /\ OutsideTypeOK

-----------------------------------------------------------------------------
(***************************************************************************)
(* The audit trail                                                         *)
(***************************************************************************)

Moves(e) == e.from_state # e.to_state      \* creation and changes of state
Hands(e) == e.from_state \in {None, e.to_state}  \* creation and changes of owner

\* i is the last of the first n entries of t that moves the lead (that hands it over).
LastMove(t, n, i) == i \in 1..n /\ Moves(t[i]) /\ \A k \in (i + 1)..n : ~Moves(t[k])
LastHand(t, n, i) == i \in 1..n /\ Hands(t[i]) /\ \A k \in (i + 1)..n : ~Hands(t[k])

\* Every move after the first starts where the previous move ended and is an
\* edge of the table.
MoveChain(t) ==
  \A j \in 2..Len(t) : Moves(t[j]) =>
    /\ \E i \in 1..(j - 1) : LastMove(t, j - 1, i) /\ t[i].to_state = t[j].from_state
    /\ rule_for(t[j].from_state, t[j].to_state) # {}

\* Every handover starts from the owner the previous one left, and changes it.
HandChain(t) ==
  \A j \in 2..Len(t) : Hands(t[j]) =>
    /\ \E i \in 1..(j - 1) : LastHand(t, j - 1, i) /\ t[i].to_assignee = t[j].from_assignee
    /\ t[j].from_assignee # t[j].to_assignee

\* SEC9: the trail and the lead agree.  Replaying a lead's state changes in
\* order, each starting where the one before ended, arrives at its state
\* column, and replaying its handovers arrives at its owner column, however
\* change_state, assign_lead and their failures interleave.
TrailAgrees ==
  \A l \in Lead : Exists(l) =>
    LET t == trail[l] IN
    /\ t # << >> /\ t[1].from_state = None /\ t[1].to_state = "PENDING"
    /\ MoveChain(t) /\ HandChain(t)
    /\ \E i \in 1..Len(t) : LastMove(t, Len(t), i) /\ t[i].to_state = leadState[l]
    /\ \E i \in 1..Len(t) : LastHand(t, Len(t), i) /\ t[i].to_assignee = assignedTo[l]

\* What a prospect reads on the timeline has happened: every entry, also one of a
\* handover that was overtaken, names a state that an entry up to it moved the
\* lead to.
TimelineNeverAhead ==
  \A l \in Lead : \A i \in DOMAIN trail[l] :
    \E k \in 1..i : Moves(trail[l][k]) /\ trail[l][k].to_state = trail[l][i].to_state

\* The entries of l's trail written by request r.
EntriesBy(r, l) == {i \in DOMAIN trail[l] : trail[l][i].actor = r}

\* The client's answer and the trail tell the same story: a refusal, or a 503,
\* left no entry; a 201, or the 200 of a change of state, left one, on the lead it
\* was about; no request leaves two.  HandoverIsWritten says it of assignments.
RepliesMatchTrail ==
  \A r \in Request, l \in Lead :
    /\ reply[r] \in Refusals \cup {"storage_unavailable"} => EntriesBy(r, l) = {}
    /\ reply[r] = "ok" /\ r \notin Assigns /\ on[r] = l => EntriesBy(r, l) # {}
    /\ EntriesBy(r, l) # {} => on[r] = l
    /\ \A i, j \in EntriesBy(r, l) : i = j

\* The trail holds that r handed its lead to the owner it asked for.
HandedOver(r) == \E i \in EntriesBy(r, on[r]) : trail[on[r]][i].to_assignee = want[r]

AnswersHandovers ==
  \A r \in Assigns : reply[r] # "ok" /\ reply'[r] = "ok" =>
    \/ HandedOver(r)'
    \/ At(r, "idle") /\ assignedTo[on'[r]] = want'[r]

\* An assignment is answered 200 only with its own handover in the trail, or
\* because the very read it began with found the owner in place.  A write that
\* failed, lost the race or went in without its event never looks like a success.
HandoverIsWritten == [][AnswersHandovers]_vars

\* R2: of the requests that ask for one lead to enter one state, at most one
\* is told it did.
OneWinner ==
  \A r1, r2 \in Changes :
    /\ r1 # r2 /\ on[r1] = on[r2] /\ want[r1] = want[r2]
    => ~(reply[r1] = "ok" /\ reply[r2] = "ok")

-----------------------------------------------------------------------------
(***************************************************************************)
(* Mail and files                                                          *)
(***************************************************************************)

\* R1: mail only after durable success.  Any mail is about a committed lead, a
\* status mail names a state some committed change moved that lead to, and the
\* request that sends it has a committed entry of its own in the trail.
MailIsTruthful ==
  \A m \in sent :
    /\ Exists(m.lead)
    /\ EntriesBy(m.by, m.lead) # {}
    /\ m.kind = "status" =>
         \E i \in DOMAIN trail[m.lead] :
           Moves(trail[m.lead][i]) /\ trail[m.lead][i].to_state = m.state

\* A status mail never lags behind the change that sends it: it names the state
\* which that change set, or the one that a later change moved on to.
StatusMailIsCurrent ==
  \A m \in sent : m.kind = "status" =>
    m.state = want[m.by] \/ rule_for(want[m.by], m.state) # {}

\* A1: the submitter who got a 201, and the mails that went out, stand for a
\* lead whose resume is stored in full.
AcceptedHasResume ==
  /\ \A c \in Creates : reply[c] = "ok" => Exists(c) /\ files[c] = "whole"
  /\ \A m \in sent : m.by \in Creates => files[m.by] = "whole"

\* A1: every committed lead has its resume, whole, in the store.
CommittedHasResume == \A c \in Creates : Exists(c) => files[c] = "whole"

\* A submission that failed or was refused, and left no lead, leaves no file.
NoLeakOnError ==
  \A c \in Creates : At(c, "done") /\ ~Exists(c) => files[c] = "none"

\* What lead_service.py:223 and models/lead.py:82 say of the trail, read the way
\* the public timeline shows it: its last entry names the state the lead is in.
TimelineEndsAtLead ==
  \A l \in Lead : Exists(l) => trail[l][Len(trail[l])].to_state = leadState[l]

\* What test_status_notifications.py:67 says the SQL predicate buys: no two
\* callers send the prospect of a lead the same update.
NoTwoSameUpdates ==
  \A m, n \in sent :
    m.kind = "status" /\ n.kind = "status" /\ m.lead = n.lead /\ m.state = n.state => m = n

-----------------------------------------------------------------------------
(***************************************************************************)
(* The invariant the proofs carry                                          *)
(***************************************************************************)

\* A lead has a trail exactly when its row exists.
RowInv == \A l \in Lead : Exists(l) <=> trail[l] # << >>

\* A request holds a row lock exactly between its UPDATE and its COMMIT.
LockInv(r) ==
  /\ pc[r] \notin {"idle", "done", "dead"} => on[r] \in Lead
  /\ \A l \in Lead : lock[l] = r <=> At(r, "updated") /\ on[r] = l

\* A submission's row does not exist before the submission inserts it.
CreateInv(c) ==
  /\ on[c] = c
  /\ pc[c] \notin {"loaded", "updated"}
  /\ pc[c] \in {"idle", "saved", "chosen"} => ~Exists(c)
  /\ pc[c] \in {"committed", "mailing", "notifying"} => Exists(c)

\* A change past its checks is about a lead that exists and an edge of the
\* table, and while it holds the lock the state is still what it read.
ChangeInv(r) ==
  /\ pc[r] \notin {"saved", "chosen", "failed", "notifying"}
  /\ pc[r] \in {"loaded", "updated", "committed", "mailing"} =>
       Exists(on[r]) /\ want[r] \in LeadStates
  /\ pc[r] \in {"loaded", "updated"} => rule_for(lead[r].state, want[r]) # {}
  /\ At(r, "updated") => leadState[on[r]] = lead[r].state

\* The same for an assignment and the owner.
AssignInv(r) ==
  /\ pc[r] \notin {"saved", "chosen", "failed", "mailing", "notifying"}
  /\ pc[r] \in {"loaded", "updated", "committed"} => Exists(on[r]) /\ want[r] \in Owner
  /\ pc[r] \in {"loaded", "updated"} => want[r] # lead[r].owner
  /\ At(r, "updated") => assignedTo[on[r]] = lead[r].owner

RequestInv(r) ==
  /\ LockInv(r)
  /\ r \in Creates => CreateInv(r)
  /\ r \in Changes => ChangeInv(r)
  /\ r \in Assigns => AssignInv(r)

\* What every reachable state satisfies and every step preserves: the typing,
\* and for each request what its progress says of the lead it works on.
IInv == TypeOK /\ RowInv /\ \A r \in Request : RequestInv(r)

-----------------------------------------------------------------------------
(***************************************************************************)
(* What the proofs of the safety properties above add to IInv.             *)
(***************************************************************************)

\* Position in the pipeline.
Rank(s) == IF s = "PENDING" THEN 1 ELSE IF s = "REACHED_OUT" THEN 2 ELSE 3

\* A change whose COMMIT was acknowledged, or that was answered so.
Won(r) == pc[r] \in {"committed", "mailing"} \/ reply[r] = "ok"

\* The lead of a winner is at least as far as the winner moved it, so nobody
\* else can move it there again.
WinnerInv ==
  /\ \A r \in Changes : reply[r] = "ok" => pc[r] \in {"mailing", "done", "dead"}
  /\ \A r \in Changes : Won(r) =>
       /\ on[r] \in Lead /\ want[r] \in LeadStates /\ Exists(on[r])
       /\ Rank(want[r]) <= Rank(leadState[on[r]])
  /\ \A r1, r2 \in Changes :
       Won(r1) /\ Won(r2) /\ on[r1] = on[r2] /\ want[r1] = want[r2] => r1 = r2

\* A submission past its save has its file whole until it is answered, and for
\* good once it is accepted or mailed.
FileInv ==
  \A c \in Creates :
    /\ pc[c] \in {"saved", "chosen", "committed", "mailing", "notifying"} => files[c] = "whole"
    /\ reply[c] = "ok" =>
         pc[c] \in {"mailing", "notifying", "done", "dead"} /\ files[c] = "whole" /\ Exists(c)
    /\ \A m \in sent : m.by = c =>
         pc[c] \in {"notifying", "done", "dead"} /\ files[c] = "whole"

\* Without a lost acknowledgement a submission is only compensated while it has
\* no row, so a row keeps its file; without "disk", "choose" and "delete" one
\* that ends with no row has cleaned up.
StoreInv ==
  \A c \in Creates :
    /\ At(c, "idle") => files[c] = "none"
    /\ "ack" \notin Faults =>
         (Exists(c) => files[c] = "whole") /\ (At(c, "failed") => ~Exists(c))
    /\ Faults \cap {"disk", "choose", "delete"} = {} =>
         (At(c, "done") /\ ~Exists(c) => files[c] = "none")

\* A request writes its one entry when it commits: none before, and none at
\* all if it was refused.
ReplyInv ==
  \A r \in Request :
    /\ pc[r] \in {"idle", "saved", "chosen", "loaded", "updated"} =>
         reply[r] = "none" /\ \A l \in Lead : EntriesBy(r, l) = {}
    /\ pc[r] \in {"committed", "mailing", "notifying"} => EntriesBy(r, on[r]) # {}
    /\ pc[r] \in {"committed", "failed"} => reply[r] = "none"
    /\ reply[r] \in Refusals \cup {"storage_unavailable"} => At(r, "done")
    /\ pc[r] \in {"mailing", "notifying"} => reply[r] = "ok"

\* An assignment that has committed has its handover in the trail.
HandedInv == \A r \in Assigns : At(r, "committed") => HandedOver(r)

\* Some entry of l's trail moved it to s.
MovedTo(l, s) ==
  \E i \in DOMAIN trail[l] : Moves(trail[l][i]) /\ trail[l][i].to_state = s

\* The state a lead is in, and the state a change is about to mail, were both
\* reached by an entry of the trail.
MailInv ==
  /\ \A l \in Lead : Exists(l) => MovedTo(l, leadState[l])
  /\ \A r \in Changes : At(r, "mailing") => MovedTo(on[r], lead[r].state)

-----------------------------------------------------------------------------
(***************************************************************************)
(* Refinement: the trail, read without the state a handover carries, is    *)
(* the log of the abstract lifecycle.                                      *)
(***************************************************************************)

Summary(e) ==
  IF e.from_state = None
    THEN [what |-> "opened", old |-> None, new |-> e.to_assignee]
  ELSE IF Moves(e)
    THEN [what |-> "moved", old |-> e.from_state, new |-> e.to_state]
  ELSE [what |-> "handed", old |-> e.from_assignee, new |-> e.to_assignee]

LogOf(t) == [i \in 1..Len(t) |-> Summary(t[i])]

Lifecycle == INSTANCE LeadLifecycle
  WITH stage <- leadState, holder <- assignedTo, log <- [l \in Lead |-> LogOf(trail[l])]

\* The concurrent, failing service behaves, seen through its committed rows, as
\* the atomic lifecycle: every commit is one submission, one legal move or one
\* handover, recorded with the value it really replaced.
ImplementsLifecycle == Lifecycle!Spec

-----------------------------------------------------------------------------
(***************************************************************************)
(* Liveness, under FairSpec                                                *)
(***************************************************************************)

\* A request that arrived is answered: no wait on a row lock is forever.
Answered == \A r \in Request : pc[r] \notin {"idle"} ~> pc[r] = "done"

\* FR2, FR3, EXT2: a 201 is followed by both intake mails, a change of state
\* that was answered 200 by a mail to the prospect.
SuccessIsMailed ==
  /\ \A c \in Creates : reply[c] = "ok" ~>
       \E m, n \in sent : m.by = c /\ n.by = c /\ m.kind = "confirmation" /\ n.kind = "notification"
  /\ \A r \in Changes : reply[r] = "ok" ~> \E m \in sent : m.by = r /\ m.kind = "status"
=============================================================================
