---------------------------- MODULE AttorneyQueue ----------------------------
(***************************************************************************)
(* The attorney queue of the web client over the running API: a page of    *)
(* leads/page.tsx is rendered from two reads, stays in its browser tab     *)
(* while the leads move on, and is clicked later.  A click becomes a       *)
(* request of LeadService through the server actions of leads/actions.ts,  *)
(* which may give up on a request that runs all the same.                  *)
(***************************************************************************)
EXTENDS LeadList

CONSTANTS Tab,      \* the browser tabs that show the queue
          User,     \* tab -> the attorney signed in there; one may have several
          Clicks,   \* the requests made by clicks; others are direct API calls
          Views,    \* the filters they open
          MaxViews  \* bound: tab -> links followed

ASSUME QueueAssumption ==
  /\ User \in [Tab -> Email]
  /\ Clicks \subseteq Changes \cup Assigns
  /\ Views \subseteq LeadStates \cup {"all", "unassigned", "mine"}
  /\ MaxViews \in [Tab -> Nat]

VARIABLES
  screen,  \* tab -> the page: [step, filter, offset, total, items]
  views,   \* tab -> links followed so far
  walk,    \* tab -> [present, seen]: leads at the first page, leads shown since
  click,   \* request -> [by, lead, state, target], the row as it was shown
  told     \* request -> the MarkResult the attorney sees, "refused" for an
           \*   error that gives the API's reason

queueVars == <<vars, stamped, screen, views, walk, click, told>>

Blank == [step |-> "blank", filter |-> "all", offset |-> 0, total |-> 0, items |-> {}]
NoClick == [by |-> None, lead |-> None, state |-> None, target |-> None]

\* Mutant of NEXT_ACTION: the button of a pending lead skips a stage.
NEXT_ACTION_Skips(state) ==
  CASE state = "PENDING" -> {"QUALIFIED"} [] state = "REACHED_OUT" -> {"QUALIFIED"}
    [] OTHER -> {}

\* The button of a row, if it has one: the web client's copy of the pipeline.
NEXT_ACTION(state) ==
  CASE state = "PENDING" -> {"REACHED_OUT"} [] state = "REACHED_OUT" -> {"QUALIFIED"}
    [] OTHER -> {}

QueueInit ==
  /\ Init /\ stamped = Older
  /\ screen = [a \in Tab |-> Blank]
  /\ views = [a \in Tab |-> 0]
  /\ walk = [a \in Tab |-> [present |-> {}, seen |-> {}]]
  /\ click = [r \in Clicks |-> NoClick]
  /\ told = [r \in Clicks |-> "none"]

-----------------------------------------------------------------------------
(***************************************************************************)
(* Rendering and paging                                                    *)
(***************************************************************************)

OnScreen(a) == screen[a].step = "shown"

Open(a, filter, offset) ==
  /\ screen[a].step \in {"blank", "shown"}
  /\ views[a] < MaxViews[a]
  /\ views' = [views EXCEPT ![a] = @ + 1]
  /\ screen' = [screen EXCEPT ![a] =
       [Blank EXCEPT !.step = "open", !.filter = filter, !.offset = offset]]
  /\ UNCHANGED <<vars, stamped, walk, click, told>>

OpenTab(a) ==
  \E view \in Views : Open(a, IF view = "mine" THEN User[a] ELSE view, 0)

\* The position of the last row shown.
LastRow(a) == screen[a].offset + Cardinality(screen[a].items)

\* Mutant of NextPage: the offset of the next page is counted from one.
NextPage_FromOne(a) ==
  /\ OnScreen(a) /\ screen[a].items # {} /\ LastRow(a) < screen[a].total
  /\ Open(a, screen[a].filter, LastRow(a) + 1)

NextPage(a) ==
  /\ OnScreen(a) /\ screen[a].items # {} /\ LastRow(a) < screen[a].total
  /\ Open(a, screen[a].filter, screen[a].offset + PAGE_SIZE)

PreviousPage(a) ==
  /\ OnScreen(a) /\ screen[a].items # {} /\ screen[a].offset > 0
  /\ Open(a, screen[a].filter, Max({0, screen[a].offset - PAGE_SIZE}))

\* The first SELECT of the page.  A walk begins at the first page.
CountLeads(a) ==
  /\ screen[a].step = "open"
  /\ screen' = [screen EXCEPT ![a] =
       [@ EXCEPT !.step = "counted", !.total = count(screen[a].filter)]]
  /\ walk' = [walk EXCEPT ![a] =
       IF screen[a].offset > 0 THEN @
       ELSE [present |-> {stamped[i] : i \in Matching(screen[a].filter)}, seen |-> {}]]
  /\ UNCHANGED <<vars, stamped, views, click, told>>

\* The second SELECT, and the page is on the screen.
SelectPage(a) ==
  /\ screen[a].step = "counted"
  /\ LET rows == select(screen[a].filter, screen[a].offset) IN
     /\ screen' = [screen EXCEPT ![a] = [@ EXCEPT !.step = "shown", !.items = rows]]
     /\ walk' = [walk EXCEPT ![a].seen = @ \cup {row.lead : row \in rows}]
  /\ UNCHANGED <<vars, stamped, views, click, told>>

-----------------------------------------------------------------------------
(***************************************************************************)
(* Clicking                                                                *)
(***************************************************************************)

\* A button is disabled while its own call is pending.
Pending(a, l, target) ==
  \E r \in Clicks : /\ click[r].by = a /\ click[r].lead = l /\ click[r].target = target
                    /\ told[r] = "none"

Press(a, r, row, target) ==
  /\ OnScreen(a) /\ click[r] = NoClick /\ ~Pending(a, row.lead, target)
  /\ click' = [click EXCEPT ![r] =
       [by |-> a, lead |-> row.lead, state |-> row.state, target |-> target]]
  /\ UNCHANGED <<vars, stamped, screen, views, walk, told>>

\* StateActionButton: rendered where the table offers a move.
PressState(a, r) ==
  /\ r \in Changes
  /\ \E row \in screen[a].items : \E target \in NEXT_ACTION(row.state) :
       Press(a, r, row, target)

\* AssignToMeButton: rendered on rows without an owner; the caller's own address.
PressAssign(a, r) ==
  /\ r \in Assigns
  /\ \E row \in screen[a].items : row.owner = None /\ Press(a, r, row, User[a])

\* The call ends without an answer of the service: no token in the cookie, a
\* 401, or a fetch that throws.  Nothing is revalidated, and a request that was
\* sent may run before, during or after this all the same.
CallFails(r) ==
  /\ click[r] # NoClick /\ told[r] = "none"
  /\ told' = [told EXCEPT ![r] = "error"]
  /\ UNCHANGED <<vars, stamped, screen, views, walk, click>>

\* Mutant of MarkResult: the code of a refusal is handed to the page as it is.
MarkResult_Raw(r) == reply[r]

\* What changeLeadState and assignToMe make of the API's answer.
MarkResult(r) ==
  CASE reply[r] = "ok" -> "ok" [] reply[r] = "already_in_state" -> "already"
    [] r \in Changes /\ reply[r] \in {"invalid_transition", "lead_not_found"} -> "refused"
    [] r \in Assigns /\ reply[r] = "unknown_assignee" -> "refused"
    [] OTHER -> "error"

\* Mutant of Revalidates: a refused change leaves the stale page on the screen.
Revalidates_OnlyOk(r) == reply[r] = "ok"

\* The answers after which the queue is rendered again.
Revalidates(r) ==
  \/ reply[r] = "ok"
  \/ r \in Changes /\ reply[r] \in {"already_in_state", "invalid_transition", "lead_not_found"}
  \/ r \in Assigns /\ reply[r] = "unknown_assignee"

\* The server action returns; a revalidated page comes back with its answer.
Tell(r) ==
  /\ click[r] # NoClick /\ told[r] = "none" /\ reply[r] # "none"
  /\ told' = [told EXCEPT ![r] = MarkResult(r)]
  /\ screen' = [screen EXCEPT ![click[r].by].step = IF Revalidates(r) THEN "open" ELSE @]
  /\ UNCHANGED <<vars, stamped, views, walk, click>>

\* A click carries the row's lead and the button's target to the API.
AsClicked(r) ==
  r \in Clicks =>
    /\ click[r] # NoClick
    /\ on'[r] = click[r].lead /\ want'[r] = click[r].target

\* The handlers of LeadService up to their answer.  The background mail after
\* it touches nothing a page shows and is left to LeadService's own runs.
Serve(r) ==
  /\ At(r, "chosen") => Contains(stamped, r)
  /\ \/ Arrive(r) /\ AsClicked(r)
     \/ pc[r] \notin {"mailing", "notifying"} /\ (Proceed(r) \/ Fail(r))
  /\ UNCHANGED <<stamped, screen, views, walk, click, told>>

Browse(a) ==
  \/ OpenTab(a) \/ NextPage(a) \/ PreviousPage(a)
  \/ CountLeads(a) \/ SelectPage(a)
  \/ \E r \in Clicks : PressState(a, r) \/ PressAssign(a, r)

QueueNext ==
  \/ \E r \in Request : Serve(r)
  \/ \E c \in Creates : Flush(c) /\ UNCHANGED <<screen, views, walk, click, told>>
  \/ \E a \in Tab : Browse(a)
  \/ \E r \in Clicks : CallFails(r) \/ Tell(r)

QueueSpec == QueueInit /\ [][QueueNext]_queueVars
=============================================================================
