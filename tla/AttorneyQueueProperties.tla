----------------------- MODULE AttorneyQueueProperties -----------------------
(***************************************************************************)
(* What the pages of the attorney queue may claim about leads that keep    *)
(* moving under them.                                                      *)
(***************************************************************************)
EXTENDS AttorneyQueue, LeadServiceProperties

Results == {"none", "ok", "already", "refused", "error"}
Rows == [lead : Lead, state : LeadStates, owner : Owner]

\* The pages and clicks keep their types, and no page is longer than a page; every
\* button that was pressed asked for a state of the pipeline or for the presser's
\* own address.
QueueTypeOK ==
  /\ stamped \in Seq(Lead)
  /\ \A a \in Tab :
       /\ screen[a].step \in {"blank", "open", "counted", "shown"}
       /\ screen[a].offset \in Nat /\ screen[a].total \in Nat /\ screen[a].items \subseteq Rows
       /\ Cardinality(screen[a].items) <= PAGE_SIZE
       /\ walk[a].present \subseteq Lead /\ walk[a].seen \subseteq Lead
  /\ \A r \in Clicks :
       /\ told[r] \in Results
       /\ click[r] # NoClick =>
            /\ click[r].by \in Tab /\ click[r].lead \in Lead
            /\ click[r].target \in LeadStates \cup {User[click[r].by]}

-----------------------------------------------------------------------------
\* The attorney has followed Next from the first page to the last one.
WalkedAll(a) ==
  OnScreen(a) /\ screen[a].filter = "all" /\ LastRow(a) >= screen[a].total

\* FR5: leads that come in while an attorney pages through the full list only
\* shift it towards later pages, so nothing that was there is skipped, unless
\* one came in between the last page's own two reads.
WalkMissesNothing ==
  \A a \in Tab :
    WalkedAll(a) /\ count("all") = screen[a].total => walk[a].present \subseteq walk[a].seen

\* Whoever is shown "Updated." or the benign notice for a change of state sees
\* the truth: the lead was moved to the state on the button, by this click if
\* it was told so, and from the very state the row showed, however old the page.
ToldTheTruth ==
  \A r \in Clicks \cap Changes :
    LET t == trail[click[r].lead] IN
    /\ told[r] = "ok" => \E i \in EntriesBy(r, click[r].lead), k \in DOMAIN t :
         /\ LastMove(t, i - 1, k) /\ t[k].to_state = click[r].state
         /\ t[i].to_state = click[r].target
    /\ told[r] = "already" => MovedTo(click[r].lead, click[r].target)

\* The table of buttons mirrors the API's: a stale page makes the API refuse a
\* click only because somebody has already made that move.
RefusedBecauseDone ==
  \A r \in Clicks \cap Changes :
    reply[r] \in {"already_in_state", "invalid_transition"} => MovedTo(click[r].lead, click[r].target)

\* Once told the API's answer to a click, the attorney never again sees the row
\* in the state it was clicked in, in that tab.  A call that failed promises
\* nothing: its request may have been committed behind the old page.
StaleRowGone ==
  \A r \in Clicks \cap Changes :
    told[r] \in {"ok", "already", "refused"} /\ OnScreen(click[r].by)
    => \A row \in screen[click[r].by].items :
         row.lead = click[r].lead => row.state # click[r].state

\* What assign-to-me-button.tsx:10 says: the button never takes a lead that a
\* colleague owns.
NoTakeover ==
  \A r \in Clicks \cap Assigns : click[r] # NoClick =>
    \A i \in EntriesBy(r, click[r].lead) : trail[click[r].lead][i].from_assignee = None

-----------------------------------------------------------------------------
(***************************************************************************)
(* The invariant the proofs carry                                          *)
(***************************************************************************)

\* The lead l is in state s, or was once.
Reached(l, s) ==
  l \in Lead /\ s \in LeadStates /\ Exists(l) /\ Rank(s) <= Rank(leadState[l])

\* No state is passed without an entry in the trail, and what a change has read
\* of its lead was true.
PassedInv ==
  /\ \A l \in Lead, s \in LeadStates : Reached(l, s) => MovedTo(l, s)
  /\ \A r \in Changes : pc[r] \in {"loaded", "updated"} => Reached(on[r], lead[r].state)

Pages == [step : {"blank", "open", "counted", "shown"}, filter : {"all"} \cup Views \cup Email,
          offset : Nat, total : Nat, items : SUBSET Rows]

\* A page holds one page of rows, and each of them was true.
ShownInv ==
  /\ stamped \in Seq(Lead)
  /\ screen \in [Tab -> Pages]
  /\ walk \in [Tab -> [present : SUBSET Lead, seen : SUBSET Lead]]
  /\ \A a \in Tab :
       /\ IsFiniteSet(screen[a].items) /\ Cardinality(screen[a].items) <= PAGE_SIZE
       /\ \A row \in screen[a].items : Reached(row.lead, row.state)

\* The answers that tell where a lead is, or will be.
Settled == {"ok", "already_in_state", "invalid_transition"}

\* A click was made on such a row; one that was refused with a reason had its
\* answer, and an answer that settles it means that the state asked for has been
\* reached.
PressedInv ==
  /\ \A r \in Clicks : click[r] # NoClick =>
       /\ click[r].by \in Tab /\ Reached(click[r].lead, click[r].state)
       /\ r \in Assigns => click[r].target = User[click[r].by]
  /\ \A r \in Clicks : told[r] \in Results
  /\ \A r \in Clicks \cap Changes :
       /\ reply[r] # "lead_not_found"
       /\ told[r] \in {"ok", "already", "refused"} => reply[r] \in Settled
       /\ reply[r] \in Settled => Reached(click[r].lead, click[r].target)

\* The offset of the first row that the walk has still to show.
NextUp(a) == IF OnScreen(a) THEN screen[a].offset + PAGE_SIZE ELSE screen[a].offset

\* What a walk through the full list has not shown yet is not before its next
\* row: submissions only push it further down.
WalkInv ==
  \A a \in Tab :
    /\ \A l \in walk[a].present : \E i \in Matching("all") : stamped[i] = l
    /\ screen[a].filter = "all" /\ ~(screen[a].step = "open" /\ screen[a].offset = 0) =>
         \A i \in Matching("all") :
           stamped[i] \in walk[a].present \ walk[a].seen => Newer("all", i) >= NextUp(a)
=============================================================================
