--------------------------- MODULE QueuePageProofs ---------------------------
(***************************************************************************)
(* Proofs about the pages of the attorney queue: what paging through the   *)
(* full list shows, and what a click on a stale row can come to.           *)
(***************************************************************************)
EXTENDS AttorneyQueueProofs, FiniteSetTheorems

USE ListAssumption

-----------------------------------------------------------------------------
(***************************************************************************)
(* Pages of a list                                                         *)
(***************************************************************************)

LEMMA MatchingFinite ==
  ASSUME stamped \in Seq(Lead), NEW filter
  PROVE  /\ Matching(filter) \subseteq 1..Len(stamped) /\ Matching(filter) \subseteq Nat
         /\ IsFiniteSet(Matching(filter))
<1>1. Matching(filter) \subseteq 1..Len(stamped) /\ Len(stamped) \in Nat
  BY DEF Matching
<1>2. IsFiniteSet(1..Len(stamped))
  BY <1>1, FS_Interval
<1> QED
  BY <1>1, <1>2, FS_Subset

LEMMA NewerType ==
  ASSUME stamped \in Seq(Lead), NEW filter, NEW i
  PROVE  /\ Newer(filter, i) \in Nat /\ count(filter) \in Nat
         /\ IsFiniteSet({k \in Matching(filter) : k > i})
<1>1. IsFiniteSet(Matching(filter)) /\ {k \in Matching(filter) : k > i} \subseteq Matching(filter)
  BY MatchingFinite
<1>2. IsFiniteSet({k \in Matching(filter) : k > i})
  BY <1>1, FS_Subset
<1> QED
  BY <1>1, <1>2, FS_CardinalityType DEF Newer, count

\* Two rows of a list are never in the same place of it.
LEMMA NewerOrders ==
  ASSUME stamped \in Seq(Lead), NEW filter, NEW i \in Matching(filter), NEW j \in Matching(filter), i < j
  PROVE  Newer(filter, j) < Newer(filter, i)
<1> DEFINE S == {k \in Matching(filter) : k > i}
           T == {k \in Matching(filter) : k > j}
<1>1. i \in Nat /\ j \in Nat /\ \A k \in Matching(filter) : k \in Nat
  BY MatchingFinite
<1>2. T \subseteq S /\ j \in S /\ j \notin T
  <2>1. \A k \in Matching(filter) : k > j => k > i
    BY <1>1
  <2>2. j > i /\ ~(j > j)
    BY <1>1
  <2> QED
    BY <2>1, <2>2
<1>3. IsFiniteSet(S) /\ Cardinality(S) \in Nat /\ Cardinality(T) \in Nat
  BY NewerType DEF Newer
<1>4. Cardinality(T) <= Cardinality(S) /\ Cardinality(S) # Cardinality(T)
  BY <1>2, <1>3, FS_Subset
<1>5. Cardinality(T) < Cardinality(S)
  BY <1>3, <1>4
<1> QED
  BY <1>5 DEF Newer

\* The place of a row is within the count.
LEMMA NewerCounted ==
  ASSUME stamped \in Seq(Lead), NEW filter, NEW i \in Matching(filter)
  PROVE  Newer(filter, i) < count(filter)
<1> DEFINE S == Matching(filter)
           T == {k \in Matching(filter) : k > i}
<1>1. T \subseteq S /\ i \in S /\ i \notin T
  BY MatchingFinite
<1>2. IsFiniteSet(S) /\ Cardinality(S) \in Nat /\ Cardinality(T) \in Nat
  BY MatchingFinite, NewerType DEF Newer, count
<1>3. Cardinality(T) <= Cardinality(S) /\ Cardinality(S) # Cardinality(T)
  BY <1>1, <1>2, FS_Subset
<1>4. Cardinality(T) < Cardinality(S)
  BY <1>2, <1>3
<1> QED
  BY <1>4 DEF Newer, count

\* The positions whose rows a page shows, and the row at one of them.
Window(filter, offset) ==
  {i \in Matching(filter) : Newer(filter, i) \in offset..(offset + PAGE_SIZE - 1)}
RowAt(i) == [lead |-> stamped[i], state |-> leadState[stamped[i]], owner |-> assignedTo[stamped[i]]]

LEMMA SelectIsWindow ==
  ASSUME NEW filter, NEW offset
  PROVE  select(filter, offset) = {RowAt(i) : i \in Window(filter, offset)}
  BY DEF select, Window, RowAt

\* A page is no longer than a page.
LEMMA PageFits ==
  ASSUME stamped \in Seq(Lead), NEW filter, NEW offset \in Nat
  PROVE  /\ IsFiniteSet(select(filter, offset))
         /\ Cardinality(select(filter, offset)) <= PAGE_SIZE
<1> DEFINE W == Window(filter, offset)
           P == offset..(offset + PAGE_SIZE - 1)
           place == [i \in W |-> Newer(filter, i)]
           row == [i \in W |-> RowAt(i)]
<1>1. IsFiniteSet(P) /\ Cardinality(P) = PAGE_SIZE
  <2>1. offset \in Int /\ offset + PAGE_SIZE - 1 \in Int /\ ~(offset > offset + PAGE_SIZE - 1)
    OBVIOUS
  <2>2. IsFiniteSet(P) /\ Cardinality(P) = IF offset > offset + PAGE_SIZE - 1 THEN 0
                                             ELSE offset + PAGE_SIZE - 1 - offset + 1
    BY <2>1, FS_Interval
  <2> QED
    BY <2>1, <2>2
<1>2. place \in Injection(W, P)
  <2>1. place \in [W -> P]
    BY DEF Window
  <2>2. ASSUME NEW i \in W, NEW j \in W, place[i] = place[j] PROVE i = j
    <3>1. i \in Matching(filter) /\ j \in Matching(filter) /\ Newer(filter, i) = Newer(filter, j)
      BY <2>2 DEF Window
    <3>2. Newer(filter, i) \in Nat /\ i \in Nat /\ j \in Nat
      <4>1. i \in Nat /\ j \in Nat
        BY <3>1, MatchingFinite
      <4> QED
        BY <4>1, NewerType
    <3>3. ~(i < j) /\ ~(j < i)
      BY <3>1, <3>2, NewerOrders
    <3> QED
      BY <3>2, <3>3
  <2> QED
    BY <2>1, <2>2 DEF Injection, IsInjective
<1>3. IsFiniteSet(W) /\ Cardinality(W) <= Cardinality(P)
  BY <1>1, <1>2, FS_Injection
<1>4. row \in Surjection(W, select(filter, offset))
  BY SelectIsWindow DEF Surjection
<1>5. IsFiniteSet(select(filter, offset)) /\ Cardinality(select(filter, offset)) <= Cardinality(W)
  BY <1>3, <1>4, FS_Surjection
<1>6. Cardinality(W) \in Nat /\ Cardinality(select(filter, offset)) \in Nat
  BY <1>3, <1>5, FS_CardinalityType
<1> QED
  BY <1>1, <1>3, <1>5, <1>6

-----------------------------------------------------------------------------
(***************************************************************************)
(* The states a lead has been in                                           *)
(***************************************************************************)

USE RequestsAssumption, NoneAssumption, QueueAssumption

LEMMA ReachedStays ==
  ASSUME IInv, [Next]_vars, NEW l, NEW s, Reached(l, s)
  PROVE  Reached(l, s)'
<1>1. leadState'[l] # "absent" /\ Rank(leadState[l]) <= Rank(leadState'[l])
  BY LeadsAdvance DEF Reached
<1> QED
  BY <1>1 DEF Reached, Exists, Rank

\* The pipeline is entered at its start and left behind one state at a time.
LEMMA StatesOfStep ==
  ASSUME IInv, NEW q \in Request, Act(q), NEW l \in Lead, NEW s \in LeadStates,
         Reached(l, s)', ~Reached(l, s)
  PROVE  s = leadState'[l]
<1>1. leadState'[l] # leadState[l]
  BY DEF Reached, Exists
<1>2. Appends(q, Event(q)) /\ Enters(q)
  BY <1>1, TrailOfStep
<1>3. l = on[q] /\ q \notin Assigns
  BY <1>1, <1>2 DEF Enters
<1>4. CASE q \in Creates
  <2>1. leadState'[l] = "PENDING"
    BY <1>2, <1>3, <1>4 DEF Enters
  <2> QED
    BY <2>1 DEF Reached, Rank, LeadStates
<1>5. CASE q \in Changes
  <2>1. Exists(l) /\ rule_for(leadState[l], leadState'[l]) # {}
    BY <1>2, <1>3, <1>5 DEF Enters
  <2> QED
    BY <2>1 DEF Reached, Rank, LeadStates, rule_for, TRANSITIONS, Exists
<1> QED
  BY <1>3, <1>4, <1>5

LEMMA PassedKeeps ==
  ASSUME IInv, MailInv, PassedInv, [Next]_vars
  PROVE  PassedInv'
<1>1. CASE UNCHANGED vars
  BY <1>1 DEF PassedInv, Reached, MovedTo, Exists, vars, db, local
<1>2. CASE Next
  <2>1. PICK q \in Request : Act(q)
    BY <1>2 DEF Next, Act
  <2>2. ASSUME NEW l \in Lead, NEW s \in LeadStates, Reached(l, s)' PROVE MovedTo(l, s)'
    <3>1. CASE Reached(l, s)
      <4>1. MovedTo(l, s)
        BY <3>1 DEF PassedInv
      <4> QED
        BY <2>1, <4>1, HistoryStays DEF MovedTo
    <3>2. CASE ~Reached(l, s)
      <4>1. s = leadState'[l] /\ leadState'[l] # "absent"
        BY <2>1, <2>2, <3>2, StatesOfStep DEF Reached, Exists
      <4>2. MovedTo(l, leadState[l])'
        BY <2>1, <4>1, StateIsMovedTo
      <4> QED
        BY <4>1, <4>2 DEF MovedTo
    <3> QED
      BY <3>1, <3>2
  <2>3. ASSUME NEW r \in Changes, pc'[r] \in {"loaded", "updated"}
        PROVE  Reached(on[r], lead[r].state)'
    <3>1. CASE r = q /\ ReadForChange(r)
      <4>1. /\ on \in [Request -> Lead \cup {None}] /\ lead \in [Request -> Row]
            /\ leadState \in [Lead -> LeadStates \cup {"absent"}] /\ r \in Request
        BY DEF IInv, TypeOK, HandlersTypeOK, RowsTypeOK
      <4>2. PICK l \in Lead : /\ on' = [on EXCEPT ![r] = l] /\ UNCHANGED leadState
                              /\ Exists(l) /\ lead' = [lead EXCEPT ![r] = get(l)]
        BY <2>3, <3>1, <4>1 DEF ReadForChange, Finish, db, IInv, TypeOK, HandlersTypeOK
      <4>3. on'[r] = l /\ lead'[r].state = leadState[l] /\ leadState[l] \in LeadStates
        BY <4>1, <4>2 DEF get, Exists
      <4> QED
        BY <4>2, <4>3 DEF Reached, Exists, Rank
    <3>2. CASE ~(r = q /\ ReadForChange(r))
      <4>1. pc[r] \in {"loaded", "updated"} /\ on'[r] = on[r] /\ lead'[r] = lead[r]
        <5>1. CASE r # q
          <6>1. r \in Request
            OBVIOUS
          <6> QED
            BY <2>1, <2>3, <5>1, <6>1, ActAlone
        <5>2. CASE r = q
          <6>1. r \notin Creates /\ r \notin Assigns /\ pc \in [Request -> Labels] /\ r \in Request
            BY DEF IInv, TypeOK, HandlersTypeOK
          <6> QED
            BY <2>1, <2>3, <3>2, <5>2, <6>1 DEF Act, Arrive, Proceed, UpdateState, StateLost,
               RefreshChanged, CommitUpdate, SendMail, Fail, WriteFails, RefreshFails, Die,
               Goto, Finish, At
        <5> QED
          BY <5>1, <5>2
      <4>2. Reached(on[r], lead[r].state)
        BY <4>1 DEF PassedInv
      <4>3. Reached(on[r], lead[r].state)' <=> (leadState'[on[r]] # "absent" /\ on[r] \in Lead
              /\ lead[r].state \in LeadStates /\ Rank(lead[r].state) <= Rank(leadState'[on[r]]))
        BY <4>1 DEF Reached, Exists
      <4>4. leadState'[on[r]] # "absent" /\ Rank(leadState[on[r]]) <= Rank(leadState'[on[r]])
        BY <4>2, LeadsAdvance DEF Reached
      <4> QED
        BY <4>2, <4>3, <4>4 DEF Reached, Rank
    <3> QED
      BY <3>1, <3>2
  <2> QED
    BY <2>2, <2>3 DEF PassedInv
<1> QED
  BY <1>1, <1>2

-----------------------------------------------------------------------------
(***************************************************************************)
(* What a step does to one attorney's page                                 *)
(***************************************************************************)

Filters == {"all"} \cup Views \cup Email
NewPage(filter, offset) == [Blank EXCEPT !.step = "open", !.filter = filter, !.offset = offset]

LEMMA BackToZero ==
  ASSUME NEW n \in Nat, NEW m \in Nat
  PROVE  Max({0, n - m}) \in 0..n
<1> DEFINE S == {0, n - m}
<1>1. \E x \in S : \A y \in S : x >= y
  <2>1. CASE n - m >= 0
    BY <2>1
  <2>2. CASE n - m < 0
    BY <2>2
  <2> QED
    BY <2>1, <2>2
<1>2. Max(S) \in S /\ \A y \in S : Max(S) >= y
  BY <1>1 DEF Max
<1> QED
  BY <1>2

\* The page of a and the walk of a, before and after.
Turns(a) ==
  /\ screen'[a] \in {screen[a], [screen[a] EXCEPT !.step = "open"]} /\ walk'[a] = walk[a]
Opens(a) ==
  \E filter \in Filters, offset \in Nat :
    /\ screen'[a] = NewPage(filter, offset) /\ walk'[a] = walk[a]
    /\ offset > 0 => /\ OnScreen(a) /\ filter = screen[a].filter
                     /\ offset <= screen[a].offset + PAGE_SIZE
Counts(a) ==
  /\ screen[a].step = "open" /\ UNCHANGED <<vars, stamped>>
  /\ screen'[a] = [screen[a] EXCEPT !.step = "counted", !.total = count(screen[a].filter)]
  /\ walk'[a] = IF screen[a].offset > 0 THEN walk[a]
                ELSE [present |-> {stamped[i] : i \in Matching(screen[a].filter)}, seen |-> {}]
Selects(a) ==
  LET rows == select(screen[a].filter, screen[a].offset) IN
  /\ screen[a].step = "counted" /\ UNCHANGED <<vars, stamped>>
  /\ screen'[a] = [screen[a] EXCEPT !.step = "shown", !.items = rows]
  /\ walk'[a] = [walk[a] EXCEPT !.seen = @ \cup {row.lead : row \in rows}]

LEMMA OpenOpens ==
  ASSUME ShownInv, NEW a \in Tab, NEW b \in Tab, NEW filter \in Filters, NEW offset \in Nat,
         Open(a, filter, offset),
         offset > 0 => OnScreen(a) /\ filter = screen[a].filter /\ offset <= screen[a].offset + PAGE_SIZE
  PROVE  Turns(b) \/ Opens(b)
<1>1. screen \in [Tab -> Pages]
  BY DEF ShownInv
<1>2. screen' = [screen EXCEPT ![a] = NewPage(filter, offset)] /\ UNCHANGED walk
  BY DEF Open, NewPage
<1>3. CASE a = b
  BY <1>1, <1>2, <1>3 DEF Opens
<1>4. CASE a # b
  BY <1>1, <1>2, <1>4 DEF Turns
<1> QED
  BY <1>3, <1>4

LEMMA PageOfStep ==
  ASSUME ShownInv, PressedInv, [QueueNext]_queueVars, NEW b \in Tab
  PROVE  Turns(b) \/ Opens(b) \/ Counts(b) \/ Selects(b)
<1>1. /\ screen \in [Tab -> Pages]
      /\ walk \in [Tab -> [present : SUBSET Lead, seen : SUBSET Lead]]
  BY DEF ShownInv
<1>2. CASE UNCHANGED <<screen, walk>>
  BY <1>2 DEF Turns
<1>3. ASSUME NEW a \in Tab, OpenTab(a) PROVE Turns(b) \/ Opens(b)
  <2>1. PICK view \in Views : Open(a, IF view = "mine" THEN User[a] ELSE view, 0)
    BY <1>3 DEF OpenTab
  <2>2. PICK filter \in Filters : Open(a, filter, 0)
    BY <2>1 DEF Filters
  <2>3. 0 \in Nat /\ ~(0 > 0)
    OBVIOUS
  <2> QED
    BY <2>2, <2>3, OpenOpens
<1>4. ASSUME NEW a \in Tab, NextPage(a) \/ PreviousPage(a) PROVE Turns(b) \/ Opens(b)
  <2>1. screen[a].filter \in Filters /\ screen[a].offset \in Nat
    BY <1>1 DEF Pages, Filters
  <2>2. CASE NextPage(a)
    <3>1. Open(a, screen[a].filter, screen[a].offset + PAGE_SIZE) /\ OnScreen(a)
      BY <2>2 DEF NextPage
    <3>2. screen[a].offset + PAGE_SIZE \in Nat
      BY <2>1
    <3> QED
      BY <2>1, <3>1, <3>2, OpenOpens
  <2>3. CASE PreviousPage(a)
    <3> DEFINE back == Max({0, screen[a].offset - PAGE_SIZE})
    <3>1. Open(a, screen[a].filter, back) /\ OnScreen(a)
      BY <2>3 DEF PreviousPage
    <3>2. back \in 0..screen[a].offset
      BY <2>1, BackToZero
    <3>3. back \in Nat /\ back <= screen[a].offset + PAGE_SIZE
      BY <2>1, <3>2
    <3> HIDE DEF back
    <3> QED
      BY <2>1, <3>1, <3>3, OpenOpens
  <2> QED
    BY <1>4, <2>2, <2>3
<1>5. ASSUME NEW a \in Tab, CountLeads(a) PROVE Turns(b) \/ Counts(b)
  BY <1>1, <1>5 DEF CountLeads, Turns, Counts
<1>6. ASSUME NEW a \in Tab, SelectPage(a) PROVE Turns(b) \/ Selects(b)
  <2> DEFINE rows == select(screen[a].filter, screen[a].offset)
             leads == {row.lead : row \in rows}
  <2>1. /\ screen[a].step = "counted" /\ UNCHANGED <<vars, stamped>>
        /\ screen' = [screen EXCEPT ![a] = [@ EXCEPT !.step = "shown", !.items = rows]]
        /\ walk' = [walk EXCEPT ![a].seen = @ \cup leads]
    BY <1>6 DEF SelectPage
  <2> HIDE DEF rows, leads
  <2>2. CASE a = b
    <3>1. /\ screen'[b] = [screen[b] EXCEPT !.step = "shown", !.items = rows]
          /\ walk'[b] = [walk[b] EXCEPT !.seen = @ \cup leads]
      BY <1>1, <2>1, <2>2
    <3> QED
      BY <2>1, <2>2, <3>1 DEF Selects, rows, leads
  <2>3. CASE a # b
    BY <1>1, <2>1, <2>3 DEF Turns
  <2> QED
    BY <2>2, <2>3
<1>7. ASSUME NEW r \in Clicks, Tell(r) PROVE Turns(b)
  <2>1. click[r].by \in Tab /\ UNCHANGED walk
    BY <1>7 DEF Tell, PressedInv
  <2>2. screen' = [screen EXCEPT ![click[r].by].step = IF Revalidates(r) THEN "open" ELSE @]
    BY <1>7 DEF Tell
  <2> HIDE DEF Revalidates
  <2>3. screen'[b] = screen[b] \/ screen'[b] = [screen[b] EXCEPT !.step = "open"]
    BY <1>1, <2>1, <2>2 DEF Pages
  <2> QED
    BY <2>1, <2>3 DEF Turns
<1> QED
  BY <1>2, <1>3, <1>4, <1>5, <1>6, <1>7 DEF QueueNext, Serve, Flush, Browse, PressState,
     PressAssign, Press, CallFails, queueVars

\* Where the pages, walks and the list stay functions and a sequence.
LEMMA PagesStay ==
  ASSUME ShownInv, PressedInv, [QueueNext]_queueVars
  PROVE  /\ stamped' \in Seq(Lead)
         /\ DOMAIN screen' = Tab /\ screen' = [a \in Tab |-> screen'[a]]
         /\ DOMAIN walk' = Tab /\ walk' = [a \in Tab |-> walk'[a]]
<1>1. /\ screen \in [Tab -> Pages] /\ stamped \in Seq(Lead)
      /\ walk \in [Tab -> [present : SUBSET Lead, seen : SUBSET Lead]]
  BY DEF ShownInv
<1>2. stamped' \in Seq(Lead)
  <2>1. UNCHANGED stamped \/ \E c \in Lead : stamped' = Append(stamped, c)
    BY DEF QueueNext, Serve, Flush, Browse, OpenTab, NextPage, PreviousPage, Open, CountLeads,
       SelectPage, PressState, PressAssign, Press, CallFails, Tell, queueVars
  <2>2. \A c \in Lead : Append(stamped, c) \in Seq(Lead)
    BY <1>1
  <2> QED
    BY <1>1, <2>1, <2>2
<1>3. UNCHANGED screen \/ \E a, p : screen' = [screen EXCEPT ![a] = p]
  BY <1>1 DEF QueueNext, Serve, Flush, Browse, OpenTab, NextPage, PreviousPage, Open, CountLeads,
     SelectPage, PressState, PressAssign, Press, CallFails, Tell, queueVars
<1>4. UNCHANGED walk \/ \E a, p : walk' = [walk EXCEPT ![a] = p]
  BY <1>1 DEF QueueNext, Serve, Flush, Browse, OpenTab, NextPage, PreviousPage, Open, CountLeads,
     SelectPage, PressState, PressAssign, Press, CallFails, Tell, queueVars
<1> QED
  BY <1>1, <1>2, <1>3, <1>4

-----------------------------------------------------------------------------
(***************************************************************************)
(* The rows on a page                                                      *)
(***************************************************************************)

LEMMA SelectType ==
  ASSUME IInv, stamped \in Seq(Lead), NEW filter, NEW offset, NEW row \in select(filter, offset)
  PROVE  row \in Rows /\ Reached(row.lead, row.state) /\ row.state = leadState[row.lead]
<1>1. PICK i \in Window(filter, offset) : row = RowAt(i)
  BY SelectIsWindow
<1>2. i \in DOMAIN stamped /\ Exists(stamped[i]) /\ stamped[i] \in Lead
  BY <1>1 DEF Window, Matching
<1>3. leadState[stamped[i]] \in LeadStates /\ assignedTo[stamped[i]] \in Owner
  BY <1>2 DEF IInv, TypeOK, RowsTypeOK, Exists
<1>4. row.lead = stamped[i] /\ row.state = leadState[stamped[i]] /\ row \in Rows
  BY <1>1, <1>2, <1>3 DEF RowAt, Rows
<1> QED
  BY <1>2, <1>3, <1>4 DEF Reached, Rank

LEMMA ShownKeeps ==
  ASSUME IInv, ShownInv, PressedInv, [QueueNext]_queueVars
  PROVE  ShownInv'
<1>1. [Next]_vars
  BY QueueStep
<1>2. ASSUME NEW a \in Tab
      PROVE  /\ screen'[a] \in Pages /\ walk'[a] \in [present : SUBSET Lead, seen : SUBSET Lead]
             /\ IsFiniteSet(screen'[a].items) /\ Cardinality(screen'[a].items) <= PAGE_SIZE
             /\ \A row \in screen'[a].items : Reached(row.lead, row.state)'
  <2>1. /\ screen[a] \in Pages /\ walk[a] \in [present : SUBSET Lead, seen : SUBSET Lead]
        /\ stamped \in Seq(Lead)
        /\ IsFiniteSet(screen[a].items) /\ Cardinality(screen[a].items) <= PAGE_SIZE
        /\ \A row \in screen[a].items : Reached(row.lead, row.state)
    BY DEF ShownInv
  <2>2. ASSUME NEW row, Reached(row.lead, row.state) PROVE Reached(row.lead, row.state)'
    BY <1>1, <2>2, ReachedStays
  <2>3. CASE Turns(a)
    <3>1. screen'[a] \in Pages /\ screen'[a].items = screen[a].items /\ walk'[a] = walk[a]
      BY <2>1, <2>3 DEF Turns, Pages
    <3> QED
      BY <2>1, <2>2, <3>1
  <2>4. CASE Opens(a)
    <3>1. PICK filter \in Filters, offset \in Nat : screen'[a] = NewPage(filter, offset) /\ walk'[a] = walk[a]
      BY <2>4 DEF Opens
    <3>2. Blank \in Pages /\ Blank.items = {}
      BY DEF Blank, Pages
    <3>3. screen'[a] \in Pages /\ screen'[a].items = {}
      BY <3>1, <3>2 DEF NewPage, Pages, Filters
    <3> QED
      BY <2>1, <3>1, <3>3, FS_EmptySet
  <2>5. CASE Counts(a)
    <3> DEFINE n == count(screen[a].filter)
    <3>1. n \in Nat
      BY <2>1, NewerType
    <3>2. screen'[a] = [screen[a] EXCEPT !.step = "counted", !.total = n]
      BY <2>5 DEF Counts
    <3> HIDE DEF n
    <3>3. screen'[a] \in Pages /\ screen'[a].items = screen[a].items
      <4>1. screen[a] \in Pages
        BY <2>1
      <4> QED
        BY <3>1, <3>2, <4>1 DEF Pages
    <3> DEFINE present == {stamped[i] : i \in Matching(screen[a].filter)}
    <3>4. present \subseteq Lead
      BY <2>1 DEF Matching
    <3>5. walk'[a] = IF screen[a].offset > 0 THEN walk[a] ELSE [present |-> present, seen |-> {}]
      BY <2>5 DEF Counts
    <3> HIDE DEF present
    <3>6. walk'[a] \in [present : SUBSET Lead, seen : SUBSET Lead]
      BY <2>1, <3>4, <3>5
    <3> QED
      BY <2>1, <2>2, <3>3, <3>6
  <2>6. CASE Selects(a)
    <3> DEFINE rows == select(screen[a].filter, screen[a].offset)
               leads == {row.lead : row \in rows}
    <3>1. screen[a].offset \in Nat
      BY <2>1 DEF Pages
    <3>2. /\ IsFiniteSet(rows) /\ Cardinality(rows) <= PAGE_SIZE
          /\ \A row \in rows : row \in Rows /\ Reached(row.lead, row.state)
      BY <2>1, <3>1, PageFits, SelectType
    <3>3. rows \subseteq Rows /\ leads \subseteq Lead
      BY <3>2 DEF Rows
    <3>4. screen'[a] = [screen[a] EXCEPT !.step = "shown", !.items = rows]
      BY <2>6 DEF Selects
    <3>5. walk'[a] = [walk[a] EXCEPT !.seen = @ \cup leads]
      BY <2>6 DEF Selects
    <3> HIDE DEF rows, leads
    <3>6. screen'[a] \in Pages /\ screen'[a].items = rows
      <4>1. screen[a] \in Pages /\ rows \subseteq Rows
        BY <2>1, <3>3
      <4> QED
        BY <3>4, <4>1 DEF Pages
    <3>7. walk'[a] \in [present : SUBSET Lead, seen : SUBSET Lead]
      BY <2>1, <3>3, <3>5
    <3> QED
      BY <2>2, <3>2, <3>6, <3>7
  <2> QED
    BY <2>3, <2>4, <2>5, <2>6, PageOfStep
<1> QED
  BY <1>2, PagesStay DEF ShownInv

-----------------------------------------------------------------------------
(***************************************************************************)
(* Clicks and their answers                                                *)
(***************************************************************************)

\* A click is made once, on a row of the page.
LEMMA ClickOfStep ==
  ASSUME ClickInv, [QueueNext]_queueVars, NEW r \in Clicks
  PROVE  \/ click'[r] = click[r]
         \/ /\ UNCHANGED <<vars, told>> /\ click[r] = NoClick
            /\ \E a \in Tab : \E row \in screen[a].items :
                 /\ click'[r].by = a /\ click'[r].lead = row.lead /\ click'[r].state = row.state
                 /\ r \in Assigns => click'[r].target = User[a]
<1>1. click = [q \in Clicks |-> click[q]]
  BY DEF ClickInv
<1>2. CASE UNCHANGED click
  BY <1>2
<1>3. ASSUME NEW a \in Tab, NEW q \in Clicks, NEW row \in screen[a].items, NEW target,
             Press(a, q, row, target), r \in Assigns /\ q = r => target = User[a]
      PROVE  \/ click'[r] = click[r]
             \/ /\ UNCHANGED <<vars, told>> /\ click[r] = NoClick
                /\ click'[r].by = a /\ click'[r].lead = row.lead /\ click'[r].state = row.state
                /\ r \in Assigns => click'[r].target = User[a]
  BY <1>1, <1>3 DEF Press
<1>4. ASSUME NEW a \in Tab, NEW q \in Clicks, PressState(a, q) \/ PressAssign(a, q)
      PROVE  \/ click'[r] = click[r]
             \/ /\ UNCHANGED <<vars, told>> /\ click[r] = NoClick
                /\ \E b \in Tab : \E row \in screen[b].items :
                     /\ click'[r].by = b /\ click'[r].lead = row.lead /\ click'[r].state = row.state
                     /\ r \in Assigns => click'[r].target = User[b]
  <2>1. CASE PressState(a, q)
    <3>1. PICK row \in screen[a].items : \E target \in NEXT_ACTION(row.state) : Press(a, q, row, target)
      BY <2>1 DEF PressState
    <3>2. PICK target : Press(a, q, row, target)
      BY <3>1
    <3>3. ~(r \in Assigns /\ q = r)
      BY <2>1 DEF PressState
    <3> QED
      BY <1>3, <3>2, <3>3
  <2>2. CASE PressAssign(a, q)
    <3>1. PICK row \in screen[a].items : Press(a, q, row, User[a])
      BY <2>2 DEF PressAssign
    <3> QED
      BY <1>3, <3>1
  <2> QED
    BY <1>4, <2>1, <2>2
<1> QED
  BY <1>2, <1>4 DEF QueueNext, Serve, Flush, Browse, OpenTab, NextPage, PreviousPage, Open, CountLeads,
     SelectPage, CallFails, Tell, queueVars

\* An attorney is told once, and when he is told an answer of the API that
\* settles the click his page is on its way out.
LEMMA ToldOfStep ==
  ASSUME ServiceInv, ClickInv, PressedInv, ShownInv, [QueueNext]_queueVars, NEW r \in Clicks
  PROVE  \/ told'[r] = told[r]
         \/ /\ told'[r] \in Results /\ UNCHANGED <<vars, click>>
            /\ r \in Changes /\ told'[r] \in {"ok", "already", "refused"} =>
                 /\ reply[r] \in Settled \cup {"lead_not_found"}
                 /\ screen'[click[r].by].step = "open"
<1>1. /\ told = [q \in Clicks |-> told[q]] /\ screen \in [Tab -> Pages]
  BY DEF ClickInv, ShownInv
<1>2. CASE UNCHANGED told
  BY <1>2
<1>3. ASSUME NEW q \in Clicks, CallFails(q)
      PROVE  told'[r] = told[r] \/ (told'[r] = "error" /\ UNCHANGED <<vars, click>>)
  BY <1>1, <1>3 DEF CallFails
<1>4. ASSUME NEW q \in Clicks, Tell(q)
      PROVE  \/ told'[r] = told[r]
             \/ /\ told'[r] \in Results /\ UNCHANGED <<vars, click>>
                /\ r \in Changes /\ told'[r] \in {"ok", "already", "refused"} =>
                     /\ reply[r] \in Settled \cup {"lead_not_found"}
                     /\ screen'[click[r].by].step = "open"
  <2>1. CASE q = r
    <3>1. /\ UNCHANGED <<vars, click>>
          /\ told' = [told EXCEPT ![r] = MarkResult(r)]
          /\ screen' = [screen EXCEPT ![click[r].by].step = IF Revalidates(r) THEN "open" ELSE @]
          /\ click[r].by \in Tab
      BY <1>4, <2>1 DEF Tell, PressedInv
    <3>2. MarkResult(r) \in Results
      BY DEF MarkResult, Results
    <3>3. r \in Changes /\ MarkResult(r) \in {"ok", "already", "refused"} =>
            reply[r] \in Settled \cup {"lead_not_found"} /\ Revalidates(r)
      BY RequestsAssumption DEF Settled, Revalidates, MarkResult
    <3> HIDE DEF MarkResult, Revalidates
    <3>4. Revalidates(r) => screen'[click[r].by].step = "open"
      BY <1>1, <3>1 DEF Pages
    <3> QED
      BY <1>1, <3>1, <3>2, <3>3, <3>4
  <2>2. CASE q # r
    BY <1>1, <1>4, <2>2 DEF Tell
  <2> QED
    BY <2>1, <2>2
<1> QED
  BY <1>2, <1>3, <1>4 DEF Results, QueueNext, Serve, Flush, Browse, OpenTab, NextPage, PreviousPage, Open,
     CountLeads, SelectPage, PressState, PressAssign, Press, queueVars

\* The lead of a clicked row is always found.
LEMMA ClickedIsFound ==
  ASSUME ServiceInv, ServiceInv', ClickInv, ClickInv', PressedInv,
         [QueueNext]_queueVars, NEW r \in Clicks \cap Changes
  PROVE  reply'[r] # "lead_not_found"
<1> SUFFICES ASSUME reply'[r] = "lead_not_found" PROVE FALSE
  OBVIOUS
<1>1. /\ [Next]_vars /\ r \in Request /\ IInv /\ reply[r] # "lead_not_found" /\ reply'[r] # reply[r]
      /\ r \notin Creates /\ r \notin Assigns
      /\ reply \in [Request -> Answers] /\ on \in [Request -> Lead \cup {None}]
  BY QueueStep DEF ServiceInv, PressedInv, IInv, TypeOK, HandlersTypeOK
<1>2. PICK q \in Request : Act(q)
  BY <1>1 DEF Next, Act, vars, local
<1>3. q = r
  BY <1>1, <1>2, ActAlone
<1>4. ReadForChange(r)
  BY <1>1, <1>2, <1>3 DEF Act, Arrive, Proceed, UpdateState, StateLost, RefreshChanged, CommitUpdate,
     SendMail, Fail, WriteFails, RefreshFails, Die, Goto, Finish
<1>5. ~Exists(on'[r])
  <2>1. PICK l \in Lead, new \in LeadStates :
          /\ on' = [on EXCEPT ![r] = l]
          /\ \/ ~Exists(l)
             \/ UNCHANGED reply
             \/ Finish(r, assert_transition(leadState[l], new))
    BY <1>4 DEF ReadForChange
  <2>2. assert_transition(leadState[l], new) # "lead_not_found"
    BY DEF assert_transition
  <2> QED
    BY <1>1, <2>1, <2>2 DEF Finish
<1>6. Clicked(r)' /\ ~At(r, "idle")'
  BY <1>1 DEF ClickInv, ServiceInv, Told, At, Refusals
<1>7. on'[r] = click'[r].lead /\ click'[r] # NoClick
  BY <1>6 DEF Clicked, At
<1>8. click'[r] = click[r]
  <2>1. ~UNCHANGED vars
    BY <1>1 DEF vars, local
  <2> QED
    BY <2>1, ClickOfStep
<1> QED
  BY <1>5, <1>7, <1>8 DEF PressedInv, Reached

\* The API refuses a click because the lead has passed the state it asks for.
LEMMA RefusalRight ==
  ASSUME ServiceInv, PassedInv, NEW r \in Changes, Act(r),
         reply'[r] \in {"already_in_state", "invalid_transition"}, reply[r] = "none",
         At(r, "idle") => \E s : want'[r] \in NEXT_ACTION(s) /\ Reached(on'[r], s)
  PROVE  Reached(on[r], want[r])'
<1>1. /\ r \in Request /\ r \notin Creates /\ r \notin Assigns
      /\ reply \in [Request -> Answers] /\ on \in [Request -> Lead \cup {None}]
      /\ want \in [Request -> LeadStates \cup Owner]
      /\ leadState \in [Lead -> LeadStates \cup {"absent"}]
  BY DEF ServiceInv, IInv, TypeOK, HandlersTypeOK, RowsTypeOK
<1>2. ReadForChange(r) \/ (At(r, "loaded") /\ StateLost(r) /\ UNCHANGED <<on, want>>)
  BY <1>1 DEF Act, Arrive, Proceed, UpdateState, RefreshChanged, CommitUpdate, SendMail,
     Fail, WriteFails, RefreshFails, Die, Goto, Finish
<1>3. CASE ReadForChange(r)
  <2>1. PICK l \in Lead, new \in LeadStates :
          /\ At(r, "idle") /\ on' = [on EXCEPT ![r] = l] /\ want' = [want EXCEPT ![r] = new]
          /\ UNCHANGED db
          /\ \/ Finish(r, "lead_not_found")
             \/ Exists(l) /\ UNCHANGED reply
             \/ Exists(l) /\ Finish(r, assert_transition(leadState[l], new))
    BY <1>3 DEF ReadForChange
  <2>2. on'[r] = l /\ want'[r] = new /\ UNCHANGED leadState
    BY <1>1, <2>1 DEF db
  <2>3. Exists(l) /\ assert_transition(leadState[l], new) \in {"already_in_state", "invalid_transition"}
    BY <1>1, <2>1 DEF Finish
  <2>4. leadState[l] = new \/ rule_for(leadState[l], new) = {}
    BY <2>3 DEF assert_transition
  <2>5. PICK s : new \in NEXT_ACTION(s) /\ Reached(l, s)
    BY <2>1, <2>2
  <2>6. Rank(new) <= Rank(leadState[l])
    <3>1. \/ s = "PENDING" /\ new = "REACHED_OUT"
          \/ s = "REACHED_OUT" /\ new = "QUALIFIED"
      BY <2>5 DEF NEXT_ACTION, Reached, LeadStates
    <3>2. leadState[l] \in LeadStates /\ Rank(s) <= Rank(leadState[l])
      BY <1>1, <2>5 DEF Reached, Exists
    <3>3. [from |-> s, to |-> new, notify_prospect |-> TRUE] \in rule_for(s, new)
      BY <3>1 DEF rule_for, TRANSITIONS
    <3> QED
      BY <2>4, <3>1, <3>2, <3>3 DEF Rank, LeadStates
  <2> QED
    BY <2>2, <2>3, <2>6 DEF Reached, Exists
<1>4. CASE At(r, "loaded") /\ StateLost(r) /\ UNCHANGED <<on, want>>
  <2>1. Reached(on[r], lead[r].state) /\ leadState[on[r]] # lead[r].state /\ UNCHANGED leadState
    BY <1>4 DEF PassedInv, At, StateLost, db
  <2>2. rule_for(lead[r].state, want[r]) # {} /\ want[r] \in LeadStates
    BY <1>1, <1>4 DEF ServiceInv, IInv, RequestInv, ChangeInv, At
  <2>3. leadState[on[r]] \in LeadStates
    BY <1>1, <2>1 DEF Reached, Exists
  <2>4. Rank(want[r]) <= Rank(leadState[on[r]])
    BY <2>1, <2>2, <2>3 DEF Reached, Rank, rule_for, TRANSITIONS, LeadStates
  <2> QED
    BY <1>4, <2>1, <2>2, <2>4 DEF Reached, Exists
<1> QED
  BY <1>2, <1>3, <1>4

\* An answer that settles a click means that the state asked for is reached.
LEMMA AnswerRight ==
  ASSUME ServiceInv, ServiceInv', ClickInv, ClickInv', PassedInv, PressedInv,
         [QueueNext]_queueVars, NEW r \in Clicks \cap Changes, reply'[r] \in Settled
  PROVE  /\ click'[r] = click[r] /\ click[r] # NoClick
         /\ Reached(click[r].lead, click[r].target)'
<1>1. [Next]_vars /\ r \in Request /\ IInv
  BY QueueStep DEF ServiceInv
<1>2. ~At(r, "idle")' /\ Clicked(r)' /\ Told(r)'
  <2>1. Told(r)' /\ Clicked(r)'
    BY <1>1 DEF ServiceInv, ClickInv
  <2> QED
    BY <2>1 DEF Told, At, Settled
<1>3. click'[r] # NoClick /\ on'[r] = click'[r].lead /\ want'[r] = click'[r].target
      /\ click'[r].target \in NEXT_ACTION(click'[r].state)
  BY <1>2 DEF Clicked, At
<1>4. click'[r] = click[r]
  <2>1. UNCHANGED vars => click[r] # NoClick
    BY <1>2 DEF ClickInv, Clicked, At, vars, local
  <2> QED
    BY <2>1, ClickOfStep
<1>5. Reached(click[r].lead, click[r].target)'
  <2>1. CASE reply'[r] = reply[r]
    <3>1. Reached(click[r].lead, click[r].target)
      BY <2>1 DEF PressedInv
    <3> DEFINE l == click[r].lead
               s == click[r].target
    <3>2. leadState'[l] # "absent" /\ Rank(leadState[l]) <= Rank(leadState'[l])
      BY <1>1, <3>1, LeadsAdvance DEF Reached
    <3> QED
      BY <1>4, <3>1, <3>2 DEF Reached, Exists, Rank
  <2>2. CASE reply'[r] # reply[r] /\ reply'[r] = "ok"
    <3>1. on'[r] \in Lead /\ want'[r] \in LeadStates /\ leadState'[on'[r]] # "absent"
          /\ Rank(want'[r]) <= Rank(leadState'[on'[r]])
      BY <2>2 DEF ServiceInv, WinnerInv, Won, Exists
    <3> QED
      BY <1>3, <3>1 DEF Reached, Exists
  <2>3. CASE reply'[r] # reply[r] /\ reply'[r] # "ok"
    <3>1. reply[r] = "none"
      BY <1>1, <2>3, ReplyStays DEF ServiceInv
    <3>2. PICK q \in Request : Act(q)
      BY <1>1, <2>3 DEF Next, Act, vars, local
    <3>3. q = r
      BY <1>1, <2>3, <3>2, ActAlone
    <3>4. Reached(click[r].lead, click[r].state)
      BY <1>3, <1>4 DEF PressedInv
    <3>5. want'[r] \in NEXT_ACTION(click[r].state) /\ Reached(on'[r], click[r].state)
      BY <1>3, <1>4, <3>4
    <3>6. Reached(on[r], want[r])'
      BY <2>3, <3>1, <3>2, <3>3, <3>5, RefusalRight DEF Settled
    <3> QED
      BY <1>3, <3>6 DEF Reached
  <2> QED
    BY <2>1, <2>2, <2>3
<1> QED
  BY <1>3, <1>4, <1>5

LEMMA PressedKeeps ==
  ASSUME ServiceInv, ServiceInv', ClickInv, ClickInv', PassedInv, ShownInv, PressedInv,
         [QueueNext]_queueVars
  PROVE  PressedInv'
<1>1. [Next]_vars /\ IInv
  BY QueueStep DEF ServiceInv
<1>2. ASSUME NEW r \in Clicks, click'[r] # NoClick
      PROVE  /\ click'[r].by \in Tab /\ Reached(click[r].lead, click[r].state)'
             /\ r \in Assigns => click'[r].target = User[click'[r].by]
  <2>1. CASE click'[r] = click[r]
    <3>1. /\ click[r].by \in Tab /\ Reached(click[r].lead, click[r].state)
          /\ r \in Assigns => click[r].target = User[click[r].by]
      BY <1>2, <2>1 DEF PressedInv
    <3>2. leadState'[click[r].lead] # "absent"
          /\ Rank(leadState[click[r].lead]) <= Rank(leadState'[click[r].lead])
      BY <1>1, <3>1, LeadsAdvance DEF Reached
    <3> QED
      BY <2>1, <3>1, <3>2 DEF Reached, Exists, Rank
  <2>2. CASE click'[r] # click[r]
    <3>1. PICK a \in Tab : UNCHANGED vars /\ \E row \in screen[a].items :
            /\ click'[r].by = a /\ click'[r].lead = row.lead /\ click'[r].state = row.state
            /\ r \in Assigns => click'[r].target = User[a]
      BY <2>2, ClickOfStep
    <3>2. PICK row \in screen[a].items :
            /\ click'[r].by = a /\ click'[r].lead = row.lead /\ click'[r].state = row.state
            /\ r \in Assigns => click'[r].target = User[a]
      BY <3>1
    <3>3. Reached(row.lead, row.state) /\ UNCHANGED leadState
      BY <3>1 DEF ShownInv, vars, db
    <3> QED
      BY <3>2, <3>3 DEF Reached, Exists
  <2> QED
    BY <2>1, <2>2
<1>3. ASSUME NEW r \in Clicks PROVE told'[r] \in Results
  BY ToldOfStep DEF PressedInv
<1>4. ASSUME NEW r \in Clicks \cap Changes
      PROVE  /\ reply'[r] # "lead_not_found"
             /\ told'[r] \in {"ok", "already", "refused"} => reply'[r] \in Settled
  <2>1. reply'[r] # "lead_not_found"
    BY ClickedIsFound
  <2>2. ASSUME told'[r] \in {"ok", "already", "refused"} PROVE reply'[r] \in Settled
    <3>1. reply[r] \in Settled
      BY <2>2, ToldOfStep DEF PressedInv
    <3>2. reply'[r] = reply[r]
      BY <1>1, <3>1, ReplyStays DEF ServiceInv, Settled
    <3> QED
      BY <3>1, <3>2
  <2> QED
    BY <2>1, <2>2
<1>5. ASSUME NEW r \in Clicks \cap Changes, reply'[r] \in Settled
      PROVE  Reached(click[r].lead, click[r].target)'
  BY <1>5, AnswerRight
<1> QED
  BY <1>2, <1>3, <1>4, <1>5 DEF PressedInv

\* Once told the outcome, nobody is shown the row as it was again: the page he
\* clicked on is replaced, and the next one comes from the database.
LEMMA GoneKeeps ==
  ASSUME ServiceInv, ServiceInv', ClickInv, ClickInv', PassedInv, ShownInv, ShownInv', PressedInv,
         PressedInv', StaleRowGone, [QueueNext]_queueVars
  PROVE  StaleRowGone'
<1> SUFFICES ASSUME NEW r \in Clicks \cap Changes, told'[r] \in {"ok", "already", "refused"},
                    OnScreen(click[r].by)', NEW row \in screen'[click'[r].by].items,
                    row.lead = click'[r].lead
             PROVE  row.state # click'[r].state
  BY DEF StaleRowGone
<1>1. [Next]_vars /\ IInv /\ reply'[r] \in Settled
  BY QueueStep DEF ServiceInv, PressedInv
<1>2. /\ click'[r] = click[r] /\ click[r] # NoClick
      /\ Reached(click[r].lead, click[r].target)'
  BY <1>1, AnswerRight
<1> DEFINE a == click[r].by
<1>3. a \in Tab /\ screen'[a].step = "shown"
  BY <1>2 DEF PressedInv, OnScreen
<1>4. screen[a] \in Pages
  BY <1>3 DEF ShownInv
<1>5. CASE Selects(a)
  <2>1. UNCHANGED vars /\ screen'[a].items = select(screen[a].filter, screen[a].offset)
    BY <1>4, <1>5 DEF Selects, Pages
  <2>2. row.state = leadState[row.lead]
    BY <1>1, <1>2, <2>1, SelectType DEF ShownInv
  <2>3. Rank(click[r].target) <= Rank(leadState[click[r].lead])
    BY <1>2, <2>1 DEF Reached, vars, db
  <2>4. click[r].target \in NEXT_ACTION(click[r].state)
    BY <1>2 DEF ClickInv, Clicked
  <2> QED
    BY <1>2, <2>2, <2>3, <2>4 DEF NEXT_ACTION, Rank
<1>6. CASE Turns(a)
  <2>1. screen'[a] = screen[a] /\ OnScreen(a)
    BY <1>3, <1>4, <1>6 DEF Turns, Pages, OnScreen
  <2>2. told'[r] = told[r]
    BY <1>3, ToldOfStep
  <2> QED
    BY <1>2, <2>1, <2>2 DEF StaleRowGone
<1>7. CASE Opens(a) \/ Counts(a)
  <2>1. screen'[a].step \in {"open", "counted"}
    BY <1>4, <1>7 DEF Opens, Counts, Pages, NewPage, Blank
  <2> QED
    BY <1>3, <2>1
<1> QED
  BY <1>3, <1>5, <1>6, <1>7, PageOfStep

-----------------------------------------------------------------------------
(***************************************************************************)
(* Walking through the full list                                           *)
(***************************************************************************)

\* Leads are added to the list, none leaves it, and none of its rows moves up.
LEMMA ListGrows ==
  ASSUME IInv, ShownInv, PressedInv, [QueueNext]_queueVars
  PROVE  /\ \A i \in Matching("all") : i \in Matching("all")' /\ stamped'[i] = stamped[i]
         /\ \A i \in Matching("all")', j \in Matching("all") :
              stamped'[i] = stamped[j] => i \in Matching("all")
         /\ \A i \in Matching("all") : /\ Newer("all", i) \in Nat /\ Newer("all", i)' \in Nat
                                        /\ Newer("all", i) <= Newer("all", i)'
<1>1. stamped \in Seq(Lead) /\ stamped' \in Seq(Lead) /\ [Next]_vars
  BY PagesStay, QueueStep DEF ShownInv
<1>2. /\ Matching("all") = {i \in DOMAIN stamped : Exists(stamped[i])}
      /\ Matching("all")' = {i \in DOMAIN stamped' : leadState'[stamped'[i]] # "absent"}
  BY DEF Matching, Matches, Exists
<1>3. UNCHANGED stamped \/ \E c \in Creates : At(c, "chosen") /\ stamped' = Append(stamped, c) /\ UNCHANGED vars
  BY DEF QueueNext, Serve, Flush, Browse, OpenTab, NextPage, PreviousPage, Open, CountLeads,
     SelectPage, PressState, PressAssign, Press, CallFails, Tell, queueVars
<1>4. \A l \in Lead : Exists(l) => leadState'[l] # "absent"
  BY <1>1, LeadsAdvance
<1>5. /\ \A i \in Matching("all") : i \in Matching("all")' /\ stamped'[i] = stamped[i]
      /\ \A i \in Matching("all")', j \in Matching("all") :
           stamped'[i] = stamped[j] => i \in Matching("all")
  <2>1. CASE UNCHANGED stamped
    BY <1>1, <1>2, <1>4, <2>1
  <2>2. ASSUME NEW c \in Creates, At(c, "chosen"), stamped' = Append(stamped, c), UNCHANGED vars
        PROVE  /\ \A i \in Matching("all") : i \in Matching("all")' /\ stamped'[i] = stamped[i]
               /\ \A i \in Matching("all")' : i \in Matching("all")
    <3>1. ~Exists(c) /\ UNCHANGED leadState /\ c \in Lead
      BY <2>2 DEF IInv, RequestInv, CreateInv, At, vars, db
    <3>2. Len(stamped) \in Nat /\ DOMAIN stamped = 1..Len(stamped)
          /\ DOMAIN stamped' = 1..(Len(stamped) + 1) /\ stamped'[Len(stamped) + 1] = c
          /\ \A i \in 1..Len(stamped) : stamped'[i] = stamped[i]
      BY <1>1, <2>2, <3>1
    <3>3. \A i \in DOMAIN stamped' : i \in DOMAIN stamped \/ i = Len(stamped) + 1
      BY <3>2
    <3> QED
      BY <1>2, <3>1, <3>2, <3>3 DEF Exists
  <2> QED
    BY <1>3, <2>1, <2>2
<1>6. ASSUME NEW i \in Matching("all")
      PROVE  Newer("all", i) \in Nat /\ Newer("all", i)' \in Nat /\ Newer("all", i) <= Newer("all", i)'
  <2> DEFINE S == {k \in Matching("all") : k > i}
             T == {k \in Matching("all")' : k > i}
  <2>1. S \subseteq T
    BY <1>5
  <2>2. IsFiniteSet(T)
    <3>1. Matching("all")' \subseteq 1..Len(stamped') /\ IsFiniteSet(1..Len(stamped'))
      <4>1. Len(stamped') \in Nat
        BY <1>1
      <4> QED
        BY <1>1, <1>2, <4>1, FS_Interval
    <3>2. T \subseteq 1..Len(stamped')
      BY <3>1
    <3> QED
      BY <3>1, <3>2, FS_Subset
  <2>3. Cardinality(S) <= Cardinality(T) /\ IsFiniteSet(S)
    BY <2>1, <2>2, FS_Subset
  <2>4. Cardinality(S) \in Nat /\ Cardinality(T) \in Nat
    BY <2>2, <2>3, FS_CardinalityType
  <2> QED
    BY <2>3, <2>4 DEF Newer
<1> QED
  BY <1>5, <1>6

LEMMA WalkKeeps ==
  ASSUME IInv, ShownInv, PressedInv, WalkInv, [QueueNext]_queueVars
  PROVE  WalkInv'
<1> SUFFICES ASSUME NEW a \in Tab
    PROVE  /\ \A l \in walk'[a].present : \E i \in Matching("all")' : stamped'[i] = l
           /\ screen'[a].filter = "all" /\ ~(screen'[a].step = "open" /\ screen'[a].offset = 0) =>
                \A i \in Matching("all")' :
                  stamped'[i] \in walk'[a].present \ walk'[a].seen => Newer("all", i)' >= NextUp(a)'
  BY DEF WalkInv
<1>1. /\ screen[a] \in Pages /\ walk[a] \in [present : SUBSET Lead, seen : SUBSET Lead]
      /\ stamped \in Seq(Lead) /\ screen[a].offset \in Nat
  BY DEF ShownInv, Pages
<1>2. \A l \in walk[a].present : \E i \in Matching("all") : stamped[i] = l
  BY DEF WalkInv
\* A position that is due now was due before, and has not moved up.
<1>3. ASSUME NEW i \in Matching("all")', stamped'[i] \in walk[a].present \ walk[a].seen,
             screen[a].filter = "all", ~(screen[a].step = "open" /\ screen[a].offset = 0)
      PROVE  /\ i \in Matching("all") /\ stamped'[i] = stamped[i]
             /\ Newer("all", i) \in Nat /\ Newer("all", i)' \in Nat
             /\ Newer("all", i) <= Newer("all", i)'
             /\ Newer("all", i) >= NextUp(a)
  <2>1. PICK j \in Matching("all") : stamped[j] = stamped'[i]
    BY <1>2, <1>3
  <2>2. i \in Matching("all") /\ stamped'[i] = stamped[i]
    BY <2>1, ListGrows
  <2>3. Newer("all", i) >= NextUp(a)
    BY <1>3, <2>2 DEF WalkInv
  <2> QED
    BY <2>2, <2>3, ListGrows
<1>4. \A l \in walk'[a].present : \E i \in Matching("all")' : stamped'[i] = l
  <2>1. CASE walk'[a].present = walk[a].present
    BY <1>2, <2>1, ListGrows
  <2>2. CASE walk'[a].present # walk[a].present
    <3>1. Counts(a)
      <4>1. Turns(a) \/ Opens(a) \/ Selects(a) => walk'[a].present = walk[a].present
        BY <1>1 DEF Turns, Opens, Selects
      <4> QED
        BY <2>2, <4>1, PageOfStep
    <3>2. walk'[a].present = {stamped[i] : i \in Matching(screen[a].filter)}
      BY <2>2, <3>1 DEF Counts
    <3>3. \A i \in Matching(screen[a].filter) : i \in Matching("all")
      BY DEF Matching, Matches
    <3> QED
      BY <3>2, <3>3, ListGrows
  <2> QED
    BY <2>1, <2>2
<1>5. ASSUME screen'[a].filter = "all", ~(screen'[a].step = "open" /\ screen'[a].offset = 0),
             NEW i \in Matching("all")', stamped'[i] \in walk'[a].present \ walk'[a].seen
      PROVE  Newer("all", i)' >= NextUp(a)'
  <2>1. CASE Turns(a)
    <3>1. walk'[a] = walk[a] /\ screen'[a].filter = screen[a].filter /\ screen'[a].offset = screen[a].offset
      BY <1>1, <2>1 DEF Turns, Pages
    <3>2. ~(screen[a].step = "open" /\ screen[a].offset = 0)
      BY <1>1, <1>5, <2>1 DEF Turns, Pages
    <3>3. /\ Newer("all", i) \in Nat /\ Newer("all", i)' \in Nat
          /\ Newer("all", i) <= Newer("all", i)' /\ Newer("all", i) >= NextUp(a)
      BY <1>3, <1>5, <3>1, <3>2
    <3>4. NextUp(a) \in Nat /\ NextUp(a)' \in Nat /\ NextUp(a) >= NextUp(a)'
      BY <1>1, <2>1, <3>1 DEF NextUp, OnScreen, Turns, Pages
    <3> QED
      BY <3>3, <3>4
  <2>2. CASE Opens(a)
    <3>1. PICK filter \in Filters, offset \in Nat :
            /\ screen'[a] = NewPage(filter, offset) /\ walk'[a] = walk[a]
            /\ offset > 0 => /\ OnScreen(a) /\ filter = screen[a].filter
                             /\ offset <= screen[a].offset + PAGE_SIZE
      BY <2>2 DEF Opens
    <3>2. screen'[a].step = "open" /\ screen'[a].filter = filter /\ screen'[a].offset = offset
      BY <3>1 DEF NewPage, Blank
    <3>3. OnScreen(a) /\ screen[a].filter = "all" /\ offset <= NextUp(a) /\ NextUp(a) \in Nat
      BY <1>1, <1>5, <3>1, <3>2 DEF NextUp
    <3>4. /\ Newer("all", i) \in Nat /\ Newer("all", i)' \in Nat
          /\ Newer("all", i) <= Newer("all", i)' /\ Newer("all", i) >= NextUp(a)
      BY <1>3, <1>5, <3>1, <3>3 DEF OnScreen
    <3>5. NextUp(a)' = offset
      BY <3>2 DEF NextUp, OnScreen
    <3> QED
      BY <3>3, <3>4, <3>5
  <2>3. CASE Counts(a)
    <3>1. /\ screen'[a].step = "counted" /\ screen'[a].filter = screen[a].filter
          /\ screen'[a].offset = screen[a].offset /\ NextUp(a)' = screen[a].offset
      BY <1>1, <2>3 DEF Counts, Pages, NextUp, OnScreen
    <3>2. CASE screen[a].offset > 0
      <4>1. walk'[a] = walk[a] /\ NextUp(a) = screen[a].offset
        BY <1>1, <2>3, <3>2 DEF Counts, NextUp, OnScreen
      <4>2. /\ Newer("all", i) \in Nat /\ Newer("all", i)' \in Nat
            /\ Newer("all", i) <= Newer("all", i)' /\ Newer("all", i) >= NextUp(a)
        BY <1>1, <1>3, <1>5, <3>1, <3>2, <4>1
      <4> QED
        BY <1>1, <3>1, <4>1, <4>2
    <3>3. CASE ~(screen[a].offset > 0)
      <4>1. i \in Matching("all") /\ screen[a].offset = 0
        BY <1>1, <1>5, <2>3, <3>3 DEF Counts, Matching, Matches, Exists, vars, db
      <4>2. Newer("all", i)' \in Nat
        BY <4>1, ListGrows
      <4> QED
        BY <3>1, <4>1, <4>2
    <3> QED
      BY <3>2, <3>3
  <2>4. CASE Selects(a)
    <3> DEFINE rows == select(screen[a].filter, screen[a].offset)
    <3>1. /\ screen'[a].filter = screen[a].filter /\ screen'[a].offset = screen[a].offset
          /\ screen[a].step = "counted" /\ screen'[a].step = "shown"
      BY <1>1, <2>4 DEF Selects, Pages
    <3>2. NextUp(a) = screen[a].offset /\ NextUp(a)' = screen[a].offset + PAGE_SIZE
      BY <3>1 DEF NextUp, OnScreen
    <3>3. /\ walk'[a].present = walk[a].present
          /\ walk'[a].seen = walk[a].seen \cup {row.lead : row \in rows}
      BY <1>1, <2>4 DEF Selects
    <3>4. /\ i \in Matching("all") /\ stamped'[i] = stamped[i]
          /\ Newer("all", i) \in Nat /\ Newer("all", i)' \in Nat
          /\ Newer("all", i) <= Newer("all", i)' /\ Newer("all", i) >= NextUp(a)
      BY <1>3, <1>5, <3>1, <3>3
    <3>5. i \notin Window("all", screen[a].offset)
      <4>1. SUFFICES ASSUME i \in Window("all", screen[a].offset) PROVE FALSE
        OBVIOUS
      <4>2. RowAt(i) \in rows
        BY <1>5, <3>1, <4>1, SelectIsWindow
      <4>3. RowAt(i).lead = stamped[i]
        BY DEF RowAt
      <4> QED
        BY <1>5, <3>3, <3>4, <4>2, <4>3
    <3>6. ~(Newer("all", i) \in screen[a].offset..(screen[a].offset + PAGE_SIZE - 1))
      BY <3>4, <3>5 DEF Window
    <3> QED
      BY <1>1, <3>2, <3>4, <3>6
  <2> QED
    BY <2>1, <2>2, <2>3, <2>4, PageOfStep
<1> QED
  BY <1>4, <1>5

-----------------------------------------------------------------------------
(***************************************************************************)
(* The theorems                                                            *)
(***************************************************************************)

QueueInv == ServiceInv /\ ClickInv /\ PassedInv /\ ShownInv /\ PressedInv /\ WalkInv /\ StaleRowGone

LEMMA InitQueue == QueueInit => PassedInv /\ ShownInv /\ PressedInv /\ WalkInv /\ StaleRowGone
<1> SUFFICES ASSUME QueueInit PROVE PassedInv /\ ShownInv /\ PressedInv /\ WalkInv /\ StaleRowGone
  OBVIOUS
<1>1. PassedInv
  <2>1. ASSUME NEW l \in Lead, NEW s \in LeadStates, Reached(l, s) PROVE MovedTo(l, s)
    <3>1. leadState[l] = "PENDING" /\ trail[l] = <<Creation(assignedTo[l], None)>>
      BY <2>1 DEF QueueInit, Init, Reached, Exists
    <3>2. s = "PENDING"
      BY <2>1, <3>1 DEF Reached, Rank, LeadStates
    <3>3. 1 \in DOMAIN trail[l] /\ trail[l][1] = Creation(assignedTo[l], None)
      BY <3>1
    <3>4. Moves(trail[l][1]) /\ trail[l][1].to_state = "PENDING"
      BY <3>3 DEF Creation, Moves, LeadStates
    <3> QED
      BY <3>2, <3>3, <3>4 DEF MovedTo
  <2> QED
    BY <2>1 DEF PassedInv, QueueInit, Init
<1>2. /\ screen = [a \in Tab |-> Blank] /\ Blank \in Pages /\ Blank.items = {}
      /\ Blank.step = "blank" /\ stamped \in Seq(Lead)
      /\ walk = [a \in Tab |-> [present |-> {}, seen |-> {}]]
  BY DEF QueueInit, Blank, Pages
<1>3. ShownInv
  <2>1. IsFiniteSet({}) /\ Cardinality({}) <= PAGE_SIZE
    BY FS_EmptySet
  <2>2. walk \in [Tab -> [present : SUBSET Lead, seen : SUBSET Lead]]
    BY <1>2
  <2>3. screen \in [Tab -> Pages] /\ \A a \in Tab : screen[a].items = {}
    BY <1>2
  <2> QED
    BY <1>2, <2>1, <2>2, <2>3 DEF ShownInv
<1>4. click = [r \in Clicks |-> NoClick] /\ told = [r \in Clicks |-> "none"]
      /\ \A r \in Clicks : reply[r] = "none"
  BY DEF QueueInit, Init
<1>5. PressedInv /\ StaleRowGone
  BY <1>4 DEF PressedInv, StaleRowGone, Settled, Results
<1>6. WalkInv
  BY <1>2 DEF WalkInv
<1> QED
  BY <1>1, <1>3, <1>5, <1>6

LEMMA Queueing == QueueSpec => []QueueInv
<1>1. /\ QueueInv /\ ServiceInv' /\ ClickInv' /\ [QueueNext]_queueVars => QueueInv'
  <2> SUFFICES ASSUME QueueInv, ServiceInv', ClickInv', [QueueNext]_queueVars PROVE QueueInv'
    OBVIOUS
  <2>1. IInv /\ MailInv /\ [Next]_vars
    BY QueueStep DEF QueueInv, ServiceInv
  <2>2. PassedInv'
    BY <2>1, PassedKeeps DEF QueueInv
  <2>3. ShownInv' /\ WalkInv'
    BY <2>1, ShownKeeps, WalkKeeps DEF QueueInv
  <2>4. PressedInv'
    BY PressedKeeps DEF QueueInv
  <2>5. StaleRowGone'
    BY <2>3, <2>4, GoneKeeps DEF QueueInv
  <2> QED
    BY <2>2, <2>3, <2>4, <2>5 DEF QueueInv
<1>2. QueueInit /\ ServiceInv /\ ClickInv => QueueInv
  BY InitQueue DEF QueueInv
<1> QED
  BY <1>1, <1>2, Clicking, PTL DEF QueueSpec

\* The pages and the clicks are typed, no page holds more than PAGE_SIZE rows,
\* and a button only ever asks for a state of the pipeline or for the address of
\* whoever pressed it.
THEOREM QueueTypes == QueueSpec => []QueueTypeOK
<1>1. QueueInv => QueueTypeOK
  <2> SUFFICES ASSUME QueueInv PROVE QueueTypeOK
    OBVIOUS
  <2>1. ASSUME NEW r \in Clicks, click[r] # NoClick
        PROVE  /\ click[r].by \in Tab /\ click[r].lead \in Lead
               /\ click[r].target \in LeadStates \cup {User[click[r].by]}
    <3>1. /\ click[r].by \in Tab /\ click[r].lead \in Lead
          /\ r \in Assigns => click[r].target = User[click[r].by]
      BY <2>1 DEF QueueInv, PressedInv, Reached
    <3>2. r \in Changes => click[r].target \in NEXT_ACTION(click[r].state)
      BY <2>1 DEF QueueInv, ClickInv, Clicked
    <3>3. r \in Changes => click[r].target \in LeadStates
      BY <3>2 DEF NEXT_ACTION, LeadStates
    <3> QED
      BY <3>1, <3>3
  <2> QED
    BY <2>1 DEF QueueInv, QueueTypeOK, ShownInv, PressedInv, Pages
<1> QED
  BY <1>1, Queueing, PTL

\* For any number of attorneys, pages, rows on a page and racing submissions:
\* an attorney who has followed Next to the end was shown every lead that was
\* there when he began, provided nothing came in between the two reads of the
\* last page.
THEOREM WalkIsComplete == QueueSpec => []WalkMissesNothing
<1>1. QueueInv => WalkMissesNothing
  <2> SUFFICES ASSUME QueueInv, NEW a \in Tab, WalkedAll(a), count("all") = screen[a].total,
                      NEW l \in walk[a].present, l \notin walk[a].seen
               PROVE  FALSE
    BY DEF WalkMissesNothing
  <2>1. PICK i \in Matching("all") : stamped[i] = l
    BY DEF QueueInv, WalkInv
  <2>2. Newer("all", i) >= screen[a].offset + PAGE_SIZE
    BY <2>1 DEF QueueInv, WalkInv, WalkedAll, OnScreen, NextUp
  <2>3. Newer("all", i) < count("all") /\ Newer("all", i) \in Nat /\ count("all") \in Nat
    BY NewerCounted, NewerType DEF QueueInv, ShownInv
  <2>4. screen[a].offset + Cardinality(screen[a].items) >= count("all")
    BY DEF WalkedAll, LastRow
  <2>5. /\ Cardinality(screen[a].items) <= PAGE_SIZE /\ Cardinality(screen[a].items) \in Nat
        /\ screen[a].offset \in Nat
    BY FS_CardinalityType DEF QueueInv, ShownInv, Pages
  <2> QED
    BY <2>2, <2>3, <2>4, <2>5
<1> QED
  BY <1>1, Queueing, PTL

\* A click from however old a page is refused only because the move it asks
\* for has been made.
THEOREM RefusedRightly == QueueSpec => []RefusedBecauseDone
<1>1. QueueInv => RefusedBecauseDone
  BY DEF QueueInv, RefusedBecauseDone, PressedInv, PassedInv, Reached, Settled
<1> QED
  BY <1>1, Queueing, PTL

\* An attorney who was told the API's answer to his click is never shown the row
\* in the state he clicked it in again in that tab, on this page or on any he
\* opens later.
THEOREM StaleRowGoes == QueueSpec => []StaleRowGone
<1>1. QueueInv => StaleRowGone
  BY DEF QueueInv
<1> QED
  BY <1>1, Queueing, PTL
=============================================================================
