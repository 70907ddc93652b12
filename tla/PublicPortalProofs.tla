------------------------- MODULE PublicPortalProofs --------------------------
(***************************************************************************)
(* Proofs about the public portal: it only drives LeadService, so what is  *)
(* proved of the service holds under it, and what applicants and readers   *)
(* are shown can be justified from the rows, the files and the trail.      *)
(***************************************************************************)
EXTENDS PublicPortalProperties, LeadTrailProofs

USE RequestsAssumption, NoneAssumption

-----------------------------------------------------------------------------
(***************************************************************************)
(* The portal implements the service                                       *)
(***************************************************************************)

\* A step of the portal is one of the service, or does not touch it.
LEMMA PortalStep == [PortalNext]_portalVars => [Next]_vars
<1> SUFFICES ASSUME [PortalNext]_portalVars PROVE [Next]_vars
  OBVIOUS
<1>1. CASE \E p \in Applicant : Submit(p)
  BY <1>1 DEF Submit, Keep
<1>2. CASE \E c \in Creates : Receive(c)
  <2>1. PICK c \in Creates : Receive(c)
    BY <1>2
  <2>2. Arrive(c) /\ c \in Request
    BY <2>1 DEF Receive, Judged, RateLimited, Arrive
  <2> QED
    BY <2>2 DEF Next
<1>3. CASE \E c \in Creates : Settle(c) \/ ConnectionLost(c)
  BY <1>3 DEF Settle, ConnectionLost
<1>4. CASE \E r \in Request : Handle(r)
  BY <1>4 DEF Handle, Next
<1>5. CASE \E q \in Readers : Read(q)
  BY <1>5 DEF Read, FindLead, ListEvents, OpenResume
<1>6. CASE UNCHANGED portalVars
  BY <1>6 DEF portalVars
<1> QED
  BY <1>1, <1>2, <1>3, <1>4, <1>5, <1>6 DEF PortalNext

\* The public portal implements LeadService: every theorem about the service
\* holds while applicants submit, retry and are cut off.
THEOREM PortalServes == PortalSpec => Spec
<1>1. PortalInit => Init
  BY DEF PortalInit
<1> QED
  BY <1>1, PortalStep, PTL DEF PortalSpec, Spec

-----------------------------------------------------------------------------
(***************************************************************************)
(* Submissions that stored nothing                                         *)
(***************************************************************************)

\* A submission that was turned away, or whose file was not stored whole, ended
\* there and has no row; one that is not there yet has no answer.
Barren(c) ==
  /\ At(c, "idle") => reply[c] = "none" /\ files[c] = "none"
  /\ files[c] = "partial" => At(c, "done") /\ ~Exists(c)
  /\ reply[c] \in {"discarded", "rejected", "storage_unavailable"} => At(c, "done") /\ ~Exists(c)
  /\ reply[c] = "discarded" => files[c] = "none"

BarrenInv == \A c \in Creates : Barren(c)

LEMMA BarrenStep ==
  ASSUME IInv, NEW c \in Creates, Barren(c), Act(c)
  PROVE  Barren(c)'
<1>1. c \in Request /\ c \notin Changes /\ c \notin Assigns /\ c \in Lead
  OBVIOUS
<1>2. pc[c] \in {"idle", "saved", "chosen"} => ~Exists(c)
  BY DEF IInv, RequestInv, CreateInv
<1>3. /\ pc \in [Request -> Labels] /\ leadState \in [Lead -> LeadStates \cup {"absent"}]
      /\ reply \in [Request -> Answers] /\ files \in [Creates -> {"none", "partial", "whole"}]
  BY DEF IInv, TypeOK, HandlersTypeOK, OutsideTypeOK, RowsTypeOK
<1> USE <1>1, <1>2, <1>3 DEF Barren, At, Goto, Finish, Exists
<1>4. CASE TurnAway(c) \/ SaveFails(c) \/ SaveResume(c)
  BY <1>4 DEF TurnAway, SaveFails, SaveResume, db
<1>5. CASE choose_assignee(c) \/ ChooseFails(c)
  BY <1>5 DEF choose_assignee, ChooseFails, db
<1>6. CASE InsertLead(c) \/ InsertFails(c)
  BY <1>6 DEF InsertLead, InsertFails, InsertRow, db
<1>7. CASE CompensatingDelete(c) \/ RefreshCreated(c) \/ RefreshFails(c)
  BY <1>7 DEF CompensatingDelete, RefreshCreated, RefreshFails, db
<1>8. CASE Die(c)
  BY <1>8 DEF Die, Rollback
<1>9. CASE SendMail(c)
  <2>1. /\ pc[c] \in {"mailing", "notifying"} /\ pc'[c] \in {"notifying", "done"}
        /\ UNCHANGED <<files, leadState, reply>>
    BY <1>9 DEF SendMail, db
  <2> QED
    BY <2>1
<1> QED
  BY <1>4, <1>5, <1>6, <1>7, <1>8, <1>9 DEF Act, Arrive, Proceed, Fail

LEMMA BarrenKeeps == IInv /\ BarrenInv /\ [Next]_vars => BarrenInv'
<1> SUFFICES ASSUME IInv, BarrenInv, [Next]_vars, NEW c \in Creates PROVE Barren(c)'
  BY DEF BarrenInv
<1>1. CASE UNCHANGED vars
  BY <1>1 DEF BarrenInv, Barren, At, Exists, vars, db, local
<1>2. CASE Next
  <2>1. PICK r \in Request : Act(r)
    BY <1>2 DEF Next, Act
  <2>2. CASE r = c
    BY <2>1, <2>2, BarrenStep DEF BarrenInv
  <2>3. CASE r # c
    <3>1. c \in Request /\ pc'[c] = pc[c] /\ reply'[c] = reply[c] /\ files'[c] = files[c]
      BY <2>1, <2>3, ActAlone
    <3>2. leadState'[c] # "absent" <=> Exists(c)
      BY <2>1, <2>3, OthersInsertNothing
    <3> QED
      BY <3>1, <3>2 DEF BarrenInv, Barren, At, Exists
  <2> QED
    BY <2>2, <2>3
<1> QED
  BY <1>1, <1>2

\* What the service guarantees and the portal's properties rest on.
ServiceInv == IInv /\ FileInv /\ BarrenInv /\ MailInv

LEMMA Serving == Spec => []ServiceInv
<1> DEFINE Replied == \A r \in Request : Told(r)
<1>1. Init => FileInv /\ BarrenInv /\ MailInv /\ MailIsTruthful /\ Replied
  <2>1. Init => FileInv
    BY DEF Init, FileInv
  <2>2. Init => BarrenInv
    BY DEF Init, BarrenInv, Barren, At
  <2>3. Init => MailInv /\ MailIsTruthful
    BY DEF Init, MailInv, MailIsTruthful, MovedTo, Moves, Creation, Exists, At, LeadStates
  <2>4. Init => Replied
    BY DEF Init, Told, EntriesBy, Creation, At, Refusals
  <2> QED
    BY <2>1, <2>2, <2>3, <2>4
<1>2. IInv /\ FileInv /\ [Next]_vars => FileInv'
  BY FileKeeps
<1>3. IInv /\ BarrenInv /\ [Next]_vars => BarrenInv'
  BY BarrenKeeps
<1>4. IInv /\ Replied /\ [Next]_vars => Replied'
  BY ToldKeeps
<1>5. IInv /\ Replied /\ MailInv /\ MailIsTruthful /\ [Next]_vars => MailInv' /\ MailIsTruthful'
  BY MailKeeps
<1> HIDE DEF Replied
<1> QED
  BY <1>1, <1>2, <1>3, <1>4, <1>5, Invariance, PTL DEF Spec, ServiceInv

-----------------------------------------------------------------------------
(***************************************************************************)
(* Attempts                                                                *)
(***************************************************************************)

Shown == Notices \cup {"silence", "turned away", "address refused", "cut off"}

Attempts == [by : Applicant \cup {None}, verdict : Verdict, shown : Shown]

\* What is shown of an attempt was answered, by a request with its verdict.
AttemptInv(c) ==
  /\ ~Sent(c) => At(c, "idle")
  /\ reply[c] = "discarded" => attempt[c].verdict.code = "discarded"
  /\ ~At(c, "idle") /\ reply[c] # "discarded" => attempt[c].verdict.code # "discarded"
  /\ attempt[c].shown = "thanked" => reply[c] \in {"ok", "discarded"}
  /\ attempt[c].shown = "nothing was saved" => reply[c] = "storage_unavailable"

FormInv == attempt \in [Creates -> Attempts] /\ \A c \in Creates : AttemptInv(c)

LEMMA SaysType ==
  \A code \in {"accepted", "discarded", "validation_error", "unsupported_media_type",
               "resume_too_large", "rate_limited"} : says(code) \in Verdict
  BY DEF says, Verdict

LEMMA JudgeVerdict == ASSUME NEW e \in Entry PROVE judge(e) \in Verdict
<1>1. validate_upload(e.resume) \in Verdict
  BY SaysType DEF validate_upload
<1>2. [code |-> "validation_error", field |-> "email"] \in Verdict
  BY DEF Verdict
<1> QED
  BY <1>1, <1>2, SaysType DEF judge

LEMMA JudgeType == RelayedVerdicts \cup TurnedAwayVerdicts \cup AddressVerdicts \subseteq Verdict
  BY JudgeVerdict DEF RelayedVerdicts, TurnedAwayVerdicts, AddressVerdicts

\* An answer that settles an attempt is final.
LEMMA AnswerStays ==
  ASSUME IInv, FileInv, BarrenInv, [Next]_vars, NEW c \in Creates,
         reply[c] \in {"ok", "discarded", "storage_unavailable"}
  PROVE  reply'[c] = reply[c] /\ ~At(c, "idle")
<1>1. pc[c] \in {"mailing", "notifying", "done", "dead"} /\ c \in Request
  BY DEF FileInv, BarrenInv, Barren, At
<1>2. ~At(c, "idle")
  BY <1>1 DEF At
<1>3. CASE UNCHANGED vars
  BY <1>2, <1>3 DEF vars, local
<1>4. CASE Next
  <2>1. PICK r \in Request : Act(r)
    BY <1>4 DEF Next, Act
  <2>2. CASE r # c
    BY <1>1, <1>2, <2>1, <2>2, ActAlone
  <2>3. CASE r = c
    <3>1. c \notin Changes /\ c \notin Assigns
      OBVIOUS
    <3>2. SendMail(c) \/ Die(c)
      BY <1>1, <2>1, <2>3, <3>1 DEF Act, Arrive, Proceed, Fail, TurnAway, SaveResume, SaveFails,
           choose_assignee, InsertLead, CompensatingDelete, RefreshCreated, ChooseFails,
           InsertFails, RefreshFails, At
    <3>3. UNCHANGED reply
      BY <3>2 DEF SendMail, Die
    <3> QED
      BY <1>2, <3>3
  <2> QED
    BY <2>2, <2>3
<1> QED
  BY <1>3, <1>4

LEMMA RejectionStays ==
  ASSUME IInv, BarrenInv, [Next]_vars, NEW c \in Creates, reply[c] = "rejected"
  PROVE  reply'[c] = "rejected"
<1>1. pc[c] = "done" /\ c \in Request /\ c \notin Changes /\ c \notin Assigns
  BY DEF BarrenInv, Barren, At
<1>2. CASE UNCHANGED vars
  BY <1>2 DEF vars, local
<1>3. CASE Next
  <2>1. PICK r \in Request : Act(r)
    BY <1>3 DEF Next, Act
  <2>2. CASE r # c
    BY <1>1, <2>1, <2>2, ActAlone
  <2>3. CASE r = c
    BY <1>1, <2>1, <2>3 DEF Act, Arrive, Proceed, Fail, TurnAway, SaveResume, SaveFails,
       choose_assignee, InsertLead, CompensatingDelete, RefreshCreated, SendMail, ChooseFails,
       InsertFails, RefreshFails, Die, At
  <2> QED
    BY <2>2, <2>3
<1> QED
  BY <1>2, <1>3

\* A step that leaves the attempts alone keeps what was shown of them true.
LEMMA AttemptKept ==
  ASSUME IInv, FileInv, BarrenInv, [Next]_vars, NEW c \in Creates, AttemptInv(c),
         attempt'[c] = attempt[c],
         pc[c] = "idle" => pc'[c] = "idle" /\ reply'[c] = reply[c]
  PROVE  AttemptInv(c)'
<1>1. reply[c] \in {"ok", "discarded", "storage_unavailable"} => reply'[c] = reply[c]
  BY AnswerStays
<1>2. pc[c] # "idle" => pc'[c] # "idle" /\ (reply'[c] = "discarded" => reply[c] = "discarded")
  <2>1. CASE UNCHANGED vars
    BY <2>1 DEF vars, local
  <2>2. CASE Next
    <3>1. PICK r \in Request : Act(r)
      BY <2>2 DEF Next, Act
    <3>2. CASE r # c
      <4>1. c \in Request
        OBVIOUS
      <4> QED
        BY <3>1, <3>2, <4>1, ActAlone
    <3>3. CASE r = c /\ pc[c] # "idle"
      <4>1. c \notin Changes /\ c \notin Assigns /\ c \in Request
        OBVIOUS
      <4>2. pc \in [Request -> Labels] /\ reply \in [Request -> Answers]
        BY DEF IInv, TypeOK, HandlersTypeOK
      <4>3. CASE c \in Creates /\ (choose_assignee(c) \/ InsertLead(c) \/ CompensatingDelete(c)
                                   \/ RefreshCreated(c))
        BY <4>2, <4>3 DEF choose_assignee, InsertLead, CompensatingDelete, RefreshCreated, Goto, Finish
      <4>4. CASE SendMail(c)
        BY <4>2, <4>4 DEF SendMail, Goto
      <4>5. CASE ChooseFails(c) \/ InsertFails(c) \/ RefreshFails(c) \/ Die(c)
        BY <4>2, <4>5 DEF ChooseFails, InsertFails, RefreshFails, Die, Goto, Finish
      <4>6. ~Arrive(c)
        BY <3>3, <4>1 DEF Arrive, TurnAway, SaveResume, SaveFails, At
      <4> QED
        BY <3>1, <3>3, <4>1, <4>3, <4>4, <4>5, <4>6 DEF Act, Proceed, Fail
    <3> QED
      BY <3>1, <3>2, <3>3
  <2> QED
    BY <2>1, <2>2
<1> QED
  BY <1>1, <1>2 DEF AttemptInv, Sent, At, BarrenInv, Barren

LEMMA FormKeeps == IInv /\ FileInv /\ BarrenInv /\ FormInv /\ [PortalNext]_portalVars => FormInv'
<1> SUFFICES ASSUME IInv, FileInv, BarrenInv, FormInv, [PortalNext]_portalVars PROVE FormInv'
  OBVIOUS
<1>1. [Next]_vars
  BY PortalStep
<1>2. /\ attempt \in [Creates -> Attempts] /\ \A c \in Creates : AttemptInv(c)
      /\ pc \in [Request -> Labels] /\ reply \in [Request -> Answers]
  BY DEF FormInv, IInv, TypeOK, HandlersTypeOK
<1>3. CASE \E p \in Applicant : Submit(p)
  <2>1. PICK p \in Applicant, c \in Creates, verdict \in Verdict,
             shown \in {"none", "turned away", "address refused", "cut off"} :
          ~Sent(c) /\ Keep(p, c, verdict, shown)
    BY <1>3, JudgeType, SaysType DEF Submit
  <2>2. UNCHANGED vars /\ attempt' = [attempt EXCEPT ![c] = [by |-> p, verdict |-> verdict, shown |-> shown]]
    BY <2>1 DEF Keep
  <2>3. [by |-> p, verdict |-> verdict, shown |-> shown] \in Attempts
    BY DEF Attempts, Shown, Notices
  <2>4. attempt' \in [Creates -> Attempts]
    BY <1>2, <2>2, <2>3
  <2>5. AttemptInv(c)'
    <3>1. pc'[c] = "idle" /\ reply'[c] = "none"
      BY <1>2, <2>1, <2>2 DEF AttemptInv, At, BarrenInv, Barren, vars, local
    <3>2. attempt'[c].shown \in {"none", "turned away", "address refused", "cut off"}
      BY <1>2, <2>2
    <3> QED
      BY <3>1, <3>2 DEF AttemptInv, At
  <2>6. \A d \in Creates \ {c} : AttemptInv(d)'
    BY <1>1, <1>2, <2>2, AttemptKept DEF vars, local
  <2> QED
    BY <2>4, <2>5, <2>6 DEF FormInv
<1>4. CASE \E c \in Creates : Receive(c)
  <2>1. PICK c \in Creates : Receive(c)
    BY <1>4
  <2>2. c \in Request /\ pc[c] = "idle" /\ reply[c] = "none" /\ Act(c) /\ pc'[c] # "idle"
    BY <1>2, <2>1 DEF Receive, Judged, RateLimited, TurnAway, SaveResume, SaveFails, Act, Arrive,
                      At, Goto, Finish, BarrenInv, Barren
  <2>9. attempt[c] \in Attempts /\ says("rate_limited") \in Verdict
    BY <1>2, SaysType
  <2> DEFINE limited == [attempt[c] EXCEPT !.verdict = says("rate_limited")]
  <2>10. limited \in Attempts /\ limited.by = attempt[c].by /\ limited.shown = attempt[c].shown
    BY <2>9 DEF Attempts
  <2>11. UNCHANGED attempt \/ attempt' = [attempt EXCEPT ![c] = limited]
    BY <2>1 DEF Receive, RateLimited
  <2> HIDE DEF limited
  <2>3. attempt' \in [Creates -> Attempts] /\ \A d \in Creates \ {c} : attempt'[d] = attempt[d]
    BY <1>2, <2>10, <2>11
  <2>12. attempt'[c].by = attempt[c].by /\ attempt'[c].shown = attempt[c].shown
    BY <1>2, <2>10, <2>11
  <2>4. Sent(c)'
    BY <2>1, <2>12 DEF Receive, Sent
  <2>5. attempt'[c].shown = attempt[c].shown /\ attempt[c].shown \notin {"thanked", "nothing was saved"}
    BY <1>2, <2>2, <2>12 DEF AttemptInv
  <2>6. /\ reply'[c] = "discarded" => attempt'[c].verdict.code = "discarded"
        /\ reply'[c] # "discarded" => attempt'[c].verdict.code # "discarded"
    <3>1. CASE Judged(c) /\ UNCHANGED attempt
      BY <1>2, <2>2, <3>1 DEF Judged, SaveResume, SaveFails, Finish
    <3>2. CASE RateLimited(c)
      BY <1>2, <3>2 DEF RateLimited, says, Attempts
    <3> QED
      BY <2>1, <3>1, <3>2 DEF Receive
  <2>7. AttemptInv(c)'
    BY <2>2, <2>4, <2>5, <2>6 DEF AttemptInv, At
  <2>8. ASSUME NEW d \in Creates \ {c} PROVE AttemptInv(d)'
    <3>1. d \in Request /\ pc'[d] = pc[d] /\ reply'[d] = reply[d]
      BY <2>2, ActAlone
    <3> QED
      BY <1>1, <1>2, <2>3, <3>1, AttemptKept
  <2> QED
    BY <2>3, <2>7, <2>8 DEF FormInv
<1>5. CASE \E c \in Creates : Settle(c) \/ ConnectionLost(c)
  <2>1. PICK c \in Creates : Settle(c) \/ ConnectionLost(c)
    BY <1>5
  <2>2. UNCHANGED vars /\ Sent(c)
    BY <2>1 DEF Settle, ConnectionLost, Waiting
  <2> DEFINE message == IF Settle(c) THEN IF requestJson(reply[c]) THEN "thanked"
                                          ELSE toState(attempt[c].verdict, reply[c])
                        ELSE "silence"
  <2>3. message \in Shown
    BY DEF Shown, Notices, toState
  <2>4. attempt' = [attempt EXCEPT ![c].shown = message]
    BY <2>1 DEF Settle, ConnectionLost
  <2>5. message = "thanked" => reply[c] \in {"ok", "discarded"}
    BY DEF requestJson, toState
  <2>6. message = "nothing was saved" => reply[c] = "storage_unavailable"
    BY DEF requestJson, toState
  <2> HIDE DEF message
  <2>7. attempt' \in [Creates -> Attempts]
    BY <1>2, <2>3, <2>4 DEF Attempts
  <2>8. AttemptInv(c)'
    <3>1. /\ attempt'[c].by = attempt[c].by /\ attempt'[c].verdict = attempt[c].verdict
          /\ attempt'[c].shown = message
      BY <1>2, <2>4 DEF Attempts
    <3> QED
      BY <1>2, <2>2, <2>5, <2>6, <3>1 DEF AttemptInv, Sent, At, vars, local
  <2>9. \A d \in Creates \ {c} : AttemptInv(d)'
    BY <1>1, <1>2, <2>2, <2>4, AttemptKept DEF vars, local
  <2> QED
    BY <2>7, <2>8, <2>9 DEF FormInv
<1>6. CASE \E r \in Request : Handle(r)
  <2>1. PICK r \in Request : Handle(r)
    BY <1>6
  <2>2. UNCHANGED attempt /\ Act(r)
    BY <2>1 DEF Handle, Act
  <2>3. ASSUME NEW c \in Creates, pc[c] = "idle" PROVE pc'[c] = "idle" /\ reply'[c] = reply[c]
    <3>1. CASE r # c
      <4>1. c \in Request
        OBVIOUS
      <4> QED
        BY <2>2, <2>3, <3>1, <4>1, ActAlone
    <3>2. CASE r = c
      <4>1. c \notin Changes /\ c \notin Assigns
        OBVIOUS
      <4> QED
        BY <2>1, <2>3, <3>2, <4>1 DEF Handle, Proceed, Fail, choose_assignee, InsertLead,
             CompensatingDelete, RefreshCreated, SendMail, ChooseFails, InsertFails, RefreshFails, Die, At
    <3> QED
      BY <3>1, <3>2
  <2> QED
    BY <1>1, <1>2, <2>2, <2>3, AttemptKept DEF FormInv
<1>7. CASE (\E q \in Readers : Read(q) /\ UNCHANGED <<attempt, order, notice>>) \/ UNCHANGED portalVars
  <2>1. UNCHANGED <<vars, attempt>>
    BY <1>7 DEF Read, FindLead, ListEvents, OpenResume, portalVars
  <2> QED
    BY <1>1, <1>2, <2>1, AttemptKept DEF FormInv, vars, local
<1> QED
  BY <1>3, <1>4, <1>5, <1>6, <1>7 DEF PortalNext

LEMMA InitForm == PortalInit => FormInv
<1> SUFFICES ASSUME PortalInit PROVE FormInv
  OBVIOUS
<1>1. Unsent \in Attempts
  BY SaysType DEF Unsent, Attempts, Shown, Notices
<1> QED
  BY <1>1 DEF PortalInit, Init, FormInv, AttemptInv, Sent, Unsent, At

LEMMA Attempting == PortalSpec => [](ServiceInv /\ FormInv)
<1>1. ServiceInv => IInv /\ FileInv /\ BarrenInv
  BY DEF ServiceInv
<1> QED
  BY <1>1, InitForm, FormKeeps, PortalServes, Serving, PTL DEF PortalSpec

\* FR1, A1: whoever is thanked has a lead with a whole resume for good, or
\* filled in the hidden field and left nothing behind, whatever fails.
THEOREM Thanked == PortalSpec => []ThankedIsStored
<1>1. ServiceInv /\ FormInv => ThankedIsStored
  <2> SUFFICES ASSUME ServiceInv, FormInv, NEW c \in Creates, attempt[c].shown = "thanked"
      PROVE  IF attempt[c].verdict.code = "discarded" THEN ~Exists(c) /\ files[c] = "none"
             ELSE Exists(c) /\ files[c] = "whole"
    BY DEF ThankedIsStored
  <2>1. CASE reply[c] = "discarded"
    BY <2>1 DEF ServiceInv, BarrenInv, Barren, FormInv, AttemptInv
  <2>2. CASE reply[c] = "ok"
    BY <2>2 DEF ServiceInv, FileInv, FormInv, AttemptInv, At
  <2> QED
    BY <2>1, <2>2 DEF FormInv, AttemptInv
<1> QED
  BY <1>1, Attempting, PTL

\* An attempt whose form says that nothing was saved has no lead and no trail,
\* then and ever after.
THEOREM Unsaved == PortalSpec => []NothingWasSaved
<1>1. ServiceInv /\ FormInv => NothingWasSaved
  <2> SUFFICES ASSUME ServiceInv, FormInv, NEW c \in Creates, attempt[c].shown = "nothing was saved"
      PROVE  ~Exists(c) /\ trail[c] = << >>
    BY DEF NothingWasSaved
  <2>1. ~Exists(c)
    BY DEF ServiceInv, BarrenInv, Barren, FormInv, AttemptInv
  <2> QED
    BY <2>1 DEF ServiceInv, IInv, RowInv
<1> QED
  BY <1>1, Attempting, PTL

-----------------------------------------------------------------------------
(***************************************************************************)
(* Applicants who try again                                                *)
(***************************************************************************)

Ended == {"none", "thanked"}

\* A message that stays on the form until another one takes its place.
Standing == Notices \ {"none"}

\* The attempt at position i of p's history is his, only the last one can be
\* running, its message is the one on the form, and whoever was thanked is on the
\* last page.
Kept(p, i) ==
  LET c == order[p][i] IN
  /\ attempt[c].by = p
  /\ i < Len(order[p]) => attempt[c].shown \notin Ended
  /\ attempt[c].shown = "thanked" => notice[p] = "thanked"
  /\ i = Len(order[p]) /\ attempt[c].shown \in Standing => notice[p] = attempt[c].shown

\* An attempt that was never sent has no request, and a message about a field
\* is a refusal.
Accounted(c) ==
  /\ attempt[c].shown \in {"turned away", "address refused", "cut off"} => At(c, "idle")
  /\ attempt[c].shown \in {"resume field", "email field", "form"} => reply[c] = "rejected"
  /\ Sent(c) => \E i \in DOMAIN order[attempt[c].by] : order[attempt[c].by][i] = c

OrderInv ==
  /\ order \in [Applicant -> Seq(Creates)] /\ notice \in [Applicant -> Notices]
  /\ \A p \in Applicant : \A i \in DOMAIN order[p] : Kept(p, i)
  /\ \A c \in Creates : Accounted(c)
  /\ \A p \in Applicant : notice[p] # "none" => DOMAIN order[p] # {}

LEMMA Positions ==
  ASSUME OrderInv, NEW p \in Applicant
  PROVE  /\ order[p] \in Seq(Creates) /\ Len(order[p]) \in Nat /\ DOMAIN order[p] = 1..Len(order[p])
         /\ \A i \in DOMAIN order[p] : order[p][i] \in Creates /\ Kept(p, i)
<1>1. order[p] \in Seq(Creates)
  BY DEF OrderInv
<1> QED
  BY <1>1 DEF OrderInv

LEMMA Appended ==
  ASSUME NEW s \in Seq(Creates), NEW c \in Creates
  PROVE  /\ Append(s, c) \in Seq(Creates)
         /\ Len(Append(s, c)) = Len(s) + 1 /\ DOMAIN Append(s, c) = 1..(Len(s) + 1)
         /\ Append(s, c)[Len(s) + 1] = c
         /\ \A i \in 1..Len(s) : Append(s, c)[i] = s[i]
  OBVIOUS

LEMMA OneMore ==
  ASSUME NEW n \in Nat
  PROVE  /\ n + 1 \in 1..(n + 1) /\ ~(n + 1 < n + 1)
         /\ \A i \in 1..(n + 1) : i # n + 1 => i \in 1..n
         /\ \A i \in 1..n : i \in 1..(n + 1)
  OBVIOUS

\* A step that leaves the attempts, the histories and the notices alone.
LEMMA OrderStays ==
  ASSUME ServiceInv, FormInv, OrderInv, [Next]_vars, UNCHANGED order, UNCHANGED notice,
         \A c \in Creates : attempt'[c].by = attempt[c].by /\ attempt'[c].shown = attempt[c].shown,
         \A c \in Creates : attempt[c].shown \in {"turned away", "address refused", "cut off"} => pc'[c] = pc[c]
  PROVE  OrderInv'
<1>1. \A p \in Applicant : \A i \in DOMAIN order[p] : Kept(p, i)'
  <2> SUFFICES ASSUME NEW p \in Applicant, NEW i \in DOMAIN order[p] PROVE Kept(p, i)'
    OBVIOUS
  <2>1. order[p][i] \in Creates /\ Kept(p, i)
    BY Positions
  <2> QED
    BY <2>1 DEF Kept
<1>2. ASSUME NEW c \in Creates PROVE Accounted(c)'
  <2>1. Accounted(c)
    BY DEF OrderInv
  <2>2. reply[c] = "rejected" => reply'[c] = "rejected"
    BY RejectionStays DEF ServiceInv
  <2> QED
    BY <2>1, <2>2 DEF Accounted, At, Sent
<1> QED
  BY <1>1, <1>2 DEF OrderInv

LEMMA OrderKeeps == ServiceInv /\ FormInv /\ OrderInv /\ [PortalNext]_portalVars => OrderInv'
<1> SUFFICES ASSUME ServiceInv, FormInv, OrderInv, [PortalNext]_portalVars PROVE OrderInv'
  OBVIOUS
<1>1. [Next]_vars /\ attempt \in [Creates -> Attempts]
  BY PortalStep DEF FormInv
<1>2. order \in [Applicant -> Seq(Creates)] /\ notice \in [Applicant -> Notices]
  BY DEF OrderInv
<1>3. CASE \E p \in Applicant : Submit(p)
  <2> DEFINE Starts(p, c, shown) == \E verdict : Keep(p, c, verdict, shown)
  <2>0. PICK p \in Applicant, c \in Creates,
             shown \in {"none", "turned away", "address refused", "cut off"} :
          /\ ~Sent(c) /\ Starts(p, c, shown)
          /\ notice[p] # "thanked" /\ ~\E d \in Creates : Waiting(d) /\ attempt[d].by = p
    <3>1. PICK p \in Applicant, c \in Creates :
            /\ ~Sent(c) /\ notice[p] # "thanked" /\ ~\E d \in Creates : Waiting(d) /\ attempt[d].by = p
            /\ \/ Starts(p, c, "none") \/ Starts(p, c, "turned away") \/ Starts(p, c, "address refused")
               \/ Starts(p, c, "cut off")
      BY <1>3 DEF Submit
    <3> HIDE DEF Starts
    <3> QED
      BY <3>1
  <2>1. PICK verdict :
          /\ ~Sent(c) /\ Keep(p, c, verdict, shown)
          /\ notice[p] # "thanked" /\ ~\E d \in Creates : Waiting(d) /\ attempt[d].by = p
    BY <2>0
  <2>2. /\ UNCHANGED <<vars, notice>>
        /\ attempt' = [attempt EXCEPT ![c] = [by |-> p, verdict |-> verdict, shown |-> shown]]
        /\ order' = [order EXCEPT ![p] = Append(@, c)]
    BY <2>1 DEF Keep
  <2>3. /\ attempt'[c].by = p /\ attempt'[c].shown = shown
        /\ \A d \in Creates \ {c} : attempt'[d] = attempt[d]
    BY <1>1, <2>2
  <2>4. order[p] \in Seq(Creates) /\ order'[p] = Append(order[p], c)
        /\ \A q \in Applicant \ {p} : order'[q] = order[q]
    BY <1>2, <2>2
  <2>5. /\ Len(order'[p]) = Len(order[p]) + 1 /\ Len(order[p]) \in Nat
        /\ DOMAIN order[p] = 1..Len(order[p]) /\ DOMAIN order'[p] = 1..(Len(order[p]) + 1)
        /\ order'[p][Len(order[p]) + 1] = c
        /\ \A i \in DOMAIN order[p] : order'[p][i] = order[p][i]
    <3>1. /\ Len(order[p]) \in Nat /\ DOMAIN order[p] = 1..Len(order[p])
      BY Positions
    <3>2. /\ Len(Append(order[p], c)) = Len(order[p]) + 1
          /\ DOMAIN Append(order[p], c) = 1..(Len(order[p]) + 1)
          /\ Append(order[p], c)[Len(order[p]) + 1] = c
          /\ \A i \in 1..Len(order[p]) : Append(order[p], c)[i] = order[p][i]
      BY <2>4, Appended
    <3> QED
      BY <2>4, <3>1, <3>2, Zenon
  <2>6. order' \in [Applicant -> Seq(Creates)]
    BY <1>2, <2>2, <2>4, Appended
  <2>7. ASSUME NEW q \in Applicant, NEW i \in DOMAIN order[q]
        PROVE  order[q][i] \in Creates \ {c} /\ Kept(q, i)
    <3>1. order[q][i] \in Creates /\ Kept(q, i)
      BY <2>7, Positions
    <3>2. Sent(order[q][i])
      BY <3>1, ApplicantAssumption DEF Kept, Sent
    <3> QED
      BY <2>1, <3>1, <3>2
  <2>8. ASSUME NEW q \in Applicant, NEW i \in DOMAIN order'[q] PROVE Kept(q, i)'
    <3>1. CASE q # p
      <4>1. order'[q] = order[q] /\ notice' = notice
        BY <2>2, <2>4, <3>1
      <4>2. i \in DOMAIN order[q]
        BY <2>8, <4>1
      <4>3. order[q][i] \in Creates \ {c} /\ Kept(q, i)
        BY <2>7, <4>2
      <4>4. attempt'[order[q][i]] = attempt[order[q][i]]
        BY <2>3, <4>3
      <4> QED
        BY <4>1, <4>3, <4>4 DEF Kept
    <3>2. CASE q = p /\ i = Len(order[p]) + 1
      <4>1. order'[p][i] = c
        BY <2>5, <3>2, Zenon
      <4>2. ~(i < Len(order'[p])) /\ shown # "thanked" /\ shown \notin Standing
        <5>1. Len(order'[p]) = Len(order[p]) + 1 /\ i = Len(order[p]) + 1
          BY <2>5, <3>2, Zenon
        <5>2. ~(i < Len(order'[p]))
          BY <2>5, <5>1, OneMore, Zenon
        <5>3. shown # "thanked" /\ shown \notin Standing
          BY DEF Standing, Notices
        <5> QED
          BY <5>2, <5>3
      <4> QED
        BY <2>3, <3>2, <4>1, <4>2 DEF Kept
    <3>3. CASE q = p /\ i # Len(order[p]) + 1
      <4>0. i \in 1..(Len(order[p]) + 1)
        BY <2>5, <2>8, <3>3
      <4>1. Len(order[p]) \in Nat /\ DOMAIN order[p] = 1..Len(order[p])
        BY Positions
      <4>2. i \in DOMAIN order[p]
        BY <4>0, <4>1, <3>3, OneMore, Zenon
      <4>3. i \in DOMAIN order[p] /\ order'[p][i] = order[p][i]
        BY <2>5, <4>2, Zenon
      <4>4. order[p][i] \in Creates \ {c} /\ Kept(p, i)
        BY <2>7, <4>3
      <4>5. attempt[order[p][i]].shown \notin Ended
        BY <2>1, <4>4, ApplicantAssumption DEF Kept, Waiting, Sent, Ended
      <4>6. i # Len(order'[p])
        BY <2>5, <3>3
      <4> QED
        BY <2>2, <2>3, <3>3, <4>3, <4>4, <4>5, <4>6 DEF Kept
    <3> QED
      BY <3>1, <3>2, <3>3
  <2>9. ASSUME NEW d \in Creates PROVE Accounted(d)'
    <3>1. Accounted(d)
      BY DEF OrderInv
    <3>2. CASE d = c
      <4>1. At(c, "idle")
        BY <2>1 DEF FormInv, AttemptInv
      <4>2. attempt'[c].shown \notin {"resume field", "email field", "form"} /\ At(c, "idle")'
        BY <2>2, <2>3, <4>1 DEF At, vars, local
      <4>3. \E i \in DOMAIN order'[attempt'[c].by] : order'[attempt'[c].by][i] = c
        <5>1. Len(order[p]) + 1 \in DOMAIN order'[p]
          BY <2>5, OneMore, Zenon
        <5> QED
          BY <2>3, <2>5, <5>1
      <4> QED
        BY <3>2, <4>2, <4>3 DEF Accounted
    <3>3. CASE d # c
      <4>1. Sent(d) => attempt[d].by \in Applicant
        BY <1>1 DEF Attempts, Sent
      <4>2. Sent(d) => \E i \in DOMAIN order'[attempt[d].by] : order'[attempt[d].by][i] = d
        <5> SUFFICES ASSUME Sent(d) PROVE \E i \in DOMAIN order'[attempt[d].by] : order'[attempt[d].by][i] = d
          OBVIOUS
        <5>1. PICK i \in DOMAIN order[attempt[d].by] : order[attempt[d].by][i] = d
          BY <3>1 DEF Accounted
        <5>2. CASE attempt[d].by = p
          <6>1. i \in DOMAIN order'[p] /\ order'[p][i] = d
            <7>1. i \in 1..Len(order[p]) /\ Len(order[p]) \in Nat
              BY <5>1, <5>2, Positions
            <7>2. i \in 1..(Len(order[p]) + 1)
              BY <7>1, OneMore, Zenon
            <7> QED
              BY <2>5, <5>1, <5>2, <7>2, Zenon
          <6> QED
            BY <5>2, <6>1, Zenon
        <5>3. CASE attempt[d].by # p
          BY <2>4, <4>1, <5>1, <5>3
        <5> QED
          BY <5>2, <5>3
      <4> QED
        BY <2>2, <2>3, <3>1, <3>3, <4>2 DEF Accounted, At, Sent, vars, local
    <3> QED
      BY <3>2, <3>3
  <2>10. ASSUME NEW q \in Applicant, notice'[q] # "none" PROVE DOMAIN order'[q] # {}
    <3>1. CASE q = p
      <4>1. Len(order[p]) + 1 \in DOMAIN order'[p]
        BY <2>5, OneMore, Zenon
      <4> QED
        BY <3>1, <4>1
    <3>2. CASE q # p
      BY <2>2, <2>4, <2>10, <3>2 DEF OrderInv
    <3> QED
      BY <3>1, <3>2
  <2> QED
    BY <1>2, <2>2, <2>6, <2>8, <2>9, <2>10 DEF OrderInv
<1>4. CASE \E c \in Creates : Receive(c)
  <2>1. PICK c \in Creates : Receive(c)
    BY <1>4
  <2>2. UNCHANGED <<order, notice>> /\ c \in Request /\ Act(c)
    BY <2>1 DEF Receive, Judged, RateLimited, Act, Arrive
  <2>3. \A d \in Creates : attempt'[d].by = attempt[d].by /\ attempt'[d].shown = attempt[d].shown
    <3>1. attempt[c] \in Attempts /\ says("rate_limited") \in Verdict
      BY <1>1, SaysType
    <3> DEFINE limited == [attempt[c] EXCEPT !.verdict = says("rate_limited")]
    <3>2. limited.by = attempt[c].by /\ limited.shown = attempt[c].shown
      BY <3>1 DEF Attempts
    <3>3. UNCHANGED attempt \/ attempt' = [attempt EXCEPT ![c] = limited]
      BY <1>1, <2>1 DEF Receive, RateLimited
    <3> HIDE DEF limited
    <3> QED
      BY <1>1, <3>2, <3>3
  <2>4. ASSUME NEW d \in Creates, attempt[d].shown \in {"turned away", "address refused", "cut off"} PROVE pc'[d] = pc[d]
    <3>1. d # c /\ d \in Request
      BY <2>1, <2>4 DEF Receive
    <3> QED
      BY <2>2, <3>1, ActAlone DEF ServiceInv
  <2> QED
    BY <1>1, <2>2, <2>3, <2>4, OrderStays
<1>5. CASE \E c \in Creates : Settle(c) \/ ConnectionLost(c)
  <2>1. PICK c \in Creates : Settle(c) \/ ConnectionLost(c)
    BY <1>5
  <2> DEFINE p == attempt[c].by
  <2>2. UNCHANGED <<vars, order>> /\ Waiting(c) /\ p \in Applicant
    BY <1>1, <2>1 DEF Settle, ConnectionLost, Waiting, Sent, Attempts
  <2>3. PICK message \in Notices \cup {"silence"} :
          /\ attempt' = [attempt EXCEPT ![c].shown = message]
          /\ notice' = IF message = "silence" THEN notice ELSE [notice EXCEPT ![p] = message]
          /\ message \in {"resume field", "email field", "form"} => reply[c] = "rejected"
    <3>1. CASE Settle(c)
      <4> DEFINE message == IF requestJson(reply[c]) THEN "thanked"
                            ELSE toState(attempt[c].verdict, reply[c])
      <4>1. /\ message \in Notices /\ message # "silence"
            /\ message \in {"resume field", "email field", "form"} => reply[c] = "rejected"
        BY DEF toState, Notices
      <4>2. attempt' = [attempt EXCEPT ![c].shown = message] /\ notice' = [notice EXCEPT ![p] = message]
        BY <3>1 DEF Settle
      <4> HIDE DEF message
      <4> QED
        BY <4>1, <4>2
    <3>2. CASE ConnectionLost(c)
      <4>1. /\ attempt' = [attempt EXCEPT ![c].shown = "silence"] /\ notice' = notice
            /\ "silence" \notin {"resume field", "email field", "form"}
        BY <3>2 DEF ConnectionLost
      <4> QED
        BY <4>1
    <3> QED
      BY <2>1, <3>1, <3>2
  <2>4. /\ attempt'[c].by = p /\ attempt'[c].shown = message
        /\ \A d \in Creates \ {c} : attempt'[d] = attempt[d]
    BY <1>1, <2>3 DEF Attempts
  <2>5. /\ notice' \in [Applicant -> Notices]
        /\ \A q \in Applicant \ {p} : notice'[q] = notice[q]
        /\ message = "silence" \/ notice'[p] = message
        /\ message = "silence" => notice'[p] = notice[p]
    BY <1>2, <2>2, <2>3
  <2>6. ASSUME NEW q \in Applicant, NEW i \in DOMAIN order[q] PROVE Kept(q, i)'
    <3>1. order[q][i] \in Creates /\ Kept(q, i)
      BY <2>6, Positions
    <3>2. DOMAIN order[q] = 1..Len(order[q]) /\ Len(order[q]) \in Nat
      BY Positions
    <3>3. CASE order[q][i] = c
      <4>1. q = p /\ ~(i < Len(order[q])) /\ message \in Notices \cup {"silence"}
        BY <2>2, <3>1, <3>3 DEF Kept, Waiting, Ended
      <4> QED
        BY <2>2, <2>4, <2>5, <3>3, <4>1 DEF Kept, Standing, Notices
    <3>4. CASE order[q][i] # c /\ q # p
      BY <2>2, <2>4, <2>5, <3>1, <3>4 DEF Kept
    <3>5. CASE order[q][i] # c /\ q = p
      <4>1. PICK k \in DOMAIN order[p] : order[p][k] = c
        BY <2>2 DEF OrderInv, Accounted, Waiting
      <4>2. ~(k < Len(order[p]))
        BY <2>2, <4>1 DEF OrderInv, Kept, Waiting, Ended
      <4>3. i < Len(order[p])
        BY <3>2, <3>5, <4>1, <4>2
      <4>4. attempt[order[p][i]].shown # "thanked" /\ i # Len(order[p])
        BY <3>1, <3>2, <3>5, <4>3 DEF Kept, Ended
      <4> QED
        BY <2>2, <2>4, <3>1, <3>5, <4>4 DEF Kept
    <3> QED
      BY <3>3, <3>4, <3>5
  <2>7. ASSUME NEW d \in Creates PROVE Accounted(d)'
    <3>1. Accounted(d)
      BY DEF OrderInv
    <3>2. CASE d = c
      <4>1. message \notin {"turned away", "address refused", "cut off"}
        BY <2>3 DEF Notices
      <4> QED
        BY <2>2, <2>3, <2>4, <3>1, <3>2, <4>1 DEF Accounted, Waiting, At, vars, local
    <3>3. CASE d # c
      BY <2>2, <2>4, <3>1, <3>3 DEF Accounted, Sent, At, vars, local
    <3> QED
      BY <3>2, <3>3
  <2>8. ASSUME NEW q \in Applicant, notice'[q] # "none" PROVE DOMAIN order[q] # {}
    <3>1. CASE q = p
      <4>1. \E i \in DOMAIN order[p] : order[p][i] = c
        BY <2>2 DEF OrderInv, Accounted, Waiting
      <4> QED
        BY <3>1, <4>1
    <3>2. CASE q # p
      BY <2>5, <2>8, <3>2 DEF OrderInv
    <3> QED
      BY <3>1, <3>2
  <2> QED
    BY <1>2, <2>2, <2>5, <2>6, <2>7, <2>8 DEF OrderInv
<1>6. CASE \E r \in Request : Handle(r)
  <2>1. PICK r \in Request : Handle(r)
    BY <1>6
  <2>2. UNCHANGED <<attempt, order, notice>> /\ Act(r)
    BY <2>1 DEF Handle, Act
  <2>3. ASSUME NEW c \in Creates, attempt[c].shown \in {"turned away", "address refused", "cut off"} PROVE pc'[c] = pc[c]
    <3>1. At(c, "idle") /\ c \in Request /\ c \notin Changes /\ c \notin Assigns
      BY <2>3 DEF OrderInv, Accounted
    <3>2. CASE r # c
      BY <2>2, <3>1, <3>2, ActAlone DEF ServiceInv
    <3>3. CASE r = c
      BY <2>1, <3>1, <3>3 DEF Handle, Proceed, Fail, choose_assignee, InsertLead,
         CompensatingDelete, RefreshCreated, SendMail, ChooseFails, InsertFails, RefreshFails, Die, At
    <3> QED
      BY <3>2, <3>3
  <2> QED
    BY <1>1, <2>2, <2>3, OrderStays
<1>7. CASE (\E q \in Readers : Read(q) /\ UNCHANGED <<attempt, order, notice>>) \/ UNCHANGED portalVars
  <2>1. UNCHANGED <<vars, attempt, order, notice>>
    BY <1>7 DEF Read, FindLead, ListEvents, OpenResume, portalVars
  <2> QED
    BY <1>1, <2>1, OrderStays DEF vars, local
<1> QED
  BY <1>3, <1>4, <1>5, <1>6, <1>7 DEF PortalNext

LEMMA Ordering == PortalSpec => [](ServiceInv /\ FormInv /\ OrderInv)
<1>1. PortalInit => OrderInv
  <2> SUFFICES ASSUME PortalInit PROVE OrderInv
    OBVIOUS
  <2>1. << >> \in Seq(Creates) /\ DOMAIN << >> = {} /\ "none" \in Notices
    BY DEF Notices
  <2>2. order = [p \in Applicant |-> << >>] /\ notice = [p \in Applicant |-> "none"]
    BY DEF PortalInit
  <2>3. \A c \in Creates : Accounted(c)
    BY DEF PortalInit, Accounted, Sent, Unsent
  <2> QED
    BY <2>1, <2>2, <2>3 DEF OrderInv
<1> QED
  BY <1>1, OrderKeeps, Attempting, PTL DEF PortalSpec

\* An attempt that is followed by another one has no lead, unless its applicant
\* was told to try again or was told nothing: no form leads to a second lead by
\* mistake.
THEOREM OnlyInDoubt == PortalSpec => []RetriedOnlyInDoubt
<1>1. ServiceInv /\ FormInv /\ OrderInv => RetriedOnlyInDoubt
  <2> SUFFICES ASSUME ServiceInv, FormInv, OrderInv, NEW p \in Applicant,
                      NEW i \in 1..(Len(order[p]) - 1), Exists(order[p][i])
      PROVE  attempt[order[p][i]].shown \in {"try again", "silence"}
    BY DEF RetriedOnlyInDoubt
  <2>1. Len(order[p]) \in Nat /\ DOMAIN order[p] = 1..Len(order[p])
    BY Positions
  <2>2. i \in DOMAIN order[p] /\ i < Len(order[p]) /\ order[p][i] \in Creates
    BY <2>1, Positions
  <2> DEFINE c == order[p][i]
  <2>3. attempt[c].shown \in Shown /\ attempt[c].shown \notin Ended
    BY <2>2 DEF OrderInv, Kept, FormInv, Attempts
  <2>4. ~At(c, "idle")
    <3>1. c \in Request
      BY <2>2
    <3> QED
      BY <2>2, <3>1 DEF ServiceInv, IInv, RequestInv, CreateInv, At
  <2>5. reply[c] \notin {"rejected", "storage_unavailable"}
    BY <2>2 DEF ServiceInv, BarrenInv, Barren
  <2>6. attempt[c].shown \notin {"turned away", "address refused", "cut off", "resume field", "email field", "form",
                                 "nothing was saved"}
    BY <2>2, <2>4, <2>5 DEF OrderInv, Accounted, FormInv, AttemptInv
  <2> QED
    BY <2>3, <2>6 DEF Shown, Notices, Ended
<1> QED
  BY <1>1, Ordering, PTL

LEMMA LastPosition ==
  ASSUME NEW n \in Nat, NEW k \in 1..n
  PROVE  n \in 1..n
  OBVIOUS

\* Finding 6 needs a lost answer: "nothing was saved" on the form is true of the
\* last attempt as well, as long as that attempt was answered.
THEOREM Noticed == PortalSpec => []AnsweredNoticeIsTrue
<1>1. ServiceInv /\ FormInv /\ OrderInv => AnsweredNoticeIsTrue
  <2> SUFFICES ASSUME ServiceInv, FormInv, OrderInv, NEW p \in Applicant,
                      notice[p] = "nothing was saved",
                      attempt[Last(order[p])].shown \notin {"none", "silence"}
      PROVE  ~Exists(Last(order[p]))
    BY DEF AnsweredNoticeIsTrue
  <2> DEFINE c == Last(order[p])
  <2>1. DOMAIN order[p] # {} /\ Len(order[p]) \in Nat /\ DOMAIN order[p] = 1..Len(order[p])
    BY Positions DEF OrderInv
  <2>2. Len(order[p]) \in DOMAIN order[p] /\ c = order[p][Len(order[p])]
    <3>1. c = order[p][Len(order[p])]
      BY DEF Last
    <3>2. Len(order[p]) \in DOMAIN order[p]
      <4>1. PICK k : k \in DOMAIN order[p]
        BY <2>1
      <4> QED
        BY <2>1, <4>1, LastPosition, Zenon
    <3> QED
      BY <3>1, <3>2
  <2>3. c \in Creates /\ c \in Request /\ Kept(p, Len(order[p])) /\ attempt[c].shown \in Shown
    <3>1. c \in Creates /\ Kept(p, Len(order[p]))
      BY <2>2, Positions
    <3> HIDE DEF c
    <3> QED
      BY <3>1 DEF FormInv, Attempts
  <2>4. CASE attempt[c].shown \in Standing
    <3>1. attempt[c].shown = "nothing was saved"
      BY <2>2, <2>3, <2>4 DEF Kept
    <3> QED
      BY <2>3, <3>1 DEF FormInv, AttemptInv, ServiceInv, BarrenInv, Barren
  <2>5. CASE attempt[c].shown \notin Standing
    <3>1. At(c, "idle")
      BY <2>3, <2>5 DEF OrderInv, Accounted, Shown, Standing
    <3> QED
      BY <2>3, <3>1 DEF ServiceInv, IInv, RequestInv, CreateInv, At
  <2> QED
    BY <2>4, <2>5
<1> QED
  BY <1>1, Ordering, PTL

-----------------------------------------------------------------------------
(***************************************************************************)
(* The two copies of the upload policy                                     *)
(***************************************************************************)

\* What a form marks for a name or a file the API refuses too, and what passes the
\* form is not too large for the API, unless one cap is below the other.
LEMMA PoliciesAgree ==
  ASSUME NEW e \in Entry
  PROVE  /\ (e.name # "ok" \/ ~checkResume(e.resume)) /\ judge(e).code = "accepted"
            => MAX_RESUME_BYTES < max_resume_bytes
         /\ leadFormSchema(e) /\ judge(e).code = "resume_too_large"
            => max_resume_bytes < MAX_RESUME_BYTES
<1>1. e.resume \in Resume /\ e.resume.size \in Nat /\ e.name \in {"ok", "blank"}
  BY PolicyAssumption DEF Entry, Resume, Sizes
<1>2. ASSUME judge(e).code = "accepted"
      PROVE  e.name = "ok" /\ validate_upload(e.resume).code = "accepted"
  BY <1>1, <1>2 DEF judge, says
<1>3. ASSUME validate_upload(e.resume).code = "accepted", ~checkResume(e.resume)
      PROVE  MAX_RESUME_BYTES < max_resume_bytes
  BY <1>1, <1>3, PolicyAssumption DEF checkResume, validate_upload, says
<1>4. ASSUME leadFormSchema(e), judge(e).code = "resume_too_large"
      PROVE  max_resume_bytes < MAX_RESUME_BYTES
  <2>1. validate_upload(e.resume).code = "resume_too_large"
    BY <1>4 DEF judge, says
  <2>2. e.resume.size > max_resume_bytes
    BY <2>1 DEF validate_upload, says
  <2> QED
    BY <1>1, <1>4, <2>2, PolicyAssumption DEF leadFormSchema, checkResume
<1> QED
  BY <1>2, <1>3, <1>4

\* What an attempt may hold: no judgement on a name or a file that the API does
\* not share, unless the caps differ.
Mirrored(shown, code) ==
  /\ shown = "turned away" /\ code = "accepted" => MAX_RESUME_BYTES < max_resume_bytes
  /\ shown \notin {"turned away", "address refused"} /\ code = "resume_too_large"
     => max_resume_bytes < MAX_RESUME_BYTES

LEMMA MirrorKeeps ==
  ASSUME FormInv, FormMirrorsApi, [PortalNext]_portalVars
  PROVE  FormMirrorsApi'
<1>1. attempt \in [Creates -> Attempts]
  BY DEF FormInv
<1>2. CASE UNCHANGED attempt
  BY <1>2 DEF FormMirrorsApi, Sent
<1>3. CASE \E p \in Applicant : Submit(p)
  <2>1. PICK p \in Applicant, c \in Creates, verdict \in Verdict, shown \in Shown :
          Keep(p, c, verdict, shown) /\ Mirrored(shown, verdict.code)
    <3>1. PICK p \in Applicant, c \in Creates :
            \/ \E verdict \in RelayedVerdicts : Keep(p, c, verdict, "none")
            \/ \E verdict \in TurnedAwayVerdicts : Keep(p, c, verdict, "turned away")
            \/ \E verdict \in AddressVerdicts : Keep(p, c, verdict, "address refused")
            \/ Keep(p, c, says("accepted"), "cut off")
      BY <1>3 DEF Submit
    <3>2. CASE \E verdict \in RelayedVerdicts : Keep(p, c, verdict, "none")
      <4>1. PICK e \in Entry : leadFormSchema(e) /\ Keep(p, c, judge(e), "none")
        BY <3>2 DEF RelayedVerdicts
      <4>2. judge(e) \in Verdict /\ Mirrored("none", judge(e).code) /\ "none" \in Shown
        BY <4>1, JudgeVerdict, PoliciesAgree DEF Shown, Notices, Mirrored
      <4> QED
        BY <4>1, <4>2
    <3>3. CASE \E verdict \in TurnedAwayVerdicts : Keep(p, c, verdict, "turned away")
      <4>1. PICK e \in Entry : /\ e.name # "ok" \/ ~checkResume(e.resume)
                             /\ Keep(p, c, judge(e), "turned away")
        BY <3>3 DEF TurnedAwayVerdicts
      <4>2. judge(e) \in Verdict /\ Mirrored("turned away", judge(e).code) /\ "turned away" \in Shown
        BY <4>1, JudgeVerdict, PoliciesAgree DEF Shown, Mirrored
      <4> QED
        BY <4>1, <4>2
    <3>4. CASE \E verdict \in AddressVerdicts : Keep(p, c, verdict, "address refused")
      <4>1. PICK verdict \in AddressVerdicts : Keep(p, c, verdict, "address refused")
        BY <3>4
      <4>2. verdict \in Verdict /\ Mirrored("address refused", verdict.code) /\ "address refused" \in Shown
        BY <4>1, JudgeType DEF Shown, Mirrored
      <4> QED
        BY <4>1, <4>2
    <3>5. CASE Keep(p, c, says("accepted"), "cut off")
      <4>1. says("accepted") \in Verdict /\ Mirrored("cut off", says("accepted").code) /\ "cut off" \in Shown
        BY SaysType DEF says, Shown, Mirrored
      <4> QED
        BY <3>5, <4>1
    <3> QED
      BY <3>1, <3>2, <3>3, <3>4, <3>5
  <2>2. attempt' = [attempt EXCEPT ![c] = [by |-> p, verdict |-> verdict, shown |-> shown]]
    BY <2>1 DEF Keep
  <2> QED
    BY <1>1, <2>1, <2>2 DEF FormMirrorsApi, Mirrored, Sent
<1>4. CASE \E c \in Creates : RateLimited(c) /\ Receive(c)
  <2>1. PICK c \in Creates : RateLimited(c) /\ Receive(c)
    BY <1>4
  <2> DEFINE limited == [attempt[c] EXCEPT !.verdict = says("rate_limited")]
  <2>2. /\ limited.by = attempt[c].by /\ limited.shown = attempt[c].shown
        /\ limited.verdict.code = "rate_limited"
    BY <1>1 DEF Attempts, says
  <2>3. attempt' = [attempt EXCEPT ![c] = limited]
    BY <2>1 DEF RateLimited
  <2> HIDE DEF limited
  <2>4. attempt[c].shown # "turned away"
    BY <2>1 DEF Receive
  <2> QED
    BY <1>1, <2>2, <2>3, <2>4 DEF FormMirrorsApi, Sent
<1>5. CASE \E c \in Creates : Settle(c) \/ ConnectionLost(c)
  <2>1. PICK c \in Creates, message \in Notices \cup {"silence"} :
          Waiting(c) /\ attempt' = [attempt EXCEPT ![c].shown = message]
    <3>1. PICK c \in Creates : Settle(c) \/ ConnectionLost(c)
      BY <1>5
    <3>2. (IF requestJson(reply[c]) THEN "thanked" ELSE toState(attempt[c].verdict, reply[c])) \in Notices
      BY DEF toState, Notices
    <3> QED
      BY <3>1, <3>2 DEF Settle, ConnectionLost
  <2> DEFINE settled == [attempt[c] EXCEPT !.shown = message]
  <2>2. /\ settled.by = attempt[c].by /\ settled.verdict = attempt[c].verdict
        /\ settled.shown # "turned away" /\ attempt[c].shown \notin {"turned away", "address refused"}
    BY <1>1, <2>1 DEF Attempts, Notices, Waiting
  <2>3. attempt' = [attempt EXCEPT ![c] = settled]
    BY <2>1
  <2> HIDE DEF settled
  <2> QED
    BY <1>1, <2>2, <2>3 DEF FormMirrorsApi, Sent
<1> QED
  BY <1>2, <1>3, <1>4, <1>5 DEF PortalNext, Receive, Handle, Read, FindLead, ListEvents, OpenResume,
     portalVars

\* S2: the form turns nobody away for a name or a file that the API would take, and
\* relays no file that is too large for it, unless one cap is below the other.
THEOREM Mirrors == PortalSpec => []FormMirrorsApi
<1>1. PortalInit => FormMirrorsApi
  <2> SUFFICES ASSUME PortalInit, NEW c \in Creates PROVE ~Sent(c)
    BY DEF FormMirrorsApi
  <2> QED
    BY DEF PortalInit, Sent, Unsent
<1>2. FormInv /\ FormMirrorsApi /\ [PortalNext]_portalVars => FormMirrorsApi'
  BY MirrorKeeps
<1> QED
  BY <1>1, <1>2, Attempting, PTL DEF PortalSpec

-----------------------------------------------------------------------------
(***************************************************************************)
(* Readers                                                                 *)
(***************************************************************************)

Looks == [step : {"idle", "missing", "found", "shown"}, lead : Lead \cup {None},
          state : LeadStates \cup {None}, events : Seq(LeadEvent), file : {"none", "whole"}]

\* A reader that found a lead holds a state the lead's trail has an entry for,
\* and one that shows a timeline shows that entry.
LookInv ==
  /\ look \in [Readers -> Looks]
  /\ \A q \in Readers :
       /\ look[q].step = "found" =>
            look[q].lead \in Lead /\ Exists(look[q].lead) /\ MovedTo(look[q].lead, look[q].state)
       /\ look[q].step = "shown" => look[q].lead \in Lead
       /\ look[q].step = "shown" /\ look[q].file = "none" =>
            \E i \in DOMAIN look[q].events :
              Moves(look[q].events[i]) /\ look[q].events[i].to_state = look[q].state

\* What a reader found stays found.
LEMMA FoundStays ==
  ASSUME IInv, [Next]_vars, NEW l \in Lead, NEW s, Exists(l), MovedTo(l, s)
  PROVE  Exists(l)' /\ MovedTo(l, s)'
<1>1. Exists(l)'
  BY LeadsAdvance DEF Exists
<1>2. CASE UNCHANGED vars
  BY <1>1, <1>2 DEF MovedTo, Moves, vars, db
<1>3. CASE Next
  <2>1. PICK r \in Request : Act(r)
    BY <1>3 DEF Next, Act
  <2> QED
    BY <1>1, <2>1, HistoryStays DEF MovedTo
<1> QED
  BY <1>2, <1>3

LEMMA LookKeeps == ServiceInv /\ LookInv /\ [PortalNext]_portalVars => LookInv'
<1> SUFFICES ASSUME ServiceInv, LookInv, [PortalNext]_portalVars PROVE LookInv'
  OBVIOUS
<1>1. [Next]_vars /\ IInv /\ look \in [Readers -> Looks]
  BY PortalStep DEF ServiceInv, LookInv
<1>2. CASE UNCHANGED look
  <2>1. \A q \in Readers : look[q].step = "found" =>
          Exists(look[q].lead)' /\ MovedTo(look[q].lead, look[q].state)'
    <3> TAKE q \in Readers
    <3> HAVE look[q].step = "found"
    <3>1. look[q].lead \in Lead /\ Exists(look[q].lead) /\ MovedTo(look[q].lead, look[q].state)
      BY DEF LookInv
    <3>2. PICK l \in Lead, s \in {look[q].state} : l = look[q].lead
      BY <3>1
    <3>3. Exists(l)' /\ MovedTo(l, s)'
      BY <1>1, <3>1, <3>2, FoundStays
    <3>4. look'[q] = look[q]
      BY <1>2
    <3> QED
      BY <3>2, <3>3, <3>4 DEF Exists, MovedTo
  <2> QED
    BY <1>2, <2>1 DEF LookInv, Exists, MovedTo
<1>3. CASE \E q \in Readers : Read(q)
  <2>1. PICK q \in Readers : Read(q)
    BY <1>3
  <2>2. UNCHANGED vars
    BY <2>1 DEF Read, FindLead, ListEvents, OpenResume
  <2>3. /\ leadState \in [Lead -> LeadStates \cup {"absent"}] /\ trail \in [Lead -> Seq(LeadEvent)]
        /\ files \in [Creates -> {"none", "partial", "whole"}]
    BY <1>1 DEF IInv, TypeOK, RowsTypeOK, OutsideTypeOK
  <2>4. UNCHANGED <<leadState, trail>>
    BY <2>2 DEF vars, db
  <2>5. CASE FindLead(q)
    <3>1. PICK l \in Lead : look' = [look EXCEPT ![q] =
            IF Exists(l) THEN [Unread EXCEPT !.step = "found", !.lead = l, !.state = leadState[l]]
            ELSE [Unread EXCEPT !.step = "missing"]]
      BY <2>5 DEF FindLead
    <3>2. << >> \in Seq(LeadEvent)
      OBVIOUS
    <3>3. /\ Exists(l) => [Unread EXCEPT !.step = "found", !.lead = l, !.state = leadState[l]] \in Looks
          /\ [Unread EXCEPT !.step = "missing"] \in Looks
      BY <2>3, <3>2 DEF Unread, Looks, Exists
    <3>4. look' \in [Readers -> Looks]
      BY <1>1, <3>1, <3>3
    <3>5. \A p \in Readers \ {q} : look'[p] = look[p]
      BY <1>1, <3>1
    <3>6. CASE Exists(l)
      <4>1. look'[q].step = "found" /\ look'[q].lead = l /\ look'[q].state = leadState[l]
        BY <1>1, <3>1, <3>6 DEF Unread
      <4>2. MovedTo(l, leadState[l])
        BY <3>6 DEF ServiceInv, MailInv
      <4> QED
        BY <2>4, <3>4, <3>5, <3>6, <4>1, <4>2 DEF LookInv, Exists, MovedTo
    <3>7. CASE ~Exists(l)
      <4>1. look'[q].step = "missing"
        BY <1>1, <3>1, <3>7 DEF Unread
      <4> QED
        BY <2>4, <3>4, <3>5, <4>1 DEF LookInv, Exists, MovedTo
    <3> QED
      BY <3>6, <3>7
  <2>6. CASE ListEvents(q)
    <3>1. look[q].step = "found" /\ look[q].lead \in Lead /\ MovedTo(look[q].lead, look[q].state)
      BY <2>6 DEF ListEvents, LookInv
    <3> DEFINE seen == [look[q] EXCEPT !.step = "shown", !.events = trail[look[q].lead]]
    <3>2. look' = [look EXCEPT ![q] = seen]
      BY <2>6 DEF ListEvents
    <3>3. look[q] \in Looks
      BY <1>1
    <3>6. /\ seen \in Looks
          /\ seen.step = "shown" /\ seen.events = trail[look[q].lead] /\ seen.state = look[q].state
          /\ seen.lead = look[q].lead
      BY <2>3, <3>1, <3>3 DEF Looks
    <3> HIDE DEF seen
    <3>7. look' \in [Readers -> Looks]
      BY <1>1, <3>2, <3>6
    <3>4. \A p \in Readers \ {q} : look'[p] = look[p]
      BY <1>1, <3>2
    <3>5. /\ look'[q].step = "shown" /\ look'[q].events = trail[look[q].lead]
          /\ look'[q].state = look[q].state /\ look'[q].lead \in Lead
      BY <1>1, <3>1, <3>2, <3>6
    <3>8. \E i \in DOMAIN look'[q].events :
            Moves(look'[q].events[i]) /\ look'[q].events[i].to_state = look'[q].state
      BY <3>1, <3>5 DEF MovedTo
    <3> QED
      <4>1. ASSUME NEW p \in Readers
            PROVE  /\ look'[p].step = "found" =>
                        /\ look'[p].lead \in Lead /\ leadState'[look'[p].lead] # "absent"
                        /\ MovedTo(look[p].lead, look[p].state)'
                   /\ look'[p].step = "shown" => look'[p].lead \in Lead
                   /\ look'[p].step = "shown" /\ look'[p].file = "none" =>
                        \E i \in DOMAIN look'[p].events :
                          Moves(look'[p].events[i]) /\ look'[p].events[i].to_state = look'[p].state
        <5>1. CASE p = q
          BY <3>5, <3>8, <5>1
        <5>2. CASE p # q
          BY <2>4, <3>4, <5>2 DEF LookInv, Exists, MovedTo
        <5> QED
          BY <5>1, <5>2
      <4> QED
        BY <3>7, <4>1 DEF LookInv, Exists, Moves
  <2>7. CASE OpenResume(q)
    <3>1. look[q].step = "found" /\ look[q].lead \in Lead /\ Exists(look[q].lead)
      BY <2>7 DEF OpenResume, LookInv
    <3>2. stored(look[q].lead) \in {"none", "whole"}
      BY <2>3, <3>1 DEF stored, ServiceInv, BarrenInv, Barren
    <3> DEFINE file == stored(look[q].lead)
               seen == [look[q] EXCEPT !.step = IF file = "none" THEN "missing" ELSE "shown",
                                       !.file = file]
    <3>3. look' = [look EXCEPT ![q] = seen]
      BY <2>7 DEF OpenResume
    <3>7. look[q] \in Looks
      BY <1>1
    <3>9. file \in {"none", "whole"}
      BY <3>2
    <3> HIDE DEF file
    <3>8. /\ seen \in Looks
          /\ seen.step = "missing" \/ (seen.step = "shown" /\ seen.file = "whole" /\ seen.lead = look[q].lead)
      <4>1. CASE file = "none"
        BY <3>7, <4>1 DEF Looks
      <4>2. CASE file = "whole"
        BY <3>7, <4>2 DEF Looks
      <4> QED
        BY <3>9, <4>1, <4>2
    <3> HIDE DEF seen
    <3>4. look' \in [Readers -> Looks]
      BY <1>1, <3>3, <3>8
    <3>5. \A p \in Readers \ {q} : look'[p] = look[p]
      BY <1>1, <3>3
    <3>6. \/ look'[q].step = "missing"
          \/ look'[q].step = "shown" /\ look'[q].file = "whole" /\ look'[q].lead \in Lead
      BY <1>1, <3>1, <3>3, <3>8
    <3> QED
      BY <2>4, <3>4, <3>5, <3>6 DEF LookInv, Exists, MovedTo
  <2> QED
    BY <2>1, <2>5, <2>6, <2>7 DEF Read
<1>4. UNCHANGED look \/ \E q \in Readers : Read(q)
  BY DEF PortalNext, portalVars, Submit, Keep, Receive, Settle, ConnectionLost, Handle
<1> QED
  BY <1>2, <1>3, <1>4

LEMMA Looking == PortalSpec => []LookInv
<1>1. PortalInit => LookInv
  <2> SUFFICES ASSUME PortalInit PROVE LookInv
    OBVIOUS
  <2>1. << >> \in Seq(LeadEvent)
    OBVIOUS
  <2>2. Unread \in Looks
    BY <2>1 DEF Unread, Looks
  <2> QED
    BY <2>2 DEF PortalInit, LookInv, Unread
<1> QED
  BY <1>1, LookKeeps, PortalServes, Serving, PTL DEF PortalSpec

\* EXT1, SEC9: the state a status page shows always has its entry in the
\* timeline under it, whatever commits between the two reads.
THEOREM Explained == PortalSpec => []TimelineExplainsState
<1>1. LookInv => TimelineExplainsState
  BY DEF LookInv, TimelineExplainsState
<1> QED
  BY <1>1, Looking, PTL

\* FR6: no download is a part of a resume, though stores and compensations fail.
THEOREM Whole == PortalSpec => []DownloadIsWhole
<1>1. LookInv => DownloadIsWhole
  BY DEF LookInv, Looks, DownloadIsWhole
<1> QED
  BY <1>1, Looking, PTL

\* What applicants and readers are shown is typed, the history of an applicant
\* holds each of his attempts, and only the last of them can be running.
THEOREM PortalTypes == PortalSpec => []PortalTypeOK
<1>1. FormInv /\ OrderInv /\ LookInv => PortalTypeOK
  <2> SUFFICES ASSUME FormInv, OrderInv, LookInv PROVE PortalTypeOK
    OBVIOUS
  <2>1. ASSUME NEW c \in Creates, Sent(c)
        PROVE  /\ attempt[c].by \in Applicant /\ attempt[c].verdict \in Verdict
               /\ attempt[c].shown \in Notices \cup {"silence", "turned away", "address refused", "cut off"}
               /\ \E i \in DOMAIN order[attempt[c].by] : order[attempt[c].by][i] = c
    <3>1. attempt[c] \in Attempts /\ Accounted(c)
      BY DEF FormInv, OrderInv
    <3>2. attempt[c].by \in Applicant /\ attempt[c].verdict \in Verdict /\ attempt[c].shown \in Shown
      BY <2>1, <3>1 DEF Attempts, Sent
    <3> QED
      BY <2>1, <3>1, <3>2 DEF Accounted, Shown
  <2>2. ASSUME NEW p \in Applicant, NEW i \in DOMAIN order[p], Waiting(order[p][i])
        PROVE  i = Len(order[p])
    <3>1. Len(order[p]) \in Nat /\ i \in 1..Len(order[p]) /\ Kept(p, i)
      BY Positions
    <3> QED
      BY <2>2, <3>1 DEF Kept, Waiting, Ended
  <2>3. \A p \in Applicant : notice[p] \in Notices
    BY DEF OrderInv
  <2>4. ASSUME NEW q \in Readers
        PROVE  /\ look[q].step \in {"idle", "missing", "found", "shown"}
               /\ look[q].events \in Seq(LeadEvent)
               /\ look[q].step \in {"found", "shown"} => look[q].lead \in Lead
    BY DEF LookInv, Looks
  <2> QED
    BY <2>1, <2>2, <2>3, <2>4 DEF PortalTypeOK
<1> QED
  BY <1>1, Ordering, Looking, PTL
=============================================================================
