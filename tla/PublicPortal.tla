---------------------------- MODULE PublicPortal -----------------------------
(***************************************************************************)
(* The public side of the web client over the running API: applicants fill *)
(* in the form, the server action relays it as one call, and what comes    *)
(* back, or does not, decides what the form shows and whether they try     *)
(* again.  Prospects and attorneys look single leads up meanwhile.         *)
(***************************************************************************)
EXTENDS LeadLookup, UploadPolicy, SequencesExt

CONSTANT Applicant  \* each with a browser and the application form open in it

ASSUME ApplicantAssumption == None \notin Applicant

VARIABLES
  attempt,  \* create request -> the submission it carries: [by, verdict, shown]
  order,    \* applicant -> the requests of his attempts, oldest first
  notice    \* applicant -> the message on his form, "thanked" for the last page

portalVars == <<vars, look, attempt, order, notice>>

Unsent == [by |-> None, verdict |-> says("accepted"), shown |-> "none"]

\* What a form can show: the message of a field, that nothing was saved, that
\* something went wrong, or the thank-you page.  After silence (the call
\* failed) or a cut off (the body did not fit) it keeps the message it had.
Notices == {"none", "resume field", "email field", "form", "nothing was saved",
            "try again", "thanked"}

PortalInit ==
  /\ Init
  /\ look = [q \in Readers |-> Unread]
  /\ attempt = [c \in Creates |-> Unsent]
  /\ order = [p \in Applicant |-> << >>]
  /\ notice = [p \in Applicant |-> "none"]

Sent(c) == attempt[c].by # None
Waiting(c) == Sent(c) /\ attempt[c].shown = "none"

-----------------------------------------------------------------------------
(***************************************************************************)
(* The form                                                                *)
(***************************************************************************)

\* What the API says of the submissions that pass the form and fit the action,
\* what it would say of those the form itself turns away, for their address alone
\* or for a name or the resume, and whether any pass the form and do not fit.
RelayedVerdicts == {judge(e) : e \in {e \in Entry : leadFormSchema(e) /\ Relayed(e)}}
AddressVerdicts ==
  {judge(e) : e \in {e \in Entry : ~checkEmail(e.email) /\ e.name = "ok" /\ checkResume(e.resume)}}
TurnedAwayVerdicts ==
  {judge(e) : e \in {e \in Entry : e.name # "ok" \/ ~checkResume(e.resume)}}
SomeCutOff == \E e \in Entry : leadFormSchema(e) /\ ~Relayed(e)

Keep(p, c, verdict, shown) ==
  /\ attempt' = [attempt EXCEPT ![c] = [by |-> p, verdict |-> verdict, shown |-> shown]]
  /\ order' = [order EXCEPT ![p] = Append(@, c)]
  /\ UNCHANGED <<vars, look, notice>>

\* Mutant of Submit: the button stays enabled while a submission is running.
Submit_Twice(p) ==
  /\ notice[p] # "thanked"
  /\ \E c \in Creates : ~Sent(c) /\ \E verdict \in RelayedVerdicts : Keep(p, c, verdict, "none")

\* handleSubmit: the form is not being submitted already, and valid or else the
\* applicant is shown what to correct and nothing is sent.
Submit(p) ==
  /\ notice[p] # "thanked"
  /\ ~\E c \in Creates : Waiting(c) /\ attempt[c].by = p
  /\ \E c \in Creates :
       /\ ~Sent(c)
       /\ \/ \E verdict \in RelayedVerdicts : Keep(p, c, verdict, "none")
          \/ \E verdict \in TurnedAwayVerdicts : Keep(p, c, verdict, "turned away")
          \/ \E verdict \in AddressVerdicts : Keep(p, c, verdict, "address refused")
          \/ SomeCutOff /\ Keep(p, c, says("accepted"), "cut off")

\* Mutant of toState: a server error is taken for a storage error.
toState_AnyServerError(verdict, answer) ==
  CASE answer \in {"storage_unavailable", "error"} -> "nothing was saved"
    [] answer = "rejected" -> "form" [] OTHER -> "try again"

\* The message for a refusal, by its code.
toState(verdict, answer) ==
  CASE answer = "rejected" /\ verdict.code = "validation_error" ->
         IF verdict.field = "email" THEN "email field" ELSE "form"
    [] answer = "rejected" /\ verdict.code \in {"unsupported_media_type", "resume_too_large"} ->
         "resume field"
    [] answer = "storage_unavailable" -> "nothing was saved"
    [] OTHER -> "try again"

\* Mutant of requestJson: the status of the response is not looked at.
requestJson_Unchecked(answer) == TRUE

\* The answers createLead returns from: a 201, and a 202 without a body.
requestJson(answer) == answer \in {"ok", "discarded"}

\* Mutant of Settle: a message that stands on the form is not replaced.
Settle_FirstStays(c) ==
  /\ Waiting(c) /\ reply[c] # "none"
  /\ LET message == IF requestJson(reply[c]) THEN "thanked"
                    ELSE toState(attempt[c].verdict, reply[c]) IN
     /\ attempt' = [attempt EXCEPT ![c].shown = message]
     /\ notice' = [notice EXCEPT ![attempt[c].by] = IF @ = "none" THEN message ELSE @]
  /\ UNCHANGED <<vars, look, order>>

\* submitApplication returns: the thank-you page, or the message of its state.
Settle(c) ==
  /\ Waiting(c) /\ reply[c] # "none"
  /\ LET message == IF requestJson(reply[c]) THEN "thanked"
                    ELSE toState(attempt[c].verdict, reply[c]) IN
     /\ attempt' = [attempt EXCEPT ![c].shown = message]
     /\ notice' = [notice EXCEPT ![attempt[c].by] = message]
  /\ UNCHANGED <<vars, look, order>>

\* The call fails without an answer, whatever becomes of the request: not an
\* ApiError, so submitApplication throws and the form is left as it was.
ConnectionLost(c) ==
  /\ Waiting(c)
  /\ attempt' = [attempt EXCEPT ![c].shown = "silence"]
  /\ UNCHANGED <<vars, look, order, notice>>

-----------------------------------------------------------------------------
(***************************************************************************)
(* The API                                                                 *)
(***************************************************************************)

\* The limiter answers before the handler.  Its budget belongs to the address
\* of the web server, so any visitor may have used it up.
RateLimited(c) ==
  /\ TurnAway(c) /\ reply'[c] = "rejected"
  /\ attempt' = [attempt EXCEPT ![c].verdict = says("rate_limited")]

\* The first step of a submission is decided by its verdict.
Judged(c) ==
  LET code == attempt[c].verdict.code IN
  \/ code = "accepted" /\ (SaveResume(c) \/ SaveFails(c))
  \/ code = "discarded" /\ TurnAway(c) /\ reply'[c] = "discarded"
  \/ code \notin {"accepted", "discarded"} /\ TurnAway(c) /\ reply'[c] = "rejected"

\* The request of an attempt reaches the API; it may also be lost before.
Receive(c) ==
  /\ Sent(c) /\ attempt[c].shown \notin {"turned away", "address refused", "cut off"}
  /\ \/ Judged(c) /\ UNCHANGED attempt
     \/ RateLimited(c)
  /\ UNCHANGED <<look, order, notice>>

\* The rest of LeadService.  The background mail touches nothing shown here.
Handle(r) ==
  /\ \/ r \notin Creates /\ Arrive(r)
     \/ pc[r] \notin {"mailing", "notifying"} /\ (Proceed(r) \/ Fail(r))
  /\ UNCHANGED <<look, attempt, order, notice>>

PortalNext ==
  \/ \E p \in Applicant : Submit(p)
  \/ \E c \in Creates : Receive(c) \/ Settle(c) \/ ConnectionLost(c)
  \/ \E r \in Request : Handle(r)
  \/ \E q \in Readers : Read(q) /\ UNCHANGED <<attempt, order, notice>>

PortalSpec == PortalInit /\ [][PortalNext]_portalVars
=============================================================================
