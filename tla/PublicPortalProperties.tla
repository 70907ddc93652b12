----------------------- MODULE PublicPortalProperties ------------------------
(***************************************************************************)
(* What applicants and readers may conclude from what they are shown.      *)
(***************************************************************************)
EXTENDS PublicPortal, LeadServiceProperties

\* Attempts, messages and reads keep their types, every attempt is in its
\* applicant's history, and only the last one there may be running.
PortalTypeOK ==
  /\ \A c \in Creates : Sent(c) =>
       /\ attempt[c].by \in Applicant /\ attempt[c].verdict \in Verdict
       /\ attempt[c].shown \in Notices \cup {"silence", "turned away", "address refused", "cut off"}
       /\ \E i \in DOMAIN order[attempt[c].by] : order[attempt[c].by][i] = c
  /\ \A p \in Applicant :
       /\ notice[p] \in Notices
       /\ \A i \in DOMAIN order[p] : Waiting(order[p][i]) => i = Len(order[p])
  /\ \A q \in Readers :
       /\ look[q].step \in {"idle", "missing", "found", "shown"}
       /\ look[q].events \in Seq(LeadEvent)
       /\ look[q].step \in {"found", "shown"} => look[q].lead \in Lead

\* S2: the form's copy of the rules for a name and a file mirrors the API's.
\* Whom it turns away for one of them the API would not have taken, and it relays no
\* file that is too large for the API, unless the API's own cap has been moved,
\* and then in one direction only.  The two copies of the rule for an address do
\* differ, both ways, and nothing is claimed of them.
FormMirrorsApi ==
  \A c \in Creates : Sent(c) =>
    /\ attempt[c].shown = "turned away" /\ attempt[c].verdict.code = "accepted"
       => MAX_RESUME_BYTES < max_resume_bytes
    /\ attempt[c].shown \notin {"turned away", "address refused"}
       /\ attempt[c].verdict.code = "resume_too_large"
       => max_resume_bytes < MAX_RESUME_BYTES

\* FR1, A1: an applicant who reaches the thank-you page has a lead with a whole
\* resume for good, or filled in the hidden field and has nothing stored.
ThankedIsStored ==
  \A c \in Creates : attempt[c].shown = "thanked" =>
    IF attempt[c].verdict.code = "discarded" THEN ~Exists(c) /\ files[c] = "none"
    ELSE Exists(c) /\ files[c] = "whole"

\* When an applicant is told that nothing was saved (apply/actions.ts:36), no lead
\* and no timeline of that attempt is in the database, then or ever after.  The disk
\* may keep a part of the file (local.py:64) that nothing refers to.
NothingWasSaved ==
  \A c \in Creates : attempt[c].shown = "nothing was saved" => ~Exists(c) /\ trail[c] = << >>

\* The form leads nobody to a second lead by mistake: an attempt that is followed
\* by another one has no lead, unless the applicant was told to try again or was
\* not told anything.
RetriedOnlyInDoubt ==
  \A p \in Applicant : \A i \in 1..(Len(order[p]) - 1) :
    Exists(order[p][i]) => attempt[order[p][i]].shown \in {"try again", "silence"}

\* EXT1, SEC9: whatever commits between the two reads, the state shown is one
\* the timeline under it has an entry for.
TimelineExplainsState ==
  \A q \in Readers : look[q].step = "shown" /\ look[q].file = "none" =>
    \E i \in DOMAIN look[q].events : Moves(look[q].events[i]) /\ look[q].events[i].to_state = look[q].state

\* FR6: a download is the whole resume or a 404, never a part of one.
DownloadIsWhole ==
  \A q \in Readers : look[q].step = "shown" => look[q].file \in {"none", "whole"}

\* While "nothing was saved" stands on the form, it is true of the last attempt too,
\* as long as that attempt got an answer.
AnsweredNoticeIsTrue ==
  \A p \in Applicant :
    notice[p] = "nothing was saved" /\ attempt[Last(order[p])].shown \notin {"none", "silence"}
    => ~Exists(Last(order[p]))

\* What apply/actions.ts:38 says stays true while it stands on the form: when no
\* attempt is running, the last one has no lead.
NoticeIsTrue ==
  \A p \in Applicant :
    notice[p] = "nothing was saved" /\ attempt[Last(order[p])].shown # "none"
    => ~Exists(Last(order[p]))
=============================================================================
