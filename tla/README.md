# Verification of the intake service

TLA+ models of the lead intake system in `src/`: a public form submits a lead
with a resume, the API stores the file and the lead, mails the prospect and an
attorney, and attorneys claim leads and move them along a pipeline. The state of
a lead lives in one database row with an append-only trail of events, its resume
in a file store, and three endpoints change them concurrently, each with a
database commit, a file operation and mails that cannot be made atomic. Around
them, web pages and forms show what was true a moment ago, and worker processes
run with the configuration of the moment they were started. The models are about
exactly that.

## 1. The system

| component | source | state | operations |
|---|---|---|---|
| state table | `services/lead_state.py`, `db/models/lead.py` | none | `rule_for`, `assert_transition` over `TRANSITIONS` |
| repository | `repositories/lead_repo.py`, `db/session.py` | tables `leads`, `lead_events` | `create`, `add_event`, `update_state`, `update_assignee`, `open_lead_counts`, reads |
| lead commands | `services/lead_service.py`, `api/v1/leads.py` | one session per request | `create_lead`, `change_state`, `assign_lead`, the two mail tasks |
| lead queries | same files | none | `public_status`, `list_leads`, detail, resume download |
| file store | `services/storage/` | objects by key | `save`, `delete`, `open`, `ensure_bucket` |
| email | `services/email/` | none | `send`; messages from a `LeadSnapshot` |
| attorney session | `core/security.py`, `core/deps.py`, `web/lib/auth.ts`, `web/middleware.ts` | token, cookie, cached directory | login, `current_attorney`, logout |
| attorney queue | `web/app/(internal)/leads/` | the page as rendered | `changeLeadState`, `assignToMe`, paging |
| public forms | `web/app/(public)/` | form state | `submitApplication`, status lookup |
| start-up | `main.py`, `core/config.py` | cached settings | secrets guard, bucket creation |
| rate limit | `core/limiter.py` | counters per process | one limit per public endpoint |
| scripts, migrations | `scripts/`, `api/alembic/` | the same tables | `seed`, `doctor`, backfill |

The web calls the API; the API's handlers run on a thread pool, share nothing
but the database and the file store, and schedule mail as background tasks that
run after the answer. The hard behaviour is in the lead commands: each is a
`SELECT`, a check in Python, an `UPDATE` whose predicate repeats the check, an
`INSERT` and a `COMMIT`, and around them a file or a mail. What is read before
the `UPDATE` or after the `COMMIT` may no longer hold. `PROJECT.json` lists
these hazards line by line.

What makes each component correct:

* commands: one winner per move, a trail that replays to the row, an answer that
  matches what was committed, mail only about what was committed, a resume for
  every accepted lead and no file without one, and every request answered;
* queries: the state shown has its entry in the timeline shown under it, paging
  loses no lead, a download is a whole resume or none;
* queue: the outcome a click is told is true, a refusal means the move was made by
  somebody, and the row is not left on the screen as it was once the API has answered;
* session: whoever gets in is on the roster of the processes that run, and no cookie
  keeps somebody on it out for good;
* forms and upload policy: the form turns nobody away for a name or a file that the API
  would take, its thanks and its "nothing was saved" are true, and it leads nobody to
  apply twice;
* start-up and scripts: no process serves with a credential the guard knows for a
  placeholder, the loser of the race for the bucket starts like the winner, and a clean
  report of the doctor stays true.

## 2. Modules

| module | extends | models |
|---|---|---|
| `LeadState` | | the enum and the transition table, as pure operators |
| `LeadRepository` | `LeadState` | the two tables, the row locks, each statement of the repository |
| `LeadService` | `LeadRepository` | the three commands with their handlers and mail tasks, and the faults |
| `LeadLifecycle` | `LeadState` | abstract: submissions, moves and handovers as atomic steps with a log |
| `LeadList` | `LeadService` | the two SELECTs of `list_leads` over rows in the order of `created_at` |
| `LeadLookup` | `LeadService` | the two reads of the status page, the detail and the download |
| `AttorneyQueue` | `LeadList` | the attorneys' pages, buttons, server actions and revalidation |
| `UploadPolicy` | | the form's rules and the API's, as operators over classes of inputs |
| `PublicPortal` | `LeadLookup`, `UploadPolicy` | the application form, its server action and its messages |
| `Deployment` | | the `.env` file, the settings of each worker, start-up and the bucket |
| `AttorneySession` | `Deployment` | login, limiter, token, cookie, the redirects of the pages, time |
| `Operations` | `AttorneySession` | leads given out and the doctor, over a roster that changes |

`LeadServiceProperties`, `AttorneyQueueProperties`, `PublicPortalProperties` and
`OperationsProperties` state what should hold; `LeadServiceProofs`,
`LeadServiceSafety`, `LeadTrailProofs`, `PublicPortalProofs`, `AttorneyQueueProofs`,
`QueuePageProofs` and `OperationsProofs` prove it; the `MC` modules give TLC the values of the
constants. `AttorneyQueue` and `PublicPortal` are compositions: they contain the
whole of `LeadService`, drive it through its own actions, and the theorems
`QueueServes` and `PortalServes` say that they do nothing else to it.

### State

`leadState`, `assignedTo` and `trail` are the committed rows: a lead's `state`
(or `"absent"`), its `assigned_to`, and its `lead_events` oldest first. The
code orders events by `created_at`; an update's event is created while the
update holds the row's lock, so that order is the commit order. `lock` is the
lock a matching `UPDATE` keeps until its transaction ends. What a transaction has
written but not committed is not in the tables: it is the request's `want` and
`lead`, and `CommitRow` writes it. A `SELECT` reads committed rows, and an
`UPDATE` looks at its predicate on the committed row, waits for the lock, and
looks again: this is READ COMMITTED, the default of the PostgreSQL deployment.
The unit tests' SQLite serialises writers instead and allows fewer behaviours.

A request has a program counter `pc`, the lead `on` which it works, the value
it `want`s, the fields `lead` of its ORM instance (later of its mail snapshot)
and its `reply`. A create request's name doubles as the id, tracking code and
storage key it draws, all three random. The trail's `actor` is the request, finer
than the code's attorney address, so that a property can say which request wrote
an entry. `files` says of each submission whether its object is absent, whole or
partial; `sent` is the set of mails the provider took.

A queue is open in a browser tab (`Tab`), and `User` says who is signed in there; one
attorney may have several. A page in a tab (`screen`) keeps the filter, the offset, the total from its
first SELECT and the rows from its second; a `click` keeps the row as it was shown
when the button was pressed, and `told` is what its attorney was told: the result,
`"refused"` for an error that gives the API's reason, `"error"` for any other. `stamped`
is the sequence of all leads in the order of their `created_at`, from those that exist at
the start (`Older`) on. A submission draws its `created_at` when its INSERT is flushed, so
this is not the order of the commits. The list is sorted by it, newest first: a row's
place under a filter is the number of `Newer` rows of that filter, and a page is the rows
whose place is between two offsets.
`UploadPolicy` has five classes of addresses, because two libraries judge them: those
that both take, that only `EmailStr` takes, that only zod's expression takes, that neither
takes, and those that are too long for the column.
On the public side an `attempt` is one submission of the form: who filled it in,
what the API's rules say of it (`verdict`), and what the form `shown` after it.
`notice` is the message that stands on the form, which an attempt without an answer
leaves there. `look` is a reader between his two reads.

A worker holds the `settings` it read from `env` when it started; roster, signing
key and password come from there for as long as it lives (`get_settings`
and `get_attorney_directory` are cached). A roster is who is on it and whether one of
them has the placeholder password. `bucket` says who owns the bucket of the configured
name: nobody, this account, or another. A `cookie` holds the key its token was
signed with and what is left of the token's life and of its own; `hits` is each
worker's window of login attempts. Time is kept as what remains, so that nothing
grows.

### Actions

| action | code |
|---|---|
| `TurnAway` | honeypot, form validation, `_validate_upload`: an answer before anything is stored |
| `SaveResume`, `SaveFails` | `storage.save`; a failure may leave part of the file |
| `choose_assignee`, `ChooseFails` | the counts and `min`; outside the `try` block |
| `InsertLead`, `InsertFails` | row, event and commit; a commit may take effect and still raise |
| `CompensatingDelete` | the `except` block |
| `RefreshCreated` | `db.refresh`, snapshot, 201 |
| `ReadForChange`, `ReadForAssign` | `get_lead` and every check before the `UPDATE` |
| `UpdateState`, `UpdateAssignee` | the `UPDATE`: waits, matches and locks, or matches nothing and answers |
| `CommitUpdate` | `add_event` and `commit` |
| `RefreshChanged`, `RefreshAssigned`, `RefreshFails` | `db.refresh` and the answer, or a 500 |
| `WriteFails` | a statement or the commit raises; closing the session rolls back |
| `SendMail` | one step per mail of a background task, failures swallowed |
| `Die` | the worker is killed: its locks go, its tasks are lost |

A flush and the commit after it are one step: between them other transactions
see nothing of it but the lock, which `updated` holds. `CommitRow` writes one column
and takes the other from the row of that moment, as an `UPDATE` of one column
does.

`Faults` names what may go wrong. With `"ack"`, a COMMIT takes effect and the
answer to it is lost, which the code cannot tell from a failure.

The layers above it:

| action | code |
|---|---|
| `CountLeads`, `SelectPage` | `LeadRepository.list` behind `leads/page.tsx` |
| `OpenTab`, `NextPage`, `PreviousPage` | the links of the page |
| `PressState`, `PressAssign` | `StateActionButton`, `AssignToMeButton`, as rendered from the row |
| `Serve` | the request the server action sends, by `LeadService` up to the answer |
| `Tell` | the server action returns with what it makes of the API's answer, and `revalidatePath` |
| `CallFails` | it returns an error without an answer: no token, a 401, or a `fetch` that throws while the request may still run; nothing is revalidated |
| `Submit` | `handleSubmit` with the form's schema: relayed, turned away for a name or a file, refused for its address, or cut off by the framework's limit on a body |
| `Receive` | the API takes the call: limiter, form, honeypot, `LeadCreate`, upload, in `judge` |
| `Settle`, `ConnectionLost` | `submitApplication` returns a state, or throws |
| `FindLead`, `ListEvents`, `OpenResume` | `get_by_tracking_code` or `get`, then `list_events` or `open_resume` |
| `Edit`, `Boot`, `Stop` | the operator changes a line of `.env`; `create_app`, the lifespan and `head_bucket`; the end of a process |
| `CreateBucket` | `create_bucket` after a 404 or a 403, what it answers by then (`create_error`) and which answers are let pass (`Benign`) |
| `Login`, `OtherLogin` | the login route handler and `POST /auth/login` behind its limiter |
| `Visit`, `Opened`, `Turned`, `Logout` | the queue's page: the API's 401, the middleware's redirect, the logout route |
| `Tick` | a unit of time off every lifetime and window |
| `Intake`, `Assign`, `Doctor` | `choose_assignee` and the assign endpoint of one worker; `check_assignments` with the settings of now |

## 3. Runs

| run | question | size |
|---|---|---|
| `lead_service` | safety, the inductive invariant and the refinement, all faults, one submission, two state changes and one assignment over one lead | 0.7 M states |
| `lead_service_live` | liveness, and files against rows, one submission, change and assignment over two leads | 19 k |
| `contention` | the trail, two state changes and two assignments of one lead, lost acknowledgements and rollbacks; what an assignment's 200 is worth | 0.7 M |
| `attorney_queue` | the paging and the two clicks of one attorney over two leads, while a third comes in and a direct call changes one | 2.9 M |
| `portal` | an applicant with two attempts, a reader and a state change, all faults but the mail's | 1.2 M |
| `operations` | two workers, one attorney with a browser, one lead, two rosters, three keys, a bucket of three kinds | 1.2 M |
| `timeline`, `same_update`, `orphan_file`, `lost_resume`, `colleague`, `stale_notice` | six places where code and documentation disagree | stop at the counterexample |

The properties are explained where they are defined. In short:

* **service.** `TrailAgrees`: replaying the moves of a trail gives the state column
  and replaying its handovers the owner column, each link starting where the one
  before ended. `RepliesMatchTrail` ties what each client was told to what the trail
  holds, for refusals, submissions and changes; `HandoverIsWritten` does so for assignments,
  where a 200 without an entry is right only if the read found that owner in place;
  `OneWinner` is R2; `MailIsTruthful` is R1, over crashes and failures.
  `TimelineNeverAhead` and `StatusMailIsCurrent` are what findings 1 and 2 leave standing:
  a timeline or a mail may show the wrong state of two, never one that is still to come or
  one that the change has left; the files are `AcceptedHasResume`, `CommittedHasResume` and `NoLeakOnError`.
* **queue.** `ToldTheTruth`: "Updated." means that this click moved the lead from the
  very state the row showed, however old the page. `RefusedBecauseDone`: the web
  client's copy of the transition table (`NEXT_ACTION`) agrees with the API's, so a
  click is refused only when the move was made. `StaleRowGone`: once told the API's answer, the
  attorney does not see the row in its old state in that tab. It promises nothing of a call
  that failed without an answer, after which the old page stays and the move may be made
  all the same. `WalkMissesNothing`: leads that come in while somebody pages shift the full
  list towards later pages only.
* **portal.** `ThankedIsStored` and `NothingWasSaved` are about the two messages an
  applicant relies on, `AnsweredNoticeIsTrue` is about the second of them while
  later attempts run, `RetriedOnlyInDoubt` about the second lead that a wrong message
  would cause, `FormMirrorsApi` about the rules for names and files that are written down twice: with equal
  caps the form turns nobody away for one of them whom the API would take and relays nothing
  too large, with caps that have drifted it errs in the direction of the drift only. The
  rule for addresses is written down twice too, and the two copies do differ; nothing is
  claimed of them. `NothingWasSaved` is about the lead and its trail, not the file.
  `TimelineExplainsState` and `DownloadIsWhole` about readers between two reads.
* **operations.** `RemovedIsLockedOut`: once every process that serves has been restarted,
  nobody who was taken off the roster gets in, with whatever token. `DoctorIsFinal`: a
  clean report stays true until the next edit, if every process had the roster the
  doctor read. `BucketReady` is the race of two starting workers:
  the loser's `create_bucket` fails, and it must start without an error like the winner.
  `OpsTypeOK` adds to typing what the guard at start-up achieves, the roster's own
  passwords left out, as in the code. `LetIn` is the liveness of signing in.

**Bounds.** A lead's row is only contended by requests for that lead, so one lead
that every request may pick, or two when a submission adds its own, shows every
conflict. The pipeline has two edges, so two state changes are the most that can
succeed and a third could only lose; two are also what a race needs. The roster
in `contention` has two members, the least with which a claim and a rival claim
differ. `MCSymmetry` permutes requests of one kind, which no definition tells
apart.

In `attorney_queue` a page holds one row (`PAGE_SIZE`) and the list two, so that there is a
second page while a third lead is still to come: it may come in before a walk, between
its pages or between the two reads of one. Three views (`MaxViews`) are a first page, the
next one and a third, which a walk that was shifted needs. One state change and one
assignment are the attorney's `Clicks`, the other state change comes from elsewhere; any
three of the four requests arrive (`MCThreeRequests`), for no property relates more. Its
one tab shows the full list; the theorems cover any number of tabs and the filters, and
`colleague` has two tabs and a filter.
In `portal`, two attempts are what "again" needs; the two caps are the same number, as in the
repository (the theorem has any two), and the body limit is below it, as the framework's
default is; sizes are taken at 0, 1, each cap and one above it. In `operations`, a token lives one unit and
the cookie two, so that each can end first with a restart; a window of two units and
a limit of one make the limiter bite; `Rosters` holds the empty roster, which falls
back to `attorney_email`, and one that names the attorney with the browser and has, as
`.env.example` does, a placeholder for a password.

**Faults per run.** `lead_service` allows all nine. `CommittedHasResume` is false
with `"ack"` and `NoLeakOnError` with `"choose"`, `"disk"` or `"delete"`; their passing
run has the other failures of submissions (`"save"`, `"write"`, `"refresh"`), two
violation runs show `"ack"` and `"choose"`, and the theorems `ResumeKept` and `NoLeak`
say that the two properties hold under all the others. `NoLeakOnError` is about requests that
ended: a process that dies after the save leaves its file, and nothing in the code
looks for it. `portal` has every fault but `"mail"` (the tasks after the answer are
left to the service's runs, as are those of `attorney_queue`), and adds a call that
is lost on the way there or back. `attorney_queue` has no faults: its properties
speak of answers, and what an answer is worth under faults is `RepliesMatchTrail`.

**Fairness.** `FairSpec` has weak fairness of `Proceed(r)` for each request: a
handler that has begun is run by the server's thread pool, and a background task
runs after the answer. `Proceed` holds only the steps that do what the code asks;
arriving (`Arrive`) and every fault (`Fail`) are apart and not fair, for clients
need not come and no fault can be counted on. The wait for a row lock is
therefore not assumed to end, nor can a fault end it: it ends because the holder
proceeds and commits or rolls back. `Answered` and `SuccessIsMailed` are checked
without `"die"`, and the second without `"mail"`: a provider failure or a crash does
lose mail, as the code's own comment says (at-most-once).

`FairOpsSpec` assumes only that a browser finishes the redirect or page it began, as long as a
worker serves (weakly fair). Time, edits, restarts, logins and the use others make of the
limiter are not fair. `LetIn` has two premises. The first is that the deployment settles:
every process up with the present settings, and the attorney on its roster. The second,
`GetsAttempts`, is that an attorney who stands at the login form again and again gets an
attempt past the limiter again and again. Nothing in the code promises that: all visitors
share one window, and others who are first in every window keep an attorney out for ever.
What `LetIn` then shows is that no cookie (expired, outlived by its token or signed with an
old key) keeps him between the queue and the login form.

The service, queue and portal specifications stop when all requests have ended:
`CHECK_DEADLOCK FALSE`. That nobody waits for ever is `Answered`. `operations` never stops,
and its run checks that.

### Findings

1. `timeline`: `assign_lead` writes its event with the state read before its
   `UPDATE`, so an overlapping state change leaves the public timeline ending with
   a state the lead has left. The columns still replay (`TrailAgrees` reads the
   state of moves and the owner of handovers), the last entry does not.
2. `same_update`: the mail shows the row as refreshed after the commit. Two quick
   changes send "qualified" twice and "reached out" never.
3. `orphan_file`: `choose_assignee` runs outside the `try` block, after the save.
4. `lost_resume`: the compensation deletes the resume of a lead whose commit took
   effect unacknowledged.
5. `colleague`: the button of a page that shows a lead without an owner takes the lead
   from whoever has claimed it meanwhile, for the API compares the new owner with the
   one it reads itself and not with the one the page showed.
6. `stale_notice`: the message of an earlier attempt stands on the form when the next
   call throws, so "nothing was saved" can stand there after an application was saved.

Smaller ones met while modelling, without a run of their own:

* a caller who loses a race at the `UPDATE` gets `invalid_transition`
  (`lead_service.py:180-185`), which `MarkResult` turns into "error", although the comment at
  `leads/actions.ts:21-24` has the benign notice for whoever comes second;
* `apply/actions.ts:25` says that the API prefixes the field name; the envelope drops the
  first part of an error's location (`errors.py:93`), which is all an error of
  `LeadCreate` has, so such a message goes to the form and not to its field;
* the form allows 5 MB (`validation.ts:33`) and no `bodySizeLimit` is configured, so the
  framework's default of 1 MB cuts larger bodies off before the action runs, and the
  form says nothing (`"cut off"` in `Submit`);
* limits are said to be per IP (`README.md:163`), but the API sees the web server's
  address for every visitor of the pages: one budget for all (`OtherLogin`, `RateLimited`);
* `doctor.py:3-5` "can never disagree with the running app": it reads `.env` afresh,
  the workers keep theirs, and `DoctorIsFinal` needs `Current` for that reason;
* `lead_service.py:334` excludes the shared inbox when there is a roster; a lead cleared
  between its COMMIT and its refresh notifies it all the same (`NotifyAddress`);
* the form refuses addresses that the API takes (zod's `.email()`, `validation.ts:27`,
  against `EmailStr`, `schemas/lead.py:19`; `a&b@host.com` is one), and relays some it
  refuses, such as those at reserved domains (`AddressVerdicts`);
* `apply/actions.ts:36` says that nothing was saved when storage failed; a disk that fills up
  while the file is copied keeps a part of it (`local.py:64-65`, fault `"disk"`), which no
  lead refers to and nothing removes;
* `insecure_defaults` looks at `attorney_password` only (`config.py:160`), while a roster in
  `ATTORNEYS` brings passwords of its own, which replace it (`config.py:133`);
  `.env.example:48` has three that are "changeme", so `main.py:29`'s refusal of placeholder
  credentials does not reach them (`placeholder_login`);
* `s3.py:50-53` lets `BucketAlreadyExists` pass as a race that was lost; it is also the answer
  when another account owns the name, and the API then starts without a bucket it can use
  (`bucket = "theirs"`);
* a click whose call fails without an answer leaves the old row on the screen with its
  button (`leads/actions.ts:58` does not revalidate), though the request may be committed (`CallFails`).

## 4. Proofs

The theorems hold for any sets of leads, addresses, requests, attorneys, applicants,
workers and keys, any roster, caps and lifetimes, and any faults, from the named
assumptions on the constants: requests are of three disjoint kinds, ids of
submissions are leads, `None` is no other value, addresses are not state names
(`LeadService`); the list begins with the leads that exist (`ListAssumption`), `None` is no
applicant (`ApplicantAssumption`), caps are numbers (`PolicyAssumption`); attorneys
are addresses and their clicks are requests that change or assign (`QueueAssumption`);
lifetimes and limits are positive and rosters name attorneys
(`SessionAssumption`, `DeploymentAssumption`).

| theorem | statement | carried by |
|---|---|---|
| `TypeCorrect`, `Invariance` | `Spec => []TypeOK`, `Spec => []IInv` | `IInv` |
| `Implementation` | `Spec => ImplementsLifecycle` | `IInv` |
| `Winner` | `Spec => []OneWinner` | `WinnerInv` |
| `Accepted` | `Spec => []AcceptedHasResume` | `FileInv` |
| `Replies` | `Spec => []RepliesMatchTrail` | `ReplyInv` |
| `Handovers` | `Spec => HandoverIsWritten` | `HandedInv` |
| `ResumeKept` | `"ack" \notin Faults`: `Spec => []CommittedHasResume` | `FileInv`, `StoreInv` |
| `NoLeak` | no `"disk"`, `"choose"`, `"delete"`: `Spec => []NoLeakOnError` | `FileInv`, `StoreInv` |
| `Truthful` | `Spec => []MailIsTruthful` | `ReplyInv`, `MailInv` |
| `Agreement` | `Spec => []TrailAgrees` | itself |
| `MailCurrent` | `Spec => []StatusMailIsCurrent` | `CurrentInv`, `WinnerInv` |
| `NeverAhead` | `Spec => []TimelineNeverAhead` | `ReadInv`, `MailInv` |
| `PortalServes`, `QueueServes` | `PortalSpec => Spec`, `QueueSpec => Spec` | each action is one of the service or leaves it alone |
| `Thanked`, `Unsaved` | `PortalSpec => []ThankedIsStored`, `[]NothingWasSaved` | `FormInv`, `BarrenInv`, `FileInv` |
| `OnlyInDoubt`, `Noticed` | `PortalSpec => []RetriedOnlyInDoubt`, `[]AnsweredNoticeIsTrue` | `OrderInv`, `BarrenInv` |
| `Mirrors` | `PortalSpec => []FormMirrorsApi` | `FormInv` |
| `Explained`, `Whole` | `PortalSpec => []TimelineExplainsState`, `[]DownloadIsWhole` | `LookInv` |
| `PortalTypes` | `PortalSpec => []PortalTypeOK` | `FormInv`, `OrderInv`, `LookInv` |
| `TellsTruth` | `QueueSpec => []ToldTheTruth` | `ClickInv`, `Moved`, `WinnerInv` |
| `QueueTypes` | `QueueSpec => []QueueTypeOK` | `ShownInv`, `PressedInv` |
| `WalkIsComplete` | `QueueSpec => []WalkMissesNothing` | `WalkInv`, `ShownInv` |
| `RefusedRightly` | `QueueSpec => []RefusedBecauseDone` | `PressedInv`, `PassedInv` |
| `StaleRowGoes` | `QueueSpec => []StaleRowGone` | itself, `PressedInv` |
| `OpsTypes` | `OpsSpec => []OpsTypeOK` | `OpsInv` |
| `DoctorFinal` | `OpsSpec => []DoctorIsFinal` | `DoctorInv` |
| `LockedOut` | `OpsSpec => RemovedIsLockedOut` | `OpsInv` |

**Service.** `IInv` adds to typing what one request must know of another: a row exists exactly
with its trail (`RowInv`); a request holds a lock exactly between its `UPDATE` and
its `COMMIT` (`LockInv`); and while it does, the column its predicate named still
has the value it read (`ChangeInv`, `AssignInv`), because whoever would change it
needs the same lock. The last is what the refinement needs: at the commit, the
event's old value is the row's. Type correctness is not inductive without it: an
event is only well typed if the request got to its commit over a checked edge.

Every action is seen by the others in one of a few ways: it touches no row, takes
a lock, drops one, inserts a row, or commits to a row it has locked. `OthersKeep`
shows once that a database step of these kinds keeps the other requests'
invariants; a lemma per action adds its own. For the refinement, only a commit
shows, and it appends one event whose `Summary` is the abstract log entry.

The refinement shows
that no lead moves back in the pipeline (`LeadsAdvance`), so a state that one
winner entered cannot be entered again (`WinnerInv`). `TrailOfStep` reduces every
action to two cases, the rows and trails untouched or one entry appended by the
commit of its author, and what is told of answers (`ReplyInv`), mails (`MailInv`)
and replays (`MoveChainGrows`, `HandChainGrows`, on any sequence of events) then
has only an append to survive. `ResumeKept` and `NoLeak` say which faults exactly
findings 3 and 4 need: the two properties hold under all others. `MailCurrent` and
`NeverAhead` bound findings 1 and 2, where no fault is to blame: what an assignment has
read had been reached (`ReadInv`), so the entry it writes late is of the past; what a
change refreshes is its own state or one beyond (`CurrentInv`, from `WinnerInv`), so a
mail that is sent twice names the later state.

**Portal and queue.** Because `PortalSpec` and `QueueSpec` imply `Spec`, everything proved
of the service holds in them and can be used: what a form or a page says is shown to
follow from a reply, and what a reply is worth is known. What the service's own
invariants do not say is that a submission that was refused, discarded or failed on
storage never gets a lead (`BarrenInv`: its request is over, without a row).
`FormInv` ties an attempt's message to its request's answer, `OrderInv` adds that only the last attempt of an applicant can still be running, that
whoever was thanked submits no more, which is all `OnlyInDoubt` needs, and that the
message on the form is the last attempt's unless that one left none: finding 6 needs an
attempt whose answer is lost (`Noticed`). `LookInv` says
that the state a reader found has an entry in that lead's trail, now and after any
append. `ClickInv` says that a click's request, from its read to its answer, has the lead and
the target of the button, and `Moved` that the entries it wrote enter that target:
the pipeline has one way into each state, so a successful click moved the row from
the very state it showed.

**Pages.** A page is old as soon as it is shown, so the proofs rest on what cannot become
false. A state that a lead has `Reached` stays reached (`LeadsAdvance`), and `PassedInv`
says that none is passed without its entry in the trail. Every row on a screen
(`ShownInv`), and the row of every click (`PressedInv`), shows a reached state. A button
asks for the one state that follows the row's. When the API refuses it on reading, the
lead is not in the row's state any more; when it refuses at the `UPDATE`, not in the one it
had read, which the target follows too. In both cases the pipeline lets the lead only be
at the target or beyond it, and the trail says so.
`StaleRowGone` is kept by every step because an answer means that the target is reached,
and a page that is rendered after that cannot show the state before it.

`WalkInv` is about places in the list. The rows that a walk has still to show have at
least as many newer rows as its next page's offset, and that number never falls: under
the filter "all" a row once committed stays, and a submission can only add to the rows
before it, also when it commits after rows that were stamped later. A page takes
a full interval of places (`SelectIsWindow`), so what was due at it has been seen when the
attorney turns it; and when the places have run out, nothing is due. The lemmas on
`Newer` (`NewerOrders`, `NewerCounted`) are counted with the library's theorems on finite
sets, for any page size and any number of leads.

**Operations.** `OpsInv` is typing with what start-up established: the settings of a
running process passed the guard. `DoctorInv` is why a clean report lasts: while
`healthy`, every process has the settings of `.env` and nobody's lead is orphaned, and
a process assigns to its own roster only. Both are kept by restarts because a
restart reads the same file.

**Model-checked only.** Liveness (`Answered`, `SuccessIsMailed`, `LetIn`), for fairness and
`ENABLED` are beyond the prover. Every other property of a passing run but
`BucketReady`, a race that two workers show in full, is a theorem; two of them under a condition
that `lead_service_live` meets and the table names (`ResumeKept`, `NoLeak`).

## 5. Not modelled, and what is left

Not modelled, with the reasons `PROJECT.json` gives per component: the migrations
(straight-line schema steps run with the API stopped), `seed` (demo rows, once, in
local use only), logging, health and middleware (no state that a property is about),
presigned URLs and the chunks of a transfer, the wording of mails and pages, and a
Redis behind the limiter. A file left by a process that died after the save, rows
that offset paging skips in a tab that rows leave, and the spread of open leads when two
submissions count at once are known weaknesses that no document denies.

What could follow, in order of weight:

1. the limiter with shared storage, and the budget of the three public endpoints;
2. `seed` beside the public form (an address that came in twice makes it raise);
3. a bound on the spread of open leads over the roster for sequential submissions.
