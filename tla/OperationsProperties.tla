------------------------ MODULE OperationsProperties -------------------------
(***************************************************************************)
(* What holds of a deployment whose configuration changes while it runs.   *)
(***************************************************************************)
EXTENDS Operations

Logs == {"clean", "unreachable", "BucketAlreadyOwnedByYou", "BucketAlreadyExists"}

\* Settings, counters, cookies and owners keep their types, and no cookie outlives
\* its age.  Outside local use no process signs with the placeholder key, and one
\* that lets anybody in with the placeholder password does so for a written-out
\* roster, whose passwords insecure_defaults does not look at (config.py:160).
OpsTypeOK ==
  /\ env \in Settings /\ bucket \in {"none", "ours", "theirs"} /\ healthy \in BOOLEAN
  /\ worker \in [Worker -> {Down} \cup [stage : {"creating", "up"}, settings : Settings, log : Logs]]
  /\ \A w \in Worker : worker[w].stage # "down" /\ ENVIRONMENT # "local" =>
       /\ worker[w].settings.jwt_secret_key # DEV_JWT_SECRET
       /\ placeholder_login(worker[w].settings) => worker[w].settings.attorneys.emails # {}
  /\ hits \in [Worker -> [count : 0..LIMIT, left : 0..(MULTIPLES * GRANULARITY)]]
  /\ \A a \in Browser : cookie[a] # None =>
       cookie[a] \in [key : Key, life : 0..TOKEN_LIFE, age : 1..MAX_AGE]
  /\ page \in [Browser -> {"login", "opening", "queue"}]
  /\ owner \in [Lead -> Attorney \cup {None, "absent"}]

\* s3.py:49: of the workers that find no bucket and all create it, none takes the
\* loss of the race for an error, and none that met no error serves while there
\* is no bucket.  A bucket of another account counts as one, and cannot be used.
BucketReady ==
  \A w \in Worker : Up(w) =>
    /\ worker[w].log \in {"clean", "unreachable"}
    /\ worker[w].log = "clean" => bucket # "none"

\* S1: once every serving process has been restarted since the edit, a page of
\* the queue opens only for those who are on the roster, old tokens or not.
RemovedIsLockedOut ==
  [][\A a \in Browser :
       Current /\ page[a] # "queue" /\ page'[a] = "queue" => a \in roster(env)]_opsVars

\* FR10: when the doctor found no orphaned lead, and every process had the
\* roster it looked at, no lead is orphaned until the next edit.
DoctorIsFinal == healthy => orphaned = {}

\* The processes have read what the .env file holds, and a is on its roster.
Settled(a) == (\A w \in Worker : Up(w) /\ worker[w].settings = env) /\ a \in roster(env)

\* Of the times an attorney is at the login form, an attempt gets past the limiter
\* again and again.  Nothing in the code promises that: all visitors share a window,
\* and others who are first in every one keep an attorney out.
GetsAttempts(a) ==
  []<>(page[a] = "login") => []<><<\E w \in Worker : Login(w, a)>>_opsVars

\* Once the deployment has settled, an attorney whose attempts are let through gets
\* to the queue again and again: no expired, outlived or re-keyed token in his
\* cookie keeps him between the queue and the login form.
LetIn ==
  \A a \in Browser : <>[]Settled(a) /\ GetsAttempts(a) => []<>(page[a] = "queue")
=============================================================================
