----------------------------- MODULE Deployment ------------------------------
(***************************************************************************)
(* The API's worker processes and the configuration they run with.  An     *)
(* operator edits the .env file at any time; a worker reads it once, when  *)
(* it starts (get_settings and get_attorney_directory are cached for the   *)
(* life of the process), after checking it and preparing the bucket.       *)
(***************************************************************************)
EXTENDS Naturals, FiniteSets

CONSTANTS Worker,         \* the worker processes
          Attorney,       \* addresses that may be on the roster
          Fallback,       \* attorney_email, the account of an empty roster
          Key,            \* values of JWT_SECRET_KEY
          DEV_JWT_SECRET, \* the placeholder among them
          ENVIRONMENT,
          Rosters,        \* the values of ATTORNEYS an operator writes: who is on it, and
                          \*   whether somebody there has the placeholder password
          None

ASSUME DeploymentAssumption ==
  /\ Fallback \in Attorney /\ DEV_JWT_SECRET \in Key /\ None \notin Attorney
  /\ ENVIRONMENT \in {"local", "production"} /\ \A value \in Rosters : value \in [emails : SUBSET Attorney, placeholder : BOOLEAN]

VARIABLES env,     \* the settings an edit has left in .env
          worker,  \* worker -> [stage, settings, log], Down while it is stopped
          bucket   \* who owns the bucket of that name: nobody, this account or another

deployment == <<env, worker, bucket>>

Settings == [attorneys : Rosters, jwt_secret_key : Key,
             attorney_password : {"placeholder", "real"}]

\* Everyone who can sign in.
roster(settings) ==
  IF settings.attorneys.emails = {} THEN {Fallback} ELSE settings.attorneys.emails

\* One of them can with the placeholder.
placeholder_login(settings) ==
  IF settings.attorneys.emails = {} THEN settings.attorney_password = "placeholder"
  ELSE settings.attorneys.placeholder

\* Mutant of insecure_defaults: the second placeholder is not looked at.
insecure_defaults_KeyOnly(settings) ==
  {p \in {"JWT_SECRET_KEY"} :
     ENVIRONMENT # "local" /\ settings.jwt_secret_key = DEV_JWT_SECRET}

insecure_defaults(settings) ==
  {p \in {"JWT_SECRET_KEY", "ATTORNEY_PASSWORD"} :
     /\ ENVIRONMENT # "local"
     /\ p = "JWT_SECRET_KEY" => settings.jwt_secret_key = DEV_JWT_SECRET
     /\ p = "ATTORNEY_PASSWORD" => settings.attorney_password = "placeholder"}

Down == [stage |-> "down", settings |-> None, log |-> "clean"]

Up(w) == worker[w].stage = "up"

\* Every process, also one that is still starting, has read what .env holds now.
Current == \A w \in Worker : worker[w].stage # "down" => worker[w].settings = env

DeploymentInit ==
  /\ env \in {s \in Settings : insecure_defaults(s) = {}}
  /\ worker = [w \in Worker |-> Down]
  /\ bucket \in {"none", "ours", "theirs"}

\* The operator changes a line of .env.
Edit ==
  /\ \E line \in DOMAIN env :
       env' \in {s \in Settings \ {env} : \A other \in DOMAIN s \ {line} : s[other] = env[other]}
  /\ UNCHANGED <<worker, bucket>>

Stage(w, stage, settings, log) ==
  worker' = [worker EXCEPT ![w] = [stage |-> stage, settings |-> settings, log |-> log]]

\* create_app refuses placeholders; then the lifespan's ensure_bucket begins
\* with head_bucket, and a 404 (nobody's) or 403 (another account's) is followed by
\* a second call.  Any other error is logged, and the worker serves all the same.
Boot(w) ==
  /\ worker[w].stage = "down" /\ insecure_defaults(env) = {}
  /\ \/ Stage(w, IF bucket = "ours" THEN "up" ELSE "creating", env, "clean")
     \/ Stage(w, "up", env, "unreachable")
  /\ UNCHANGED <<env, bucket>>

\* What create_bucket answers by then.
create_error ==
  CASE bucket = "ours" -> "BucketAlreadyOwnedByYou" [] bucket = "theirs" -> "BucketAlreadyExists"
    [] OTHER -> "none"

\* Mutant of Benign: the loser of the race to create the bucket raises.
Benign_NotOurs(code) == code \in {"none", "BucketAlreadyExists"}

\* The answers that ensure_bucket does not raise for.
Benign(code) == code \in {"none", "BucketAlreadyOwnedByYou", "BucketAlreadyExists"}

\* The second call, which another worker may have made first.  What is raised is
\* logged, and the worker serves.
CreateBucket(w) ==
  /\ worker[w].stage = "creating"
  /\ \/ /\ Stage(w, "up", worker[w].settings, IF Benign(create_error) THEN "clean" ELSE create_error)
        /\ bucket' = IF bucket = "none" THEN "ours" ELSE bucket
     \/ Stage(w, "up", worker[w].settings, "unreachable") /\ UNCHANGED bucket
  /\ UNCHANGED env

Stop(w) ==
  /\ worker[w].stage # "down"
  /\ worker' = [worker EXCEPT ![w] = Down]
  /\ UNCHANGED <<env, bucket>>
=============================================================================
