-------------------------- MODULE OperationsProofs ---------------------------
(***************************************************************************)
(* Theorems of Operations: for every number of workers, attorneys, leads   *)
(* and settings, and every length of the lifetimes and the window.         *)
(***************************************************************************)
EXTENDS OperationsProperties, TLAPS

USE DeploymentAssumption, SessionAssumption

Window == MULTIPLES * GRANULARITY
Cookies == {None} \cup [key : Key, life : 0..TOKEN_LIFE, age : 1..MAX_AGE]
Process == [stage : {"creating", "up"}, settings : Settings, log : Logs]
Buckets == {"none", "ours", "theirs"}

\* With the cookies as a function: the updates of one browser keep the others.
CookiesOK == cookie \in [Browser -> Cookies]

\* Why a clean bill of health lasts: leads are given by current processes only.
DoctorInv == healthy => orphaned = {} /\ Current

OpsInv == OpsTypeOK /\ CookiesOK /\ DoctorInv

LEMMA WindowType == Window \in Nat \ {0}
  BY DEF Window

\* Settings that may be served with outside local use: no placeholder key, and a
\* placeholder password only on a written-out roster.
Secure(s) ==
  /\ s.jwt_secret_key # DEV_JWT_SECRET
  /\ placeholder_login(s) => s.attorneys.emails # {}

\* A configuration that create_app accepts is such a one.
LEMMA SecureSettings ==
  ASSUME NEW s \in Settings, insecure_defaults(s) = {}, ENVIRONMENT # "local"
  PROVE  Secure(s)
<1>1. "JWT_SECRET_KEY" \notin insecure_defaults(s) /\ "ATTORNEY_PASSWORD" \notin insecure_defaults(s)
  OBVIOUS
<1> QED
  BY <1>1 DEF insecure_defaults, Secure, placeholder_login

\* Nobody but attorneys is on the roster of a process.
LEMMA RosterType == ASSUME NEW s \in Settings PROVE roster(s) \subseteq Attorney
  BY DEF roster, Settings

\* A process that serves has settings.
LEMMA Serving ==
  ASSUME OpsTypeOK, NEW w \in Worker, worker[w].stage # "down"
  PROVE  worker[w] \in Process
  BY DEF OpsTypeOK, Process, Down

-----------------------------------------------------------------------------
(***************************************************************************)
(* What the steps of the parts keep                                        *)
(***************************************************************************)

WorkersOK == worker \in [Worker -> {Down} \cup Process]
HitsOK == hits \in [Worker -> [count : 0..LIMIT, left : 0..Window]]
PagesOK == page \in [Browser -> {"login", "opening", "queue"}]
OwnersOK == owner \in [Lead -> Attorney \cup {None, "absent"}]
NoPlaceholders ==
  \A w \in Worker : worker[w].stage # "down" /\ ENVIRONMENT # "local" => Secure(worker[w].settings)

LEMMA OpsTypeMeans ==
  ASSUME CookiesOK
  PROVE  OpsTypeOK <=> /\ env \in Settings /\ bucket \in Buckets /\ healthy \in BOOLEAN
                       /\ WorkersOK /\ NoPlaceholders /\ HitsOK /\ PagesOK /\ OwnersOK
  BY DEF OpsTypeOK, CookiesOK, Cookies, WorkersOK, NoPlaceholders, HitsOK, PagesOK, OwnersOK,
         Process, Window, Buckets, Secure

DeploymentInv == env \in Settings /\ bucket \in Buckets /\ WorkersOK /\ NoPlaceholders

\* What one process does to itself is right if its new record is.
LEMMA StageKeeps ==
  ASSUME DeploymentInv, NEW w \in Worker, NEW record \in {Down} \cup Process,
         worker' = [worker EXCEPT ![w] = record], env' = env,
         bucket' \in Buckets,
         record.stage # "down" /\ ENVIRONMENT # "local" => Secure(record.settings)
  PROVE  DeploymentInv'
<1>1. /\ WorkersOK' /\ worker'[w] = record
      /\ \A v \in Worker \ {w} : worker'[v] = worker[v]
  BY DEF DeploymentInv, WorkersOK
<1>2. NoPlaceholders'
  BY <1>1 DEF DeploymentInv, NoPlaceholders
<1> QED
  BY <1>1, <1>2 DEF DeploymentInv

LEMMA BootKeeps ==
  ASSUME DeploymentInv, NEW w \in Worker, Boot(w)
  PROVE  DeploymentInv' /\ UNCHANGED env /\ (Current => Current')
<1>1. PICK record \in Process :
        worker' = [worker EXCEPT ![w] = record] /\ record.settings = env
  <2>1. \A stage \in {"creating", "up"}, log \in {"clean", "unreachable"} :
          [stage |-> stage, settings |-> env, log |-> log] \in Process
    BY DEF Process, DeploymentInv, Logs
  <2> QED
    BY <2>1 DEF Boot, Stage
<1>2. insecure_defaults(env) = {} /\ UNCHANGED <<env, bucket>>
  BY DEF Boot
<1>3. DeploymentInv'
  BY <1>1, <1>2, SecureSettings, StageKeeps DEF DeploymentInv
<1> QED
  BY <1>1, <1>2, <1>3 DEF Current, DeploymentInv, WorkersOK

LEMMA CreateBucketKeeps ==
  ASSUME DeploymentInv, NEW w \in Worker, CreateBucket(w)
  PROVE  DeploymentInv' /\ UNCHANGED env /\ (Current => Current')
<1>1. worker[w] \in Process /\ worker[w].stage = "creating"
  BY DEF CreateBucket, DeploymentInv, WorkersOK, Down
<1>2. PICK record \in Process :
        worker' = [worker EXCEPT ![w] = record] /\ record.settings = worker[w].settings
  <2>1. \A log \in Logs : [stage |-> "up", settings |-> worker[w].settings, log |-> log] \in Process
    BY <1>1 DEF Process
  <2>2. "clean" \in Logs /\ "unreachable" \in Logs /\ (~Benign(create_error) => create_error \in Logs)
    BY DEF Logs, Benign, create_error
  <2> QED
    BY <2>1, <2>2 DEF CreateBucket, Stage
<1>3. UNCHANGED env /\ bucket' \in Buckets
  BY DEF CreateBucket, DeploymentInv, Buckets
<1>4. DeploymentInv'
  BY <1>1, <1>2, <1>3, StageKeeps DEF DeploymentInv, NoPlaceholders
<1> QED
  BY <1>1, <1>2, <1>3, <1>4 DEF Current, DeploymentInv, WorkersOK

LEMMA StopKeeps ==
  ASSUME DeploymentInv, NEW w \in Worker, Stop(w)
  PROVE  DeploymentInv' /\ UNCHANGED env /\ (Current => Current')
<1>1. worker' = [worker EXCEPT ![w] = Down] /\ UNCHANGED <<env, bucket>> /\ Down.stage = "down"
  BY DEF Stop, Down
<1>2. DeploymentInv'
  BY <1>1, StageKeeps DEF DeploymentInv
<1> QED
  BY <1>1, <1>2 DEF Current, DeploymentInv, WorkersOK

LEMMA HitKeeps ==
  ASSUME HitsOK, NEW w \in Worker, ~Limited(w), Hit(w)
  PROVE  HitsOK'
<1>1. hits[w] \in [count : 0..LIMIT, left : 0..Window]
  BY DEF HitsOK
<1>2. CASE hits[w].left = 0
  <2>1. [count |-> 1, left |-> Window] \in [count : 0..LIMIT, left : 0..Window]
    BY WindowType
  <2>2. hits' = [hits EXCEPT ![w] = [count |-> 1, left |-> Window]]
    BY <1>2 DEF Hit, Window
  <2> QED
    BY <2>1, <2>2 DEF HitsOK
<1>3. CASE hits[w].left # 0
  <2> DEFINE more == [hits[w] EXCEPT !.count = @ + 1]
  <2>1. more \in [count : 0..LIMIT, left : 0..Window]
    BY <1>1, <1>3, WindowType DEF Limited
  <2>2. hits' = [hits EXCEPT ![w] = more]
    BY <1>3 DEF Hit
  <2> HIDE DEF more
  <2> QED
    BY <2>1, <2>2 DEF HitsOK
<1> QED
  BY <1>2, <1>3

LEMMA TickKeeps ==
  ASSUME HitsOK, CookiesOK, Tick
  PROVE  HitsOK' /\ CookiesOK'
<1>1. ASSUME NEW w \in Worker
      PROVE  (IF hits[w].left <= 1 THEN [count |-> 0, left |-> 0]
              ELSE [hits[w] EXCEPT !.left = @ - 1]) \in [count : 0..LIMIT, left : 0..Window]
  BY WindowType DEF HitsOK
<1>2. ASSUME NEW a \in Browser
      PROVE  (IF cookie[a] = None \/ cookie[a].age = 1 THEN None
              ELSE [cookie[a] EXCEPT !.life = Less(@), !.age = @ - 1]) \in Cookies
  <2>1. CASE cookie[a] = None \/ cookie[a].age = 1
    BY <2>1 DEF Cookies
  <2>2. CASE ~(cookie[a] = None \/ cookie[a].age = 1)
    <3>1. cookie[a] \in [key : Key, life : 0..TOKEN_LIFE, age : 1..MAX_AGE]
      BY <2>2 DEF CookiesOK, Cookies
    <3>2. Less(cookie[a].life) \in 0..TOKEN_LIFE /\ cookie[a].age - 1 \in 1..MAX_AGE
      BY <2>2, <3>1 DEF Less
    <3>3. [cookie[a] EXCEPT !.life = Less(@), !.age = @ - 1]
            \in [key : Key, life : 0..TOKEN_LIFE, age : 1..MAX_AGE]
      BY <3>1, <3>2
    <3> QED
      BY <2>2, <3>3 DEF Cookies
  <2> QED
    BY <2>1, <2>2
<1>3. HitsOK'
  BY <1>1 DEF Tick, HitsOK
<1>4. CookiesOK'
  BY <1>2 DEF Tick, CookiesOK
<1> QED
  BY <1>3, <1>4

\* Signing in: the counter, the cookie and the page.
LEMMA LoginKeeps ==
  ASSUME DeploymentInv, HitsOK, CookiesOK, PagesOK,
         NEW w \in Worker, NEW a \in Browser, Login(w, a)
  PROVE  HitsOK' /\ CookiesOK' /\ PagesOK'
<1>1. HitsOK'
  BY HitKeeps DEF Login
<1>2. worker[w] \in Process
  BY DEF Login, Up, DeploymentInv, WorkersOK, Down
<1>3. [key |-> worker[w].settings.jwt_secret_key, life |-> TOKEN_LIFE, age |-> MAX_AGE] \in Cookies
  BY <1>2 DEF Cookies, Process, Settings
<1>4. CookiesOK'
  BY <1>3 DEF Login, CookiesOK
<1>5. PagesOK'
  BY DEF Login, PagesOK
<1> QED
  BY <1>1, <1>4, <1>5

\* Leads that a current process gives away are not orphaned.
LEMMA GivenKeeps ==
  ASSUME DeploymentInv, OwnersOK, DoctorInv, NEW w \in Worker, Up(w), NEW l \in Lead,
         NEW target \in roster(worker[w].settings) \cup {None},
         owner' = [owner EXCEPT ![l] = target], UNCHANGED <<deployment, healthy>>
  PROVE  OwnersOK' /\ DoctorInv'
<1>1. worker[w] \in Process
  BY DEF Up, DeploymentInv, WorkersOK, Down
<1>2. roster(worker[w].settings) \subseteq Attorney
  BY <1>1, RosterType DEF Process
<1>3. OwnersOK'
  BY <1>2 DEF OwnersOK
<1>4. ASSUME healthy PROVE (orphaned = {})' /\ Current'
  <2>1. Current /\ orphaned = {} /\ worker[w].settings = env
    BY <1>4 DEF DoctorInv, Current, Up
  <2>2. Current'
    BY <2>1 DEF Current, deployment
  <2>3. \A k \in Lead : owner'[k] \in roster(env) \cup {"absent", None}
    BY <2>1 DEF orphaned, OwnersOK
  <2>4. env' = env
    BY DEF deployment
  <2> QED
    BY <2>2, <2>3, <2>4 DEF orphaned, roster
<1> QED
  BY <1>3, <1>4 DEF DoctorInv

-----------------------------------------------------------------------------
LEMMA InitOps == OpsInit => OpsInv
<1> SUFFICES ASSUME OpsInit PROVE OpsInv
  OBVIOUS
<1>1. env \in Settings /\ bucket \in Buckets /\ healthy = FALSE /\ WorkersOK
  BY DEF OpsInit, DeploymentInit, WorkersOK, Buckets
<1>2. NoPlaceholders
  BY DEF OpsInit, DeploymentInit, NoPlaceholders, Down
<1>3. HitsOK /\ CookiesOK /\ PagesOK /\ OwnersOK
  BY WindowType DEF OpsInit, SessionInit, HitsOK, CookiesOK, Cookies, PagesOK, OwnersOK
<1> QED
  BY <1>1, <1>2, <1>3, OpsTypeMeans DEF OpsInv, DoctorInv

LEMMA OpsKeeps == OpsInv /\ [OpsNext]_opsVars => OpsInv'
<1> SUFFICES ASSUME OpsInv, [OpsNext]_opsVars PROVE OpsInv'
  OBVIOUS
<1> DEFINE Parts == /\ DeploymentInv /\ healthy \in BOOLEAN /\ HitsOK /\ CookiesOK
                    /\ PagesOK /\ OwnersOK /\ DoctorInv
<1>1. Parts
  BY OpsTypeMeans DEF OpsInv, DeploymentInv
<1> SUFFICES Parts'
  BY DEF OpsInv, OpsTypeOK, CookiesOK, Cookies, WorkersOK, NoPlaceholders, HitsOK, PagesOK,
       OwnersOK, Process, Window, DeploymentInv, Buckets, Secure
<1>2. CASE Edit /\ healthy' = FALSE /\ UNCHANGED <<session, owner>>
  BY <1>1, <1>2 DEF Edit, session, DeploymentInv, WorkersOK, NoPlaceholders, Up,
       HitsOK, CookiesOK, PagesOK, OwnersOK, DoctorInv
<1>3. ASSUME NEW w \in Worker, Boot(w) \/ CreateBucket(w) \/ Stop(w),
             Restarted(w) \/ UNCHANGED hits, UNCHANGED <<cookie, page, owner, healthy>>
      PROVE  Parts'
  <2>1. DeploymentInv' /\ UNCHANGED env /\ (Current => Current')
    BY <1>1, <1>3, BootKeeps, CreateBucketKeeps, StopKeeps
  <2>2. HitsOK'
    BY <1>1, <1>3, WindowType DEF HitsOK, Restarted
  <2>3. DoctorInv'
    BY <1>1, <1>3, <2>1 DEF DoctorInv, orphaned, roster
  <2> QED
    BY <1>1, <1>3, <2>1, <2>2, <2>3 DEF CookiesOK, PagesOK, OwnersOK
<1>4. ASSUME UNCHANGED <<deployment, owner>>, UNCHANGED healthy, HitsOK', CookiesOK', PagesOK'
      PROVE  Parts'
  BY <1>1, <1>4 DEF deployment, DeploymentInv, WorkersOK, NoPlaceholders, Up,
       OwnersOK, DoctorInv, orphaned, roster, Current
<1>5. ASSUME NEW w \in Worker, OtherLogin(w), UNCHANGED <<owner, healthy>> PROVE Parts'
  <2>1. HitsOK'
    BY <1>1, <1>5, HitKeeps DEF OtherLogin
  <2> QED
    BY <1>1, <1>4, <1>5, <2>1 DEF OtherLogin, CookiesOK, PagesOK
<1>6. ASSUME NEW w \in Worker, NEW l \in Lead, Up(w), UNCHANGED <<deployment, session, healthy>>,
             NEW target \in roster(worker[w].settings) \cup {None},
             owner' = [owner EXCEPT ![l] = target]
      PROVE  Parts'
  <2>1. OwnersOK' /\ DoctorInv'
    BY <1>1, <1>6, GivenKeeps
  <2> QED
    BY <1>1, <1>6, <2>1 DEF deployment, session, DeploymentInv, WorkersOK, NoPlaceholders,
         Up, HitsOK, CookiesOK, PagesOK
<1>7. ASSUME NEW w \in Worker, NEW l \in Lead, Intake(w, l) PROVE Parts'
  <2>1. PICK target \in roster(worker[w].settings) \cup {None} : owner' = [owner EXCEPT ![l] = target]
    BY <1>7 DEF Intake, roster
  <2> QED
    BY <1>6, <1>7, <2>1 DEF Intake
<1>8. ASSUME NEW w \in Worker, NEW a \in Browser, NEW l \in Lead, Assign(w, a, l) PROVE Parts'
  <2>1. PICK target \in roster(worker[w].settings) \cup {None} : owner' = [owner EXCEPT ![l] = target]
    BY <1>8 DEF Assign
  <2> QED
    BY <1>6, <1>8, <2>1 DEF Assign
<1>9. ASSUME NEW a \in Browser, Attend(a) \/ Logout(a), UNCHANGED <<owner, healthy>> PROVE Parts'
  <2>1. CASE \E w \in Worker : Login(w, a)
    <3>1. PICK w \in Worker : Login(w, a)
      BY <2>1
    <3>2. HitsOK' /\ CookiesOK' /\ PagesOK'
      BY <1>1, <3>1, LoginKeeps
    <3> QED
      BY <1>4, <1>9, <3>1, <3>2 DEF Login
  <2>2. CASE Turned(a) \/ Visit(a) \/ \E w \in Worker : Opened(w, a)
    <3>1. UNCHANGED <<deployment, hits, cookie>>
      BY <2>2 DEF Turned, Visit, Opened
    <3>2. PagesOK'
      BY <1>1, <2>2 DEF Turned, Visit, Opened, PagesOK
    <3> QED
      BY <1>1, <1>4, <1>9, <3>1, <3>2 DEF HitsOK, CookiesOK
  <2>3. CASE Logout(a)
    <3>1. CookiesOK' /\ PagesOK'
      BY <1>1, <2>3 DEF Logout, CookiesOK, Cookies, PagesOK
    <3> QED
      BY <1>1, <1>4, <1>9, <2>3, <3>1 DEF Logout, HitsOK
  <2> QED
    BY <1>9, <2>1, <2>2, <2>3 DEF Attend
<1>10. CASE Tick /\ UNCHANGED <<owner, healthy>>
  <2>1. HitsOK' /\ CookiesOK'
    BY <1>1, <1>10, TickKeeps
  <2> QED
    BY <1>1, <1>4, <1>10, <2>1 DEF Tick, PagesOK
<1>11. CASE Doctor
  BY <1>1, <1>11 DEF Doctor, deployment, session, DeploymentInv, WorkersOK, NoPlaceholders,
       Up, HitsOK, CookiesOK, PagesOK, OwnersOK, DoctorInv, orphaned, roster, Current
<1>12. CASE UNCHANGED opsVars
  BY <1>1, <1>4, <1>12 DEF opsVars, session, HitsOK, CookiesOK, PagesOK
<1> QED
  BY <1>2, <1>3, <1>5, <1>7, <1>8, <1>9, <1>10, <1>11, <1>12 DEF OpsNext, session

LEMMA Operating == OpsSpec => []OpsInv
  BY InitOps, OpsKeeps, PTL DEF OpsSpec

-----------------------------------------------------------------------------
\* Settings, processes, counters, cookies and owners keep their types; outside
\* local use no process signs with the placeholder key, and none lets anybody in
\* with the placeholder password but for a roster that says so itself.
THEOREM OpsTypes == OpsSpec => []OpsTypeOK
<1>1. OpsInv => OpsTypeOK
  BY DEF OpsInv
<1> QED
  BY <1>1, Operating, PTL

\* A clean report of the doctor with every process current holds until an edit.
THEOREM DoctorFinal == OpsSpec => []DoctorIsFinal
<1>1. OpsInv => DoctorIsFinal
  BY DEF OpsInv, DoctorInv, DoctorIsFinal
<1> QED
  BY <1>1, Operating, PTL

\* Once every process has read the roster, an attorney who was taken off it
\* never gets to the queue, whatever token is in the cookie.
THEOREM LockedOut == OpsSpec => RemovedIsLockedOut
<1> DEFINE Step == \A a \in Browser :
      Current /\ page[a] # "queue" /\ page'[a] = "queue" => a \in roster(env)
<1>1. ASSUME OpsInv, [OpsNext]_opsVars PROVE [Step]_opsVars
  <2> SUFFICES ASSUME NEW a \in Browser, Current, page[a] # "queue", page'[a] = "queue"
      PROVE  a \in roster(env)
    OBVIOUS
  <2>1. PagesOK
    BY <1>1, OpsTypeMeans DEF OpsInv
  <2>2. ~UNCHANGED page
    OBVIOUS
  <2>3. PICK b \in Browser : Attend(b) \/ Logout(b)
    BY <1>1, <2>2 DEF OpsNext, opsVars, session, Intake, Assign, Doctor, OtherLogin, Tick
  <2>4. PICK w \in Worker : Opened(w, b) /\ b = a
    BY <2>1, <2>3 DEF Attend, Turned, Visit, Login, Opened, Logout, PagesOK
  <2>5. a \in roster(worker[w].settings) /\ Up(w)
    BY <2>1, <2>4 DEF Opened, current_attorney, PagesOK
  <2> QED
    BY <2>5 DEF Current, Up
<1> QED
  BY <1>1, Operating, PTL DEF OpsSpec, RemovedIsLockedOut
=============================================================================
