--------------------------- MODULE AttorneySession ---------------------------
(***************************************************************************)
(* Signing in and staying signed in: the login route and its limiter, the  *)
(* signed token, the cookie around it and the pages it opens, while the    *)
(* workers behind it are restarted with other rosters and keys.  Time is   *)
(* kept as what is left of every lifetime.                                 *)
(***************************************************************************)
EXTENDS Deployment

CONSTANTS Browser,               \* the attorneys with a browser
          TOKEN_LIFE,            \* access_token_expire_minutes
          MAX_AGE,               \* MAX_AGE_SECONDS of the cookie
          LIMIT,                 \* rate_limit_login: LIMIT per
          MULTIPLES, GRANULARITY \*   MULTIPLES units of GRANULARITY

ASSUME SessionAssumption ==
  /\ Browser \subseteq Attorney
  /\ TOKEN_LIFE \in Nat \ {0} /\ MAX_AGE \in Nat \ {0}
  /\ LIMIT \in Nat \ {0} /\ MULTIPLES \in Nat \ {0} /\ GRANULARITY \in Nat \ {0}

VARIABLES hits,    \* worker -> [count, left]: its counter of login attempts
          cookie,  \* browser -> the token in it: [key, life, age], or None
          page     \* browser -> the page it is on

session == <<hits, cookie, page>>

\* Mutant of current_attorney: a valid signature is enough.
current_attorney_SignedOnly(w, a) ==
  /\ cookie[a] # None /\ cookie[a].life > 0
  /\ cookie[a].key = worker[w].settings.jwt_secret_key

\* What a process makes of a browser's token: its signature, its age, and
\* whether its subject is on the roster this process was started with.
current_attorney(w, a) ==
  /\ cookie[a] # None /\ cookie[a].life > 0
  /\ cookie[a].key = worker[w].settings.jwt_secret_key
  /\ a \in roster(worker[w].settings)

SessionInit ==
  /\ hits = [w \in Worker |-> [count |-> 0, left |-> 0]]
  /\ cookie = [a \in Browser |-> None]
  /\ page = [a \in Browser |-> "login"]

-----------------------------------------------------------------------------
(***************************************************************************)
(* The limiter of POST /auth/login: a fixed window that begins with its    *)
(* first attempt, in each process, and keyed by the caller's address, which*)
(* is that of the web server for everybody who signs in.                   *)
(***************************************************************************)

Limited(w) == hits[w].left > 0 /\ hits[w].count >= LIMIT

Hit(w) ==
  hits' = [hits EXCEPT ![w] =
    IF hits[w].left = 0 THEN [count |-> 1, left |-> MULTIPLES * GRANULARITY]
    ELSE [hits[w] EXCEPT !.count = @ + 1]]

\* Someone else's attempt, through the same web server.
OtherLogin(w) ==
  /\ Up(w) /\ ~Limited(w)
  /\ Hit(w)
  /\ UNCHANGED <<deployment, cookie, page>>

-----------------------------------------------------------------------------
(***************************************************************************)
(* The browser of an attorney                                              *)
(***************************************************************************)

\* The login form, its route handler and the API's login: a refusal leaves the
\* form with its message, a token goes into the cookie and the queue is opened.
Login(w, a) ==
  /\ page[a] = "login" /\ Up(w) /\ ~Limited(w)
  /\ Hit(w)
  /\ IF a \in roster(worker[w].settings)
     THEN /\ cookie' = [cookie EXCEPT ![a] = [key |-> worker[w].settings.jwt_secret_key,
                                              life |-> TOKEN_LIFE, age |-> MAX_AGE]]
          /\ page' = [page EXCEPT ![a] = "opening"]
     ELSE UNCHANGED <<cookie, page>>
  /\ UNCHANGED deployment

\* The middleware and the layout send a browser without a cookie to the login.
Turned(a) ==
  /\ page[a] = "opening" /\ cookie[a] = None
  /\ page' = [page EXCEPT ![a] = "login"]
  /\ UNCHANGED <<deployment, hits, cookie>>

\* Mutant of Opened: a 401 makes the page try again with the cookie it has.
Opened_Retries(w, a) ==
  /\ page[a] = "opening" /\ cookie[a] # None /\ Up(w)
  /\ page' = [page EXCEPT ![a] = IF current_attorney(w, a) THEN "queue" ELSE @]
  /\ UNCHANGED <<deployment, hits, cookie>>

\* With a cookie the API decides, and a 401 sends the browser there as well.
Opened(w, a) ==
  /\ page[a] = "opening" /\ cookie[a] # None /\ Up(w)
  /\ page' = [page EXCEPT ![a] = IF current_attorney(w, a) THEN "queue" ELSE "login"]
  /\ UNCHANGED <<deployment, hits, cookie>>

\* A click, a reload, or the address of the queue typed in.
Visit(a) ==
  /\ page[a] # "opening"
  /\ page' = [page EXCEPT ![a] = "opening"]
  /\ UNCHANGED <<deployment, hits, cookie>>

Logout(a) ==
  /\ page[a] = "queue"
  /\ cookie' = [cookie EXCEPT ![a] = None]
  /\ page' = [page EXCEPT ![a] = "login"]
  /\ UNCHANGED <<deployment, hits>>

-----------------------------------------------------------------------------
Less(n) == IF n = 0 THEN 0 ELSE n - 1

\* A unit of time, longer than the opening of a page takes.
Tick ==
  /\ \A a \in Browser : page[a] # "opening"
  /\ hits' = [w \in Worker |->
       IF hits[w].left <= 1 THEN [count |-> 0, left |-> 0]
       ELSE [hits[w] EXCEPT !.left = @ - 1]]
  /\ cookie' = [a \in Browser |->
       IF cookie[a] = None \/ cookie[a].age = 1 THEN None
       ELSE [cookie[a] EXCEPT !.life = Less(@), !.age = @ - 1]]
  /\ UNCHANGED <<deployment, page>>

\* A worker that starts again has counted nothing yet.
Restarted(w) ==
  hits' = [hits EXCEPT ![w] = [count |-> 0, left |-> 0]]

Attend(a) ==
  Turned(a) \/ Visit(a) \/ \E w \in Worker : Login(w, a) \/ Opened(w, a)
=============================================================================
