---------------------------- MODULE AuthSessions ----------------------------
(***************************************************************************)
(* Signing in to the dashboard, staying signed in and signing out: the     *)
(* sessions and rate_limits tables (packages/db, auth.ts), the gate in     *)
(* front of the API (middleware/auth.ts), login and logout                 *)
(* (api/routes/auth.ts), the nightly sweep (scheduler.ts), and what one    *)
(* browser makes of the answers: its cookie and the state of its page      *)
(* (apps/web/src/auth/session.tsx).                                        *)
(*                                                                         *)
(* The page has several requests in flight; each is answered on its own,   *)
(* in any order, or never.  An abandoned request (its connection broke, or *)
(* the page was reloaded) may still be executed by the server.             *)
(*                                                                         *)
(* Time is kept as what is left of a lifetime, or as an age.  A tick is    *)
(* long beside a query, so a handler that reads the clock and the          *)
(* statement it passes the reading to are one step.                        *)
(*                                                                         *)
(* A definition whose name ends in _M is the one after it with a plausible *)
(* bug put in; it is used only to see that a property notices the bug.     *)
(***************************************************************************)
EXTENDS Integers, Functions

CONSTANTS
  Ids,        \* session ids; a login takes one that was never used
  Slots,      \* bound: the requests of the page in flight at once
  None,       \* no row, no cookie, no user, no id
  Ttl,        \* SESSION_TTL_HOURS, in ticks: of the row and of the cookie
  Limit,      \* the rate limiter's limit
  Window,     \* and its window, in ticks
  Retention,  \* RATE_LIMIT_RETENTION_MS, in ticks
  MaxReloads  \* bound: how often the page is loaded again

ASSUME AuthAssumption ==
  /\ None \notin Ids
  /\ None \notin [age : Nat, count : Nat]
  /\ Ttl \in Nat \ {0}
  /\ Limit \in Nat \ {0}
  /\ Window \in Nat \ {0}
  /\ Retention \in Nat
  /\ Retention >= Window
  /\ MaxReloads \in Nat

VARIABLES
  row,        \* sessions: what is left of each row's lifetime; None: no row
  created,    \* the ids handed out so far
  window,     \* rate_limits: the row of the one client key
  jar,        \* the browser's cookie
  status,     \* SessionProvider's status
  user,       \* SessionProvider's user: the session its answer came from
  request,    \* the page's requests
  reloads,    \* reloads so far, counted only to bound the model
  spent,      \* history: attempts within the limit, by their age
  loggedOut,  \* history: the sessions whose logout the page saw confirmed
  astray      \* history: the last cookie re-issued for the jar's session was lost

vars == <<row, created, window, jar, status, user, request, reloads, spent,
          loggedOut, astray>>

page == <<status, user>>
tables == <<row, created, window>>
history == <<spent, loggedOut, astray>>

Idle == [stage |-> "idle"]

\* A request of the page.  `id` is the cookie it was sent with, or the session a
\* login has made.  `heard` says that the page still waits for it.
Request(kind, stage, id) ==
  [kind |-> kind, stage |-> stage, id |-> id, heard |-> TRUE]

\* The requests createApp puts behind requireAdmin.
Guarded == {"me", "query"}

Kinds == Guarded \cup {"login", "logout"}

Answers == {"ok", "unauthorized", "failed"}

Requests ==
  [kind : Kinds, stage : {"sent", "checking"} \cup Answers,
   id : Ids \cup {None}, heard : BOOLEAN]

Live(id) == id # None /\ row[id] # None /\ row[id] > 0

\* The cookie the browser attaches.
Cookie == IF jar = None THEN None ELSE jar.id

\* The slots whose request, of one of the given kinds, the page waits for.
Awaiting(kinds) ==
  {s \in Slots : request[s] # Idle /\ request[s].heard
                 /\ request[s].kind \in kinds}

At(s, kinds, stage) ==
  request[s] # Idle /\ request[s].kind \in kinds /\ request[s].stage = stage

\* An answer on its way that re-issues the cookie the browser has.
ReissuesJar(s) == At(s, Guarded, "ok") /\ request[s].id = Cookie

Answer(s, code) ==
  request' = [request EXCEPT ![s].stage = code]

-----------------------------------------------------------------------------
(* The page: session.tsx, login.tsx, __root.tsx.                            *)

\* Mounting the page asks for /api/auth/me.
Init ==
  /\ row = [i \in Ids |-> None]
  /\ created = {}
  /\ window = None
  /\ jar = None
  /\ status = "loading"
  /\ user = None
  /\ \E s \in Slots : request = [r \in Slots |->
       IF r = s THEN Request("me", "sent", None) ELSE Idle]
  /\ reloads = 0
  /\ spent = [a \in 0 .. Window - 1 |-> 0]
  /\ loggedOut = {}
  /\ astray = FALSE

Send(s, kind) ==
  /\ request[s] = Idle
  /\ request' = [request EXCEPT ![s] = Request(kind, "sent", Cookie)]
  /\ UNCHANGED <<tables, jar, page, reloads, history>>

\* A screen behind the gate fetches something through `unwrap`.
Query(s) ==
  /\ status = "authenticated"
  /\ Send(s, "query")

\* The login form, which exists on /login only and is disabled while it is
\* submitting.
Login(s) ==
  /\ status = "anonymous"
  /\ Awaiting({"login", "me"}) = {}
  /\ Send(s, "login")

\* The shell with the logout button is also there while loading.
Logout_M(s) ==
  /\ status \in {"authenticated", "loading"}
  /\ Awaiting({"logout"}) = {}
  /\ Send(s, "logout")

\* The logout button of the shell, which RootComponent renders for nobody but an
\* authenticated visitor; one logout at a time.
Logout(s) ==
  /\ status = "authenticated"
  /\ Awaiting({"logout"}) = {}
  /\ Send(s, "logout")

\* The page is loaded again: what it waited for is abandoned, and it asks who is
\* signed in.
Reload(s) ==
  /\ reloads < MaxReloads
  /\ request[s] = Idle
  /\ reloads' = reloads + 1
  /\ status' = "loading"
  /\ user' = None
  /\ request' = [r \in Slots |->
       IF r = s THEN Request("me", "sent", Cookie)
       ELSE IF request[r] = Idle THEN Idle
       ELSE [request[r] EXCEPT !.heard = FALSE]]
  /\ UNCHANGED <<tables, jar, history>>

\* setState.
Show(newStatus, newUser) ==
  /\ status' = newStatus
  /\ user' = newUser

-----------------------------------------------------------------------------
(* The gate: requireAdmin and selectLiveSession.                            *)

\* An upsert, in place of the UPDATE that touches a live row only.
Slide_M(id) == [row EXCEPT ![id] = Ttl]

\* selectLiveSession's UPDATE.
Slide(id) == IF Live(id) THEN [row EXCEPT ![id] = Ttl] ELSE row

\* requireAdmin: no cookie or no live row is a 401; a live row slides, and the
\* answer re-issues the cookie whatever becomes of the handler behind the gate.
RequireAdmin(s) ==
  /\ At(s, Guarded, "sent")
  /\ IF request[s].id = None
       THEN UNCHANGED row
       ELSE row' = Slide(request[s].id)
  /\ Answer(s, IF Live(request[s].id) THEN "ok" ELSE "unauthorized")
  /\ UNCHANGED <<created, window, jar, page, reloads, history>>

\* The query rejects, and app.onError answers 500.
RequireAdminFails(s) ==
  /\ At(s, Guarded, "sent")
  /\ request[s].id # None
  /\ Answer(s, "failed")
  /\ UNCHANGED <<tables, jar, page, reloads, history>>

-----------------------------------------------------------------------------
(* POST /api/auth/login.                                                    *)

\* Every attempt opens the window anew.
Bumped_M ==
  IF window = None \/ (window # None /\ window.age >= Window)
    THEN [age |-> 0, count |-> 1]
    ELSE [age |-> 0,
          count |-> IF window.count > Limit THEN window.count
                    ELSE window.count + 1]

\* bumpRateLimit: a window that has aged out starts again, another counts on
\* without moving.  The count stops one above the limit, where no comparison
\* tells more.
Bumped ==
  IF window = None \/ (window # None /\ window.age >= Window)
    THEN [age |-> 0, count |-> 1]
    ELSE [window EXCEPT !.count = IF @ > Limit THEN @ ELSE @ + 1]

\* An attempt counted by the limiter.
Attempt ==
  /\ window' = Bumped
  /\ spent' = [spent EXCEPT ![0] = IF Bumped.count <= Limit THEN @ + 1 ELSE @]

\* createRateLimiter: the answer decides, and if there is none (with the attempt
\* counted or not) the check fails closed.
CheckRateLimit(s) ==
  /\ At(s, {"login"}, "sent")
  /\ \/ /\ Attempt
        /\ Answer(s, IF Bumped.count <= Limit THEN "checking" ELSE "failed")
     \/ /\ Attempt \/ UNCHANGED <<window, spent>>
        /\ Answer(s, "failed")
  /\ UNCHANGED <<row, created, jar, page, reloads, loggedOut, astray>>

\* Somebody else attempts a login under the same client key.
AttemptElsewhere ==
  /\ Attempt
  /\ UNCHANGED <<row, created, jar, page, request, reloads, loggedOut, astray>>

\* How a login ends without a session: Jellyfin rejects the credentials (401), or
\* is unreachable, or answers something unexpected (503), or the account is not an
\* administrator's (403), the body is malformed (400) or a query rejects (500).
Refusals == {"unauthorized", "failed"}

\* The body is parsed, the fallback account compared, Jellyfin asked and its
\* token revoked.  An administrator gets a session (sessions.create: a random id,
\* which no other session has); anybody else is refused.
Authenticate(s) ==
  /\ At(s, {"login"}, "checking")
  /\ \/ \E code \in Refusals :
          /\ Answer(s, code)
          /\ UNCHANGED <<row, created>>
     \/ \E id \in Ids \ created :
          /\ created' = created \cup {id}
          /\ row' = [row EXCEPT ![id] = Ttl]
          /\ request' = [request EXCEPT ![s] =
               [kind |-> "login", stage |-> "ok", id |-> id, heard |-> @.heard]]
  /\ UNCHANGED <<window, jar, page, reloads, history>>

-----------------------------------------------------------------------------
(* POST /api/auth/logout.                                                   *)

\* The cookie is cleared and the row left to expire.
Destroy_M(s) ==
  /\ At(s, {"logout"}, "sent")
  /\ Answer(s, "ok")
  /\ UNCHANGED <<tables, jar, page, reloads, history>>

Destroy(s) ==
  /\ At(s, {"logout"}, "sent")
  /\ row' = [i \in Ids |-> IF i = request[s].id THEN None ELSE row[i]]
  /\ Answer(s, "ok")
  /\ UNCHANGED <<created, window, jar, page, reloads, history>>

\* The delete rejects: 500, and the cookie is left alone.
DestroyFails(s) ==
  /\ At(s, {"logout"}, "sent")
  /\ request[s].id # None
  /\ Answer(s, "failed")
  /\ UNCHANGED <<tables, jar, page, reloads, history>>

-----------------------------------------------------------------------------
(* Answers.                                                                 *)

\* /api/auth/me reads the session store and leaves the cookie as login set it.
JarAfter_M(r) ==
  IF r.stage # "ok" \/ r.kind = "me" THEN jar
  ELSE IF r.kind = "logout" THEN None
  ELSE [id |-> r.id, left |-> Ttl]

\* Every answer re-issues the cookie it was asked with, a logout's too.
JarAfterAlways_M(r) ==
  IF r.stage # "ok" THEN jar ELSE [id |-> r.id, left |-> Ttl]

\* writeSessionCookie and deleteCookie: an answer of the gate or of a login sets
\* the cookie, one of a logout clears it, and others leave it.
JarAfter(r) ==
  IF r.stage # "ok" THEN jar
  ELSE IF r.kind = "logout" THEN None
  ELSE [id |-> r.id, left |-> Ttl]

\* notifyUnauthorized: SessionProvider is its only listener.
NotifyUnauthorized == Show("anonymous", None)

\* What the page makes of a request that ended with `code`, in the slot s, once
\* the cookie is `after`.
PageHears(s, code, after) ==
  LET r == request[s]
  IN  CASE r.kind = "me" ->
             /\ Show(CASE code = "ok" -> "authenticated"
                       [] code = "unauthorized" -> "anonymous"
                       [] OTHER -> "error",
                     IF code = "ok" THEN r.id ELSE None)
             /\ request' = [request EXCEPT ![s] = Idle]
        [] r.kind = "query" ->
             /\ IF code = "unauthorized" THEN NotifyUnauthorized
                ELSE UNCHANGED page
             /\ request' = [request EXCEPT ![s] = Idle]
        [] r.kind = "login" ->
             /\ request' = [request EXCEPT ![s] =
                  IF code = "ok"
                    THEN Request("me", "sent",
                                 IF after = None THEN None ELSE after.id)
                    ELSE Idle]
             /\ UNCHANGED page
        [] r.kind = "logout" ->
             /\ Show("anonymous", None)
             /\ request' = [request EXCEPT ![s] = Idle]

\* An answer arrives: the browser looks at its Set-Cookie, then the page, if it
\* still waits, at the rest.
Deliver(s) ==
  LET r == request[s]
  IN  /\ r # Idle
      /\ r.stage \in Answers
      /\ jar' = JarAfter(r)
      /\ IF r.heard THEN PageHears(s, r.stage, JarAfter(r))
         ELSE /\ request' = [request EXCEPT ![s] = Idle]
              /\ UNCHANGED page
      /\ loggedOut' = IF r.heard /\ r.kind = "logout" /\ r.stage = "ok"
                        THEN loggedOut \cup ({r.id} \ {None}) ELSE loggedOut
      /\ astray' = (astray /\ r.stage # "ok")
      /\ UNCHANGED <<tables, reloads, spent>>

\* A fetch that rejects escapes resolveSession.
ConnectionFails_M(s) ==
  /\ request[s] # Idle
  /\ request[s].heard
  /\ IF request[s].kind = "logout" THEN Show("anonymous", None)
     ELSE UNCHANGED page
  /\ request' = [request EXCEPT ![s].heard = FALSE]
  /\ UNCHANGED <<tables, jar, reloads, history>>

\* The connection of a request breaks: its fetch rejects, and whatever the server
\* does with it the page no longer hears.
ConnectionFails(s) ==
  /\ request[s] # Idle
  /\ request[s].heard
  /\ CASE request[s].kind = "me" -> Show("error", None)
       [] request[s].kind = "logout" -> Show("anonymous", None)
       [] OTHER -> UNCHANGED page
  /\ request' = [request EXCEPT ![s].heard = FALSE]
  /\ UNCHANGED <<tables, jar, reloads, history>>

\* An abandoned request that never reached the server, or an abandoned answer.
Vanish(s) ==
  LET r == request[s]
  IN  /\ r # Idle
      /\ ~r.heard
      /\ r.stage \in {"sent"} \cup Answers
      /\ request' = [request EXCEPT ![s] = Idle]
      /\ astray' = (astray \/ ReissuesJar(s))
      /\ UNCHANGED <<tables, jar, page, reloads, spent, loggedOut>>

-----------------------------------------------------------------------------
(* Time, and the nightly session-cleanup.                                   *)

Tick ==
  /\ row' = [i \in Ids |-> IF row[i] = None \/ row[i] = 0 THEN row[i]
                           ELSE row[i] - 1]
  /\ jar' = IF jar = None \/ jar.left = 1 THEN None
            ELSE [jar EXCEPT !.left = @ - 1]
  /\ window' = IF window = None THEN None
               ELSE [window EXCEPT !.age = IF @ > Retention THEN @ ELSE @ + 1]
  /\ spent' = [a \in 0 .. Window - 1 |-> IF a = 0 THEN 0 ELSE spent[a - 1]]
  /\ astray' = (astray /\ jar' # None)
  /\ UNCHANGED <<created, page, request, reloads, loggedOut>>

\* deleteExpiredSessions.
SweepSessions ==
  /\ row' = [i \in Ids |-> IF row[i] = 0 THEN None ELSE row[i]]
  /\ UNCHANGED <<created, window, jar, page, request, reloads, history>>

\* The cutoff is the time of the sweep.
SweepRateLimits_M ==
  /\ window # None
  /\ window.age > 0
  /\ window' = None
  /\ UNCHANGED <<row, created, jar, page, request, reloads, history>>

\* deleteExpiredRateLimits: a statement of its own, a failure of which leaves
\* the first one done.
SweepRateLimits ==
  /\ window # None
  /\ window.age > Retention
  /\ window' = None
  /\ UNCHANGED <<row, created, jar, page, request, reloads, history>>

Next ==
  \/ AttemptElsewhere
  \/ Tick
  \/ SweepSessions
  \/ SweepRateLimits
  \/ \E s \in Slots :
       \/ Query(s) \/ Login(s) \/ Logout(s) \/ Reload(s)
       \/ RequireAdmin(s) \/ RequireAdminFails(s)
       \/ CheckRateLimit(s) \/ Authenticate(s)
       \/ Destroy(s) \/ DestroyFails(s)
       \/ Deliver(s) \/ ConnectionFails(s) \/ Vanish(s)

Spec == Init /\ [][Next]_vars

-----------------------------------------------------------------------------
(* Properties.                                                              *)

TypeOK ==
  /\ row \in [Ids -> (0 .. Ttl) \cup {None}]
  /\ created \subseteq Ids
  /\ window \in [age : 0 .. Retention + 1, count : 1 .. Limit + 1] \cup {None}
  /\ jar \in [id : Ids, left : 1 .. Ttl] \cup {None}
  /\ status \in {"loading", "anonymous", "authenticated", "error"}
  /\ user \in Ids \cup {None}
  /\ request \in [Slots -> Requests \cup {Idle}]
  /\ reloads \in 0 .. MaxReloads
  /\ spent \in [0 .. Window - 1 -> Nat]
  /\ loggedOut \subseteq Ids
  /\ astray \in BOOLEAN

\* A session whose logout was confirmed is gone for good: no request sent before
\* the logout and executed after it, no re-issued cookie and no reload brings
\* it back (auth.ts, one statement and not a read-then-write).
ConfirmedLogoutIsFinal == \A id \in loggedOut : row[id] = None

\* The page never shows as signed in a session whose logout it has seen
\* confirmed, however late the other answers come (__root.tsx, the gate).
SignedOutIsNotShown == user \notin loggedOut

\* The browser keeps the cookie of a live session at least as long as the server
\* keeps the row, so that a session in use does not end: except while an answer
\* that re-issues the cookie is on its way, or after it went astray
\* (middleware/auth.ts, writeSessionCookie; app.ts, the gates).
CookieOutlivesRow ==
  jar # None /\ Live(jar.id) =>
    \/ jar.left >= row[jar.id]
    \/ astray
    \/ \E s \in Slots : ReissuesJar(s)

\* Whatever the order of attempts, resets and sweeps, a client gets less than twice
\* the limit of attempts past the limiter in any period as long as the window:
\* what a fixed window promises (auth.ts, bumpRateLimit; README: 10 attempts per
\* 15 minutes).
AttemptsAreBounded == SumFunction(spent) <= 2 * Limit - 1

\* The window's row turns an attempt down only if the limit was used up by attempts
\* of the last window: attempts that are turned down do not keep the client out
\* (bumpRateLimit).  An attempt that is turned down because the row could not be
\* written has no such cause, and is not spoken of (createRateLimiter's catch).
RefusalHasCause ==
  window # None /\ window.age < Window /\ window.count >= Limit
    => SumFunction(spent) >= Limit

\* Whoever waits is waited for: a page that is loading has its own question in
\* flight, whatever was reloaded, lost or refused, so that the answer or the broken
\* connection will end it (session.tsx, resolveSession).
LoadingHasAnEnd == status = "loading" => Awaiting({"me"}) # {}
=============================================================================
