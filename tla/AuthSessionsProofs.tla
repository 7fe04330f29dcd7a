------------------------- MODULE AuthSessionsProofs -------------------------
(***************************************************************************)
(* What signing in and out guarantees, for any number of session ids and   *)
(* of requests in flight, and for every lifetime, limit, window and        *)
(* retention that AuthAssumption admits.                                   *)
(*                                                                         *)
(* Five inductive invariants, each resting on the ones before it: the      *)
(* types (TypeInv), where ids come from (IdsAreCreated), what a logout     *)
(* leaves behind (ConfirmedLogoutIsFinal with LogoutsAreDone), what the    *)
(* page waits for (PageInv), and what the login limiter has counted        *)
(* (LimiterInv).  LoadingHasAnEnd and CookieOutlivesRow are inductive once *)
(* the types and the ids are known.                                        *)
(***************************************************************************)
EXTENDS AuthSessions, FiniteSums, TLAPS

\* An answer that sets the cookie carries a session's id.
AnswersHaveIds ==
  \A s \in Slots : request[s] # Idle /\ request[s].stage = "ok"
                     /\ request[s].kind # "logout" => request[s].id \in Ids

\* TypeOK is inductive with it: the cookie is set from an answer.
TypeInv == TypeOK /\ AnswersHaveIds

\* An empty slot is told from a request: it lacks the other fields.
LEMMA IdleIsNoRequest == Idle \notin Requests
  BY DEF Idle, Requests, Answers

\* What the page sends is a request.
LEMMA RequestType ==
  ASSUME NEW kind \in Kinds, NEW stage \in {"sent", "checking"} \cup Answers,
         NEW id \in Ids \cup {None}
  PROVE  Request(kind, stage, id) \in Requests
  BY DEF Request, Requests

\* An answer leaves every slot idle or with a request.
LEMMA AnswerType ==
  ASSUME TypeOK, NEW s \in Slots, request[s] # Idle,
         NEW code \in {"checking"} \cup Answers, Answer(s, code)
  PROVE  request' \in [Slots -> Requests \cup {Idle}]
  BY DEF TypeOK, Answer, Requests

\* Sending a request keeps the types.
LEMMA SendType ==
  ASSUME TypeOK, NEW s \in Slots, NEW kind \in Kinds, Send(s, kind)
  PROVE  TypeOK'
  <1>1. Cookie \in Ids \cup {None}
    BY DEF TypeOK, Cookie
  <1>2. Request(kind, "sent", Cookie) \in Requests
    BY <1>1, RequestType
  <1> QED
    BY <1>2 DEF TypeOK, Send, tables, page, history

\* bumpRateLimit stores an age and a count within their bounds.
LEMMA BumpedType ==
  ASSUME TypeOK
  PROVE  Bumped \in [age : 0 .. Retention + 1, count : 1 .. Limit + 1]
  BY AuthAssumption DEF TypeOK, Bumped

\* So does an attempt, whatever window it finds.
LEMMA AttemptType ==
  ASSUME TypeOK, Attempt
  PROVE  /\ window' \in [age : 0 .. Retention + 1, count : 1 .. Limit + 1] \cup {None}
         /\ spent' \in [0 .. Window - 1 -> Nat]
  BY BumpedType, AuthAssumption DEF TypeOK, Attempt

\* What an answer leaves in the jar is a cookie or nothing.
LEMMA JarType ==
  ASSUME TypeInv, NEW s \in Slots, request[s] # Idle
  PROVE  JarAfter(request[s]) \in [id : Ids, left : 1 .. Ttl] \cup {None}
  BY AuthAssumption DEF TypeInv, TypeOK, AnswersHaveIds, JarAfter

\* A delivered answer empties its slot, or is a login's that the page follows by
\* asking who is signed in, with the new cookie if there is one.
LEMMA DeliverEffect ==
  ASSUME TypeInv, NEW s \in Slots, Deliver(s)
  PROVE  \/ request' = [request EXCEPT ![s] = Idle]
         \/ /\ request[s].kind = "login" /\ request[s].stage = "ok" /\ request[s].heard
            /\ \E id \in {None, request[s].id} :
                 request' = [request EXCEPT ![s] = Request("me", "sent", id)]
  <1>1. /\ request[s] \in Requests
        /\ request[s].stage \in Answers
    BY DEF Deliver, TypeInv, TypeOK
  <1>2. CASE ~request[s].heard
    BY <1>2 DEF Deliver
  <1>3. CASE request[s].heard /\ request[s].kind = "login"
    <2>1. CASE request[s].stage = "ok"
      BY <1>3, <2>1 DEF Deliver, PageHears, JarAfter
    <2>2. CASE request[s].stage # "ok"
      BY <1>3, <2>2 DEF Deliver, PageHears
    <2> QED
      BY <2>1, <2>2
  <1>4. CASE request[s].heard /\ request[s].kind # "login"
    BY <1>1, <1>4 DEF Deliver, PageHears, Requests, Kinds, Guarded
  <1> QED
    BY <1>2, <1>3, <1>4

\* What a delivered answer does to the page: nothing, or nobody is signed in, or
\* the session /api/auth/me reports is; the answer to that question ends loading,
\* and that to a logout leaves nobody signed in.
LEMMA PageEffect ==
  ASSUME TypeInv, NEW s \in Slots, Deliver(s)
  PROVE  /\ \/ UNCHANGED page
            \/ user' = None /\ status' \in {"anonymous", "error"}
            \/ /\ request[s].heard /\ request[s].kind = "me" /\ request[s].stage = "ok"
               /\ user' = request[s].id /\ status' = "authenticated"
         /\ request[s].heard /\ request[s].kind \in {"me", "logout"} => status' # "loading"
         /\ request[s].heard /\ request[s].kind = "logout" => user' = None
  <1>1. /\ request[s] \in Requests
        /\ request[s].stage \in Answers
    BY DEF Deliver, TypeInv, TypeOK
  <1>2. CASE ~request[s].heard
    BY <1>2 DEF Deliver
  <1> SUFFICES ASSUME request[s].heard,
                      PageHears(s, request[s].stage, JarAfter(request[s]))
               PROVE  /\ \/ UNCHANGED page
                         \/ user' = None /\ status' \in {"anonymous", "error"}
                         \/ /\ request[s].kind = "me" /\ request[s].stage = "ok"
                            /\ user' = request[s].id /\ status' = "authenticated"
                      /\ request[s].kind \in {"me", "logout"} => status' # "loading"
                      /\ request[s].kind = "logout" => user' = None
    BY <1>2 DEF Deliver
  <1>3. CASE request[s].kind = "me"
    <2>1. CASE request[s].stage = "ok"
      BY <1>3, <2>1 DEF PageHears, Show
    <2>2. CASE request[s].stage = "unauthorized"
      BY <1>3, <2>2 DEF PageHears, Show
    <2>3. CASE request[s].stage = "failed"
      BY <1>3, <2>3 DEF PageHears, Show
    <2> QED
      BY <1>1, <2>1, <2>2, <2>3 DEF Answers
  <1>4. CASE request[s].kind = "query"
    BY <1>4 DEF PageHears, NotifyUnauthorized, Show
  <1>5. CASE request[s].kind = "login"
    BY <1>5 DEF PageHears
  <1>6. CASE request[s].kind = "logout"
    BY <1>6 DEF PageHears, Show
  <1> QED
    BY <1>1, <1>3, <1>4, <1>5, <1>6 DEF Requests, Kinds, Guarded

\* Every step keeps the types.
LEMMA TypeStep == TypeInv /\ [Next]_vars => TypeInv'
  <1> SUFFICES ASSUME TypeInv, [Next]_vars PROVE TypeInv'
    OBVIOUS
  <1> USE DEF TypeInv
  <1>1. CASE AttemptElsewhere
    BY <1>1, AttemptType DEF AttemptElsewhere, TypeOK, AnswersHaveIds, page
  <1>2. CASE Tick
    <2>1. row' \in [Ids -> (0 .. Ttl) \cup {None}]
      BY <1>2, AuthAssumption DEF Tick, TypeOK
    <2>2. jar' \in [id : Ids, left : 1 .. Ttl] \cup {None}
      BY <1>2, AuthAssumption DEF Tick, TypeOK
    <2>3. window' \in [age : 0 .. Retention + 1, count : 1 .. Limit + 1] \cup {None}
      BY <1>2, AuthAssumption DEF Tick, TypeOK
    <2>4. spent' \in [0 .. Window - 1 -> Nat]
      BY <1>2, AuthAssumption DEF Tick, TypeOK
    <2>5. astray' \in BOOLEAN
      BY <1>2 DEF Tick, TypeOK
    <2> QED
      BY <1>2, <2>1, <2>2, <2>3, <2>4, <2>5 DEF Tick, TypeOK, AnswersHaveIds, page
  <1>3. CASE SweepSessions \/ SweepRateLimits \/ UNCHANGED vars
    BY <1>3 DEF SweepSessions, SweepRateLimits, vars, TypeOK, AnswersHaveIds, page, history
  <1>4. ASSUME NEW s \in Slots, Query(s) \/ Login(s) \/ Logout(s)
        PROVE  TypeInv'
    <2>1. PICK kind \in Kinds : Send(s, kind)
      BY <1>4 DEF Query, Login, Logout, Kinds, Guarded
    <2>2. TypeOK'
      BY <2>1, SendType
    <2>3. AnswersHaveIds'
      BY <2>1 DEF Send, AnswersHaveIds, TypeOK, Request
    <2> QED
      BY <2>2, <2>3
  <1>5. ASSUME NEW s \in Slots, Reload(s) PROVE TypeInv'
    <2>1. Cookie \in Ids \cup {None}
      BY DEF TypeOK, Cookie
    <2>2. Request("me", "sent", Cookie) \in Requests
      BY <2>1, RequestType DEF Kinds, Guarded
    <2>3. \A r \in Slots : request[r] # Idle => [request[r] EXCEPT !.heard = FALSE] \in Requests
      BY DEF TypeOK, Requests
    <2>4. TypeOK'
      BY <1>5, <2>2, <2>3, AuthAssumption DEF TypeOK, Reload, tables, history
    <2>5. AnswersHaveIds'
      BY <1>5 DEF Reload, AnswersHaveIds, TypeOK, Request, Requests
    <2> QED
      BY <2>4, <2>5
  <1>6. ASSUME NEW s \in Slots,
               RequireAdmin(s) \/ RequireAdminFails(s) \/ CheckRateLimit(s)
                 \/ Destroy(s) \/ DestroyFails(s)
        PROVE  TypeInv'
    <2>1. /\ request[s] # Idle
          /\ \E code \in {"checking"} \cup Answers : Answer(s, code)
      BY <1>6 DEF RequireAdmin, RequireAdminFails, CheckRateLimit, Destroy, DestroyFails, At, Answers
    <2>2. request' \in [Slots -> Requests \cup {Idle}]
      BY <2>1, AnswerType
    <2>3. TypeOK'
      <3>1. CASE RequireAdmin(s)
        BY <2>2, <3>1, AuthAssumption DEF RequireAdmin, Slide, TypeOK, page, history
      <3>2. CASE RequireAdminFails(s) \/ DestroyFails(s)
        BY <2>2, <3>2 DEF RequireAdminFails, DestroyFails, TypeOK, page, history, tables
      <3>3. CASE CheckRateLimit(s)
        <4>1. UNCHANGED <<window, spent>> \/ Attempt
          BY <3>3 DEF CheckRateLimit
        <4> QED
          BY <2>2, <3>3, <4>1, AttemptType DEF CheckRateLimit, TypeOK, page
      <3>4. CASE Destroy(s)
        BY <2>2, <3>4 DEF Destroy, TypeOK, page, history
      <3> QED
        BY <1>6, <3>1, <3>2, <3>3, <3>4
    <2>4. AnswersHaveIds'
      <3>1. CASE RequireAdmin(s)
        BY <3>1 DEF RequireAdmin, Answer, At, AnswersHaveIds, TypeOK, Requests, Live
      <3>2. CASE RequireAdminFails(s) \/ DestroyFails(s) \/ CheckRateLimit(s)
        BY <3>2 DEF RequireAdminFails, DestroyFails, CheckRateLimit, Answer, At, AnswersHaveIds, TypeOK, Requests
      <3>3. CASE Destroy(s)
        BY <3>3 DEF Destroy, Answer, At, AnswersHaveIds, TypeOK, Requests
      <3> QED
        BY <1>6, <3>1, <3>2, <3>3
    <2> QED
      BY <2>3, <2>4
  <1>7. ASSUME NEW s \in Slots, Authenticate(s) PROVE TypeInv'
    <2>1. CASE \E code \in Refusals : Answer(s, code) /\ UNCHANGED <<row, created>>
      <3>1. request' \in [Slots -> Requests \cup {Idle}]
        BY <1>7, <2>1, AnswerType DEF Authenticate, At, Refusals, Answers
      <3>2. TypeOK'
        BY <1>7, <2>1, <3>1 DEF Authenticate, TypeOK, page, history
      <3>3. AnswersHaveIds'
        BY <1>7, <2>1 DEF Authenticate, Answer, Refusals, At, AnswersHaveIds, TypeOK, Requests
      <3> QED
        BY <3>2, <3>3
    <2>2. ASSUME NEW id \in Ids \ created,
                 created' = created \cup {id},
                 row' = [row EXCEPT ![id] = Ttl],
                 request' = [request EXCEPT ![s] =
                   [kind |-> "login", stage |-> "ok", id |-> id, heard |-> @.heard]]
          PROVE  TypeInv'
      <3>1. request' \in [Slots -> Requests \cup {Idle}]
        BY <1>7, <2>2 DEF Authenticate, At, TypeOK, Requests, Answers, Kinds
      <3>2. TypeOK'
        BY <1>7, <2>2, <3>1, AuthAssumption DEF Authenticate, TypeOK, page, history
      <3>3. AnswersHaveIds'
        BY <1>7, <2>2 DEF Authenticate, At, AnswersHaveIds, TypeOK, Requests
      <3> QED
        BY <3>2, <3>3
    <2> QED
      BY <1>7, <2>1, <2>2 DEF Authenticate
  <1>8. ASSUME NEW s \in Slots, Deliver(s) PROVE TypeInv'
    <2>1. jar' \in [id : Ids, left : 1 .. Ttl] \cup {None}
      BY <1>8, JarType DEF Deliver
    <2>2. /\ request[s] \in Requests
          /\ request[s] # Idle
      BY <1>8 DEF Deliver, TypeOK
    <2>3. /\ status' \in {"loading", "anonymous", "authenticated", "error"}
          /\ user' \in Ids \cup {None}
      BY <1>8, <2>2, PageEffect DEF TypeOK, page, Requests
    <2>4. request' \in [Slots -> Requests \cup {Idle}] /\ AnswersHaveIds'
      <3>1. CASE request' = [request EXCEPT ![s] = Idle]
        BY <3>1 DEF TypeOK, AnswersHaveIds
      <3>2. ASSUME NEW id \in {None, request[s].id},
                   request' = [request EXCEPT ![s] = Request("me", "sent", id)]
            PROVE  request' \in [Slots -> Requests \cup {Idle}] /\ AnswersHaveIds'
        <4>1. id \in Ids \cup {None}
          BY <2>2, <3>2 DEF Requests
        <4>2. Request("me", "sent", id) \in Requests
          BY <4>1, RequestType DEF Kinds, Guarded
        <4> QED
          BY <3>2, <4>2 DEF TypeOK, AnswersHaveIds, Request
      <3> QED
        BY <1>8, <3>1, <3>2, DeliverEffect
    <2>6. /\ loggedOut' \subseteq Ids
          /\ astray' \in BOOLEAN
      BY <1>8, <2>2 DEF Deliver, TypeOK, Requests
    <2> QED
      BY <1>8, <2>1, <2>3, <2>4, <2>6 DEF Deliver, TypeOK, tables
  <1>9. ASSUME NEW s \in Slots, ConnectionFails(s) PROVE TypeInv'
    <2>1. request' \in [Slots -> Requests \cup {Idle}]
      BY <1>9 DEF ConnectionFails, TypeOK, Requests
    <2>2. /\ status' \in {"loading", "anonymous", "authenticated", "error"}
          /\ user' \in Ids \cup {None}
      BY <1>9 DEF ConnectionFails, Show, TypeOK, page, Requests
    <2>3. AnswersHaveIds'
      BY <1>9 DEF ConnectionFails, AnswersHaveIds, TypeOK, Requests
    <2> QED
      BY <1>9, <2>1, <2>2, <2>3 DEF ConnectionFails, TypeOK, tables, history
  <1>10. ASSUME NEW s \in Slots, Vanish(s) PROVE TypeInv'
    BY <1>10 DEF Vanish, TypeOK, AnswersHaveIds, tables, page, ReissuesJar
  <1> QED
    BY <1>1, <1>2, <1>3, <1>4, <1>5, <1>6, <1>7, <1>8, <1>9, <1>10 DEF Next

-----------------------------------------------------------------------------

\* Every id that the page, the jar, a request or a confirmed logout names was
\* handed out by a login: nobody guesses one.
IdsAreCreated ==
  /\ loggedOut \subseteq created
  /\ user \in created \cup {None}
  /\ jar # None => jar.id \in created
  /\ \A s \in Slots : request[s] # Idle => request[s].id \in created \cup {None}

\* Every step keeps that.
LEMMA IdsStep == TypeInv /\ IdsAreCreated /\ [Next]_vars => IdsAreCreated'
  <1> SUFFICES ASSUME TypeInv, IdsAreCreated, [Next]_vars PROVE IdsAreCreated'
    OBVIOUS
  <1> USE DEF TypeInv
  <1>1. CASE AttemptElsewhere \/ SweepSessions \/ SweepRateLimits \/ UNCHANGED vars
    BY <1>1 DEF AttemptElsewhere, SweepSessions, SweepRateLimits, vars, IdsAreCreated, page, history
  <1>2. CASE Tick
    <2>1. jar' # None => jar # None /\ jar'.id = jar.id
      BY <1>2 DEF Tick, TypeOK
    <2> QED
      BY <1>2, <2>1 DEF Tick, IdsAreCreated, page
  <1>3. ASSUME NEW s \in Slots, NEW kind \in Kinds, Send(s, kind) PROVE IdsAreCreated'
    <2>1. Cookie \in created \cup {None}
      BY DEF Cookie, IdsAreCreated
    <2> QED
      BY <1>3, <2>1 DEF Send, IdsAreCreated, TypeOK, Request, tables, page, history
  <1>4. ASSUME NEW s \in Slots, Reload(s) PROVE IdsAreCreated'
    <2>1. Cookie \in created \cup {None}
      BY DEF Cookie, IdsAreCreated
    <2>2. \A r \in Slots : request[r] # Idle => [request[r] EXCEPT !.heard = FALSE].id = request[r].id
      BY DEF TypeOK, Requests
    <2> QED
      BY <1>4, <2>1, <2>2 DEF Reload, IdsAreCreated, TypeOK, Request, tables, history
  <1>5. ASSUME NEW s \in Slots, NEW code, Answer(s, code), request[s] # Idle,
               UNCHANGED <<created, jar, user, loggedOut>>
        PROVE  IdsAreCreated'
    BY <1>5 DEF Answer, IdsAreCreated, TypeOK, Requests
  <1>6. ASSUME NEW s \in Slots,
               RequireAdmin(s) \/ RequireAdminFails(s) \/ CheckRateLimit(s)
                 \/ Destroy(s) \/ DestroyFails(s)
        PROVE  IdsAreCreated'
    <2>1. /\ request[s] # Idle
          /\ \E code : Answer(s, code)
          /\ UNCHANGED <<created, jar, user, loggedOut>>
      BY <1>6 DEF RequireAdmin, RequireAdminFails, CheckRateLimit, Destroy, DestroyFails, At, page, history, tables
    <2> QED
      BY <2>1, <1>5
  <1>7. ASSUME NEW s \in Slots, Authenticate(s) PROVE IdsAreCreated'
    <2>1. CASE \E code \in Refusals : Answer(s, code) /\ UNCHANGED <<row, created>>
      BY <1>5, <1>7, <2>1 DEF Authenticate, At, page, history
    <2>2. ASSUME NEW id \in Ids \ created,
                 created' = created \cup {id},
                 request' = [request EXCEPT ![s] =
                   [kind |-> "login", stage |-> "ok", id |-> id, heard |-> @.heard]]
          PROVE  IdsAreCreated'
      BY <1>7, <2>2 DEF Authenticate, IdsAreCreated, TypeOK, page, history
    <2> QED
      BY <1>7, <2>1, <2>2 DEF Authenticate
  <1>8. ASSUME NEW s \in Slots, Deliver(s) PROVE IdsAreCreated'
    <2>1. /\ request[s] \in Requests
          /\ request[s] # Idle
          /\ request[s].id \in created \cup {None}
      BY <1>8 DEF Deliver, TypeOK, IdsAreCreated
    <2>2. \A r \in Slots : request'[r] # Idle => request'[r].id \in created \cup {None}
      BY <1>8, <2>1, DeliverEffect DEF IdsAreCreated, TypeOK, Request
    <2>3. user' \in created \cup {None}
      BY <1>8, <2>1, PageEffect DEF IdsAreCreated, page
    <2>4. jar' # None => jar'.id \in created
      BY <1>8, <2>1, AuthAssumption DEF Deliver, JarAfter, IdsAreCreated, TypeOK, AnswersHaveIds
    <2>5. loggedOut' \subseteq created
      BY <1>8, <2>1 DEF Deliver, IdsAreCreated
    <2>6. created' = created
      BY <1>8 DEF Deliver, tables
    <2> QED
      BY <2>2, <2>3, <2>4, <2>5, <2>6 DEF IdsAreCreated
  <1>9. ASSUME NEW s \in Slots, ConnectionFails(s) PROVE IdsAreCreated'
    <2>1. user' \in {user, None}
      BY <1>9 DEF ConnectionFails, Show, page, TypeOK, Requests
    <2> QED
      BY <1>9, <2>1 DEF ConnectionFails, IdsAreCreated, TypeOK, Requests, tables, history
  <1>10. ASSUME NEW s \in Slots, Vanish(s) PROVE IdsAreCreated'
    BY <1>10 DEF Vanish, IdsAreCreated, TypeOK, tables, page
  <1> QED
    BY <1>1, <1>2, <1>3, <1>4, <1>6, <1>7, <1>8, <1>9, <1>10 DEF Next, Query, Login, Logout, Kinds, Guarded

-----------------------------------------------------------------------------

\* The requests a page waits for in order to be signed in.
Signing == {"login", "me"}

\* A logout on its way back has deleted the row of its session.
LogoutsAreDone ==
  \A s \in Slots : At(s, {"logout"}, "ok") /\ request[s].id # None
                     => row[request[s].id] = None

\* No step fills the row of a session that is logged out: selectLiveSession
\* updates a live row only, and a login takes an unused id.
LEMMA RowStep ==
  TypeInv /\ IdsAreCreated /\ ConfirmedLogoutIsFinal /\ LogoutsAreDone /\ [Next]_vars
    => ConfirmedLogoutIsFinal' /\ LogoutsAreDone'
  <1> SUFFICES ASSUME TypeInv, IdsAreCreated, ConfirmedLogoutIsFinal, LogoutsAreDone, [Next]_vars
               PROVE  ConfirmedLogoutIsFinal' /\ LogoutsAreDone'
    OBVIOUS
  <1> USE DEF TypeInv
  \* Whoever adds no logout and fills no emptied row keeps both.
  <1>0. ASSUME loggedOut' = loggedOut,
               \A id \in created : row[id] = None => row'[id] = None,
               \A r \in Slots : At(r, {"logout"}, "ok")' =>
                 At(r, {"logout"}, "ok") /\ request'[r].id = request[r].id
        PROVE  ConfirmedLogoutIsFinal' /\ LogoutsAreDone'
    <2>1. ConfirmedLogoutIsFinal'
      BY <1>0 DEF ConfirmedLogoutIsFinal, IdsAreCreated
    <2>2. \A r \in Slots : At(r, {"logout"}, "ok") => request[r].id \in created \cup {None}
      BY DEF IdsAreCreated, At
    <2> QED
      BY <1>0, <2>1, <2>2 DEF LogoutsAreDone
  <1>1. CASE AttemptElsewhere \/ SweepRateLimits \/ UNCHANGED vars
    BY <1>1, <1>0 DEF AttemptElsewhere, SweepRateLimits, vars, history, At
  <1>2. CASE SweepSessions \/ Tick
    <2>1. \A id \in created : row[id] = None => row'[id] = None
      BY <1>2 DEF SweepSessions, Tick, TypeOK
    <2> QED
      BY <1>0, <1>2, <2>1 DEF SweepSessions, Tick, history, At
  <1>3. ASSUME NEW s \in Slots, NEW kind \in Kinds, Send(s, kind) PROVE ConfirmedLogoutIsFinal' /\ LogoutsAreDone'
    BY <1>0, <1>3 DEF Send, tables, history, At, Request, TypeOK
  <1>4. ASSUME NEW s \in Slots, Reload(s) PROVE ConfirmedLogoutIsFinal' /\ LogoutsAreDone'
    <2>1. \A r \in Slots : At(r, {"logout"}, "ok")' =>
                 At(r, {"logout"}, "ok") /\ request'[r].id = request[r].id
      BY <1>4 DEF Reload, At, Request, TypeOK, Requests
    <2> QED
      BY <1>0, <1>4, <2>1 DEF Reload, tables, history
  <1>5. ASSUME NEW s \in Slots, RequireAdmin(s) PROVE ConfirmedLogoutIsFinal' /\ LogoutsAreDone'
    <2>1. \A id \in created : row[id] = None => row'[id] = None
      BY <1>5 DEF RequireAdmin, Slide, Live, TypeOK
    <2>2. \A r \in Slots : At(r, {"logout"}, "ok")' =>
                 At(r, {"logout"}, "ok") /\ request'[r].id = request[r].id
      BY <1>5 DEF RequireAdmin, Answer, At, TypeOK, Requests, Guarded
    <2> QED
      BY <1>0, <1>5, <2>1, <2>2 DEF RequireAdmin, history
  <1>6. ASSUME NEW s \in Slots, RequireAdminFails(s) \/ CheckRateLimit(s) \/ DestroyFails(s)
        PROVE ConfirmedLogoutIsFinal' /\ LogoutsAreDone'
    <2>1. /\ request[s] # Idle
          /\ request[s].stage = "sent"
          /\ \E code \in {"checking", "failed"} : Answer(s, code)
          /\ UNCHANGED <<row, loggedOut>>
      BY <1>6 DEF RequireAdminFails, CheckRateLimit, DestroyFails, At, tables, history
    <2>2. \A r \in Slots : At(r, {"logout"}, "ok")' =>
                 At(r, {"logout"}, "ok") /\ request'[r].id = request[r].id
      BY <2>1 DEF Answer, At, TypeOK, Requests
    <2> QED
      BY <1>0, <2>1, <2>2
  <1>7. ASSUME NEW s \in Slots, Destroy(s) PROVE ConfirmedLogoutIsFinal' /\ LogoutsAreDone'
    <2>1. ConfirmedLogoutIsFinal'
      BY <1>7 DEF Destroy, ConfirmedLogoutIsFinal, TypeOK, history
    <2>2. request[s].id \in Ids \cup {None}
      BY <1>7 DEF Destroy, At, TypeOK, Requests
    <2>3. \A i \in Ids : (i = request[s].id \/ row[i] = None) => row'[i] = None
      BY <1>7 DEF Destroy
    <2>4. \A r \in Slots : At(r, {"logout"}, "ok")' =>
             request'[r].id = request[r].id /\ (r = s \/ At(r, {"logout"}, "ok"))
      BY <1>7 DEF Destroy, At, Answer, TypeOK, Requests
    <2>5. \A r \in Slots : At(r, {"logout"}, "ok") => request[r].id \in Ids \cup {None}
      BY DEF At, TypeOK, Requests
    <2> QED
      BY <2>1, <2>2, <2>3, <2>4, <2>5 DEF LogoutsAreDone
  <1>8. ASSUME NEW s \in Slots, Authenticate(s) PROVE ConfirmedLogoutIsFinal' /\ LogoutsAreDone'
    <2>1. CASE \E code \in Refusals : Answer(s, code) /\ UNCHANGED <<row, created>>
      <3>1. \A r \in Slots : At(r, {"logout"}, "ok")' =>
                 At(r, {"logout"}, "ok") /\ request'[r].id = request[r].id
        BY <1>8, <2>1 DEF Authenticate, Answer, At, TypeOK, Requests
      <3> QED
        BY <1>0, <1>8, <2>1, <3>1 DEF Authenticate, history
    <2>2. ASSUME NEW id \in Ids \ created,
                 row' = [row EXCEPT ![id] = Ttl],
                 request' = [request EXCEPT ![s] =
                   [kind |-> "login", stage |-> "ok", id |-> id, heard |-> @.heard]]
          PROVE  ConfirmedLogoutIsFinal' /\ LogoutsAreDone'
      <3>1. \A r \in Slots : At(r, {"logout"}, "ok")' =>
                 At(r, {"logout"}, "ok") /\ request'[r].id = request[r].id
        BY <2>2 DEF At, TypeOK
      <3> QED
        BY <1>0, <1>8, <2>2, <3>1 DEF Authenticate, history, TypeOK
    <2> QED
      BY <1>8, <2>1, <2>2 DEF Authenticate
  <1>9. ASSUME NEW s \in Slots, Deliver(s) PROVE ConfirmedLogoutIsFinal' /\ LogoutsAreDone'
    <2>1. \A r \in Slots : At(r, {"logout"}, "ok")' =>
                 At(r, {"logout"}, "ok") /\ request'[r].id = request[r].id
      BY <1>9, DeliverEffect DEF At, TypeOK, Request
    <2>2. row' = row
      BY <1>9 DEF Deliver, tables
    <2>3. \A id \in loggedOut' : row[id] = None
      BY <1>9 DEF Deliver, ConfirmedLogoutIsFinal, LogoutsAreDone, At
    <2> QED
      BY <2>1, <2>2, <2>3 DEF ConfirmedLogoutIsFinal, LogoutsAreDone
  <1>10. ASSUME NEW s \in Slots, ConnectionFails(s) PROVE ConfirmedLogoutIsFinal' /\ LogoutsAreDone'
    <2>1. \A r \in Slots : At(r, {"logout"}, "ok")' =>
                 At(r, {"logout"}, "ok") /\ request'[r].id = request[r].id
      BY <1>10 DEF ConnectionFails, At, TypeOK, Requests
    <2> QED
      BY <1>0, <1>10, <2>1 DEF ConnectionFails, tables, history
  <1>11. ASSUME NEW s \in Slots, Vanish(s) PROVE ConfirmedLogoutIsFinal' /\ LogoutsAreDone'
    BY <1>0, <1>11 DEF Vanish, At, TypeOK, tables
  <1> QED
    BY <1>1, <1>2, <1>3, <1>4, <1>5, <1>6, <1>7, <1>8, <1>9, <1>10, <1>11
       DEF Next, Query, Login, Logout, Kinds, Guarded

-----------------------------------------------------------------------------

\* The page waits for the request in the slot s, of one of the given kinds.
Heard(s, kinds) == request[s] # Idle /\ request[s].heard /\ request[s].kind \in kinds

\* Its answer, or the question that follows it, signs the request's session in.
SignsIn(s) ==
  Heard(s, {"me"}) \/ (Heard(s, {"login"}) /\ request[s].stage = "ok")

\* SignedOutIsNotShown is inductive with what the page waits for: one question or
\* login at a time and none while somebody is signed in; an answer that signs in
\* names a session not logged out; and no session is signed in and out at once.
PageInv ==
  /\ \A s, t \in Slots : Heard(s, Signing) /\ Heard(t, Signing) => s = t
  /\ status = "authenticated" => \A s \in Slots : ~Heard(s, Signing)
  /\ \A s \in Slots : Heard(s, {"me"}) /\ request[s].stage = "ok"
                         => request[s].id \notin loggedOut
  /\ \A s, t \in Slots :
       SignsIn(s) /\ Heard(t, {"logout"}) /\ request[t].id # None
         => request[s].id # request[t].id
  /\ SignedOutIsNotShown

\* What a request becomes in a step that starts and delivers nothing.
GoesOn(r) ==
  Heard(r, {"login", "me", "logout"})' =>
    /\ Heard(r, {"login", "me", "logout"})
    /\ request'[r].kind = request[r].kind
    /\ request'[r].id = request[r].id
    /\ request'[r].stage = "ok" /\ request[r].kind # "logout" =>
         \/ request[r].stage = "ok"
         \/ request[r].kind = "me" /\ request[r].id \notin loggedOut

\* A step that starts and delivers nothing keeps what the page waits for.
LEMMA GoingOn ==
  ASSUME TypeInv, PageInv, \A r \in Slots : GoesOn(r), loggedOut' = loggedOut,
         user' \in {user, None}, status' = "authenticated" => status = "authenticated"
  PROVE  PageInv'
  <1> USE DEF TypeInv
  <1>1. \A r \in Slots : /\ Heard(r, Signing)' => Heard(r, Signing)
                         /\ SignsIn(r)' => /\ SignsIn(r) /\ request'[r].id = request[r].id
                         /\ Heard(r, {"logout"})' => Heard(r, {"logout"}) /\ request'[r].id = request[r].id
    BY DEF GoesOn, Heard, SignsIn, Signing
  <1>2. \A r \in Slots : (Heard(r, {"me"}) /\ request[r].stage = "ok")' =>
          /\ request'[r].id = request[r].id
          /\ \/ Heard(r, {"me"}) /\ request[r].stage = "ok"
             \/ request[r].id \notin loggedOut
    BY DEF GoesOn, Heard
  <1>3. SignedOutIsNotShown'
    BY AuthAssumption DEF PageInv, SignedOutIsNotShown, TypeOK
  <1> QED
    BY <1>1, <1>2, <1>3 DEF PageInv

\* Every step keeps what the page waits for.
LEMMA PageStep ==
  TypeInv /\ IdsAreCreated /\ ConfirmedLogoutIsFinal /\ PageInv /\ [Next]_vars
    => PageInv'
  <1> SUFFICES ASSUME TypeInv, IdsAreCreated, ConfirmedLogoutIsFinal, PageInv, [Next]_vars
               PROVE  PageInv'
    OBVIOUS
  <1> USE DEF TypeInv
  <1>1. CASE AttemptElsewhere \/ Tick \/ SweepSessions \/ SweepRateLimits \/ UNCHANGED vars
    BY <1>1, GoingOn DEF AttemptElsewhere, Tick, SweepSessions, SweepRateLimits, vars,
                         page, history, GoesOn, Heard
  <1>2. ASSUME NEW s \in Slots, Query(s) PROVE PageInv'
    BY <1>2, GoingOn DEF Query, Send, page, history, GoesOn, Heard, Request, TypeOK
  <1>3. ASSUME NEW s \in Slots, Login(s) PROVE PageInv'
    <2>1. \A r \in Slots : ~Heard(r, Signing)
      BY <1>3 DEF Login, Awaiting, Heard, Signing
    <2>2. /\ \A r \in Slots : Heard(r, Signing)' => r = s
          /\ \A r \in Slots : ~SignsIn(r)' /\ ~Heard(r, {"me"})'
      BY <1>3, <2>1 DEF Login, Send, Heard, SignsIn, Signing, Request, TypeOK
    <2>3. status' # "authenticated" /\ UNCHANGED <<user, loggedOut>>
      BY <1>3 DEF Login, Send, page, history
    <2> QED
      BY <2>2, <2>3 DEF PageInv, SignedOutIsNotShown
  <1>4. ASSUME NEW s \in Slots, Logout(s) PROVE PageInv'
    <2>1. \A r \in Slots : ~Heard(r, Signing)
      BY <1>4 DEF Logout, PageInv
    <2>2. \A r \in Slots : ~Heard(r, Signing)' /\ ~SignsIn(r)' /\ ~Heard(r, {"me"})'
      BY <1>4, <2>1 DEF Logout, Send, Heard, SignsIn, Signing, Request, TypeOK
    <2>3. UNCHANGED <<user, loggedOut>>
      BY <1>4 DEF Logout, Send, page, history
    <2> QED
      BY <2>2, <2>3 DEF PageInv, SignedOutIsNotShown
  <1>5. ASSUME NEW s \in Slots, Reload(s) PROVE PageInv'
    <2>1. \A r \in Slots : /\ Heard(r, Signing)' => r = s
                           /\ ~Heard(r, {"logout"})'
                           /\ Heard(r, {"me"})' => request'[r].stage # "ok"
      BY <1>5 DEF Reload, Heard, Signing, Request, TypeOK, Requests
    <2>2. status' # "authenticated" /\ user' = None /\ loggedOut' = loggedOut
      BY <1>5 DEF Reload, history
    <2>3. SignedOutIsNotShown'
      BY <2>2, AuthAssumption DEF SignedOutIsNotShown, TypeOK
    <2> QED
      BY <2>1, <2>2, <2>3 DEF PageInv
  <1>6. ASSUME NEW s \in Slots,
               RequireAdmin(s) \/ RequireAdminFails(s) \/ CheckRateLimit(s)
                 \/ Destroy(s) \/ DestroyFails(s)
        PROVE  PageInv'
    <2>1. /\ request[s] \in Requests
          /\ UNCHANGED <<page, loggedOut>>
      BY <1>6 DEF RequireAdmin, RequireAdminFails, CheckRateLimit, Destroy, DestroyFails,
                  At, history, TypeOK
    <2>2. PICK code : /\ Answer(s, code)
                      /\ code = "ok" => \/ request[s].kind = "logout"
                                        \/ request[s].kind \in {"me", "query"}
                                             /\ request[s].id \notin loggedOut
      <3>1. CASE RequireAdmin(s)
        BY <3>1 DEF RequireAdmin, Live, ConfirmedLogoutIsFinal, At, Guarded
      <3>2. CASE Destroy(s)
        BY <3>2 DEF Destroy, At
      <3>3. CASE RequireAdminFails(s) \/ CheckRateLimit(s) \/ DestroyFails(s)
        <4>1. Answer(s, "failed") \/ Answer(s, "checking")
          BY <3>3 DEF RequireAdminFails, CheckRateLimit, DestroyFails
        <4> QED
          BY <4>1
      <3> QED
        BY <1>6, <3>1, <3>2, <3>3
    <2>3. \A r \in Slots : GoesOn(r)
      BY <1>6, <2>1, <2>2 DEF Answer, GoesOn, Heard, TypeOK, Requests, RequireAdmin,
         RequireAdminFails, CheckRateLimit, Destroy, DestroyFails, At
    <2> QED
      BY <2>1, <2>3, GoingOn DEF page
  <1>7. ASSUME NEW s \in Slots, Authenticate(s) PROVE PageInv'
    <2>1. CASE \E code \in Refusals : Answer(s, code) /\ UNCHANGED <<row, created>>
      <3>1. \A r \in Slots : GoesOn(r)
        BY <1>7, <2>1 DEF Authenticate, Answer, Refusals, GoesOn, Heard, TypeOK, Requests, At
      <3> QED
        BY <1>7, <3>1, GoingOn DEF Authenticate, page, history
    <2>2. ASSUME NEW id \in Ids \ created,
                 request' = [request EXCEPT ![s] =
                   [kind |-> "login", stage |-> "ok", id |-> id, heard |-> @.heard]]
          PROVE  PageInv'
      <3>1. request[s].kind = "login" /\ request[s] # Idle
        BY <1>7 DEF Authenticate, At
      <3>2. \A r \in Slots : /\ Heard(r, Signing)' => Heard(r, Signing)
                             /\ Heard(r, {"me"})' => Heard(r, {"me"}) /\ request'[r] = request[r]
                             /\ Heard(r, {"logout"})' => Heard(r, {"logout"}) /\ request'[r] = request[r]
                             /\ SignsIn(r)' => (SignsIn(r) /\ request'[r] = request[r])
                                                \/ (r = s /\ request'[r].id = id)
        BY <2>2, <3>1 DEF Heard, Signing, SignsIn, TypeOK
      <3>3. \A r \in Slots : Heard(r, {"logout"}) => request[r].id # id
        BY AuthAssumption DEF Heard, IdsAreCreated
      <3>4. UNCHANGED <<status, user, loggedOut>>
        BY <1>7 DEF Authenticate, page, history
      <3>5. \A r, t \in Slots :
               (SignsIn(r) /\ Heard(t, {"logout"}) /\ request[t].id # None)'
                 => request'[r].id # request'[t].id
        <4> SUFFICES ASSUME NEW r \in Slots, NEW t \in Slots, SignsIn(r)',
                            Heard(t, {"logout"})', request'[t].id # None
                     PROVE  request'[r].id # request'[t].id
          OBVIOUS
        <4>1. Heard(t, {"logout"}) /\ request'[t] = request[t]
          BY <3>2
        <4>2. CASE SignsIn(r) /\ request'[r] = request[r]
          BY <4>1, <4>2 DEF PageInv
        <4>3. CASE r = s /\ request'[r].id = id
          BY <3>3, <4>1, <4>3
        <4> QED
          BY <3>2, <4>2, <4>3
      <3> QED
        BY <3>2, <3>4, <3>5 DEF PageInv, SignedOutIsNotShown
    <2> QED
      BY <1>7, <2>1, <2>2 DEF Authenticate
  <1>8. ASSUME NEW s \in Slots, Deliver(s) PROVE PageInv'
    <2> DEFINE r0 == request[s]
    <2>1. r0 # Idle /\ r0 \in Requests
      BY <1>8 DEF Deliver, TypeOK
    <2>2. CASE ~(r0.heard /\ r0.kind = "logout")
               /\ request' = [request EXCEPT ![s] = Idle]
      <3>1. \A r \in Slots : Heard(r, {"login", "me", "logout"})' => request'[r] = request[r]
        BY <2>2 DEF Heard, TypeOK
      <3>2. \A r \in Slots : GoesOn(r)
        BY <3>1 DEF GoesOn, Heard
      <3>3. loggedOut' = loggedOut
        BY <1>8, <2>2 DEF Deliver
      <3>4. CASE user' \in {user, None} /\ (status' = "authenticated" => status = "authenticated")
        BY <3>2, <3>3, <3>4, GoingOn
      <3>5. CASE /\ r0.heard /\ r0.kind = "me" /\ r0.stage = "ok"
                 /\ user' = r0.id /\ status' = "authenticated"
        <4>1. \A r \in Slots : /\ Heard(r, Signing)' => Heard(r, Signing) /\ r # s
          BY <2>2, <3>1 DEF Heard, Signing, TypeOK
        <4>2. Heard(s, Signing) /\ Heard(s, {"me"})
          BY <2>1, <3>5 DEF Heard, Signing
        <4>3. \A r \in Slots : ~Heard(r, Signing)'
          BY <4>1, <4>2 DEF PageInv
        <4>4. \A r \in Slots : ~Heard(r, {"me"})' /\ ~SignsIn(r)'
          BY <4>3 DEF Heard, Signing, SignsIn
        <4>5. user' \notin loggedOut
          BY <3>5, <4>2 DEF PageInv
        <4> QED
          BY <3>3, <4>3, <4>4, <4>5 DEF PageInv, SignedOutIsNotShown
      <3> QED
        BY <1>8, <3>4, <3>5, PageEffect DEF page
    <2>3. CASE r0.heard /\ r0.kind = "logout"
      <3>1. request' = [request EXCEPT ![s] = Idle]
        BY <1>8, <2>3, DeliverEffect
      <3>2. \A r \in Slots : Heard(r, {"login", "me", "logout"})' => request'[r] = request[r]
                             /\ Heard(r, {"login", "me", "logout"})
        BY <3>1 DEF Heard, TypeOK
      <3>3. user' = None /\ status' # "authenticated"
        BY <1>8, <2>3, PageEffect DEF Deliver, PageHears, Show
      <3>4. \A id \in loggedOut' : id \in loggedOut \/ (id = r0.id /\ id # None)
        BY <1>8 DEF Deliver
      <3>5. SignedOutIsNotShown'
        BY <3>3, <3>4, AuthAssumption DEF SignedOutIsNotShown, TypeOK
      <3>6. Heard(s, {"logout"})
        BY <2>1, <2>3 DEF Heard
      <3>7. \A r \in Slots : Heard(r, {"me"}) => request[r].id # r0.id \/ r0.id = None
        BY <3>6 DEF PageInv, SignsIn
      <3>8. \A r \in Slots : /\ Heard(r, Signing)' => Heard(r, Signing)
                             /\ SignsIn(r)' => SignsIn(r) /\ request'[r] = request[r]
                             /\ Heard(r, {"me"})' => Heard(r, {"me"}) /\ request'[r] = request[r]
                             /\ Heard(r, {"logout"})' => Heard(r, {"logout"}) /\ request'[r] = request[r]
        BY <3>2 DEF Heard, Signing, SignsIn
      <3>9. \A r \in Slots : Heard(r, {"me"})' /\ request'[r].stage = "ok"
                              => request'[r].id \notin loggedOut'
        BY <3>4, <3>7, <3>8 DEF PageInv
      <3> QED
        BY <3>3, <3>5, <3>8, <3>9 DEF PageInv
    <2>4. ASSUME r0.kind = "login", r0.stage = "ok", r0.heard,
                 NEW id \in {None, r0.id}, request' = [request EXCEPT ![s] = Request("me", "sent", id)]
          PROVE  PageInv'
      <3>1. Heard(s, Signing) /\ SignsIn(s)
        BY <2>1, <2>4 DEF Heard, Signing, SignsIn
      <3>2. \A r \in Slots : r # s => ~Heard(r, Signing) /\ request'[r] = request[r]
        BY <2>4, <3>1 DEF PageInv, TypeOK
      <3>3. \A r \in Slots : /\ Heard(r, Signing)' => r = s
                             /\ SignsIn(r)' => r = s
                             /\ Heard(r, {"me"})' => r = s
        BY <3>2 DEF Heard, Signing, SignsIn
      <3>4. request'[s].stage = "sent" /\ request'[s].id = id /\ request'[s].kind = "me"
        BY <2>4 DEF TypeOK, Request
      <3>5. \A r \in Slots : Heard(r, {"logout"})' => Heard(r, {"logout"}) /\ request'[r] = request[r]
        BY <3>2, <3>4 DEF Heard
      <3>6. status' # "authenticated" /\ user' \in {user, None} /\ loggedOut' = loggedOut
        BY <1>8, <2>4, <3>1, PageEffect DEF PageInv, page, Deliver
      <3>7. SignedOutIsNotShown'
        BY <3>6, AuthAssumption DEF PageInv, SignedOutIsNotShown, TypeOK
      <3>8. \A t \in Slots : Heard(t, {"logout"})' /\ request'[t].id # None
                              => request'[s].id # request'[t].id
        BY <2>4, <3>1, <3>4, <3>5 DEF PageInv
      <3> QED
        BY <3>3, <3>4, <3>6, <3>7, <3>8 DEF PageInv
    <2> QED
      BY <1>8, <2>2, <2>3, <2>4, DeliverEffect
  <1>9. ASSUME NEW s \in Slots, ConnectionFails(s) PROVE PageInv'
    <2>1. \A r \in Slots : GoesOn(r)
      BY <1>9 DEF ConnectionFails, GoesOn, Heard, TypeOK, Requests
    <2>2. user' \in {user, None} /\ (status' = "authenticated" => status = "authenticated")
      BY <1>9 DEF ConnectionFails, Show, page, TypeOK, Requests
    <2> QED
      BY <1>9, <2>1, <2>2, GoingOn DEF ConnectionFails, history
  <1>10. ASSUME NEW s \in Slots, Vanish(s) PROVE PageInv'
    BY <1>10, GoingOn DEF Vanish, GoesOn, Heard, TypeOK, page
  <1> QED
    BY <1>1, <1>2, <1>3, <1>4, <1>5, <1>6, <1>7, <1>8, <1>9, <1>10 DEF Next
-----------------------------------------------------------------------------

\* No step takes the question away from a page that is loading.
LEMMA LoadingStep ==
  TypeInv /\ LoadingHasAnEnd /\ [Next]_vars => LoadingHasAnEnd'
  <1> SUFFICES ASSUME TypeInv, LoadingHasAnEnd, [Next]_vars PROVE LoadingHasAnEnd'
    OBVIOUS
  <1> USE DEF TypeInv
  \* Whoever does not end a question of the page keeps it in flight.
  <1>0. ASSUME status' = "loading" => status = "loading",
               status' = "loading" =>
                 \A r \in Slots : Heard(r, {"me"}) => Heard(r, {"me"})'
        PROVE  LoadingHasAnEnd'
    BY <1>0 DEF LoadingHasAnEnd, Awaiting, Heard
  <1>1. CASE AttemptElsewhere \/ Tick \/ SweepSessions \/ SweepRateLimits \/ UNCHANGED vars
    BY <1>1, <1>0 DEF AttemptElsewhere, Tick, SweepSessions, SweepRateLimits, vars, page, Heard
  <1>2. ASSUME NEW s \in Slots, NEW kind \in Kinds, Send(s, kind) PROVE LoadingHasAnEnd'
    BY <1>0, <1>2 DEF Send, page, Heard, TypeOK
  <1>3. ASSUME NEW s \in Slots, Reload(s) PROVE LoadingHasAnEnd'
    <2>1. /\ request'[s] = Request("me", "sent", Cookie)
          /\ Cookie \in Ids \cup {None}
      BY <1>3 DEF Reload, Cookie, TypeOK
    <2>2. request'[s] \in Requests
      BY <2>1, RequestType DEF Kinds, Guarded
    <2> QED
      BY <2>1, <2>2, IdleIsNoRequest DEF LoadingHasAnEnd, Awaiting, Request
  <1>4. ASSUME NEW s \in Slots, NEW code, Answer(s, code), request[s] # Idle, UNCHANGED page
        PROVE  LoadingHasAnEnd'
    <2>1. \A r \in Slots : Heard(r, {"me"}) => Heard(r, {"me"})'
      <3>1. request[s] \in Requests
        BY <1>4 DEF TypeOK
      <3>2. /\ request'[s].kind = request[s].kind
            /\ request'[s].heard = request[s].heard
            /\ request'[s].id = request[s].id
        BY <1>4, <3>1 DEF Answer, TypeOK, Requests
      <3>3. request'[s] # Idle
        BY <1>4, <3>1 DEF Answer, TypeOK, Requests, Idle
      <3> QED
        BY <1>4, <3>2, <3>3 DEF Answer, Heard, TypeOK
    <2> QED
      BY <1>0, <1>4, <2>1 DEF page
  <1>5. ASSUME NEW s \in Slots,
               RequireAdmin(s) \/ RequireAdminFails(s) \/ CheckRateLimit(s)
                 \/ Destroy(s) \/ DestroyFails(s)
        PROVE  LoadingHasAnEnd'
    <2>1. /\ request[s] # Idle
          /\ \E code : Answer(s, code)
          /\ UNCHANGED page
      BY <1>5 DEF RequireAdmin, RequireAdminFails, CheckRateLimit, Destroy, DestroyFails, At, page
    <2> QED
      BY <1>4, <2>1
  <1>6. ASSUME NEW s \in Slots, Authenticate(s) PROVE LoadingHasAnEnd'
    <2>1. request[s].kind = "login" /\ UNCHANGED page
      BY <1>6 DEF Authenticate, At
    <2>2. \A r \in Slots : Heard(r, {"me"}) => request'[r] = request[r]
      BY <1>6, <2>1 DEF Authenticate, Answer, Heard, TypeOK
    <2> QED
      BY <1>0, <2>1, <2>2 DEF Heard, page
  <1>7. ASSUME NEW s \in Slots, Deliver(s) PROVE LoadingHasAnEnd'
    <2>1. CASE request[s].heard /\ request[s].kind = "me"
      BY <1>7, <2>1, PageEffect DEF LoadingHasAnEnd
    <2>2. CASE ~(request[s].heard /\ request[s].kind = "me")
      <3>1. \A r \in Slots : Heard(r, {"me"}) => request'[r] = request[r]
        BY <1>7, <2>2, DeliverEffect DEF Heard, TypeOK
      <3>2. status' = "loading" => status = "loading"
        BY <1>7, PageEffect DEF page
      <3> QED
        BY <1>0, <3>1, <3>2 DEF Heard
    <2> QED
      BY <2>1, <2>2
  <1>8. ASSUME NEW s \in Slots, ConnectionFails(s) PROVE LoadingHasAnEnd'
    <2>1. CASE request[s].kind = "me"
      BY <1>8, <2>1 DEF ConnectionFails, Show, LoadingHasAnEnd
    <2>2. CASE request[s].kind # "me"
      <3>1. \A r \in Slots : Heard(r, {"me"}) => request'[r] = request[r]
        BY <1>8, <2>2 DEF ConnectionFails, Heard, TypeOK
      <3>2. status' = "loading" => status = "loading"
        BY <1>8, <2>2 DEF ConnectionFails, Show, page
      <3> QED
        BY <1>0, <3>1, <3>2 DEF Heard
    <2> QED
      BY <2>1, <2>2
  <1>9. ASSUME NEW s \in Slots, Vanish(s) PROVE LoadingHasAnEnd'
    BY <1>0, <1>9 DEF Vanish, Heard, TypeOK, page
  <1> QED
    BY <1>1, <1>2, <1>3, <1>5, <1>6, <1>7, <1>8, <1>9
       DEF Next, Query, Login, Logout, Kinds, Guarded

-----------------------------------------------------------------------------

\* No step lets the row of the cookie's session outlive the cookie: whoever slides
\* the row answers with a new cookie.
LEMMA CookieStep ==
  TypeInv /\ IdsAreCreated /\ CookieOutlivesRow /\ [Next]_vars => CookieOutlivesRow'
  <1> SUFFICES ASSUME TypeInv, IdsAreCreated, CookieOutlivesRow, [Next]_vars
               PROVE  CookieOutlivesRow'
    OBVIOUS
  <1> USE DEF TypeInv
  <1>0. jar # None => jar.id \in Ids /\ jar.left \in 1 .. Ttl
    BY DEF TypeOK
  \* Whoever leaves the cookie and its row alone, and takes no re-issuing answer
  \* off its way, keeps it.
  <1>1. ASSUME jar' = jar, astray => astray',
               jar # None => row'[jar.id] = row[jar.id] \/ ~Live(jar.id)',
               \A r \in Slots : ReissuesJar(r) => ReissuesJar(r)' \/ astray'
        PROVE  CookieOutlivesRow'
    BY <1>1 DEF CookieOutlivesRow, Live
  <1>2. CASE AttemptElsewhere \/ SweepRateLimits \/ UNCHANGED vars
    BY <1>1, <1>2 DEF AttemptElsewhere, SweepRateLimits, vars, history, ReissuesJar, At, Cookie
  <1>3. CASE SweepSessions
    BY <1>0, <1>1, <1>3 DEF SweepSessions, history, ReissuesJar, At, Cookie, Live
  <1>4. CASE Tick
    <2> SUFFICES ASSUME jar' # None, Live(jar.id)'
                 PROVE  \/ jar'.left >= row'[jar'.id]
                        \/ astray'
                        \/ \E s \in Slots : ReissuesJar(s)'
      BY DEF CookieOutlivesRow
    <2>1. jar # None /\ jar'.id = jar.id /\ jar'.left = jar.left - 1
      BY <1>4 DEF Tick, TypeOK
    <2>2. /\ row[jar.id] \in Nat /\ row[jar.id] > 0 /\ row[jar.id] # None
          /\ row'[jar.id] = row[jar.id] - 1
      BY <1>0, <1>4, <2>1 DEF Tick, TypeOK, Live
    <2>3. astray => astray'
      BY <1>4 DEF Tick
    <2>4. \A s \in Slots : ReissuesJar(s) => ReissuesJar(s)'
      BY <1>4, <2>1 DEF Tick, ReissuesJar, At, Cookie
    <2>5. Live(jar.id)
      BY <1>0, <2>1, <2>2, AuthAssumption DEF Live, TypeOK
    <2> QED
      BY <1>0, <2>1, <2>2, <2>3, <2>4, <2>5 DEF CookieOutlivesRow
  <1>5. ASSUME NEW s \in Slots, NEW kind \in Kinds, Send(s, kind) PROVE CookieOutlivesRow'
    BY <1>1, <1>5 DEF Send, tables, history, ReissuesJar, At, Cookie, TypeOK
  <1>6. ASSUME NEW s \in Slots, Reload(s) PROVE CookieOutlivesRow'
    <2>1. \A r \in Slots : ReissuesJar(r) => ReissuesJar(r)'
      <3> SUFFICES ASSUME NEW r \in Slots, ReissuesJar(r) PROVE ReissuesJar(r)'
        OBVIOUS
      <3>1. request[r] # Idle /\ request[r] \in Requests /\ r # s
        BY <1>6 DEF ReissuesJar, At, TypeOK, Reload
      <3>2. request'[r] = [request[r] EXCEPT !.heard = FALSE]
        BY <1>6, <3>1 DEF Reload
      <3>3. /\ request'[r].kind = request[r].kind
            /\ request'[r].stage = request[r].stage
            /\ request'[r].id = request[r].id
        BY <3>1, <3>2 DEF Requests
      <3>4. request'[r] # Idle
        BY <3>1, <3>2, IdleIsNoRequest DEF Requests
      <3> QED
        BY <1>6, <3>3, <3>4 DEF ReissuesJar, At, Cookie, Reload
    <2> QED
      BY <1>1, <1>6, <2>1 DEF Reload, tables, history
  \* A request that is answered has re-issued nothing so far.
  <1>7. ASSUME NEW s \in Slots, At(s, Kinds, "sent") \/ At(s, Kinds, "checking"),
               NEW x, request' = [request EXCEPT ![s] = x], jar' = jar
        PROVE  \A r \in Slots : ReissuesJar(r) => ReissuesJar(r)'
    BY <1>7 DEF ReissuesJar, At, Cookie, TypeOK
  <1>8. ASSUME NEW s \in Slots, RequireAdmin(s) PROVE CookieOutlivesRow'
    <2>1. jar' = jar /\ astray' = astray /\ request[s] \in Requests
      BY <1>8 DEF RequireAdmin, history, At, TypeOK
    <2>2. \A r \in Slots : ReissuesJar(r) => ReissuesJar(r)'
      BY <1>8, <2>1 DEF RequireAdmin, Answer, ReissuesJar, At, Cookie, TypeOK, Guarded
    <2>3. CASE jar = None \/ ~Live(request[s].id) \/ request[s].id # jar.id
      BY <1>0, <1>1, <1>8, <2>1, <2>2, <2>3 DEF RequireAdmin, Slide, TypeOK
    <2>4. CASE jar # None /\ Live(request[s].id) /\ request[s].id = jar.id
      <3>1. request' = [request EXCEPT ![s].stage = "ok"]
        BY <1>8, <2>4 DEF RequireAdmin, Answer
      <3>2. /\ request'[s].stage = "ok"
            /\ request'[s].kind = request[s].kind
            /\ request'[s].id = request[s].id
        BY <2>1, <3>1 DEF TypeOK, Requests
      <3>3. request'[s] # Idle
        BY <2>1, <3>1 DEF TypeOK, Requests, Idle
      <3>4. ReissuesJar(s)'
        BY <1>8, <2>1, <2>4, <3>2, <3>3 DEF ReissuesJar, At, Cookie, RequireAdmin
      <3> QED
        BY <3>4 DEF CookieOutlivesRow
    <2> QED
      BY <2>3, <2>4
  <1>9. ASSUME NEW s \in Slots,
               RequireAdminFails(s) \/ CheckRateLimit(s) \/ Destroy(s) \/ DestroyFails(s)
        PROVE  CookieOutlivesRow'
    <2>1. /\ At(s, Kinds, "sent")
          /\ \E x : request' = [request EXCEPT ![s] = x]
          /\ jar' = jar /\ astray' = astray
      BY <1>9 DEF RequireAdminFails, CheckRateLimit, Destroy, DestroyFails, At, Answer,
                  tables, history, Kinds, Guarded
    <2>2. jar # None => row'[jar.id] = row[jar.id] \/ ~Live(jar.id)'
      BY <1>0, <1>9, <2>1 DEF RequireAdminFails, CheckRateLimit, Destroy, DestroyFails, tables, Live
    <2> QED
      BY <1>1, <1>7, <2>1, <2>2
  <1>10. ASSUME NEW s \in Slots, Authenticate(s) PROVE CookieOutlivesRow'
    <2>1. /\ At(s, Kinds, "checking")
          /\ \E x : request' = [request EXCEPT ![s] = x]
          /\ jar' = jar /\ astray' = astray
      BY <1>10 DEF Authenticate, At, Answer, history, Kinds
    <2>2. jar # None => row'[jar.id] = row[jar.id]
      BY <1>0, <1>10 DEF Authenticate, IdsAreCreated, TypeOK
    <2> QED
      BY <1>1, <1>7, <2>1, <2>2
  <1>11. ASSUME NEW s \in Slots, Deliver(s) PROVE CookieOutlivesRow'
    <2>1. row' = row /\ request[s] # Idle
      BY <1>11 DEF Deliver, tables
    <2>2. CASE request[s].stage # "ok"
      <3>1. jar' = jar /\ (astray => astray')
        BY <1>11, <2>2 DEF Deliver, JarAfter
      <3>2. \A r \in Slots : ReissuesJar(r) => request'[r] = request[r]
        BY <1>11, <2>2, DeliverEffect DEF ReissuesJar, At, TypeOK
      <3> QED
        BY <1>1, <2>1, <3>1, <3>2 DEF ReissuesJar, At, Cookie
    <2>3. CASE request[s].stage = "ok"
      <3>1. CASE request[s].kind = "logout"
        BY <1>11, <2>3, <3>1 DEF Deliver, JarAfter, CookieOutlivesRow
      <3>2. CASE request[s].kind # "logout"
        <4>1. /\ jar' = [id |-> request[s].id, left |-> Ttl]
              /\ request[s].id \in Ids
          BY <1>11, <2>3, <3>2 DEF Deliver, JarAfter, AnswersHaveIds
        <4>2. Live(jar.id)' => jar'.left >= row'[jar'.id]
          BY <2>1, <4>1, AuthAssumption DEF Live, TypeOK
        <4> QED
          BY <4>2 DEF CookieOutlivesRow
      <3> QED
        BY <3>1, <3>2
    <2> QED
      BY <2>2, <2>3
  <1>12. ASSUME NEW s \in Slots, ConnectionFails(s) PROVE CookieOutlivesRow'
    <2>1. request[s] \in Requests /\ request' = [request EXCEPT ![s].heard = FALSE]
      BY <1>12 DEF ConnectionFails, TypeOK
    <2>2. /\ request'[s].kind = request[s].kind
          /\ request'[s].stage = request[s].stage
          /\ request'[s].id = request[s].id
      BY <2>1 DEF TypeOK, Requests
    <2>3. request'[s] # Idle
      BY <2>1 DEF TypeOK, Requests, Idle
    <2>4. \A r \in Slots : ReissuesJar(r) => ReissuesJar(r)'
      BY <1>12, <2>1, <2>2, <2>3 DEF ReissuesJar, At, Cookie, TypeOK, ConnectionFails
    <2> QED
      BY <1>1, <1>12, <2>4 DEF ConnectionFails, tables, history
  <1>13. ASSUME NEW s \in Slots, Vanish(s) PROVE CookieOutlivesRow'
    <2>1. \A r \in Slots : ReissuesJar(r) => ReissuesJar(r)' \/ astray'
      BY <1>13 DEF Vanish, ReissuesJar, At, Cookie, TypeOK
    <2> QED
      BY <1>1, <1>13, <2>1 DEF Vanish, tables
  <1> QED
    BY <1>2, <1>3, <1>4, <1>5, <1>6, <1>8, <1>9, <1>10, <1>11, <1>12, <1>13
       DEF Next, Query, Login, Logout, Kinds, Guarded

-----------------------------------------------------------------------------

\* The first page load has all of these.
LEMMA InitHolds ==
  Init => /\ TypeInv /\ IdsAreCreated
          /\ ConfirmedLogoutIsFinal /\ LogoutsAreDone /\ PageInv
          /\ LoadingHasAnEnd /\ CookieOutlivesRow
  <1> SUFFICES ASSUME Init
               PROVE  /\ TypeInv /\ IdsAreCreated
                      /\ ConfirmedLogoutIsFinal /\ LogoutsAreDone /\ PageInv
                      /\ LoadingHasAnEnd /\ CookieOutlivesRow
    OBVIOUS
  <1>1. PICK s \in Slots : request = [r \in Slots |->
          IF r = s THEN Request("me", "sent", None) ELSE Idle]
    BY DEF Init
  <1>2. Request("me", "sent", None) \in Requests
    BY RequestType DEF Kinds, Guarded
  <1>3. TypeOK
    <2>1. request \in [Slots -> Requests \cup {Idle}]
      BY <1>1, <1>2
    <2>2. spent \in [0 .. Window - 1 -> Nat]
      BY DEF Init
    <2>3. 0 \in 0 .. MaxReloads
      BY AuthAssumption
    <2> QED
      BY <2>1, <2>2, <2>3 DEF Init, TypeOK
  <1>4. AnswersHaveIds /\ LogoutsAreDone
    BY <1>1 DEF AnswersHaveIds, LogoutsAreDone, At, Request
  <1>5. IdsAreCreated
    BY <1>1 DEF Init, IdsAreCreated, Request
  <1>6. ConfirmedLogoutIsFinal /\ CookieOutlivesRow
    BY DEF Init, ConfirmedLogoutIsFinal, CookieOutlivesRow
  <1>7. PageInv
    BY <1>1 DEF Init, PageInv, SignedOutIsNotShown, Heard, SignsIn, Signing, Request
  <1>8. LoadingHasAnEnd
    BY <1>1, <1>2, IdleIsNoRequest DEF LoadingHasAnEnd, Awaiting, Request
  <1> QED
    BY <1>3, <1>4, <1>5, <1>6, <1>7, <1>8 DEF TypeInv

\* Every state has the types of TypeOK: lifetimes, ages and counts stay within
\* their bounds (auth.ts, both tables; session.tsx).
THEOREM TypeCorrect == Spec => []TypeOK
  <1>1. TypeInv => TypeOK
    BY DEF TypeInv
  <1> QED
    BY <1>1, InitHolds, TypeStep, PTL DEF Spec

\* The types and the origin of the ids, for the theorems below.
LEMMA BaseHolds == Spec => [](TypeInv /\ IdsAreCreated)
  BY InitHolds, TypeStep, IdsStep, PTL DEF Spec

\* A session whose logout was confirmed has no row ever again, whatever requests are
\* still on their way with its cookie (auth.ts, selectLiveSession).
THEOREM LogoutIsFinal == Spec => []ConfirmedLogoutIsFinal
  BY InitHolds, BaseHolds, RowStep, PTL DEF Spec

\* No late answer makes the page show a session as signed in whose logout it has
\* seen confirmed (__root.tsx, session.tsx).
THEOREM LogoutIsNotShown == Spec => []SignedOutIsNotShown
  <1>1. PageInv => SignedOutIsNotShown
    BY DEF PageInv
  <1> QED
    BY <1>1, InitHolds, BaseHolds, LogoutIsFinal, PageStep, PTL DEF Spec

\* The cookie of a live session lasts as long as its row, or an answer that
\* re-issues it is on its way or was lost (middleware/auth.ts, requireAdmin).
THEOREM CookieLasts == Spec => []CookieOutlivesRow
  BY InitHolds, BaseHolds, CookieStep, PTL DEF Spec

\* A page that is loading waits for an answer (session.tsx, resolveSession).
THEOREM LoadingEnds == Spec => []LoadingHasAnEnd
  BY InitHolds, BaseHolds, LoadingStep, PTL DEF Spec

-----------------------------------------------------------------------------
(* The login limiter.                                                       *)

\* While the window is live, it counts the attempts let through since it began, up to
\* the limit, and those before it, which the next ticks drop first, were fewer than the
\* limit: the window they belonged to had begun with an attempt that is dropped by now.
\* Once it is over, fewer than the limit are left.
LimiterInv ==
  IF window # None /\ window.age < Window
    THEN /\ spent[window.age] >= 1
         /\ SumFunctionOnSet(spent, 0 .. window.age)
              = IF window.count > Limit THEN Limit ELSE window.count
         /\ SumFunctionOnSet(spent, window.age + 1 .. Window - 1) <= Limit - 1
    ELSE /\ spent[0] = 0
         /\ SumFunction(spent) <= Limit - 1

\* All ages, and the newest apart.
LEMMA AllAges ==
  ASSUME NEW f \in [0 .. Window - 1 -> Nat]
  PROVE  /\ \A x \in 0 .. Window - 1 : f[x] \in Nat
         /\ SumFunction(f) = SumFunctionOnSet(f, 0 .. Window - 1)
         /\ SumFunction(f) \in Nat
         /\ SumFunction(f) = f[0] + SumFunctionOnSet(f, 1 .. Window - 1)
  <1>1. SumFunction(f) = SumFunctionOnSet(f, 0 .. Window - 1)
    BY DEF SumFunction
  <1>2. \A x \in 0 .. Window - 1 : f[x] \in Nat
    OBVIOUS
  <1>3. Window - 1 \in Int /\ 0 <= Window - 1
    BY AuthAssumption
  <1>4. SumFunctionOnSet(f, 0 .. Window - 1) = f[0] + SumFunctionOnSet(f, 1 .. Window - 1)
    <2> HIDE <1>1
    <2>1. SumFunctionOnSet(f, 0 .. Window - 1) = f[0] + SumFunctionOnSet(f, 0 + 1 .. Window - 1)
      BY <1>2, <1>3, SumFirst
    <2> QED BY <2>1
  <1>5. SumFunctionOnSet(f, 0 .. Window - 1) \in Nat
    <2>1. IsFiniteSet(0 .. Window - 1)
      BY <1>3, FS_Interval
    <2> QED BY <1>2, <2>1, SumType
  <1> QED BY <1>1, <1>2, <1>4, <1>5

\* The ages up to one, and the older ones.
LEMMA AgesSplit ==
  ASSUME NEW f \in [0 .. Window - 1 -> Nat], NEW n \in 0 .. Window - 1
  PROVE  /\ SumFunctionOnSet(f, 0 .. n) \in Nat
         /\ SumFunctionOnSet(f, n + 1 .. Window - 1) \in Nat
         /\ SumFunction(f) = SumFunctionOnSet(f, 0 .. n)
                               + SumFunctionOnSet(f, n + 1 .. Window - 1)
  <1>1. Window - 1 \in Int /\ n \in 0 - 1 .. Window - 1
    BY AuthAssumption
  <1>2. \A x \in 0 .. Window - 1 : f[x] \in Nat
    OBVIOUS
  <1> QED BY <1>1, <1>2, AllAges, SumSplit

\* The two properties of the limiter follow.
LEMMA LimiterSuffices == TypeOK /\ LimiterInv => AttemptsAreBounded /\ RefusalHasCause
  <1> SUFFICES ASSUME TypeOK, LimiterInv PROVE AttemptsAreBounded /\ RefusalHasCause
    OBVIOUS
  <1>1. spent \in [0 .. Window - 1 -> Nat] /\ Limit \in Nat /\ Limit >= 1 /\ Window \in Nat
    BY AuthAssumption DEF TypeOK
  <1>2. SumFunction(spent) \in Nat
    BY <1>1, AllAges
  <1>3. CASE window # None /\ window.age < Window
    <2>1. window.age \in 0 .. Window - 1 /\ window.count \in Nat
      BY <1>1, <1>3, AuthAssumption DEF TypeOK
    <2>2. /\ SumFunctionOnSet(spent, 0 .. window.age) \in Nat
          /\ SumFunctionOnSet(spent, window.age + 1 .. Window - 1) \in Nat
          /\ SumFunction(spent) = SumFunctionOnSet(spent, 0 .. window.age)
               + SumFunctionOnSet(spent, window.age + 1 .. Window - 1)
      BY <1>1, <2>1, AgesSplit
    <2> QED BY <1>1, <1>3, <2>1, <2>2 DEF LimiterInv, AttemptsAreBounded, RefusalHasCause
  <1>4. CASE ~(window # None /\ window.age < Window)
    BY <1>1, <1>2, <1>4 DEF LimiterInv, AttemptsAreBounded, RefusalHasCause
  <1> QED BY <1>3, <1>4

\* An attempt adds one to the count and to the newest age, or to neither.
LEMMA AttemptKeepsLimiter == TypeOK /\ LimiterInv /\ Attempt => LimiterInv'
  <1> SUFFICES ASSUME TypeOK, LimiterInv, Attempt PROVE LimiterInv'
    OBVIOUS
  <1>1. spent \in [0 .. Window - 1 -> Nat] /\ Limit \in Nat /\ Limit >= 1 /\ Window \in Nat
        /\ Window >= 1
    BY AuthAssumption DEF TypeOK
  <1>2. /\ spent' \in [0 .. Window - 1 -> Nat]
        /\ \A a \in 1 .. Window - 1 : spent'[a] = spent[a]
        /\ spent'[0] = IF Bumped.count <= Limit THEN spent[0] + 1 ELSE spent[0]
    BY <1>1 DEF Attempt
  <1>3. CASE window # None /\ window.age < Window
    <2> DEFINE n == window.age
    <2>0. window \in [age : 0 .. Retention + 1, count : 1 .. Limit + 1]
      BY <1>3 DEF TypeOK
    <2>1. n \in 0 .. Window - 1 /\ window.count \in Nat
      BY <1>1, <1>3, <2>0, AuthAssumption
    <2>2. Bumped = [age |-> n, count |-> IF window.count > Limit THEN window.count
                                         ELSE window.count + 1]
      BY <1>3, <2>0, AuthAssumption DEF Bumped
    <2>6. /\ window'.age = n /\ window' # None /\ window'.count = Bumped.count
          /\ Bumped.count = IF window.count > Limit THEN window.count ELSE window.count + 1
      <3>1. window' = Bumped
        BY DEF Attempt
      <3>2. window' \in [age : Nat, count : Nat]
        BY <2>1, <2>2, <3>1
      <3> QED BY <2>2, <3>1, <3>2, AuthAssumption
    <2> HIDE DEF n
    <2>3. /\ SumFunctionOnSet(spent', 1 .. n) = SumFunctionOnSet(spent, 1 .. n)
          /\ SumFunctionOnSet(spent', n + 1 .. Window - 1)
               = SumFunctionOnSet(spent, n + 1 .. Window - 1)
      <3>1. IsFiniteSet(1 .. n) /\ IsFiniteSet(n + 1 .. Window - 1)
        <4>1. n + 1 \in Int /\ Window - 1 \in Int /\ n \in Int
          BY <1>1, <2>1
        <4> QED BY <4>1, FS_Interval
      <3>2. /\ \A a \in 1 .. n : spent'[a] = spent[a]
            /\ \A a \in n + 1 .. Window - 1 : spent'[a] = spent[a]
        BY <1>1, <1>2, <2>1
      <3> QED BY <3>1, <3>2, SumEqual
    <2>4. /\ SumFunctionOnSet(spent, 0 .. n) = spent[0] + SumFunctionOnSet(spent, 1 .. n)
          /\ SumFunctionOnSet(spent', 0 .. n) = spent'[0] + SumFunctionOnSet(spent', 1 .. n)
          /\ SumFunctionOnSet(spent, 1 .. n) \in Nat
      <3>1. /\ \A a \in 0 .. n : spent[a] \in Nat /\ spent'[a] \in Nat
            /\ \A a \in 1 .. n : spent[a] \in Nat
        BY <1>1, <1>2, <2>1
      <3>2. n \in Int /\ 0 <= n
        BY <2>1
      <3>3. /\ SumFunctionOnSet(spent, 0 .. n) = spent[0] + SumFunctionOnSet(spent, 0 + 1 .. n)
            /\ SumFunctionOnSet(spent', 0 .. n) = spent'[0] + SumFunctionOnSet(spent', 0 + 1 .. n)
        BY <3>1, <3>2, SumFirst
      <3>4. SumFunctionOnSet(spent, 1 .. n) \in Nat
        <4>1. IsFiniteSet(1 .. n)
          BY <3>2, FS_Interval
        <4> QED BY <3>1, <4>1, SumType
      <3> QED BY <3>3, <3>4
    <2>5. spent'[n] >= spent[n]
      BY <1>1, <1>2, <2>1
    <2>7. spent[n] >= 1 /\ spent[n] \in Nat /\ spent'[n] \in Nat /\ spent[0] \in Nat
      BY <1>1, <1>2, <1>3, <2>1 DEF LimiterInv, n
    <2>8. /\ SumFunctionOnSet(spent, 0 .. n) = IF window.count > Limit THEN Limit ELSE window.count
          /\ SumFunctionOnSet(spent, n + 1 .. Window - 1) <= Limit - 1
      BY <1>3 DEF LimiterInv, n
    <2>9. SumFunctionOnSet(spent', 0 .. n)
            = IF window'.count > Limit THEN Limit ELSE window'.count
      <3>1. CASE window.count < Limit
        <4>1. window'.count = window.count + 1 /\ window'.count <= Limit
          BY <1>1, <2>1, <2>6, <3>1
        <4>2. spent'[0] = spent[0] + 1
          BY <1>2, <2>6, <4>1
        <4>3. SumFunctionOnSet(spent, 0 .. n) = window.count
          BY <1>1, <2>1, <2>8, <3>1
        <4> QED BY <1>1, <2>1, <2>3, <2>4, <2>7, <4>1, <4>2, <4>3
      <3>2. CASE window.count >= Limit
        <4>1. window'.count > Limit
          BY <1>1, <2>1, <2>6, <3>2
        <4>2. spent'[0] = spent[0]
          BY <1>1, <1>2, <2>1, <2>6, <4>1
        <4>3. SumFunctionOnSet(spent, 0 .. n) = Limit
          BY <1>1, <2>1, <2>8, <3>2
        <4> QED BY <2>3, <2>4, <4>1, <4>2, <4>3
      <3> QED BY <1>1, <2>1, <3>1, <3>2
    <2>10. spent'[n] >= 1
      BY <2>5, <2>7
    <2> QED BY <1>1, <2>1, <2>3, <2>6, <2>8, <2>9, <2>10 DEF LimiterInv
  <1>4. CASE ~(window # None /\ window.age < Window)
    <2>1. Bumped = [age |-> 0, count |-> 1] /\ window' = Bumped
      <3>1. window = None \/ (window # None /\ window.age >= Window)
        BY <1>1, <1>4, AuthAssumption DEF TypeOK
      <3> QED BY <3>1 DEF Bumped, Attempt
    <2>2. window' # None /\ window'.age = 0 /\ window'.count = 1
      <3>1. window' \in [age : Nat, count : Nat]
        BY <2>1
      <3> QED BY <2>1, <3>1, AuthAssumption
    <2>3. SumFunctionOnSet(spent', 1 .. Window - 1) = SumFunctionOnSet(spent, 1 .. Window - 1)
      <3>1. IsFiniteSet(1 .. Window - 1)
        BY <1>1, FS_Interval
      <3> QED BY <1>2, <3>1, SumEqual
    <2>4. SumFunctionOnSet(spent', 0 .. 0) = spent'[0]
      <3>1. spent'[0] \in Nat
        BY <1>1, <1>2
      <3> QED BY <3>1, SumSingle
    <2>5. spent[0] = 0 /\ spent'[0] = 1 /\ SumFunction(spent) <= Limit - 1
      BY <1>1, <1>2, <1>4, <2>1 DEF LimiterInv
    <2>6. SumFunction(spent) = spent[0] + SumFunctionOnSet(spent, 1 .. Window - 1)
          /\ SumFunction(spent) \in Nat
      BY <1>1, AllAges
    <2>7. SumFunctionOnSet(spent, 1 .. Window - 1) \in Nat
      BY <1>1, AgesSplit
    <2>8. SumFunctionOnSet(spent', 1 .. Window - 1) <= Limit - 1
      BY <2>3, <2>5, <2>6, <2>7
    <2> QED BY <1>1, <2>2, <2>4, <2>5, <2>8 DEF LimiterInv
  <1> QED BY <1>3, <1>4

\* A tick moves every attempt up one age, and drops the oldest.
LEMMA TickKeepsLimiter == TypeOK /\ LimiterInv /\ Tick => LimiterInv'
  <1> SUFFICES ASSUME TypeOK, LimiterInv, Tick PROVE LimiterInv'
    OBVIOUS
  <1>1. spent \in [0 .. Window - 1 -> Nat] /\ Limit \in Nat /\ Limit >= 1 /\ Window \in Nat
        /\ Window >= 1 /\ Retention \in Nat /\ Retention >= Window
    BY AuthAssumption DEF TypeOK
  <1>2. /\ spent' \in [0 .. Window - 1 -> Nat]
        /\ \A a \in 0 .. Window - 2 : spent'[a + 1] = spent[a]
        /\ spent'[0] = 0
    BY <1>1 DEF Tick
  <1>3. ASSUME NEW m \in Nat, NEW n \in Int, n <= Window - 2
        PROVE  SumFunctionOnSet(spent', m + 1 .. n + 1) = SumFunctionOnSet(spent, m .. n)
    <2>1. \A x \in m .. n : spent[x] \in Nat
      BY <1>1, <1>3
    <2>2. \A x \in m .. n : spent'[x + 1] = spent[x]
      BY <1>1, <1>2, <1>3
    <2> QED BY <1>3, <2>1, <2>2, SumShift
  \* The oldest age is dropped from the total.
  <1>4. SumFunction(spent) = SumFunction(spent') + spent[Window - 1]
    <2>1. SumFunction(spent') = spent'[0] + SumFunctionOnSet(spent', 1 .. Window - 1)
      BY <1>2, AllAges
    <2>2. SumFunctionOnSet(spent', 0 + 1 .. (Window - 2) + 1) = SumFunctionOnSet(spent, 0 .. Window - 2)
      BY <1>1, <1>3
    <2>3. SumFunctionOnSet(spent, 0 .. Window - 1)
            = spent[Window - 1] + SumFunctionOnSet(spent, 0 .. (Window - 1) - 1)
      <3>1. \A x \in 0 .. Window - 1 : spent[x] \in Nat
        BY <1>1
      <3>2. 0 <= Window - 1 /\ Window - 1 \in Int
        BY <1>1
      <3> QED BY <3>1, <3>2, SumLast
    <2>4. SumFunction(spent) = SumFunctionOnSet(spent, 0 .. Window - 1)
      BY <1>1, AllAges
    <2>5. SumFunction(spent') \in Nat
      BY <1>2, AllAges
    <2>6. spent[Window - 1] \in Nat
      BY <1>1
    <2>7. SumFunctionOnSet(spent', 1 .. Window - 1) = SumFunctionOnSet(spent, 0 .. Window - 2)
      <3>1. 0 + 1 = 1 /\ (Window - 2) + 1 = Window - 1
        BY <1>1
      <3> QED BY <2>2, <3>1
    <2>8. SumFunction(spent') = SumFunctionOnSet(spent, 0 .. Window - 2)
      <3>1. SumFunctionOnSet(spent, 0 .. Window - 2) \in Nat
        <4>1. IsFiniteSet(0 .. Window - 2)
          BY <1>1, FS_Interval
        <4>2. \A x \in 0 .. Window - 2 : spent[x] \in Nat
          BY <1>1
        <4> QED BY <4>1, <4>2, SumType
      <3> QED BY <1>2, <2>1, <2>7, <3>1
    <2>9. (Window - 1) - 1 = Window - 2
      BY <1>1
    <2> QED BY <2>3, <2>4, <2>5, <2>6, <2>8, <2>9
  <1>5. /\ SumFunction(spent') \in Nat /\ SumFunction(spent) \in Nat
        /\ \A a \in 0 .. Window - 1 : spent[a] \in Nat
    BY <1>1, <1>2, AllAges
  <1>6. CASE window # None /\ window.age < Window
    <2> DEFINE n == window.age
    <2>0. window \in [age : 0 .. Retention + 1, count : 1 .. Limit + 1]
      BY <1>6 DEF TypeOK
    <2>1. n \in 0 .. Window - 1 /\ window.count \in Nat /\ n \in Nat
      BY <1>1, <1>6, <2>0
    <2>2. window' # None /\ window'.age = n + 1 /\ window'.count = window.count
      <3>1. window' = [age |-> n + 1, count |-> window.count]
        BY <1>1, <1>6, <2>0, <2>1 DEF Tick
      <3>2. window' \in [age : Nat, count : Nat]
        BY <2>1, <3>1
      <3> QED BY <3>1, <3>2, AuthAssumption
    <2>3. /\ spent[n] >= 1
          /\ SumFunctionOnSet(spent, 0 .. n) = IF window.count > Limit THEN Limit ELSE window.count
          /\ SumFunctionOnSet(spent, n + 1 .. Window - 1) <= Limit - 1
      BY <1>6 DEF LimiterInv
    <2>4. SumFunction(spent) = SumFunctionOnSet(spent, 0 .. n)
                               + SumFunctionOnSet(spent, n + 1 .. Window - 1)
          /\ SumFunctionOnSet(spent, n + 1 .. Window - 1) \in Nat
      BY <1>1, <2>1, AgesSplit
    <2> HIDE DEF n
    <2>5. CASE n = Window - 1
      <3>1. SumFunctionOnSet(spent, n + 1 .. Window - 1) = 0
        <4>1. n + 1 .. Window - 1 = {}
          BY <1>1, <2>5
        <4> QED BY <4>1, SumEmpty
      <3>2. SumFunction(spent') <= Limit - 1
        BY <1>1, <1>4, <1>5, <2>1, <2>3, <2>4, <2>5, <3>1
      <3> QED BY <1>1, <1>2, <2>2, <2>5, <3>2 DEF LimiterInv
    <2>6. CASE n < Window - 1
      <3>1. spent'[n + 1] >= 1
        BY <1>1, <1>2, <2>1, <2>3, <2>6
      <3>2. SumFunctionOnSet(spent', 0 .. n + 1) = SumFunctionOnSet(spent, 0 .. n)
        <4>1. SumFunctionOnSet(spent', 0 + 1 .. n + 1) = SumFunctionOnSet(spent, 0 .. n)
          BY <1>1, <1>3, <2>1, <2>6
        <4>2. SumFunctionOnSet(spent', 0 .. n + 1) = spent'[0] + SumFunctionOnSet(spent', 0 + 1 .. n + 1)
          <5>1. \A x \in 0 .. n + 1 : spent'[x] \in Nat
            BY <1>1, <1>2, <2>1, <2>6
          <5>2. n + 1 \in Int /\ 0 <= n + 1
            BY <2>1
          <5> QED BY <5>1, <5>2, SumFirst
        <4>3. SumFunctionOnSet(spent, 0 .. n) \in Nat
          BY <1>1, <2>1, AgesSplit
        <4> QED BY <1>2, <4>1, <4>2, <4>3
      <3>3. SumFunctionOnSet(spent', (n + 1) + 1 .. Window - 1) <= Limit - 1
        <4>1. SumFunctionOnSet(spent', (n + 1) + 1 .. (Window - 2) + 1)
                = SumFunctionOnSet(spent, n + 1 .. Window - 2)
          BY <1>1, <1>3, <2>1, <2>6
        <4>2. SumFunctionOnSet(spent, n + 1 .. Window - 1)
                = spent[Window - 1] + SumFunctionOnSet(spent, n + 1 .. (Window - 1) - 1)
          <5>1. \A x \in n + 1 .. Window - 1 : spent[x] \in Nat
            BY <1>1, <2>1
          <5>2. n + 1 <= Window - 1 /\ Window - 1 \in Int /\ n + 1 \in Int
            BY <1>1, <2>1, <2>6
          <5> QED BY <5>1, <5>2, SumLast
        <4>3. spent[Window - 1] \in Nat
          BY <1>1
        <4>4. SumFunctionOnSet(spent, n + 1 .. Window - 2) \in Nat
          <5>1. \A x \in n + 1 .. Window - 2 : spent[x] \in Nat
            BY <1>1, <2>1
          <5>2. IsFiniteSet(n + 1 .. Window - 2)
            BY <1>1, <2>1, FS_Interval
          <5> QED BY <5>1, <5>2, SumType
        <4>5. (Window - 2) + 1 = Window - 1 /\ (Window - 1) - 1 = Window - 2
          BY <1>1
        <4> QED BY <1>1, <2>3, <4>1, <4>2, <4>3, <4>4, <4>5
      <3> QED BY <1>1, <2>1, <2>2, <2>3, <2>6, <3>1, <3>2, <3>3 DEF LimiterInv
    <2> QED BY <2>1, <2>5, <2>6, <1>1
  <1>7. CASE ~(window # None /\ window.age < Window)
    <2>1. SumFunction(spent) <= Limit - 1
      BY <1>7 DEF LimiterInv
    <2>2. SumFunction(spent') <= Limit - 1
      BY <1>1, <1>4, <1>5, <2>1
    <2>3. ~(window' # None /\ window'.age < Window)
      <3>1. CASE window = None
        BY <3>1 DEF Tick
      <3>2. CASE window # None
        <4>1. window \in [age : 0 .. Retention + 1, count : 1 .. Limit + 1]
          BY <3>2 DEF TypeOK
        <4>2. window.age >= Window
          BY <1>1, <1>7, <3>2, <4>1
        <4>3. window' = [window EXCEPT !.age = IF @ > Retention THEN @ ELSE @ + 1]
          BY <3>2 DEF Tick
        <4>4. window'.age >= Window /\ window'.age \in Nat
          BY <1>1, <4>1, <4>2, <4>3
        <4> QED BY <1>1, <4>4
      <3> QED BY <3>1, <3>2
    <2> QED BY <1>2, <2>2, <2>3 DEF LimiterInv
  <1> QED BY <1>6, <1>7

\* Nothing was let through before the program began.
LEMMA LimiterInit == Init => LimiterInv
  <1> SUFFICES ASSUME Init PROVE LimiterInv
    OBVIOUS
  <1>1. spent \in [0 .. Window - 1 -> Nat] /\ spent[0] = 0 /\ window = None
        /\ \A a \in 0 .. Window - 1 : spent[a] = 0
    BY AuthAssumption DEF Init
  <1>2. IsFiniteSet(0 .. Window - 1)
    BY AuthAssumption, FS_Interval
  <1>3. SumFunctionOnSet(spent, 0 .. Window - 1) = 0
    BY <1>1, <1>2, SumZero
  <1>4. SumFunction(spent) = 0
    BY <1>1, <1>3, AllAges
  <1> QED BY <1>1, <1>4, AuthAssumption DEF LimiterInv

\* No other step touches the limiter but the sweep, which only drops a dead window.
LEMMA LimiterStep == TypeOK /\ LimiterInv /\ [Next]_vars => LimiterInv'
  <1> SUFFICES ASSUME TypeOK, LimiterInv, [Next]_vars PROVE LimiterInv'
    OBVIOUS
  <1>1. CASE Attempt
    BY <1>1, AttemptKeepsLimiter
  <1>2. CASE Tick
    BY <1>2, TickKeepsLimiter
  <1>3. CASE SweepRateLimits
    <2>1. window # None /\ window.age > Retention /\ window' = None /\ spent' = spent
      BY <1>3 DEF SweepRateLimits, history
    <2>2. ~(window.age < Window)
      BY <2>1, AuthAssumption DEF TypeOK
    <2> QED BY <2>1, <2>2 DEF LimiterInv
  <1>4. CASE UNCHANGED <<window, spent>>
    BY <1>4 DEF LimiterInv
  <1> QED
    BY <1>1, <1>2, <1>3, <1>4
       DEF Next, vars, AttemptElsewhere, SweepSessions, Query, Login, Logout, Reload, Send, RequireAdmin,
           RequireAdminFails, CheckRateLimit, Authenticate, Destroy, DestroyFails,
           Deliver, ConnectionFails, Vanish, tables, history, page

\* The limiter, with the types.
LEMMA LimiterHolds == Spec => [](TypeOK /\ LimiterInv)
  <1>1. TypeOK /\ LimiterInv /\ [Next]_vars => LimiterInv'
    BY LimiterStep
  <1> QED BY <1>1, LimiterInit, TypeCorrect, PTL DEF Spec

\* However the attempts, the ticks of the clock and the sweeps interleave, no window
\* of time, wherever it begins, sees twice the limit of attempts let through
\* (auth.ts, bumpRateLimit).
THEOREM AttemptsBounded == Spec => []AttemptsAreBounded
  BY LimiterHolds, LimiterSuffices, PTL

\* Whoever the window's row turns down has used the limit up within the last window
\* (repositories/auth.ts, bumpRateLimit); what rate-limit.ts turns down because the
\* row could not be written is outside it.
THEOREM RefusalsHaveCause == Spec => []RefusalHasCause
  BY LimiterHolds, LimiterSuffices, PTL

=============================================================================
