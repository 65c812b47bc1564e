------------------------------- MODULE Gateway -------------------------------
(***************************************************************************)
(* The way of a request through the router of one Notification Service     *)
(* process: every route of /api/v1 passes the auth middleware, and the     *)
(* mutations pass the rate limiter behind it, under the user the auth      *)
(* middleware has found.  The internal dispatch route, the dashboard and   *)
(* /health pass neither, and are not routed here.                          *)
(***************************************************************************)
EXTENDS AuthCache, RateLimiter

CONSTANT UserOf  \* the sub of each token

ASSUME GatewayAssumption == UserOf \in [Token -> User]

VARIABLE route  \* the kind of request each goroutine serves

gatewayVars == <<clock, authVars, limitVars, route>>

\* GET /notifications/:id and /templates; POST /notifications and /templates.
Kind == {"read", "write"}

GatewayInit ==
  ClockInit /\ AuthInit /\ LimitInit /\ route = [r \in Request |-> "none"]

\* A request arrives and enters the auth middleware.
Arrive(r) ==
  /\ \E kind \in Kind : route' = [route EXCEPT ![r] = kind]
  /\ \E k \in Token : Load(r, k)
  /\ UNCHANGED <<clock, limitVars>>

Authenticate(r) ==
  /\ Delete(r) \/ Vouch(r) \/ Store(r)
  /\ UNCHANGED <<clock, limitVars, route>>

\* c.Abort() in the auth middleware.
Unauthorized(r) ==
  /\ Refuse(r)
  /\ route' = [route EXCEPT ![r] = "none"]
  /\ UNCHANGED <<clock, limitVars>>

\* The group of POST routes uses the limiter, the GET routes do not.
Limited(r) == auth[r].pc = "passed" /\ route[r] = "write"

\* c.Get("user_id"), which the auth middleware has set.
Key(r) == UserOf[auth[r].token]

RateLimit(r) ==
  /\ Limited(r)
  /\ Lookup(r, Key(r)) \/ Create(r) \/ Stamp(r)
  /\ UNCHANGED <<clock, authVars, route>>

\* The request leaves the middlewares, for its handler or with a 429.
Leave(r) ==
  /\ EndAuth(r)
  /\ route' = [route EXCEPT ![r] = "none"]
  /\ UNCHANGED <<clock, tokenCache, ended>>

LimitVerdict(r) == Limited(r) /\ Allow(r) /\ Leave(r)

Read(r) ==
  /\ auth[r].pc = "passed"
  /\ route[r] = "read"
  /\ Leave(r)
  /\ UNCHANGED limitVars

Logout(k) == EndSession(k) /\ UNCHANGED <<clock, limitVars, route>>

Tick == Advance /\ LimitTimely /\ UNCHANGED <<authVars, limitVars, route>>

GatewayNext ==
  \/ \E r \in Request :
       \/ Arrive(r) \/ Authenticate(r) \/ Unauthorized(r)
       \/ RateLimit(r) \/ LimitVerdict(r) \/ Read(r)
  \/ \E k \in Token : Logout(k)
  \/ Tick

GatewaySpec == GatewayInit /\ [][GatewayNext]_gatewayVars

-----------------------------------------------------------------------------
(* Properties                                                              *)

\* Every variable has its type.
GatewayType ==
  /\ clock \in Nat
  /\ AuthType
  /\ LimitType
  /\ route \in [Request -> Kind \cup {"none"}]
=============================================================================
