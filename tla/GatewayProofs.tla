---------------------------- MODULE GatewayProofs ----------------------------
(***************************************************************************)
(* The auth middleware of one process, for any number of requests and      *)
(* tokens and any durations: a revoked token is refused in time.           *)
(***************************************************************************)
EXTENDS Gateway, TLAPS

-----------------------------------------------------------------------------
(* The token cache                                                         *)

\* An entry expires at most TTL from now, and at most TTL after the last
\* verdict on a session that has ended; a verdict still to be stored was asked
\* for before the end.
AuthInv ==
  /\ clock \in Nat
  /\ AuthType
  /\ \A k \in Token : tokenCache[k] <= clock + TTL
  /\ \A k \in Token : ended[k] # 0 => tokenCache[k] <= ended[k] + Timeout + TTL
  /\ \A r \in Request :
       auth[r].pc = "store" /\ ended[auth[r].token] # 0 =>
         auth[r].sent <= ended[auth[r].token]

\* The variables of the token cache: the part of a step that concerns it.
AuthStep ==
  \/ \E r \in Request :
       /\ \/ \E k \in Token : Load(r, k)
          \/ Delete(r) \/ Vouch(r) \/ Store(r) \/ Refuse(r)
          \/ auth[r].pc = "passed" /\ EndAuth(r) /\ UNCHANGED <<tokenCache, ended>>
       /\ UNCHANGED clock
  \/ (\E k \in Token : EndSession(k)) /\ UNCHANGED clock
  \/ clock' = clock + 1 /\ UNCHANGED authVars
  \/ UNCHANGED <<clock, authVars>>

\* Each step of the gateway is, for the token cache, one of these.
LEMMA GatewayAuthStep ==
  ASSUME [GatewayNext]_gatewayVars
  PROVE  AuthStep
<1>1. ASSUME NEW r \in Request, Arrive(r) PROVE AuthStep
  BY <1>1 DEF Arrive, AuthStep
<1>2. ASSUME NEW r \in Request, Authenticate(r) PROVE AuthStep
  BY <1>2 DEF Authenticate, AuthStep
<1>3. ASSUME NEW r \in Request, Unauthorized(r) PROVE AuthStep
  BY <1>3 DEF Unauthorized, AuthStep
<1>4. ASSUME NEW r \in Request, RateLimit(r) PROVE AuthStep
  BY <1>4 DEF RateLimit, AuthStep
<1>5. ASSUME NEW r \in Request, LimitVerdict(r) PROVE AuthStep
  BY <1>5 DEF LimitVerdict, Limited, Leave, AuthStep
<1>6. ASSUME NEW r \in Request, Read(r) PROVE AuthStep
  BY <1>6 DEF Read, Leave, AuthStep
<1>7. ASSUME NEW k \in Token, Logout(k) PROVE AuthStep
  BY <1>7 DEF Logout, AuthStep
<1>8. CASE Tick
  BY <1>8 DEF Tick, Advance, AuthStep
<1>9. CASE UNCHANGED gatewayVars
  BY <1>9 DEF gatewayVars, AuthStep
<1> QED BY <1>1, <1>2, <1>3, <1>4, <1>5, <1>6, <1>7, <1>8, <1>9 DEF GatewayNext

\* What a request that has not ended carries.
LEMMA AuthRecord ==
  ASSUME AuthType, NEW r \in Request, auth[r].pc # "idle"
  PROVE  /\ auth[r] \in [pc : AuthPc \ {"idle"}, token : Token, sent : Nat]
         /\ auth[r].token \in Token
         /\ auth[r].sent \in Nat
<1>1. auth[r] \in [pc : AuthPc \ {"idle"}, token : Token, sent : Nat] \cup {NoAuth}
  BY DEF AuthType
<1>2. auth[r] # NoAuth
  BY DEF NoAuth
<1> QED BY <1>1, <1>2

\* NewAuth0Middleware: a process starts with an empty cache.
LEMMA AuthInitial == GatewayInit => AuthInv
  BY AuthAssumption DEF GatewayInit, ClockInit, AuthInit, AuthInv, AuthType, NoAuth

\* No load, delete, question, store or logout breaks the invariant.
LEMMA AuthInductive ==
  ASSUME AuthInv, AuthStep
  PROVE  AuthInv'
<1> USE AuthAssumption DEF AuthInv
<1>1. ASSUME NEW r \in Request, NEW k \in Token, Load(r, k), UNCHANGED clock PROVE AuthInv'
  <2>1. PICK pc \in {"passed", "delete", "ask"}, sent \in {0, clock} :
          auth' = [auth EXCEPT ![r] = [pc |-> pc, token |-> k, sent |-> sent]]
    BY <1>1 DEF Load, SetAuth
  <2>2. UNCHANGED <<tokenCache, ended>>
    BY <1>1 DEF Load
  <2>3. AuthType'
    BY <1>1, <2>1, <2>2 DEF AuthType, AuthPc
  <2> QED BY <1>1, <2>1, <2>2, <2>3 DEF AuthType
<1>2. ASSUME NEW r \in Request, Delete(r), UNCHANGED clock PROVE AuthInv'
  <2>1. auth[r].token \in Token
    BY <1>2, AuthRecord DEF Delete
  <2>2. AuthType'
    BY <1>2, <2>1 DEF AuthType, AuthPc, Delete, SetAuth
  <2> QED BY <1>2, <2>1, <2>2 DEF AuthType, Delete, SetAuth
<1>3. ASSUME NEW r \in Request, Vouch(r), UNCHANGED clock PROVE AuthInv'
  <2>1. auth[r].token \in Token /\ auth[r].sent \in Nat
    BY <1>3, AuthRecord DEF Vouch
  <2>2. AuthType'
    BY <1>3, <2>1 DEF AuthType, AuthPc, Vouch, SetAuth
  <2> QED BY <1>3, <2>1, <2>2 DEF AuthType, Vouch, SetAuth
<1>4. ASSUME NEW r \in Request, Store(r), UNCHANGED clock PROVE AuthInv'
  <2>1. auth[r].token \in Token /\ auth[r].sent \in Nat
    BY <1>4, AuthRecord DEF Store
  <2>2. AuthType'
    BY <1>4, <2>1 DEF AuthType, AuthPc, Store, SetAuth
  <2>3. ended[auth[r].token] # 0 => clock + TTL <= ended[auth[r].token] + Timeout + TTL
    BY <1>4, <2>1 DEF Store, AuthType
  <2> QED BY <1>4, <2>1, <2>2, <2>3 DEF AuthType, Store, SetAuth
<1>5. ASSUME NEW r \in Request, EndAuth(r), UNCHANGED <<clock, tokenCache, ended>> PROVE AuthInv'
  <2>1. AuthType'
    BY <1>5 DEF AuthType, EndAuth, NoAuth
  <2> QED BY <1>5, <2>1 DEF AuthType, EndAuth, NoAuth
<1>6. ASSUME NEW k \in Token, EndSession(k), UNCHANGED clock PROVE AuthInv'
  <2>1. AuthType'
    BY <1>6 DEF AuthType, EndSession
  <2>2. ASSUME NEW r \in Request, auth[r].pc = "store", ended'[auth[r].token] # 0
        PROVE  auth[r].sent <= ended'[auth[r].token]
    BY <1>6, <2>2, AuthRecord DEF EndSession, AuthType
  <2> QED BY <1>6, <2>1, <2>2 DEF AuthType, EndSession
<1>7. CASE clock' = clock + 1 /\ UNCHANGED authVars
  <2>1. \A r \in Request : auth[r].sent \in Nat
    <3> SUFFICES ASSUME NEW r \in Request PROVE auth[r].sent \in Nat
      OBVIOUS
    <3>1. CASE auth[r] = NoAuth
      BY <3>1 DEF NoAuth
    <3>2. CASE auth[r] # NoAuth
      BY <3>2 DEF AuthType
    <3> QED BY <3>1, <3>2
  <2>2. AuthType'
    BY <1>7, <2>1 DEF AuthType, authVars
  <2> QED BY <1>7, <2>2 DEF AuthType, authVars
<1>8. CASE UNCHANGED <<clock, authVars>>
  BY <1>8 DEF AuthType, authVars
<1> QED BY <1>1, <1>2, <1>3, <1>4, <1>5, <1>6, <1>7, <1>8 DEF AuthStep, Refuse

\* AuthCache: entries of one token that several requests write and delete never
\* outlive the last verdict of Auth0 by more than TTL.
THEOREM AuthInvariant == GatewaySpec => []AuthInv
<1>1. AuthInv /\ [GatewayNext]_gatewayVars => AuthInv'
  BY AuthInductive, GatewayAuthStep
<1> QED BY AuthInitial, <1>1, PTL DEF GatewaySpec

\* What one step may do to a request that has not passed.
Timely ==
  \A r \in Request :
    auth[r].pc # "passed" /\ auth'[r].pc = "passed" =>
      LET end == ended[auth'[r].token]
      IN  end = 0 \/ clock < end + TTL + Timeout

\* A request passes with a fresh entry or with a verdict it has just stored, and
\* either way in time.
LEMMA TimelyStep ==
  ASSUME AuthInv, AuthStep
  PROVE  Timely
<1> USE AuthAssumption DEF AuthInv
<1> SUFFICES ASSUME NEW q \in Request, auth[q].pc # "passed", auth'[q].pc = "passed",
                    ended[auth'[q].token] # 0
             PROVE  clock < ended[auth'[q].token] + TTL + Timeout
  BY DEF Timely
<1>1. ASSUME NEW r \in Request, NEW k \in Token, Load(r, k)
      PROVE  clock < ended[auth'[q].token] + TTL + Timeout
  <2>1. q = r /\ auth'[q].token = k /\ Fresh(k)
    BY <1>1 DEF Load, SetAuth, AuthType
  <2> QED BY <2>1 DEF Fresh, AuthType
<1>2. ASSUME NEW r \in Request, Store(r)
      PROVE  clock < ended[auth'[q].token] + TTL + Timeout
  <2>1. q = r /\ auth'[q].token = auth[r].token
    BY <1>2 DEF Store, SetAuth, AuthType
  <2>2. auth[r].token \in Token /\ auth[r].sent \in Nat
    BY <1>2, AuthRecord DEF Store
  <2> QED BY <1>2, <2>1, <2>2 DEF Store, AuthType
<1>3. ASSUME NEW r \in Request, Delete(r) \/ Vouch(r) \/ EndAuth(r) PROVE FALSE
  BY <1>3 DEF Delete, Vouch, EndAuth, SetAuth, NoAuth, AuthType
<1>4. ~UNCHANGED auth
  OBVIOUS
<1> QED BY <1>1, <1>2, <1>3, <1>4 DEF AuthStep, Refuse, EndSession, authVars

\* AuthCache: from TTL plus Timeout after the end of its session a token is
\* refused, however the requests that carry it interleave.
THEOREM RevocationInTime == GatewaySpec => RevocationTakesEffect
<1>1. AuthInv /\ [GatewayNext]_gatewayVars => [Timely]_<<clock, authVars>>
  BY GatewayAuthStep, TimelyStep
<1> QED BY AuthInvariant, <1>1, PTL DEF GatewaySpec, RevocationTakesEffect, Timely
=============================================================================
