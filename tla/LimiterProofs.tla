---------------------------- MODULE LimiterProofs ----------------------------
(***************************************************************************)
(* The rate limiter for any number of requests and users, any MaxTokens and*)
(* any Duration: it implements one Quota per user, and therefore lets a    *)
(* user through at most MaxTokens times per Duration in the long run.      *)
(***************************************************************************)
EXTENDS GatewayProofs, SequenceTheorems

\* A user's window is created once and kept, nobody shares it, and a call of
\* Allow works on the window that is still its user's.
LimitInv ==
  /\ clock \in Nat
  /\ LimitType
  /\ \A u, v \in User : windows[u] # 0 /\ windows[u] = windows[v] => u = v
  /\ \A r \in Request :
       limit[r].pc \in {"stamp", "allow"} => limit[r].win = windows[limit[r].key]
  /\ \A i \in 1 .. Len(heap) : heap[i].tokens <= MaxTokens /\ heap[i].start <= clock
  /\ \A u \in User : windows[u] = 0 => admitted[u] = <<>>

\* The part of a step that concerns the limiter.
LimitStep ==
  \/ \E r \in Request :
       /\ \/ \E u \in User : Lookup(r, u)
          \/ Create(r) \/ Stamp(r) \/ Allow(r)
       /\ UNCHANGED clock
  \/ clock' = clock + 1 /\ LimitTimely /\ UNCHANGED limitVars
  \/ UNCHANGED limitVars /\ UNCHANGED clock

\* Each step of the gateway is, for the limiter, one of these; the user whose
\* window is looked up is the one the auth middleware has found.
LEMMA GatewayLimitStep ==
  ASSUME AuthInv, [GatewayNext]_gatewayVars
  PROVE  LimitStep
<1>1. ASSUME NEW r \in Request, RateLimit(r) PROVE LimitStep
  <2>1. auth[r].token \in Token
    BY <1>1, AuthRecord DEF RateLimit, Limited, AuthInv
  <2>2. Key(r) \in User
    BY <2>1, GatewayAssumption DEF Key
  <2> QED BY <1>1, <2>2 DEF RateLimit, LimitStep
<1>2. ASSUME NEW r \in Request, LimitVerdict(r) PROVE LimitStep
  BY <1>2 DEF LimitVerdict, Leave, LimitStep
<1>3. ASSUME NEW r \in Request, Arrive(r) \/ Authenticate(r) \/ Unauthorized(r) \/ Read(r)
      PROVE  LimitStep
  BY <1>3 DEF Arrive, Authenticate, Unauthorized, Read, Leave, LimitStep
<1>4. ASSUME NEW k \in Token, Logout(k) PROVE LimitStep
  BY <1>4 DEF Logout, LimitStep
<1>5. CASE Tick
  BY <1>5 DEF Tick, Advance, LimitStep
<1>6. CASE UNCHANGED gatewayVars
  BY <1>6 DEF gatewayVars, LimitStep
<1> QED BY <1>1, <1>2, <1>3, <1>4, <1>5, <1>6 DEF GatewayNext

\* What a call of Allow that has not ended carries.
LEMMA LimitRecord ==
  ASSUME LimitType, NEW r \in Request, limit[r].pc # "idle"
  PROVE  /\ limit[r] \in [pc : LimitPc \ {"idle"}, key : User, win : 0 .. Len(heap), now : Nat]
         /\ limit[r].key \in User
         /\ limit[r].win \in 0 .. Len(heap)
         /\ limit[r].now \in Nat
         /\ limit[r].now <= clock
<1>1. limit[r] \in [pc : LimitPc \ {"idle"}, key : User, win : 0 .. Len(heap), now : Nat]
                     \cup {NoCall}
  BY DEF LimitType
<1>2. limit[r] # NoCall
  BY DEF NoCall
<1> QED BY <1>1, <1>2 DEF LimitType

\* NewInMemoryRateLimitRepo: a process starts without windows and calls.
LEMMA LimitInitial == GatewayInit => LimitInv
  BY LimiterAssumption
  DEF GatewayInit, ClockInit, LimitInit, LimitInv, LimitType, NoCall

\* The window on which Allow works, and what it may become.
LEMMA AllowWindow ==
  ASSUME LimitInv, NEW r \in Request, limit[r].pc = "allow"
  PROVE  LET i == limit[r].win
             w == Refreshed(heap[i], limit[r].now)
         IN  /\ limit[r].key \in User
             /\ i \in 1 .. Len(heap)
             /\ i = windows[limit[r].key]
             /\ heap[i] \in Window
             /\ w \in Window
             /\ w.tokens <= MaxTokens
             /\ w.start <= clock
<1>1. limit[r].key \in User /\ limit[r].win \in 0 .. Len(heap)
      /\ limit[r].now \in Nat /\ limit[r].now <= clock
  BY LimitRecord DEF LimitInv
<1>2. limit[r].win # 0 /\ limit[r].win = windows[limit[r].key]
  BY DEF LimitInv, LimitType
<1>3. Len(heap) \in Nat
  BY LenProperties DEF LimitInv, LimitType
<1>4. limit[r].win \in 1 .. Len(heap)
  BY <1>1, <1>2, <1>3
<1>5. heap[limit[r].win] \in Window
  BY <1>4, ElementOfSeq DEF LimitInv, LimitType
<1> QED BY <1>1, <1>2, <1>4, <1>5, LimiterAssumption DEF Refreshed, LimitInv, Window

\* Neither GetOrCreate nor Allow breaks the invariant, nor does the clock.
LEMMA LimitInductive ==
  ASSUME LimitInv, LimitStep
  PROVE  LimitInv'
<1> USE LimiterAssumption
<1>0. /\ Len(heap) \in Nat
      /\ heap \in Seq(Window)
      /\ \A i \in 1 .. Len(heap) : heap[i] \in Window
  BY LenProperties, ElementOfSeq DEF LimitInv, LimitType
<1>1. ASSUME NEW r \in Request, NEW u \in User, Lookup(r, u), UNCHANGED clock PROVE LimitInv'
  <2>1. windows[u] \in 0 .. Len(heap)
    BY DEF LimitInv, LimitType
  <2>2. LimitType'
    BY <1>0, <1>1, <2>1 DEF Lookup, SetLimit, LimitInv, LimitType, LimitPc
  <2> QED BY <1>1, <2>2 DEF Lookup, SetLimit, LimitInv, LimitType
<1>2. ASSUME NEW r \in Request, Create(r), UNCHANGED clock PROVE LimitInv'
  <2> DEFINE u == limit[r].key
  <2>1. u \in User
    BY <1>2, LimitRecord DEF Create, LimitInv
  <2>2. CASE windows[u] = 0 /\ NewWindow(r, u)
    <3>1. /\ heap' = Append(heap, [start |-> clock, tokens |-> MaxTokens])
          /\ windows' = [windows EXCEPT ![u] = Len(heap) + 1]
          /\ limit' = [limit EXCEPT ![r] =
                         [pc |-> "stamp", key |-> u, win |-> Len(heap) + 1, now |-> 0]]
          /\ UNCHANGED <<admitted, clock>>
      BY <1>2, <2>2 DEF NewWindow, SetLimit, Create
    <3>2. [start |-> clock, tokens |-> MaxTokens] \in Window
      BY DEF Window, LimitInv
    <3>3. /\ heap' \in Seq(Window)
          /\ Len(heap') = Len(heap) + 1
          /\ \A i \in 1 .. Len(heap) : heap'[i] = heap[i]
          /\ heap'[Len(heap) + 1] = [start |-> clock, tokens |-> MaxTokens]
      BY <1>0, <3>1, <3>2, AppendProperties
    <3>4. \A v \in User : windows[v] \in 0 .. Len(heap)
      BY DEF LimitInv, LimitType
    <3>5. windows' \in [User -> 0 .. Len(heap')]
      BY <1>0, <2>1, <3>1, <3>3, <3>4 DEF LimitInv, LimitType
    <3>6. limit' \in [Request -> [pc : LimitPc \ {"idle"}, key : User,
                                  win : 0 .. Len(heap'), now : Nat] \cup {NoCall}]
      <4>1. \A q \in Request :
              limit[q] \in [pc : LimitPc \ {"idle"}, key : User,
                            win : 0 .. Len(heap'), now : Nat] \cup {NoCall}
        BY <1>0, <3>3 DEF LimitInv, LimitType
      <4>2. [pc |-> "stamp", key |-> u, win |-> Len(heap) + 1, now |-> 0]
              \in [pc : LimitPc \ {"idle"}, key : User, win : 0 .. Len(heap'), now : Nat]
        BY <1>0, <2>1, <3>3 DEF LimitPc
      <4> QED BY <3>1, <4>1, <4>2 DEF LimitInv, LimitType
    <3>7. LimitType'
      BY <1>0, <3>1, <3>3, <3>5, <3>6 DEF LimitInv, LimitType
    <3>8. \A q \in Request :
            limit'[q].pc \in {"stamp", "allow"} => limit'[q].win = windows'[limit'[q].key]
      <4> SUFFICES ASSUME NEW q \in Request, limit'[q].pc \in {"stamp", "allow"}
                   PROVE  limit'[q].win = windows'[limit'[q].key]
        OBVIOUS
      <4>1. CASE q = r
        BY <2>1, <3>1, <4>1 DEF LimitInv, LimitType
      <4>2. CASE q # r
        <5>1. limit'[q] = limit[q]
          BY <3>1, <4>2 DEF LimitInv, LimitType
        <5>2. limit[q].key \in User /\ limit[q].win = windows[limit[q].key] /\ limit[q].win # 0
          BY <5>1, LimitRecord DEF LimitInv, LimitType
        <5>3. limit[q].key # u
          BY <2>2, <5>2
        <5> QED BY <3>1, <5>1, <5>2, <5>3 DEF LimitInv, LimitType
      <4> QED BY <4>1, <4>2
    <3>9. \A v, x \in User : windows'[v] # 0 /\ windows'[v] = windows'[x] => v = x
      BY <1>0, <2>1, <3>1, <3>4 DEF LimitInv, LimitType
    <3> QED BY <1>0, <2>1, <3>1, <3>3, <3>7, <3>8, <3>9 DEF LimitInv, LimitType
  <2>3. CASE windows[u] # 0 /\ SetLimit(r, "stamp", u, windows[u], 0)
             /\ UNCHANGED <<windows, heap>>
    <3>1. windows[u] \in 0 .. Len(heap)
      BY <2>1 DEF LimitInv, LimitType
    <3>2. LimitType'
      BY <1>0, <1>2, <2>1, <2>3, <3>1 DEF Create, SetLimit, LimitInv, LimitType, LimitPc
    <3> QED BY <1>2, <2>1, <2>3, <3>2 DEF Create, SetLimit, LimitInv, LimitType
  <2> QED BY <1>2, <2>2, <2>3 DEF Create
<1>3. ASSUME NEW r \in Request, Stamp(r), UNCHANGED clock PROVE LimitInv'
  <2>1. limit[r].key \in User /\ limit[r].win \in 0 .. Len(heap)
    BY <1>3, LimitRecord DEF Stamp, LimitInv
  <2>2. LimitType'
    BY <1>0, <1>3, <2>1 DEF Stamp, SetLimit, LimitInv, LimitType, LimitPc
  <2> QED BY <1>3, <2>1, <2>2 DEF Stamp, SetLimit, LimitInv, LimitType
<1>4. ASSUME NEW r \in Request, Allow(r), UNCHANGED clock PROVE LimitInv'
  <2> DEFINE i == limit[r].win
             w == Refreshed(heap[i], limit[r].now)
  <2>1. /\ limit[r].key \in User
        /\ i \in 1 .. Len(heap)
        /\ i = windows[limit[r].key]
        /\ w \in Window /\ w.tokens <= MaxTokens /\ w.start <= clock
    BY <1>4, AllowWindow DEF Allow
  <2>2. /\ windows' = windows
        /\ limit' = [limit EXCEPT ![r] = NoCall]
    BY <1>4 DEF Allow
  <2>3. PICK x \in Window : /\ x.tokens <= MaxTokens /\ x.start <= clock
                            /\ heap' = [heap EXCEPT ![i] = x]
    BY <1>4, <2>1 DEF Allow, Allowed, Window
  <2>4. heap' \in Seq(Window) /\ Len(heap') = Len(heap)
        /\ \A j \in 1 .. Len(heap) : heap'[j] = IF j = i THEN x ELSE heap[j]
    BY <1>0, <2>1, <2>3, ExceptSeq
  <2>5. /\ admitted' \in [User -> Seq(Nat)]
        /\ \A v \in User : windows[v] = 0 => admitted'[v] = admitted[v]
    <3>1. CASE UNCHANGED admitted
      BY <3>1 DEF LimitInv, LimitType
    <3>2. CASE admitted' = [admitted EXCEPT ![limit[r].key] = Append(@, clock)]
      <4>1. Append(admitted[limit[r].key], clock) \in Seq(Nat)
        BY <2>1, AppendProperties DEF LimitInv, LimitType
      <4> QED BY <2>1, <3>2, <4>1 DEF LimitInv, LimitType
    <3> QED BY <1>4, <3>1, <3>2 DEF Allow
  <2>6. LimitType'
    BY <1>4, <2>2, <2>4, <2>5 DEF LimitInv, LimitType, NoCall
  <2>7. \A q \in Request : limit'[q].pc \in {"stamp", "allow"} => limit'[q] = limit[q]
    BY <2>2 DEF LimitInv, LimitType, NoCall
  <2>8. \A j \in 1 .. Len(heap') : heap'[j].tokens <= MaxTokens /\ heap'[j].start <= clock
    BY <2>3, <2>4 DEF LimitInv
  <2> QED BY <1>4, <2>2, <2>5, <2>6, <2>7, <2>8 DEF LimitInv
<1>5. CASE clock' = clock + 1 /\ UNCHANGED limitVars
  <2>1. \A r \in Request : limit[r].now \in Nat
    <3> SUFFICES ASSUME NEW r \in Request PROVE limit[r].now \in Nat
      OBVIOUS
    <3>1. CASE limit[r] = NoCall
      BY <3>1 DEF NoCall
    <3>2. CASE limit[r] # NoCall
      BY <3>2 DEF LimitInv, LimitType
    <3> QED BY <3>1, <3>2
  <2>2. LimitType'
    BY <1>5, <2>1 DEF LimitInv, LimitType, limitVars
  <2> QED BY <1>0, <1>5, <2>2 DEF LimitInv, limitVars, Window
<1>6. CASE UNCHANGED <<clock, limitVars>>
  BY <1>6 DEF LimitInv, LimitType, limitVars
<1> QED BY <1>1, <1>2, <1>3, <1>4, <1>5, <1>6 DEF LimitStep

\* GetOrCreate gives each user one window for good, though two requests find
\* none under the read lock, and every call of Allow works on it.
THEOREM LimitInvariant == GatewaySpec => []LimitInv
<1>1. AuthInv /\ LimitInv /\ [GatewayNext]_gatewayVars => LimitInv'
  BY GatewayLimitStep, LimitInductive
<1> QED BY AuthInvariant, LimitInitial, <1>1, PTL DEF GatewaySpec
-----------------------------------------------------------------------------
(* Types                                                                   *)

\* The router sets and clears the kind of the request of one goroutine.
LEMMA RouteTyped == GatewaySpec => [](route \in [Request -> Kind \cup {"none"}])
<1> DEFINE RouteType == route \in [Request -> Kind \cup {"none"}]
<1>1. GatewayInit => RouteType
  BY DEF GatewayInit
<1>2. ASSUME RouteType, [GatewayNext]_gatewayVars PROVE RouteType'
  BY <1>2 DEF GatewayNext, gatewayVars, Arrive, Authenticate, Unauthorized, RateLimit,
              LimitVerdict, Read, Leave, Logout, Tick
<1> QED BY <1>1, <1>2, PTL DEF GatewaySpec

\* Gateway, AuthCache and RateLimiter: every variable of the middlewares has
\* its type.
THEOREM GatewayTyped == GatewaySpec => []GatewayType
<1>1. AuthInv /\ LimitInv /\ route \in [Request -> Kind \cup {"none"}] => GatewayType
  BY DEF AuthInv, LimitInv, GatewayType
<1> QED BY <1>1, AuthInvariant, LimitInvariant, RouteTyped, PTL

-----------------------------------------------------------------------------
(* The limiter implements the quota                                        *)

\* A user without a window counts as one with a full window since 0.
LEMMA UserWindowType ==
  ASSUME LimitInv, NEW u \in User
  PROVE  /\ UserWindow(u) \in Window
         /\ UserWindow(u).tokens \in 0 .. MaxTokens
         /\ UserWindow(u).start \in 0 .. clock
<1>1. CASE windows[u] = 0
  BY <1>1, LimiterAssumption DEF UserWindow, Window, LimitInv
<1>2. CASE windows[u] # 0
  <2>1. windows[u] \in 1 .. Len(heap)
    BY <1>2 DEF LimitInv, LimitType
  <2>2. heap[windows[u]] \in Window
    BY <2>1, ElementOfSeq DEF LimitInv, LimitType
  <2> QED BY <1>2, <2>1, <2>2, LimiterAssumption DEF UserWindow, Window, LimitInv
<1> QED BY <1>1, <1>2

\* What one step does to the windows and to the history: nothing, or GetOrCreate
\* opens the first window of a user, or Allow refreshes and uses up one.
LEMMA WindowStep ==
  ASSUME LimitInv, LimitStep
  PROVE  \/ UNCHANGED admitted /\ \A v \in User : UserWindow(v)' = UserWindow(v)
         \/ \E u \in User :
              /\ admitted[u] = <<>>
              /\ UserWindow(u) = [start |-> 0, tokens |-> MaxTokens]
              /\ UserWindow(u)' = [start |-> clock, tokens |-> MaxTokens]
              /\ UNCHANGED admitted
              /\ \A v \in User \ {u} : UserWindow(v)' = UserWindow(v)
         \/ \E u \in User, now \in 0 .. clock :
              LET w == Refreshed(UserWindow(u), now)
              IN  /\ \E r \in Request : limit[r].pc = "allow" /\ limit[r].now = now
                  /\ \/ /\ w.tokens > 0
                        /\ UserWindow(u)' = [w EXCEPT !.tokens = @ - 1]
                        /\ admitted' = [admitted EXCEPT ![u] = Append(@, clock)]
                     \/ /\ ~(w.tokens > 0)
                        /\ UserWindow(u)' = w
                        /\ UNCHANGED admitted
                  /\ \A v \in User \ {u} : UserWindow(v)' = UserWindow(v)
<1>0. /\ Len(heap) \in Nat
      /\ heap \in Seq(Window)
      /\ \A v \in User : windows[v] \in 0 .. Len(heap)
      /\ windows \in [User -> 0 .. Len(heap)]
  BY LenProperties DEF LimitInv, LimitType
<1>1. CASE UNCHANGED <<windows, heap, admitted>>
  BY <1>1 DEF UserWindow
<1>2. ASSUME NEW r \in Request, Create(r), windows[limit[r].key] = 0, NewWindow(r, limit[r].key)
      PROVE  \E u \in User :
              /\ admitted[u] = <<>>
              /\ UserWindow(u) = [start |-> 0, tokens |-> MaxTokens]
              /\ UserWindow(u)' = [start |-> clock, tokens |-> MaxTokens]
              /\ UNCHANGED admitted
              /\ \A v \in User \ {u} : UserWindow(v)' = UserWindow(v)
  <2> DEFINE new == [start |-> clock, tokens |-> MaxTokens]
  <2>1. PICK u \in User : u = limit[r].key
    BY <1>2, LimitRecord DEF Create, LimitInv
  <2>2. new \in Window
    BY LimiterAssumption DEF Window, LimitInv
  <2>3. heap' = Append(heap, new) /\ windows' = [windows EXCEPT ![u] = Len(heap) + 1]
        /\ UNCHANGED admitted
    BY <1>2, <2>1 DEF Create, NewWindow
  <2>4. /\ \A i \in 1 .. Len(heap) : heap'[i] = heap[i]
        /\ heap'[Len(heap) + 1] = new
    BY <1>0, <2>2, <2>3, AppendProperties
  <2>5. UserWindow(u)' = new
    <3>1. windows'[u] = Len(heap) + 1 /\ Len(heap) + 1 # 0
      BY <1>0, <2>3
    <3> QED BY <2>4, <3>1 DEF UserWindow
  <2>6. ASSUME NEW v \in User \ {u} PROVE UserWindow(v)' = UserWindow(v)
    BY <1>0, <2>1, <2>3, <2>4 DEF UserWindow
  <2>7. admitted[u] = <<>> /\ UserWindow(u) = [start |-> 0, tokens |-> MaxTokens]
    BY <1>2, <2>1 DEF LimitInv, UserWindow
  <2> QED BY <2>1, <2>3, <2>5, <2>6, <2>7
<1>3. ASSUME NEW r \in Request, Allow(r)
      PROVE  \E u \in User, now \in 0 .. clock :
              LET w == Refreshed(UserWindow(u), now)
              IN  /\ \E q \in Request : limit[q].pc = "allow" /\ limit[q].now = now
                  /\ \/ /\ w.tokens > 0
                        /\ UserWindow(u)' = [w EXCEPT !.tokens = @ - 1]
                        /\ admitted' = [admitted EXCEPT ![u] = Append(@, clock)]
                     \/ /\ ~(w.tokens > 0)
                        /\ UserWindow(u)' = w
                        /\ UNCHANGED admitted
                  /\ \A v \in User \ {u} : UserWindow(v)' = UserWindow(v)
  <2>1. PICK u \in User, now \in 0 .. clock, i \in 0 .. Len(heap) :
          limit[r].key = u /\ limit[r].now = now /\ limit[r].win = i
    BY <1>3, LimitRecord DEF Allow, LimitInv
  <2> DEFINE w == Refreshed(heap[i], now)
  <2>2. i \in 1 .. Len(heap) /\ i = windows[u] /\ w \in Window
    BY <1>3, <2>1, AllowWindow DEF Allow
  <2>3. UserWindow(u) = heap[i]
    BY <2>2 DEF UserWindow
  <2>4. windows' = windows
    BY <1>3 DEF Allow
  <2>5. ASSUME NEW y \in Window, heap' = [heap EXCEPT ![i] = y]
        PROVE  UserWindow(u)' = y /\ \A v \in User \ {u} : UserWindow(v)' = UserWindow(v)
    <3>1. \A j \in 1 .. Len(heap) : heap'[j] = IF j = i THEN y ELSE heap[j]
      BY <1>0, <2>2, <2>5, ExceptSeq
    <3>2. UserWindow(u)' = y
      BY <1>0, <2>2, <2>4, <3>1 DEF UserWindow
    <3>3. ASSUME NEW v \in User \ {u} PROVE UserWindow(v)' = UserWindow(v)
      BY <1>0, <2>1, <2>2, <2>4, <3>1 DEF UserWindow, LimitInv
    <3> QED BY <3>2, <3>3
  <2>8. \E q \in Request : limit[q].pc = "allow" /\ limit[q].now = now
    BY <1>3, <2>1 DEF Allow
  <2>6. CASE Allowed(w)
    <3>1. [w EXCEPT !.tokens = @ - 1] \in Window
      BY <2>2, <2>6 DEF Window, Allowed
    <3>2. heap' = [heap EXCEPT ![i] = [w EXCEPT !.tokens = @ - 1]]
          /\ admitted' = [admitted EXCEPT ![u] = Append(@, clock)]
      BY <1>3, <2>1, <2>6 DEF Allow
    <3> QED BY <2>1, <2>3, <2>5, <2>6, <2>8, <3>1, <3>2 DEF Allowed
  <2>7. CASE ~Allowed(w)
    <3>1. heap' = [heap EXCEPT ![i] = w] /\ UNCHANGED admitted
      BY <1>3, <2>1, <2>7 DEF Allow
    <3> QED BY <2>1, <2>2, <2>3, <2>5, <2>7, <2>8, <3>1 DEF Allowed
  <2> QED BY <2>6, <2>7
<1> QED BY <1>1, <1>2, <1>3 DEF LimitStep, Lookup, Create, Stamp, limitVars

\* A process that has just started has used nothing of any quota.
LEMMA QuotaInitial == GatewayInit => LimiterQuota!Init
<1> SUFFICES ASSUME GatewayInit PROVE LimiterQuota!Init
  OBVIOUS
<1>1. \A u \in User : windows[u] = 0 /\ Len(admitted[u]) = 0
  BY DEF GatewayInit, LimitInit
<1>2. \A u \in User : UserWindow(u) = [start |-> 0, tokens |-> MaxTokens]
  BY <1>1 DEF UserWindow
<1> QED BY <1>1, <1>2, LimiterAssumption DEF LimiterQuota!Init

\* Every step of the limiter opens, renews or uses the quota of one user, or
\* changes no quota at all.
LEMMA QuotaStep ==
  ASSUME LimitInv, LimitInv', LimitStep
  PROVE  LimiterQuota!Next \/ UNCHANGED LimiterQuota!quotaVars
<1> USE LimiterAssumption
<1> DEFINE Used == [u \in User |-> MaxTokens - UserWindow(u).tokens]
           Since == [u \in User |-> UserWindow(u).start]
           Granted == [u \in User |-> Len(admitted[u])]
<1>1. \A u \in User :
        /\ UserWindow(u) \in Window
        /\ UserWindow(u).tokens \in 0 .. MaxTokens
        /\ UserWindow(u).start \in 0 .. clock
        /\ admitted[u] \in Seq(Nat)
        /\ Len(admitted[u]) \in Nat
  BY UserWindowType, LenProperties DEF LimitInv, LimitType
<1>2. clock \in Nat /\ admitted \in [User -> Seq(Nat)]
  BY DEF LimitInv, LimitType
<1>3. CASE UNCHANGED admitted /\ \A v \in User : UserWindow(v)' = UserWindow(v)
  <2>1. Used' = Used /\ Since' = Since /\ Granted' = Granted
    BY <1>3
  <2> QED BY <2>1 DEF LimiterQuota!quotaVars
<1>4. ASSUME NEW u \in User,
             admitted[u] = <<>>,
             UserWindow(u) = [start |-> 0, tokens |-> MaxTokens],
             UserWindow(u)' = [start |-> clock, tokens |-> MaxTokens],
             UNCHANGED admitted,
             \A v \in User \ {u} : UserWindow(v)' = UserWindow(v)
      PROVE  LimiterQuota!Next
  <2>1. Granted[u] = 0 /\ Granted' = Granted
    BY <1>4
  <2>2. Used' = Used
    BY <1>4
  <2>3. Since'[u] = clock /\ Since[u] = 0 /\ Since' = [Since EXCEPT ![u] = Since'[u]]
    <3>1. Since'[u] = clock /\ Since[u] = 0
      BY <1>4
    <3>2. \A v \in User : Since'[v] = IF v = u THEN Since'[u] ELSE Since[v]
      BY <1>4
    <3> QED BY <3>1, <3>2
  <2>4. LimiterQuota!Open(u)
    BY <1>2, <2>1, <2>2, <2>3 DEF LimiterQuota!Open
  <2> QED BY <2>4 DEF LimiterQuota!Next
<1>5. ASSUME NEW u \in User, NEW now \in 0 .. clock,
             \/ /\ Refreshed(UserWindow(u), now).tokens > 0
                /\ UserWindow(u)' = [Refreshed(UserWindow(u), now) EXCEPT !.tokens = @ - 1]
                /\ admitted' = [admitted EXCEPT ![u] = Append(@, clock)]
             \/ /\ ~(Refreshed(UserWindow(u), now).tokens > 0)
                /\ UserWindow(u)' = Refreshed(UserWindow(u), now)
                /\ UNCHANGED admitted,
             \A v \in User \ {u} : UserWindow(v)' = UserWindow(v)
      PROVE  LimiterQuota!Next \/ UNCHANGED LimiterQuota!quotaVars
  <2> DEFINE old == UserWindow(u)
             w == Refreshed(old, now)
  <2>1. /\ old \in Window /\ old.tokens \in 0 .. MaxTokens
        /\ w = IF now >= old.start + Duration
                THEN [start |-> now, tokens |-> MaxTokens] ELSE old
    BY <1>1 DEF Refreshed
  <2>2. /\ Since' = [Since EXCEPT ![u] = UserWindow(u)'.start]
        /\ Used' = [Used EXCEPT ![u] = MaxTokens - UserWindow(u)'.tokens]
    BY <1>5
  <2>3. UserWindow(u)'.start = w.start
    BY <1>5, <2>1 DEF Window
  <2>4. CASE w.tokens > 0
    <3>1. UserWindow(u)'.tokens = w.tokens - 1
      BY <1>5, <2>1, <2>4 DEF Window
    <3>2. Len(Append(admitted[u], clock)) = Len(admitted[u]) + 1
      BY <1>1, <1>2, AppendProperties
    <3>3. Granted' = [Granted EXCEPT ![u] = @ + 1]
      BY <1>2, <1>5, <2>4, <3>2
    <3>4. CASE now >= old.start + Duration
      <4>1. w = [start |-> now, tokens |-> MaxTokens] /\ MaxTokens > 0
        BY <2>1, <2>4, <3>4
      <4>2. UserWindow(u)'.start = now /\ MaxTokens - UserWindow(u)'.tokens = 1
        BY <2>3, <3>1, <4>1
      <4>3. Since'[u] = now /\ Since' = [Since EXCEPT ![u] = Since'[u]]
        BY <2>2, <4>2
      <4>4. Since'[u] >= Since[u] + Duration
        BY <3>4, <4>3
      <4>5. Used' = [Used EXCEPT ![u] = IF MaxTokens > 0 THEN 1 ELSE 0]
        BY <2>2, <4>1, <4>2
      <4>6. Granted' = [Granted EXCEPT ![u] = IF MaxTokens > 0 THEN @ + 1 ELSE @]
        BY <3>3, <4>1
      <4>7. LimiterQuota!Renew(u)
        BY <4>3, <4>4, <4>5, <4>6 DEF LimiterQuota!Renew
      <4> QED BY <4>7 DEF LimiterQuota!Next
    <3>5. CASE ~(now >= old.start + Duration)
      <4>0. w = old
        BY <2>1, <3>5
      <4>1. UserWindow(u)'.start = old.start /\ MaxTokens - UserWindow(u)'.tokens = MaxTokens - old.tokens + 1
            /\ MaxTokens - old.tokens < MaxTokens
        BY <2>1, <2>3, <2>4, <3>1, <4>0
      <4>2. Since' = Since
        BY <2>2, <4>1
      <4>3. Used' = [Used EXCEPT ![u] = @ + 1]
        BY <2>2, <4>1
      <4>4. Used[u] < MaxTokens
        BY <4>1
      <4>5. LimiterQuota!Grant(u)
        BY <3>3, <4>2, <4>3, <4>4 DEF LimiterQuota!Grant
      <4> QED BY <4>5 DEF LimiterQuota!Next
    <3> QED BY <3>4, <3>5
  <2>5. CASE ~(w.tokens > 0)
    <3>1. UserWindow(u)' = w /\ Granted' = Granted
      BY <1>5, <2>5
    <3>2. CASE now >= old.start + Duration
      <4>1. MaxTokens = 0
        BY <2>1, <2>5, <3>2
      <4>2. UserWindow(u)'.start = now /\ MaxTokens - UserWindow(u)'.tokens = 0
        BY <2>1, <3>1, <3>2, <4>1
      <4>3. Since'[u] = now /\ Since' = [Since EXCEPT ![u] = Since'[u]]
        BY <2>2, <4>2
      <4>4. Since'[u] >= Since[u] + Duration
        BY <3>2, <4>3
      <4>5. Used' = [Used EXCEPT ![u] = IF MaxTokens > 0 THEN 1 ELSE 0]
        <5>1. (IF MaxTokens > 0 THEN 1 ELSE 0) = MaxTokens - UserWindow(u)'.tokens
          BY <4>1, <4>2
        <5> HIDE DEF Used
        <5> QED BY <2>2, <5>1
      <4>6. Granted' = [Granted EXCEPT ![u] = IF MaxTokens > 0 THEN @ + 1 ELSE @]
        BY <3>1, <4>1
      <4>7. LimiterQuota!Renew(u)
        BY <4>3, <4>4, <4>5, <4>6 DEF LimiterQuota!Renew
      <4> QED BY <4>7 DEF LimiterQuota!Next
    <3>3. CASE ~(now >= old.start + Duration)
      <4>1. Since' = Since /\ Used' = Used
        BY <1>5, <2>1, <3>1, <3>3
      <4> QED BY <3>1, <4>1 DEF LimiterQuota!quotaVars
    <3> QED BY <3>2, <3>3
  <2> QED BY <2>4, <2>5
<1> HIDE DEF Used, Since, Granted
<1> QED BY WindowStep, <1>3, <1>4, <1>5

\* RateLimiter: although two first requests of a user race for the write lock
\* and stamps are older than the lock on the window, the limiter implements one
\* quota per user.
THEOREM QuotaImplemented == GatewaySpec => ImplementsQuota
<1>1. AuthInv /\ LimitInv /\ LimitInv' /\ [GatewayNext]_gatewayVars
        => [LimiterQuota!Next]_(LimiterQuota!quotaVars)
  BY GatewayLimitStep, QuotaStep
<1> QED BY <1>1, QuotaInitial, AuthInvariant, LimitInvariant, PTL
  DEF GatewaySpec, ImplementsQuota, LimiterQuota!Spec

-----------------------------------------------------------------------------
(* The long-run rate                                                       *)

\* Two instants Duration apart lie in different periods of the grid.
LEMMA DivStep ==
  ASSUME NEW d \in Nat \ {0}, NEW x \in Nat, NEW y \in Nat, x + d <= y
  PROVE  (x \div d) + 1 <= (y \div d)
  OBVIOUS

\* The number of whole periods is a number ...
LEMMA DivNat ==
  ASSUME NEW d \in Nat \ {0}, NEW x \in Nat
  PROVE  x \div d \in Nat
  OBVIOUS

\* ... that grows with time.
LEMMA DivMono ==
  ASSUME NEW d \in Nat \ {0}, NEW x \in Nat, NEW y \in Nat, x <= y
  PROVE  /\ x \div d \in Nat
         /\ y \div d \in Nat
         /\ (x \div d) <= (y \div d)
  OBVIOUS

\* More periods, more tokens.
LEMMA TokensMono ==
  ASSUME NEW m \in Nat, NEW a \in Nat, NEW b \in Nat, a <= b
  PROVE  m * (1 + a) <= m * (1 + b)
  OBVIOUS

\* One more period, MaxTokens more.
LEMMA TokensStep ==
  ASSUME NEW m \in Nat, NEW a \in Nat, NEW b \in Nat, a + 1 <= b
  PROVE  m * (1 + a) + m <= m * (1 + b)
  OBVIOUS

\* What was admitted and what the window still holds were provided for by the
\* periods up to the start of the window.
RateInv ==
  \A u \in User :
    Len(admitted[u]) + UserWindow(u).tokens
      <= MaxTokens * (1 + UserWindow(u).start \div Duration)

\* No step of the limiter spends more than that.
LEMMA RateInductive ==
  ASSUME LimitInv, LimitStep, RateInv
  PROVE  RateInv'
<1> USE LimiterAssumption
<1>1. \A u \in User :
        /\ UserWindow(u) \in Window
        /\ UserWindow(u).tokens \in 0 .. MaxTokens
        /\ UserWindow(u).start \in 0 .. clock
        /\ admitted[u] \in Seq(Nat)
        /\ Len(admitted[u]) \in Nat
  BY UserWindowType, LenProperties DEF LimitInv, LimitType
<1>2. clock \in Nat /\ admitted \in [User -> Seq(Nat)]
  BY DEF LimitInv, LimitType
<1>3. CASE UNCHANGED admitted /\ \A v \in User : UserWindow(v)' = UserWindow(v)
  BY <1>3 DEF RateInv
<1>4. ASSUME NEW u \in User,
             UserWindow(u) = [start |-> 0, tokens |-> MaxTokens],
             UserWindow(u)' = [start |-> clock, tokens |-> MaxTokens],
             UNCHANGED admitted,
             \A v \in User \ {u} : UserWindow(v)' = UserWindow(v)
      PROVE  RateInv'
  <2>1. MaxTokens * (1 + 0 \div Duration) <= MaxTokens * (1 + clock \div Duration)
    <3>0. 0 \div Duration = 0
      OBVIOUS
    <3>1. clock \div Duration \in Nat
      BY <1>2, DivNat
    <3> QED BY <3>0, <3>1, TokensMono
  <2>2. Len(admitted[u]) + MaxTokens <= MaxTokens * (1 + 0 \div Duration)
    BY <1>4 DEF RateInv
  <2>3. MaxTokens * (1 + 0 \div Duration) \in Int /\ MaxTokens * (1 + clock \div Duration) \in Int
    BY <1>2
  <2>4. Len(admitted[u]) + MaxTokens <= MaxTokens * (1 + clock \div Duration)
    BY <1>1, <2>1, <2>2, <2>3
  <2> QED BY <1>4, <2>4 DEF RateInv
<1>5. ASSUME NEW u \in User, NEW now \in 0 .. clock,
             \/ /\ Refreshed(UserWindow(u), now).tokens > 0
                /\ UserWindow(u)' = [Refreshed(UserWindow(u), now) EXCEPT !.tokens = @ - 1]
                /\ admitted' = [admitted EXCEPT ![u] = Append(@, clock)]
             \/ /\ ~(Refreshed(UserWindow(u), now).tokens > 0)
                /\ UserWindow(u)' = Refreshed(UserWindow(u), now)
                /\ UNCHANGED admitted,
             \A v \in User \ {u} : UserWindow(v)' = UserWindow(v)
      PROVE  RateInv'
  <2> DEFINE old == UserWindow(u)
             w == Refreshed(old, now)
             N == Len(admitted[u])
  <2>1. /\ old \in Window /\ old.tokens \in 0 .. MaxTokens
        /\ w = IF now >= old.start + Duration
                THEN [start |-> now, tokens |-> MaxTokens] ELSE old
        /\ w \in Window /\ w.start \in Nat /\ w.tokens \in Nat
    BY <1>1, <1>2 DEF Refreshed, Window
  <2>2. N + w.tokens <= MaxTokens * (1 + w.start \div Duration)
    <3>1. N + old.tokens <= MaxTokens * (1 + old.start \div Duration)
      BY DEF RateInv
    <3>2. CASE now >= old.start + Duration
      <4>1. w.start = now /\ w.tokens = MaxTokens /\ now \in Nat /\ old.start \in Nat
        BY <1>1, <1>2, <2>1, <3>2
      <4>2. old.start \div Duration \in Nat /\ now \div Duration \in Nat
            /\ (old.start \div Duration) + 1 <= now \div Duration
        BY <3>2, <4>1, DivStep, DivMono
      <4>3. MaxTokens * (1 + old.start \div Duration) + MaxTokens
              <= MaxTokens * (1 + now \div Duration)
        BY <4>2, TokensStep
      <4>4. /\ MaxTokens * (1 + old.start \div Duration) \in Int
            /\ MaxTokens * (1 + now \div Duration) \in Int
        BY <4>2
      <4>5. N \in Nat /\ old.tokens \in Nat
        BY <1>1, <2>1
      <4>6. N + MaxTokens <= MaxTokens * (1 + now \div Duration)
        <5> HIDE DEF N, old
        <5> QED BY <3>1, <4>3, <4>4, <4>5
      <4> QED BY <4>1, <4>6
    <3>3. CASE ~(now >= old.start + Duration)
      BY <2>1, <3>1, <3>3
    <3> QED BY <3>2, <3>3
  <2>3. CASE w.tokens > 0
    <3>1. /\ UserWindow(u)'.tokens = w.tokens - 1
          /\ UserWindow(u)'.start = w.start
      BY <1>5, <2>1, <2>3 DEF Window
    <3>2. Len(admitted'[u]) = N + 1
          /\ \A v \in User \ {u} : admitted'[v] = admitted[v]
      BY <1>1, <1>2, <1>5, <2>3, AppendProperties
    <3>3. Len(admitted'[u]) + UserWindow(u)'.tokens = N + w.tokens
      <4>1. N \in Nat /\ w.tokens \in Nat
        BY <1>1, <2>1
      <4> HIDE DEF N, w
      <4> QED BY <3>1, <3>2, <4>1
    <3> QED BY <1>5, <2>2, <3>1, <3>2, <3>3 DEF RateInv
  <2>4. CASE ~(w.tokens > 0)
    BY <1>5, <2>2, <2>4 DEF RateInv
  <2> QED BY <2>3, <2>4
<1> QED BY WindowStep, <1>3, <1>4, <1>5

\* RateLimiter: the bursts at window boundaries and the stale stamps do not
\* accumulate; a user is admitted MaxTokens times per Duration on average.
THEOREM RateHolds == GatewaySpec => []LongRunRate
<1> USE LimiterAssumption
<1>1. GatewayInit => RateInv
  <2> SUFFICES ASSUME GatewayInit, NEW u \in User
               PROVE  Len(admitted[u]) + UserWindow(u).tokens
                        <= MaxTokens * (1 + UserWindow(u).start \div Duration)
    BY DEF RateInv
  <2>1. Len(admitted[u]) = 0 /\ UserWindow(u) = [start |-> 0, tokens |-> MaxTokens]
    BY DEF GatewayInit, LimitInit, UserWindow
  <2>2. 0 \div Duration = 0
    OBVIOUS
  <2> QED BY <2>1, <2>2
<1>2. AuthInv /\ LimitInv /\ RateInv /\ [GatewayNext]_gatewayVars => RateInv'
  BY GatewayLimitStep, RateInductive
<1>3. ASSUME LimitInv, RateInv, NEW u \in User
      PROVE  Len(admitted[u]) <= MaxTokens * (1 + clock \div Duration)
  <2>1. /\ UserWindow(u).tokens \in Nat /\ UserWindow(u).start \in Nat
        /\ UserWindow(u).start <= clock /\ clock \in Nat /\ Len(admitted[u]) \in Nat
    BY <1>3, UserWindowType, LenProperties DEF LimitInv, LimitType
  <2>2. /\ UserWindow(u).start \div Duration \in Nat /\ clock \div Duration \in Nat
        /\ UserWindow(u).start \div Duration <= clock \div Duration
    BY <2>1, DivMono
  <2>3. MaxTokens * (1 + UserWindow(u).start \div Duration) <= MaxTokens * (1 + clock \div Duration)
    BY <2>2, TokensMono
  <2>4. /\ MaxTokens * (1 + UserWindow(u).start \div Duration) \in Int
        /\ MaxTokens * (1 + clock \div Duration) \in Int
    BY <2>2
  <2>5. Len(admitted[u]) + UserWindow(u).tokens
          <= MaxTokens * (1 + UserWindow(u).start \div Duration)
    BY <1>3 DEF RateInv
  <2> QED BY <2>1, <2>3, <2>4, <2>5
<1>4. LimitInv /\ RateInv => LongRunRate
  BY <1>3 DEF LongRunRate
<1> QED BY <1>1, <1>2, <1>4, AuthInvariant, LimitInvariant, PTL DEF GatewaySpec
-----------------------------------------------------------------------------
(* The burst over one Duration                                             *)

\* What a whole quotient leaves is less than the divisor.
LEMMA DivRest ==
  ASSUME NEW d \in Nat \ {0}, NEW x \in Nat
  PROVE  /\ x \div d \in Nat
         /\ d * (x \div d) <= x
         /\ x < d * (x \div d) + d
  OBVIOUS

\* A period later, an admission at a is provided for with one burst more.
LEMMA SpanRenewed ==
  ASSUME NEW d \in Nat \ {0}, NEW m \in Nat, NEW lag \in Nat, NEW a \in Nat,
         NEW s \in Nat, NEW t \in Nat, s + d <= t, a <= s + d - 1 + lag,
         NEW n \in Nat, NEW i \in Nat, NEW k \in Nat,
         n + k + 1 <= i + m * (1 + (s + d - 1 + lag - a) \div d)
  PROVE  n + m + 1 <= i + m * (1 + (t + d - 1 + lag - a) \div d)
<1>1. PICK x \in Nat, y \in Nat : /\ x = s + d - 1 + lag - a
                                  /\ y = t + d - 1 + lag - a
                                  /\ x + d <= y
  OBVIOUS
<1>2. PICK p \in Nat, q \in Nat : p = x \div d /\ q = y \div d /\ p + 1 <= q
  BY <1>1, DivStep, DivNat
<1>3. m * (1 + p) + m <= m * (1 + q)
  BY <1>2, TokensStep
<1>4. PICK b \in Int, c \in Int : b = m * (1 + p) /\ c = m * (1 + q)
  OBVIOUS
<1>5. n + k + 1 <= i + b
  BY <1>1, <1>2, <1>4
<1>6. n + m + 1 <= i + c
  BY <1>3, <1>4, <1>5
<1> QED BY <1>1, <1>2, <1>4, <1>6

\* An admission that WindowsPerSpan bursts and one request separate from the
\* present one is at least a Duration older than the start of the window.
LEMMA SpanElapsed ==
  ASSUME NEW d \in Nat \ {0}, NEW m \in Nat, NEW lag \in Nat, NEW a \in Nat,
         NEW s \in Nat, a <= s + d - 1 + lag,
         NEW n \in Nat, NEW i \in Nat, NEW w \in Nat,
         w = 1 + (2 * d - 2 + lag) \div d,
         n + 1 = i + w * m,
         n + 2 <= i + m * (1 + (s + d - 1 + lag - a) \div d)
  PROVE  a + d <= s
<1>1. PICK x \in Nat, y \in Nat : x = s + d - 1 + lag - a /\ y = 2 * d - 2 + lag
  OBVIOUS
<1>2. PICK p \in Nat, q \in Nat : p = x \div d /\ q = y \div d
  BY <1>1, DivNat
<1>3. w = 1 + q /\ n + 2 <= i + m * (1 + p) /\ n + 1 = i + m * (1 + q)
  BY <1>1, <1>2
<1>4. 1 + q <= p
  <2>1. SUFFICES ASSUME p <= q PROVE FALSE
    OBVIOUS
  <2>2. PICK b \in Int, c \in Int : b = m * (1 + p) /\ c = m * (1 + q)
    OBVIOUS
  <2>3. b <= c
    BY <2>1, <2>2, TokensMono
  <2> QED BY <1>3, <2>2, <2>3
<1>5. d * (1 + q) <= d * p
  BY <1>4
<1>6. PICK b \in Int, c \in Int : b = d * p /\ c = d * q /\ c + d <= b
  BY <1>5
<1>7. b <= x /\ y < c + d
  BY <1>2, <1>6, DivRest
<1> QED BY <1>1, <1>6, <1>7

\* No call of Allow is older than the wait for a mutex may be.
FreshInv == \A r \in Request : limit[r].pc = "allow" => clock <= limit[r].now + MaxLag

\* The windows that separate the admission of index i from the window of its
\* user: that one may have begun MaxLag before the admission it let through.
Elapsed(u, i) ==
  (UserWindow(u).start + Duration - 1 + MaxLag - admitted[u][i]) \div Duration

\* Since any admission, a user was let through at most MaxTokens times in each
\* window, and the windows are Duration apart.
SpanInv ==
  \A u \in User : \A i \in 1 .. Len(admitted[u]) :
    /\ admitted[u][i] <= UserWindow(u).start + Duration - 1 + MaxLag
    /\ Len(admitted[u]) + UserWindow(u).tokens + 1 <= i + MaxTokens * (1 + Elapsed(u, i))

\* Only the clock makes a call older, and not beyond MaxLag.
LEMMA FreshInductive ==
  ASSUME LimitInv, FreshInv, LimitStep
  PROVE  FreshInv'
<1>0. clock \in Nat /\ MaxLag \in Nat /\ \A r \in Request : limit[r].pc = "allow" => limit[r].now \in Nat
  BY LimitRecord, LimiterAssumption DEF LimitInv
<1>1. ASSUME NEW q \in Request, NEW u \in User, Lookup(q, u), UNCHANGED clock PROVE FreshInv'
  BY <1>1 DEF Lookup, SetLimit, FreshInv, LimitInv, LimitType
<1>2. ASSUME NEW q \in Request, Create(q), UNCHANGED clock PROVE FreshInv'
  <2>1. PICK win : limit' = [limit EXCEPT ![q] = [pc |-> "stamp", key |-> limit[q].key,
                                                   win |-> win, now |-> 0]]
    BY <1>2 DEF Create, NewWindow, SetLimit
  <2> QED BY <1>2, <2>1 DEF FreshInv, LimitInv, LimitType
<1>3. ASSUME NEW q \in Request, Stamp(q), UNCHANGED clock PROVE FreshInv'
  BY <1>0, <1>3 DEF Stamp, SetLimit, FreshInv, LimitInv, LimitType
<1>4. ASSUME NEW q \in Request, Allow(q), UNCHANGED clock PROVE FreshInv'
  <2>1. limit' = [limit EXCEPT ![q] = NoCall]
    BY <1>4 DEF Allow
  <2> QED BY <1>4, <2>1 DEF FreshInv, LimitInv, LimitType, NoCall
<1>5. CASE clock' = clock + 1 /\ LimitTimely /\ UNCHANGED limitVars
  BY <1>0, <1>5 DEF FreshInv, LimitTimely, limitVars
<1>6. CASE UNCHANGED <<clock, limitVars>>
  BY <1>6 DEF FreshInv, limitVars
<1> QED BY <1>1, <1>2, <1>3, <1>4, <1>5, <1>6 DEF LimitStep

\* What the sum of the bursts says of one admission and a window (s, k): n were
\* admitted, the admission has index i and was at instant a.
Provided(n, k, s, i, a) ==
  /\ a <= s + Duration - 1 + MaxLag
  /\ n + k + 1 <= i + MaxTokens * (1 + (s + Duration - 1 + MaxLag - a) \div Duration)

\* Allow resets a window that is over; that one provides for the past as well.
LEMMA SpanRefreshed ==
  ASSUME LimitInv, SpanInv, NEW u \in User, NEW now \in 0 .. clock,
         NEW i \in 1 .. Len(admitted[u])
  PROVE  Provided(Len(admitted[u]), Refreshed(UserWindow(u), now).tokens,
                  Refreshed(UserWindow(u), now).start, i, admitted[u][i])
<1> DEFINE old == UserWindow(u)
<1>1. PICK n \in Nat, k \in Nat, s \in Nat, a \in Nat :
        n = Len(admitted[u]) /\ k = old.tokens /\ s = old.start /\ a = admitted[u][i]
  <2>1. admitted[u] \in Seq(Nat)
    BY DEF LimitInv, LimitType
  <2>2. Len(admitted[u]) \in Nat /\ admitted[u][i] \in Nat
    BY <2>1, LenProperties, ElementOfSeq
  <2>3. old.tokens \in Nat /\ old.start \in Nat
    <3>1. UserWindow(u) \in Window
      BY UserWindowType
    <3> QED BY <3>1 DEF Window
  <2> QED BY <2>2, <2>3
<1>2. clock \in Nat /\ i \in Nat /\ now \in Nat
  BY <1>1 DEF LimitInv
<1>3. a <= s + Duration - 1 + MaxLag
      /\ n + k + 1 <= i + MaxTokens * (1 + (s + Duration - 1 + MaxLag - a) \div Duration)
  BY <1>1 DEF SpanInv, Elapsed
<1>4. CASE now >= old.start + Duration
  <2>1. Refreshed(old, now).start = now /\ Refreshed(old, now).tokens = MaxTokens
    BY <1>4 DEF Refreshed
  <2>2. s + Duration <= now
    BY <1>1, <1>4
  <2>3. n + MaxTokens + 1
          <= i + MaxTokens * (1 + (now + Duration - 1 + MaxLag - a) \div Duration)
    BY <1>2, <1>3, <2>2, SpanRenewed, LimiterAssumption
  <2>4. a <= now + Duration - 1 + MaxLag
    BY <1>2, <1>3, <2>2, LimiterAssumption
  <2> QED BY <1>1, <2>1, <2>3, <2>4 DEF Provided
<1>5. CASE ~(now >= old.start + Duration)
  <2>1. Refreshed(old, now) = old
    BY <1>5 DEF Refreshed
  <2> QED BY <1>1, <1>3, <2>1 DEF Provided
<1> QED BY <1>4, <1>5

\* The window Allow works on is not over when it takes the token, unless the
\* call has waited.
LEMMA RefreshedFresh ==
  ASSUME LimitInv, FreshInv, NEW u \in User, NEW r \in Request, limit[r].pc = "allow"
  PROVE  /\ Refreshed(UserWindow(u), limit[r].now) \in Window
         /\ Refreshed(UserWindow(u), limit[r].now).tokens \in 0 .. MaxTokens
         /\ Refreshed(UserWindow(u), limit[r].now).start \in 0 .. clock
         /\ clock <= Refreshed(UserWindow(u), limit[r].now).start + Duration - 1 + MaxLag
<1>1. PICK now \in 0 .. clock : now = limit[r].now /\ clock <= now + MaxLag
  BY LimitRecord DEF LimitInv, FreshInv
<1>2. clock \in Nat
  BY DEF LimitInv
<1>3. PICK w \in Window : /\ w = UserWindow(u)
                          /\ w.tokens \in 0 .. MaxTokens /\ w.start \in 0 .. clock
  BY UserWindowType
<1> QED BY <1>1, <1>2, <1>3, LimiterAssumption DEF Refreshed, Window

\* The present admission and an earlier one, WindowsPerSpan bursts before it,
\* are Duration apart.
LEMMA SpanGrant ==
  ASSUME NEW n \in Nat, NEW k \in Nat \ {0}, NEW s \in Nat, NEW i \in Nat, NEW a \in Nat,
         Provided(n, k, s, i, a),
         n + 1 = i + WindowsPerSpan * MaxTokens
  PROVE  a + Duration <= s
<1> USE LimiterAssumption
<1>1. PICK w \in Nat : w = 1 + (2 * Duration - 2 + MaxLag) \div Duration /\ w = WindowsPerSpan
  <2>1. 2 * Duration - 2 + MaxLag \in Nat
    OBVIOUS
  <2> QED BY <2>1, DivNat DEF WindowsPerSpan
<1>2. a <= s + Duration - 1 + MaxLag
  BY DEF Provided
<1>3. (s + Duration - 1 + MaxLag - a) \div Duration \in Nat
  <2>1. s + Duration - 1 + MaxLag - a \in Nat
    BY <1>2
  <2> QED BY <2>1, DivNat
<1>4. n + 2 <= i + MaxTokens * (1 + (s + Duration - 1 + MaxLag - a) \div Duration)
  <2>1. PICK b \in Int : b = MaxTokens * (1 + (s + Duration - 1 + MaxLag - a) \div Duration)
    BY <1>3
  <2>2. n + k + 1 <= i + b
    BY <2>1 DEF Provided
  <2>3. n + 2 <= i + b
    BY <2>2
  <2> QED BY <2>1, <2>3
<1> HIDE DEF WindowsPerSpan
<1> QED BY <1>1, <1>2, <1>4, SpanElapsed

\* No step of the limiter spends more than the bursts of the windows passed,
\* or admits a request too early.
LEMMA SpanInductive ==
  ASSUME LimitInv, FreshInv, SpanInv, AdmissionBound, LimitStep
  PROVE  SpanInv' /\ AdmissionBound'
<1> USE LimiterAssumption
<1>1. \A v \in User :
        /\ UserWindow(v) \in Window
        /\ UserWindow(v).tokens \in 0 .. MaxTokens
        /\ UserWindow(v).start \in 0 .. clock
        /\ admitted[v] \in Seq(Nat)
        /\ Len(admitted[v]) \in Nat
  BY UserWindowType, LenProperties DEF LimitInv, LimitType
<1>2. clock \in Nat /\ admitted \in [User -> Seq(Nat)]
  BY DEF LimitInv, LimitType
<1>3. CASE UNCHANGED admitted /\ \A v \in User : UserWindow(v)' = UserWindow(v)
  BY <1>3 DEF SpanInv, AdmissionBound, Elapsed
<1>4. ASSUME NEW u \in User,
             admitted[u] = <<>>,
             UNCHANGED admitted,
             \A v \in User \ {u} : UserWindow(v)' = UserWindow(v)
      PROVE  SpanInv' /\ AdmissionBound'
  <2>1. AdmissionBound'
    BY <1>4 DEF AdmissionBound
  <2>2. ASSUME NEW v \in User, NEW i \in 1 .. Len(admitted[v])
        PROVE  v \in User \ {u}
    BY <1>4, <2>2
  <2> QED BY <1>4, <2>1, <2>2 DEF SpanInv, Elapsed
<1>5. ASSUME NEW u \in User, NEW r \in Request, limit[r].pc = "allow",
             LET w == Refreshed(UserWindow(u), limit[r].now)
             IN  \/ /\ w.tokens > 0
                    /\ UserWindow(u)' = [w EXCEPT !.tokens = @ - 1]
                    /\ admitted' = [admitted EXCEPT ![u] = Append(@, clock)]
                 \/ /\ ~(w.tokens > 0)
                    /\ UserWindow(u)' = w
                    /\ UNCHANGED admitted,
             \A v \in User \ {u} : UserWindow(v)' = UserWindow(v)
      PROVE  SpanInv' /\ AdmissionBound'
  <2>1. PICK w \in Window :
          /\ w = Refreshed(UserWindow(u), limit[r].now)
          /\ w.tokens \in 0 .. MaxTokens
          /\ w.start \in 0 .. clock
          /\ clock <= w.start + Duration - 1 + MaxLag
    BY <1>5, RefreshedFresh
  <2>2. PICK n \in Nat : n = Len(admitted[u])
    BY <1>1
  <2>3. PICK k \in Nat, s \in Nat : k = w.tokens /\ s = w.start
    BY <1>2, <2>1
  <2>4. \A i \in 1 .. n : Provided(n, k, s, i, admitted[u][i])
    <3>1. limit[r].now \in 0 .. clock
      BY <1>5, LimitRecord DEF LimitInv
    <3> QED BY <2>1, <2>2, <2>3, <3>1, SpanRefreshed
  <2>5. SUFFICES
          /\ \A i \in 1 .. Len(admitted'[u]) :
               Provided(Len(admitted'[u]), UserWindow(u)'.tokens, UserWindow(u)'.start,
                        i, admitted'[u][i])
          /\ \A i \in 1 .. Len(admitted'[u]) - WindowsPerSpan * MaxTokens :
               admitted'[u][i + WindowsPerSpan * MaxTokens] - admitted'[u][i] >= Duration
    <3>1. \A v \in User \ {u} : admitted'[v] = admitted[v]
      BY <1>2, <1>5
    <3>2. ASSUME NEW v \in User PROVE v = u \/ v \in User \ {u}
      OBVIOUS
    <3>3. SpanInv'
      BY <1>5, <2>5, <3>1, <3>2 DEF SpanInv, Elapsed, Provided
    <3>4. AdmissionBound'
      <4> HIDE DEF WindowsPerSpan
      <4> QED BY <2>5, <3>1, <3>2 DEF AdmissionBound
    <3> QED BY <3>3, <3>4
  <2>6. CASE k = 0
    <3>1. UserWindow(u)' = w /\ UNCHANGED admitted
      BY <1>5, <2>1, <2>3, <2>6
    <3> QED BY <2>2, <2>3, <2>4, <3>1 DEF AdmissionBound
  <2>7. CASE k # 0
    <3>1. /\ UserWindow(u)' = [w EXCEPT !.tokens = @ - 1]
          /\ admitted' = [admitted EXCEPT ![u] = Append(@, clock)]
      BY <1>5, <2>1, <2>3, <2>7
    <3>2. UserWindow(u)'.tokens = k - 1 /\ UserWindow(u)'.start = s
      BY <2>1, <2>3, <3>1 DEF Window
    <3>3. /\ Len(admitted'[u]) = n + 1
          /\ admitted'[u][n + 1] = clock
          /\ \A i \in 1 .. n : admitted'[u][i] = admitted[u][i]
      BY <1>1, <1>2, <2>2, <3>1, AppendProperties
    <3>4. \A i \in 1 .. n : admitted[u][i] \in Nat
      BY <1>1, <2>2, ElementOfSeq
    <3>5. ASSUME NEW i \in 1 .. n + 1
          PROVE  Provided(n + 1, k - 1, s, i, admitted'[u][i])
      <4>1. CASE i \in 1 .. n
        <5>1. Provided(n, k, s, i, admitted[u][i])
          BY <2>4, <4>1
        <5>2. n + k + 1 = (n + 1) + (k - 1) + 1
          OBVIOUS
        <5> QED BY <3>3, <4>1, <5>1, <5>2 DEF Provided
      <4>2. CASE i = n + 1
        <5>1. clock <= s + Duration - 1 + MaxLag
          BY <2>1, <2>3
        <5>2. PICK q \in Nat : q = (s + Duration - 1 + MaxLag - clock) \div Duration
          <6>1. s + Duration - 1 + MaxLag - clock \in Nat
            BY <1>2, <5>1
          <6> QED BY <6>1, DivNat
        <5>3. MaxTokens <= MaxTokens * (1 + q)
          BY <5>2
        <5>4. (n + 1) + (k - 1) + 1 <= i + MaxTokens * (1 + q)
          <6>1. PICK b \in Int : b = MaxTokens * (1 + q)
            OBVIOUS
          <6>2. k <= MaxTokens
            BY <2>1, <2>3
          <6> QED BY <4>2, <5>3, <6>1, <6>2
        <5> QED BY <3>3, <4>2, <5>1, <5>2, <5>4 DEF Provided
      <4> QED BY <4>1, <4>2
    <3>6. PICK g \in Nat : g = WindowsPerSpan * MaxTokens /\ g # 0
      <4>1. WindowsPerSpan \in Nat \ {0}
        <5>1. (2 * Duration - 2 + MaxLag) \div Duration \in Nat
          <6>1. 2 * Duration - 2 + MaxLag \in Nat
            OBVIOUS
          <6> QED BY <6>1, DivNat
        <5> QED BY <5>1 DEF WindowsPerSpan
      <4>2. MaxTokens \in Nat \ {0}
        BY <2>1, <2>3, <2>7
      <4> HIDE DEF WindowsPerSpan
      <4> QED BY <4>1, <4>2
    <3>7. ASSUME NEW i \in 1 .. n + 1 - g
          PROVE  admitted'[u][i + g] - admitted'[u][i] >= Duration
      <4>1. i \in 1 .. n /\ admitted'[u][i] = admitted[u][i]
        BY <3>3, <3>6
      <4>2. CASE i + g = n + 1
        <5>1. PICK a \in Nat : a = admitted[u][i]
          BY <3>4, <4>1
        <5>2. Provided(n, k, s, i, a)
          BY <2>4, <4>1, <5>1
        <5>3. a + Duration <= s
          <6>1. i \in Nat /\ k \in Nat \ {0} /\ n + 1 = i + WindowsPerSpan * MaxTokens
            BY <2>7, <3>6, <4>2
          <6> HIDE DEF WindowsPerSpan
          <6> QED BY <5>2, <6>1, SpanGrant
        <5>4. admitted'[u][i + g] = clock /\ s <= clock
          BY <2>1, <2>3, <3>3, <4>2
        <5> QED BY <1>2, <4>1, <5>1, <5>3, <5>4
      <4>3. CASE i + g # n + 1
        <5>1. i + g \in 1 .. n /\ i \in 1 .. n - g
          BY <4>3
        <5>2. admitted[u][i + g] - admitted[u][i] >= Duration
          BY <2>2, <3>6, <5>1 DEF AdmissionBound
        <5> QED BY <3>3, <4>1, <5>1, <5>2
      <4> QED BY <4>2, <4>3
    <3> HIDE DEF WindowsPerSpan
    <3> QED BY <3>2, <3>3, <3>5, <3>6, <3>7
  <2> QED BY <2>6, <2>7
<1> QED BY WindowStep, <1>3, <1>4, <1>5

\* RateLimiter: with stale stamps, windows that a late call reopens in the past
\* and concurrent first requests, no Duration sees more than WindowsPerSpan
\* bursts of one user.
THEOREM BurstsBounded == GatewaySpec => []AdmissionBound
<1> USE LimiterAssumption
<1>1. GatewayInit => FreshInv /\ SpanInv /\ AdmissionBound
  <2> SUFFICES ASSUME GatewayInit PROVE FreshInv /\ SpanInv /\ AdmissionBound
    OBVIOUS
  <2>1. \A r \in Request : limit[r].pc # "allow"
    BY DEF GatewayInit, LimitInit, NoCall
  <2>2. \A u \in User : Len(admitted[u]) = 0
    BY DEF GatewayInit, LimitInit
  <2>3. WindowsPerSpan * MaxTokens \in Nat
    <3>1. 2 * Duration - 2 + MaxLag \in Nat
      OBVIOUS
    <3>2. WindowsPerSpan \in Nat
      BY <3>1, DivNat DEF WindowsPerSpan
    <3> HIDE DEF WindowsPerSpan
    <3> QED BY <3>2
  <2>4. AdmissionBound
    <3> HIDE DEF WindowsPerSpan
    <3>1. PICK g \in Nat : g = WindowsPerSpan * MaxTokens
      BY <2>3
    <3> QED BY <2>2, <3>1 DEF AdmissionBound
  <2> QED BY <2>1, <2>2, <2>4 DEF FreshInv, SpanInv
<1>2. AuthInv /\ LimitInv /\ FreshInv /\ SpanInv /\ AdmissionBound /\ [GatewayNext]_gatewayVars
        => FreshInv' /\ SpanInv' /\ AdmissionBound'
  BY GatewayLimitStep, FreshInductive, SpanInductive
<1> QED BY <1>1, <1>2, AuthInvariant, LimitInvariant, PTL DEF GatewaySpec
=============================================================================
