------------------------------ MODULE AuthCache ------------------------------
(***************************************************************************)
(* Auth0Middleware: a bearer token is looked up in a sync.Map of verdicts  *)
(* that expire after five minutes, and validated by an HTTP call to Auth0  *)
(* when it is not there.  Nothing locks the sequence load, delete, ask,    *)
(* store: requests with the same token interleave between any two steps.   *)
(*                                                                         *)
(* Auth0 is external: it vouches for a token until the session ends.  A    *)
(* request without a well-formed Authorization header is answered 401 and  *)
(* touches no state; it is left out.                                       *)
(***************************************************************************)
EXTENDS RequestClock

CONSTANTS
  Token,    \* bearer tokens
  TTL,      \* life of a cached verdict, 5 min
  Timeout   \* of the HTTP client that asks Auth0, 5 s

ASSUME AuthAssumption ==
  /\ TTL \in Nat \ {0}
  /\ Timeout \in Nat

VARIABLES
  tokenCache,  \* expiresAt of the entry of each token, 0 if there is none
  auth,        \* where each request stands in the middleware
  ended        \* the instant Auth0 ended the session of a token, 0 if it has not

authVars == <<tokenCache, auth, ended>>

\* "passed": c.Next() was called with the user_id of the token.
AuthPc == {"idle", "delete", "ask", "store", "passed"}
NoAuth == [pc |-> "idle", token |-> "none", sent |-> 0]

AuthInit ==
  /\ tokenCache = [k \in Token |-> 0]
  /\ auth = [r \in Request |-> NoAuth]
  /\ ended = [k \in Token |-> 0]

SetAuth(r, pc, k, sent) ==
  auth' = [auth EXCEPT ![r] = [pc |-> pc, token |-> k, sent |-> sent]]
EndAuth(r) == auth' = [auth EXCEPT ![r] = NoAuth]

\* Mutant of Fresh: the entry still counts at the instant it expires.
FreshInclusive(k) == tokenCache[k] # 0 /\ clock <= tokenCache[k]

\* time.Now().Before(entry.expiresAt)
Fresh(k) == tokenCache[k] # 0 /\ clock < tokenCache[k]

\* Load: a fresh entry lets the request through, an expired one is to be
\* deleted, and without an entry Auth0 is asked.
Load(r, k) ==
  /\ auth[r].pc = "idle"
  /\ \/ Fresh(k) /\ SetAuth(r, "passed", k, 0)
     \/ ~Fresh(k) /\ tokenCache[k] # 0 /\ SetAuth(r, "delete", k, 0)
     \/ tokenCache[k] = 0 /\ SetAuth(r, "ask", k, clock)
  /\ UNCHANGED <<tokenCache, ended>>

\* Delete removes whatever entry is there by now, perhaps a fresh one.
Delete(r) ==
  /\ auth[r].pc = "delete"
  /\ tokenCache' = [tokenCache EXCEPT ![auth[r].token] = 0]
  /\ SetAuth(r, "ask", auth[r].token, clock)
  /\ UNCHANGED ended

\* Auth0 answers 200 with the user's sub, because the session is alive.
Vouch(r) ==
  /\ auth[r].pc = "ask"
  /\ ended[auth[r].token] = 0
  /\ SetAuth(r, "store", auth[r].token, auth[r].sent)
  /\ UNCHANGED <<tokenCache, ended>>

\* The answer arrives within the client's timeout, is cached, and the request
\* goes on.
Store(r) ==
  /\ auth[r].pc = "store"
  /\ clock <= auth[r].sent + Timeout
  /\ tokenCache' = [tokenCache EXCEPT ![auth[r].token] = clock + TTL]
  /\ SetAuth(r, "passed", auth[r].token, 0)
  /\ UNCHANGED ended

\* 401, 500 or 503: the session is over, Auth0 is unreachable or too slow, or
\* its answer cannot be decoded or names no sub.
Refuse(r) ==
  /\ auth[r].pc \in {"ask", "store"}
  /\ EndAuth(r)
  /\ UNCHANGED <<tokenCache, ended>>

\* External: logout, revocation or expiry of the session at Auth0.
EndSession(k) ==
  /\ ended[k] = 0
  /\ clock > 0
  /\ ended' = [ended EXCEPT ![k] = clock]
  /\ UNCHANGED <<tokenCache, auth>>

-----------------------------------------------------------------------------
(* Properties                                                              *)

\* Part of the type invariant of the gateway.
AuthType ==
  /\ tokenCache \in [Token -> Nat]
  /\ auth \in [Request -> [pc : AuthPc \ {"idle"}, token : Token, sent : Nat]
                            \cup {NoAuth}]
  /\ ended \in [Token -> Nat]
  /\ \A r \in Request : auth[r].sent <= clock
  /\ \A k \in Token : ended[k] <= clock

\* A verdict cached before the session ended, or asked for before and stored
\* after, is the last that lets the token through: from TTL plus Timeout after
\* the end of the session on it is refused, whatever requests with the same
\* token interleave their loads, deletes and stores.
RevocationTakesEffect ==
  [][\A r \in Request :
       auth[r].pc # "passed" /\ auth'[r].pc = "passed" =>
         LET end == ended[auth'[r].token]
         IN  end = 0 \/ clock < end + TTL + Timeout]_<<clock, authVars>>
=============================================================================
