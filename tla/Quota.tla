-------------------------------- MODULE Quota --------------------------------
(***************************************************************************)
(* What a rate limiter promises, without saying how: each user has periods *)
(* that start at least Period apart, and at most Limit requests are granted*)
(* in one period.                                                          *)
(***************************************************************************)
EXTENDS Naturals

CONSTANTS User, Limit, Period

VARIABLES
  used,     \* requests granted to each user in the current period
  since,    \* the instant the current period began
  granted   \* requests granted to each user in all

quotaVars == <<used, since, granted>>

Init ==
  /\ used = [u \in User |-> 0]
  /\ since = [u \in User |-> 0]
  /\ granted = [u \in User |-> 0]

\* The first period begins when the user is first seen.
Open(u) ==
  /\ granted[u] = 0
  /\ since'[u] >= since[u]
  /\ since' = [since EXCEPT ![u] = since'[u]]
  /\ UNCHANGED <<used, granted>>

Grant(u) ==
  /\ used[u] < Limit
  /\ used' = [used EXCEPT ![u] = @ + 1]
  /\ granted' = [granted EXCEPT ![u] = @ + 1]
  /\ UNCHANGED since

\* A new period, opened by a request that is its first, if any is allowed.
Renew(u) ==
  /\ since'[u] >= since[u] + Period
  /\ since' = [since EXCEPT ![u] = since'[u]]
  /\ used' = [used EXCEPT ![u] = IF Limit > 0 THEN 1 ELSE 0]
  /\ granted' = [granted EXCEPT ![u] = IF Limit > 0 THEN @ + 1 ELSE @]

Next == \E u \in User : Open(u) \/ Grant(u) \/ Renew(u)

Spec == Init /\ [][Next]_quotaVars
=============================================================================
