----------------------------- MODULE RateLimiter -----------------------------
(***************************************************************************)
(* The rate limiter of the Notification Service: one FixedWindow per user  *)
(* in an InMemoryRateLimitRepo, used by every request of one process.      *)
(*                                                                         *)
(* RateLimitSystem.Allow takes the repository's read lock, perhaps its     *)
(* write lock, then reads the clock, and only then waits for the window's  *)
(* mutex: each of these is a step, and time may pass between any two.      *)
(***************************************************************************)
EXTENDS RequestClock, Sequences

CONSTANTS
  User,       \* keys of the limiter: the user_id the auth middleware has set
  MaxTokens,  \* RATE_LIMIT_MAX
  Duration,   \* RATE_LIMIT_DURATION
  MaxLag      \* bound: how long a request waits for a window's mutex

ASSUME LimiterAssumption ==
  /\ MaxTokens \in Nat
  /\ Duration \in Nat \ {0}
  /\ MaxLag \in Nat

VARIABLES
  windows,   \* Windows: the index in heap of each user's window, 0 if none
  heap,      \* every FixedWindow that was allocated
  limit,     \* the call of Allow each request is in
  admitted   \* history: the instants at which each user was let through

limitVars == <<windows, heap, limit, admitted>>

Window == [start : Nat, tokens : Nat]
LimitPc == {"idle", "create", "stamp", "allow"}
NoCall == [pc |-> "idle", key |-> "none", win |-> 0, now |-> 0]

LimitInit ==
  /\ windows = [u \in User |-> 0]
  /\ heap = <<>>
  /\ limit = [r \in Request |-> NoCall]
  /\ admitted = [u \in User |-> <<>>]

-----------------------------------------------------------------------------
(* InMemoryRateLimitRepo.GetOrCreate                                       *)

SetLimit(r, pc, u, win, now) ==
  limit' = [limit EXCEPT ![r] = [pc |-> pc, key |-> u, win |-> win, now |-> now]]

\* Under the read lock.
Lookup(r, u) ==
  /\ limit[r].pc = "idle"
  /\ SetLimit(r, IF windows[u] # 0 THEN "stamp" ELSE "create", u, windows[u], 0)
  /\ UNCHANGED <<windows, heap, admitted>>

NewWindow(r, u) ==
  /\ heap' = Append(heap, [start |-> clock, tokens |-> MaxTokens])
  /\ windows' = [windows EXCEPT ![u] = Len(heap) + 1]
  /\ SetLimit(r, "stamp", u, Len(heap) + 1, 0)

\* Mutant of Create: the map is not looked up again under the write lock.
CreateUnchecked(r) ==
  /\ limit[r].pc = "create"
  /\ NewWindow(r, limit[r].key)
  /\ UNCHANGED admitted

\* Under the write lock: another request may have created the window.
Create(r) ==
  LET u == limit[r].key
  IN  /\ limit[r].pc = "create"
      /\ \/ windows[u] = 0 /\ NewWindow(r, u)
         \/ /\ windows[u] # 0
            /\ SetLimit(r, "stamp", u, windows[u], 0)
            /\ UNCHANGED <<windows, heap>>
      /\ UNCHANGED admitted

-----------------------------------------------------------------------------
(* RateLimitSystem.Allow and FixedWindow.Allow                             *)

\* The argument time.Now() is evaluated before the mutex is taken.
Stamp(r) ==
  /\ limit[r].pc = "stamp"
  /\ SetLimit(r, "allow", limit[r].key, limit[r].win, clock)
  /\ UNCHANGED <<windows, heap, admitted>>

\* Mutant of Refreshed: the start of the window is not moved.
RefreshedKeepsStart(w, now) ==
  IF now >= w.start + Duration THEN [w EXCEPT !.tokens = MaxTokens] ELSE w

\* now.Sub(WindowStart) >= Duration resets the window.
Refreshed(w, now) ==
  IF now >= w.start + Duration THEN [start |-> now, tokens |-> MaxTokens] ELSE w

\* Mutant of Allowed: only a negative count is refused.
AllowedAtZero(w) == w.tokens + 1 > 0

\* TokensRemaining <= 0 is refused.
Allowed(w) == w.tokens > 0

\* Under the mutex of the window: reset, then refuse or take a token.
Allow(r) ==
  LET w == Refreshed(heap[limit[r].win], limit[r].now)
  IN  /\ limit[r].pc = "allow"
      /\ \/ /\ Allowed(w)
            /\ heap' = [heap EXCEPT ![limit[r].win] =
                          [w EXCEPT !.tokens = @ - 1]]
            /\ admitted' = [admitted EXCEPT ![limit[r].key] = Append(@, clock)]
         \/ /\ ~Allowed(w)
            /\ heap' = [heap EXCEPT ![limit[r].win] = w]
            /\ UNCHANGED admitted
      /\ limit' = [limit EXCEPT ![r] = NoCall]
      /\ UNCHANGED windows

\* No call keeps its stamp longer than MaxLag.
LimitTimely ==
  \A r \in Request : limit[r].pc = "allow" => clock < limit[r].now + MaxLag

-----------------------------------------------------------------------------
(* Properties                                                              *)

\* Part of the type invariant of the gateway.
LimitType ==
  /\ windows \in [User -> 0 .. Len(heap)]
  /\ heap \in Seq(Window)
  /\ limit \in [Request -> [pc : LimitPc \ {"idle"}, key : User,
                             win : 0 .. Len(heap), now : Nat] \cup {NoCall}]
  /\ admitted \in [User -> Seq(Nat)]
  /\ \A r \in Request :
       /\ limit[r].pc \in {"idle", "create"} <=> limit[r].win = 0
       /\ limit[r].now <= clock

\* How many windows can admit requests within one Duration.  A request takes
\* its stamp BEFORE it waits for the mutex, so it can spend a token of a window
\* that is over, and the window it opens can begin before the reset happens.
WindowsPerSpan == 1 + (2 * Duration - 2 + MaxLag) \div Duration

\* A fixed window admits a burst at the end of one period and another at the
\* beginning of the next, and a wait for the mutex of a whole Duration adds a
\* third.  That is the worst: WindowsPerSpan * MaxTokens + 1 admissions of one
\* user, through whatever requests, are spread over at least Duration.
AdmissionBound ==
  \A u \in User :
    \A i \in 1 .. Len(admitted[u]) - WindowsPerSpan * MaxTokens :
      admitted[u][i + WindowsPerSpan * MaxTokens] - admitted[u][i] >= Duration

\* The bursts do not accumulate: from the start of the process a user is let
\* through at most MaxTokens times in every Duration, on average.
LongRunRate ==
  \A u \in User :
    Len(admitted[u]) <= MaxTokens * (1 + clock \div Duration)

\* The window of each user, seen as the state of the abstract quota.
UserWindow(u) ==
  IF windows[u] = 0 THEN [start |-> 0, tokens |-> MaxTokens] ELSE heap[windows[u]]

LimiterQuota == INSTANCE Quota WITH
  User    <- User,
  Limit   <- MaxTokens,
  Period  <- Duration,
  used    <- [u \in User |-> MaxTokens - UserWindow(u).tokens],
  since   <- [u \in User |-> UserWindow(u).start],
  granted <- [u \in User |-> Len(admitted[u])]

\* Concurrent first requests, stale stamps and the two locks notwithstanding,
\* the limiter behaves as one quota per user.
ImplementsQuota == LimiterQuota!Spec
=============================================================================
