---------------------------- MODULE AuthLimiter ----------------------------
(***************************************************************************)
(* The fixed-window limiter of signup and login:                           *)
(* check_auth_rate_limit in proxy/middleware/rate_limiter.py, called by    *)
(* _auth_rate_limit_or_429 in proxy/main.py.  Both endpoints run in a      *)
(* thread pool.  The interpreter may switch threads at the two calls of    *)
(* the function (the clock and the dictionary's get) and nowhere else, so  *)
(* an attempt is three steps: read the clock, read the window, decide and  *)
(* write the window back.                                                  *)
(*                                                                         *)
(* Left out: what the endpoint does after it was let through, and a        *)
(* restart, which empties the dictionary.                                  *)
(***************************************************************************)
EXTENDS Integers, FiniteSets, Combinatorics

CONSTANTS Thread,       \* request threads
          Key,          \* client addresses
          Limit,        \* _AUTH_RATE_LIMIT
          Window,       \* _AUTH_RATE_WINDOW_SECONDS
          MaxClock      \* bound: the clock, and so the number of attempts

ASSUME LimiterAssumption ==
  /\ IsFiniteSet(Thread)
  /\ Limit \in Nat \ {0} /\ Window \in Nat \ {0}
  /\ MaxClock \in Nat

VARIABLES clock,      \* the last reading of time.monotonic()
          windows,    \* _window_counts: the stored window of a key, or None
          job,        \* where each thread is
          admitted,   \* history: attempts let through, by key and start of window
          overlapped  \* history: keys that two threads were at together

vars == <<clock, windows, job, admitted, overlapped>>

Time == 0..MaxClock
WindowRecord == [start : Time, count : 0..Limit]
None == [start |-> 0, count |-> -1]   \* the key is not in the dictionary

Idle == [do |-> "idle"]
Job == {Idle}
         \cup [do : {"look"}, key : Key, now : Time]
         \cup [do : {"decide"}, key : Key, now : Time, window : WindowRecord]

Init ==
  /\ clock = 0
  /\ windows = [k \in Key |-> None]
  /\ job = [t \in Thread |-> Idle]
  /\ admitted = [k \in Key |-> [s \in Time |-> 0]]
  /\ overlapped = {}

-----------------------------------------------------------------------------
BusyWith(k) == {t \in Thread : job[t] # Idle /\ job[t].key = k}

\* now = time.monotonic(): it never goes back, and two readings differ (which also
\* bounds the number of attempts by MaxClock).
ReadClock(t, k, now) ==
  /\ job[t] = Idle
  /\ now > clock
  /\ clock' = now
  /\ job' = [job EXCEPT ![t] = [do |-> "look", key |-> k, now |-> now]]
  /\ overlapped' = IF BusyWith(k) = {} THEN overlapped ELSE overlapped \cup {k}
  /\ UNCHANGED <<windows, admitted>>

\* _window_counts.get(key, (now, 0))
ReadWindow(t) ==
  /\ job[t].do = "look"
  /\ LET k == job[t].key
         w == IF windows[k] = None THEN [start |-> job[t].now, count |-> 0] ELSE windows[k]
     IN  job' = [job EXCEPT ![t] =
                   [do |-> "decide", key |-> k, now |-> job[t].now, window |-> w]]
  /\ UNCHANGED <<clock, windows, admitted, overlapped>>

\* Seeded defect: the window is one tick too long.
CurrentSliding(now, w) ==
  IF now - w.start > Window THEN [start |-> now, count |-> 0] ELSE w

\* A window that is over is replaced by one that starts now.
Current(now, w) ==
  IF now - w.start >= Window THEN [start |-> now, count |-> 0] ELSE w

\* Seeded defects: one attempt too many, the count is not advanced.
IsFullLate(w) == w.count > Limit
IsFullNever(w) == FALSE

IsFull(w) == w.count >= Limit

Decide(t) ==
  /\ job[t].do = "decide"
  /\ LET k == job[t].key
         w == Current(job[t].now, job[t].window)
     IN  IF IsFull(w)
         THEN /\ windows' = [windows EXCEPT ![k] = w]
              /\ UNCHANGED admitted
         ELSE /\ windows' = [windows EXCEPT ![k] = [w EXCEPT !.count = @ + 1]]
              /\ admitted' = [admitted EXCEPT ![k][w.start] = @ + 1]
  /\ job' = [job EXCEPT ![t] = Idle]
  /\ UNCHANGED <<clock, overlapped>>

Next ==
  \E t \in Thread :
    \/ \E k \in Key, now \in Time : ReadClock(t, k, now)
    \/ ReadWindow(t)
    \/ Decide(t)

Spec == Init /\ [][Next]_vars

-----------------------------------------------------------------------------
(* Properties                                                              *)

TypeOK ==
  /\ clock \in Time
  /\ windows \in [Key -> WindowRecord \cup {None}]
  /\ job \in [Thread -> Job]
  /\ admitted \in [Key -> [Time -> Nat]]
  /\ overlapped \subseteq Key

\* "A fixed window so a shared IP recovers instead of being locked out forever"
\* (main.py): whatever the threads overwrite, an attempt is refused only when Limit
\* attempts really got through in a window that was not over at its reading of the
\* clock.
RefusalsJustified ==
  [][\A t \in Thread :
       job[t].do = "decide" /\ job'[t] = Idle /\ UNCHANGED admitted =>
         \E s \in Time : /\ job[t].now - s < Window
                         /\ admitted[job[t].key][s] >= Limit]_vars

\* As long as no two threads were ever at one address together, the limit is kept
\* in every window.
LimitKeptAlone ==
  \A k \in Key \ overlapped : \A s \in Time : admitted[k][s] <= Limit

\* "Returns True if allowed, False if key is over limit attempts within the current
\* window" (rate_limiter.py) is not what concurrent attempts get: two that read the same
\* count are both let through.  How far lost updates can go: n threads let at most
\* (Limit - 1 + n) choose n attempts through one window, which is Limit for one thread.
\* Every thread can set the count back once for each time the others have advanced it.
ExcessBounded ==
  LET n == Cardinality(Thread)
  IN  \A k \in Key, s \in Time : admitted[k][s] <= choose(Limit - 1 + n, n)
=============================================================================
