------------------------ MODULE AuthLimiter_proofs ------------------------
(***************************************************************************)
(* What holds of the auth rate limiter for any number of threads and       *)
(* addresses, any limit and any window: no address is refused without      *)
(* reason, an address tried by one thread at a time never gets more than   *)
(* its limit, and n threads at one address never get more than             *)
(* (Limit - 1 + n) choose n attempts through one window of it.             *)
(***************************************************************************)
EXTENDS AuthLimiter, FiniteSetTheorems, TLAPS

-----------------------------------------------------------------------------
(* Windows and jobs                                                        *)

LEMMA NoneIsNoWindow == None \notin WindowRecord
  BY DEF None, WindowRecord

\* A window that is over is replaced, and it is never full then.
LEMMA CurrentWindow ==
  ASSUME NEW now \in Time, NEW w \in WindowRecord
  PROVE  /\ Current(now, w) \in WindowRecord
         /\ Current(now, w) = w \/ Current(now, w) = [start |-> now, count |-> 0]
         /\ IsFull(Current(now, w)) => /\ Current(now, w) = w
                                       /\ now - w.start < Window
                                       /\ w.count >= Limit
  BY LimiterAssumption DEF Current, IsFull, WindowRecord, Time

LEMMA JobKinds ==
  ASSUME NEW j \in Job
  PROVE  /\ j.do = "idle" => j = Idle
         /\ j # Idle => j.do \in {"look", "decide"} /\ j.key \in Key /\ j.now \in Time
         /\ j.do = "decide" => j # Idle /\ j.window \in WindowRecord
         /\ j.do = "look" => j # Idle
  BY DEF Job, Idle

LEMMA NewJobs ==
  /\ Idle \in Job
  /\ \A k \in Key, now \in Time : [do |-> "look", key |-> k, now |-> now] \in Job
  /\ \A k \in Key, now \in Time, w \in WindowRecord :
       [do |-> "decide", key |-> k, now |-> now, window |-> w] \in Job
  BY DEF Job

-----------------------------------------------------------------------------
(* Type correctness                                                        *)

\* What ReadWindow takes home: the stored window or a fresh one.
Found(t) ==
  IF windows[job[t].key] = None THEN [start |-> job[t].now, count |-> 0]
                                ELSE windows[job[t].key]

LEMMA FoundType ==
  ASSUME TypeOK, NEW t \in Thread, job[t].do = "look"
  PROVE  Found(t) \in WindowRecord
<1>1. job[t].key \in Key /\ job[t].now \in Time
  BY JobKinds DEF TypeOK
<1>2. [start |-> job[t].now, count |-> 0] \in WindowRecord
  BY <1>1, LimiterAssumption DEF WindowRecord
<1> QED BY <1>1, <1>2 DEF TypeOK, Found

\* The clock, the dictionary, the threads and the history keep their types.
LEMMA TypePreserved == TypeOK /\ [Next]_vars => TypeOK'
<1> SUFFICES ASSUME TypeOK, [Next]_vars PROVE TypeOK'
  OBVIOUS
<1> USE DEF TypeOK
<1>1. ASSUME NEW t \in Thread, NEW k \in Key, NEW now \in Time, ReadClock(t, k, now)
      PROVE  TypeOK'
  <2>1. [do |-> "look", key |-> k, now |-> now] \in Job
    BY NewJobs DEF Job
  <2>2. job' \in [Thread -> Job]
    BY <1>1, <2>1 DEF ReadClock
  <2> QED BY <1>1, <2>2 DEF ReadClock
<1>2. ASSUME NEW t \in Thread, ReadWindow(t) PROVE TypeOK'
  <2>1. job' = [job EXCEPT ![t] = [do |-> "decide", key |-> job[t].key,
                                   now |-> job[t].now, window |-> Found(t)]]
    BY <1>2 DEF ReadWindow, Found
  <2>2. [do |-> "decide", key |-> job[t].key, now |-> job[t].now, window |-> Found(t)] \in Job
    BY <1>2, FoundType, JobKinds, NewJobs DEF ReadWindow
  <2> QED BY <1>2, <2>1, <2>2 DEF ReadWindow
<1>3. ASSUME NEW t \in Thread, Decide(t) PROVE TypeOK'
  <2> DEFINE k == job[t].key
             w == Current(job[t].now, job[t].window)
  <2>1. k \in Key /\ w \in WindowRecord
    BY <1>3, JobKinds, CurrentWindow DEF Decide
  <2>2. job' \in [Thread -> Job]
    BY <1>3, NewJobs, <2>1 DEF Decide
  <2>3. CASE IsFull(w)
    BY <1>3, <2>1, <2>2, <2>3 DEF Decide
  <2>4. CASE ~IsFull(w)
    <3>1. /\ windows' = [windows EXCEPT ![k] = [w EXCEPT !.count = @ + 1]]
          /\ admitted' = [admitted EXCEPT ![k][w.start] = @ + 1]
      BY <1>3, <2>4 DEF Decide
    <3>2. [w EXCEPT !.count = @ + 1] \in WindowRecord /\ w.start \in Time
      BY <2>1, <2>4, LimiterAssumption DEF IsFull, WindowRecord
    <3>3. windows' \in [Key -> WindowRecord \cup {None}]
      BY <2>1, <3>1, <3>2
    <3>4. admitted' \in [Key -> [Time -> Nat]]
      BY <2>1, <3>1, <3>2
    <3> QED BY <1>3, <2>2, <3>3, <3>4 DEF Decide
  <2> QED BY <2>3, <2>4
<1>4. CASE UNCHANGED vars
  BY <1>4 DEF vars
<1> QED BY <1>1, <1>2, <1>3, <1>4 DEF Next

LEMMA InitType == Init => TypeOK
  BY LimiterAssumption, NewJobs DEF Init, TypeOK, Job, Time

\* The limiter's state always has its types: a count stays within the limit however
\* many threads advance it.
THEOREM TypeCorrect == Spec => []TypeOK
  BY InitType, TypePreserved, PTL DEF Spec
-----------------------------------------------------------------------------
(* Refusals                                                                *)

\* The strengthening RefusalsJustified needs: neither the dictionary nor a thread on
\* its way to a decision counts more attempts than were let through.
Covered(k, w) == w.count <= admitted[k][w.start]

CountsCovered ==
  /\ \A k \in Key : windows[k] # None => Covered(k, windows[k])
  /\ \A t \in Thread : job[t].do = "decide" => Covered(job[t].key, job[t].window)

\* A decision that lets its attempt through, and one that refuses it.
Outcome(k, w) ==
  /\ k \in Key /\ w \in WindowRecord /\ w.start \in Time /\ w.count \in Nat
  /\ \/ /\ IsFull(w)
        /\ windows' = [windows EXCEPT ![k] = w]
        /\ admitted' = admitted
     \/ /\ w.count < Limit
        /\ windows' = [windows EXCEPT ![k] = [start |-> w.start, count |-> w.count + 1]]
        /\ admitted' = [admitted EXCEPT ![k] =
                          [admitted[k] EXCEPT ![w.start] = admitted[k][w.start] + 1]]
        /\ admitted'[k][w.start] = admitted[k][w.start] + 1

LEMMA Decision ==
  ASSUME TypeOK, NEW t \in Thread, Decide(t)
  PROVE  Outcome(job[t].key, Current(job[t].now, job[t].window))
<1> PICK k, w : k = job[t].key /\ w = Current(job[t].now, job[t].window)
  OBVIOUS
<1> SUFFICES Outcome(k, w)
  OBVIOUS
<1>1. k \in Key /\ w \in WindowRecord /\ w.start \in Time /\ w.count \in Nat
  <2>1. job[t] \in Job /\ job[t].do = "decide"
    BY DEF Decide, TypeOK
  <2>2. k \in Key /\ job[t].now \in Time /\ job[t].window \in WindowRecord
    BY <2>1, JobKinds
  <2>3. w \in WindowRecord
    BY <2>2, CurrentWindow
  <2> QED BY <2>2, <2>3, LimiterAssumption DEF WindowRecord
<1>2. CASE IsFull(w)
  BY <1>1, <1>2 DEF Decide, Outcome
<1>3. CASE ~IsFull(w)
  <2>1. w.count < Limit
    BY <1>1, <1>3, LimiterAssumption DEF IsFull
  <2>2. /\ windows' = [windows EXCEPT ![k] = [w EXCEPT !.count = w.count + 1]]
        /\ admitted' = [admitted EXCEPT ![k] =
                          [admitted[k] EXCEPT ![w.start] = admitted[k][w.start] + 1]]
    BY <1>3 DEF Decide
  <2>3. [w EXCEPT !.count = w.count + 1] = [start |-> w.start, count |-> w.count + 1]
    BY <1>1 DEF WindowRecord
  <2>4. admitted'[k][w.start] = admitted[k][w.start] + 1
    BY <1>1, <2>2 DEF TypeOK
  <2> QED BY <1>1, <2>1, <2>2, <2>3, <2>4 DEF Outcome
<1> QED BY <1>2, <1>3

\* Attempts that were let through stay so.
LEMMA AdmittedGrows ==
  ASSUME TypeOK, [Next]_vars, NEW k \in Key, NEW s \in Time
  PROVE  admitted'[k][s] \in Nat /\ admitted[k][s] <= admitted'[k][s]
<1>1. admitted[k][s] \in Nat
  BY DEF TypeOK
<1>2. ASSUME NEW t \in Thread, Decide(t)
      PROVE  admitted'[k][s] \in Nat /\ admitted[k][s] <= admitted'[k][s]
  <2> DEFINE l == job[t].key
             w == Current(job[t].now, job[t].window)
  <2>1. /\ l \in Key /\ w.start \in Time
        /\ \/ admitted' = admitted
           \/ admitted' = [admitted EXCEPT ![l] =
                            [admitted[l] EXCEPT ![w.start] = admitted[l][w.start] + 1]]
    <3>1. Outcome(l, w)
      BY <1>2, Decision
    <3> QED BY <3>1 DEF Outcome
  <2> HIDE DEF l, w
  <2> QED BY <1>1, <2>1 DEF TypeOK
<1>3. CASE UNCHANGED admitted
  BY <1>1, <1>3
<1> QED BY <1>2, <1>3 DEF Next, ReadClock, ReadWindow, vars

LEMMA CountsCoveredPreserved ==
  TypeOK /\ CountsCovered /\ [Next]_vars => CountsCovered'
<1> SUFFICES ASSUME TypeOK, CountsCovered, [Next]_vars PROVE CountsCovered'
  OBVIOUS
<1>1. ASSUME NEW k \in Key, NEW w \in WindowRecord, Covered(k, w) PROVE Covered(k, w)'
  <2>1. w.start \in Time /\ w.count \in Nat
    BY LimiterAssumption DEF WindowRecord
  <2>2. /\ admitted[k][w.start] \in Nat /\ admitted'[k][w.start] \in Nat
        /\ admitted[k][w.start] <= admitted'[k][w.start]
    BY <2>1, AdmittedGrows DEF TypeOK
  <2> QED BY <1>1, <2>1, <2>2 DEF Covered
<1>2. ASSUME NEW k \in Key, NEW n \in Time PROVE Covered(k, [start |-> n, count |-> 0])
  BY <1>2 DEF Covered, TypeOK
<1>3. ASSUME NEW k \in Key, windows[k] # None PROVE Covered(k, windows[k])'
             \/ windows'[k] # windows[k]
  BY <1>1, <1>3 DEF CountsCovered, TypeOK, Covered
<1>4. ASSUME NEW t \in Thread, job[t].do = "decide"
      PROVE  /\ job[t].key \in Key /\ job[t].window \in WindowRecord
             /\ Covered(job[t].key, job[t].window)
             /\ admitted'[job[t].key][job[t].window.start] >= job[t].window.count
  <2>1. job[t].key \in Key /\ job[t].window \in WindowRecord
    BY <1>4, JobKinds DEF TypeOK
  <2> QED BY <1>1, <1>4, <2>1, AdmittedGrows, LimiterAssumption
     DEF CountsCovered, Covered, WindowRecord, TypeOK
<1>5. ASSUME NEW t \in Thread, NEW u \in Thread, job'[u].do = "decide",
             job' = [job EXCEPT ![t] = job'[t]], job'[t].do # "decide" \/ u # t
      PROVE  Covered(job[u].key, job[u].window)'
  BY <1>4, <1>5 DEF Covered, TypeOK
<1>6. ASSUME NEW t \in Thread, NEW k \in Key, NEW now \in Time, ReadClock(t, k, now)
      PROVE  CountsCovered'
  <2>1. job' = [job EXCEPT ![t] = job'[t]] /\ job'[t].do # "decide"
    BY <1>6 DEF ReadClock, TypeOK
  <2>2. windows' = windows
    BY <1>6 DEF ReadClock
  <2> QED BY <1>3, <1>5, <2>1, <2>2 DEF CountsCovered
<1>7. ASSUME NEW t \in Thread, ReadWindow(t) PROVE CountsCovered'
  <2>1. /\ job' = [job EXCEPT ![t] = job'[t]]
        /\ job'[t] = [do |-> "decide", key |-> job[t].key, now |-> job[t].now,
                      window |-> Found(t)]
    BY <1>7 DEF ReadWindow, TypeOK, Found
  <2>2. windows' = windows
    BY <1>7 DEF ReadWindow
  <2>3. job[t].key \in Key /\ job[t].now \in Time /\ Found(t) \in WindowRecord
    BY <1>7, JobKinds, FoundType DEF ReadWindow, TypeOK
  <2>4. Covered(job[t].key, Found(t))
    BY <1>2, <2>3 DEF Found, CountsCovered
  <2>5. admitted'[job[t].key][Found(t).start] >= Found(t).count
    BY <1>1, <2>3, <2>4, AdmittedGrows, LimiterAssumption DEF Covered, WindowRecord, TypeOK
  <2>6. Covered(job[t].key, job[t].window)'
    BY <2>1, <2>5 DEF Covered
  <2> QED BY <1>3, <1>5, <2>1, <2>2, <2>6 DEF CountsCovered
<1>8. ASSUME NEW t \in Thread, Decide(t) PROVE CountsCovered'
  <2> DEFINE k == job[t].key
             w == Current(job[t].now, job[t].window)
  <2>1. job' = [job EXCEPT ![t] = job'[t]] /\ job'[t].do # "decide"
    BY <1>8 DEF Decide, TypeOK, Idle
  <2>2. k \in Key /\ w \in WindowRecord /\ w.start \in Time /\ w.count \in Nat
    <3>1. Outcome(k, w)
      BY <1>8, Decision
    <3> QED BY <3>1 DEF Outcome
  <2>3. Covered(k, w)
    <3>1. /\ job[t].now \in Time /\ job[t].window \in WindowRecord
          /\ Covered(k, job[t].window)
      BY <1>4, <1>8, JobKinds DEF Decide, TypeOK
    <3> QED BY <1>2, <2>2, <3>1, CurrentWindow
  <2>4. /\ windows' = [windows EXCEPT ![k] = windows'[k]]
        /\ windows'[k].count <= admitted'[k][windows'[k].start]
    <3> HIDE DEF k, w
    <3>1. w.count <= admitted[k][w.start] /\ admitted[k][w.start] \in Nat
      BY <2>2, <2>3 DEF Covered, TypeOK
    <3>2. \/ /\ windows' = [windows EXCEPT ![k] = w]
             /\ admitted' = admitted
          \/ /\ windows' = [windows EXCEPT ![k] = [start |-> w.start, count |-> w.count + 1]]
             /\ admitted'[k][w.start] = admitted[k][w.start] + 1
      <4>1. Outcome(k, w)
        BY <1>8, Decision DEF k, w
      <4> QED BY <4>1 DEF Outcome
    <3>3. \/ windows'[k] = w /\ admitted' = admitted
          \/ /\ windows'[k].start = w.start /\ windows'[k].count = w.count + 1
             /\ admitted'[k][w.start] = admitted[k][w.start] + 1
      BY <2>2, <3>2 DEF TypeOK
    <3>4. windows'[k].count <= admitted'[k][windows'[k].start]
      BY <2>2, <3>1, <3>3
    <3>5. windows' = [windows EXCEPT ![k] = windows'[k]]
      BY <2>2, <3>2 DEF TypeOK
    <3> QED BY <3>4, <3>5
  <2>5. ASSUME NEW l \in Key, windows'[l] # None PROVE Covered(l, windows[l])'
    <3> HIDE DEF k, w
    <3>1. CASE l = k
      BY <2>4, <3>1 DEF Covered
    <3>2. CASE l # k
      BY <1>3, <2>4, <2>5, <3>2 DEF TypeOK
    <3> QED BY <3>1, <3>2
  <2> QED BY <1>5, <2>1, <2>5 DEF CountsCovered
<1>9. CASE UNCHANGED vars
  BY <1>9 DEF vars, CountsCovered, Covered
<1> QED BY <1>6, <1>7, <1>8, <1>9 DEF Next

LEMMA InitCovered == Init => CountsCovered
  BY DEF Init, CountsCovered, Idle

\* An attempt is refused only when Limit attempts got through in a window that was not
\* over at its reading of the clock.
THEOREM RefusalsAreJustified == Spec => RefusalsJustified
<1>1. ASSUME TypeOK, CountsCovered, [Next]_vars
      PROVE  [\A t \in Thread :
                job[t].do = "decide" /\ job'[t] = Idle /\ UNCHANGED admitted =>
                  \E s \in Time : /\ job[t].now - s < Window
                                  /\ admitted[job[t].key][s] >= Limit]_vars
  <2> SUFFICES ASSUME NEW t \in Thread,
                      job[t].do = "decide", job'[t] = Idle, UNCHANGED admitted,
                      vars' # vars
               PROVE  \E s \in Time : /\ job[t].now - s < Window
                                      /\ admitted[job[t].key][s] >= Limit
    OBVIOUS
  <2>1. job[t] # Idle
    BY <1>1, JobKinds DEF TypeOK
  <2>2. Decide(t)
    <3>1. ASSUME NEW u \in Thread, u # t, \/ \E k \in Key, now \in Time : ReadClock(u, k, now)
                                          \/ ReadWindow(u)
                                          \/ Decide(u)
          PROVE  FALSE
      BY <1>1, <2>1, <3>1 DEF ReadClock, ReadWindow, Decide, TypeOK
    <3>2. ~ReadWindow(t) /\ \A k \in Key, now \in Time : ~ReadClock(t, k, now)
      BY <2>1 DEF ReadWindow, ReadClock
    <3> QED BY <1>1, <3>1, <3>2 DEF Next, vars
  <2> DEFINE k == job[t].key
             w == Current(job[t].now, job[t].window)
  <2>3. /\ job[t].now \in Time /\ job[t].window \in WindowRecord /\ k \in Key
    BY <1>1, <2>1, JobKinds DEF TypeOK
  <2>4. IsFull(w)
    <3>1. Outcome(k, w)
      BY <1>1, <2>2, Decision
    <3> HIDE DEF k, w
    <3>2. admitted[k][w.start] \in Nat
      BY <1>1, <3>1 DEF Outcome, TypeOK
    <3> QED BY <3>1, <3>2 DEF Outcome
  <2>5. job[t].now - job[t].window.start < Window /\ job[t].window.count >= Limit
    BY <2>3, <2>4, CurrentWindow
  <2>6. job[t].window.count <= admitted[k][job[t].window.start]
    BY <1>1 DEF CountsCovered, Covered
  <2>7. job[t].window.start \in Time /\ job[t].window.count \in Nat
        /\ admitted[k][job[t].window.start] \in Nat
    BY <1>1, <2>3, LimiterAssumption DEF WindowRecord, TypeOK
  <2>8. admitted[k][job[t].window.start] >= Limit
    BY <2>5, <2>6, <2>7, LimiterAssumption
  <2> QED BY <2>5, <2>7, <2>8
<1> QED BY <1>1, InitType, TypePreserved, InitCovered, CountsCoveredPreserved, PTL
        DEF Spec, RefusalsJustified
-----------------------------------------------------------------------------
(* The limit                                                               *)

\* What is known of an address that one thread at a time has tried: its count is
\* exact, a later window has admitted nothing yet, and a thread that is at it found
\* the window that is still stored.
AloneAt(k) ==
  /\ \A t, u \in BusyWith(k) : t = u
  /\ \A s \in Time : admitted[k][s] <= Limit
  /\ windows[k] = None => \A s \in Time : admitted[k][s] = 0
  /\ windows[k] # None =>
       /\ windows[k].start <= clock
       /\ admitted[k][windows[k].start] = windows[k].count
       /\ \A s \in Time : s > windows[k].start => admitted[k][s] = 0
  /\ \A t \in BusyWith(k) :
       /\ job[t].now <= clock
       /\ windows[k] # None => job[t].now > windows[k].start
       /\ job[t].do = "decide" => job[t].window = Found(t)

Alone == \A k \in Key \ overlapped : AloneAt(k)

LEMMA InitAlone == Init => Alone
  BY LimiterAssumption DEF Init, Alone, AloneAt, BusyWith, Idle

\* A step elsewhere does not disturb an address.
LEMMA AloneFrame ==
  ASSUME TypeOK, TypeOK', NEW k \in Key, AloneAt(k), clock <= clock',
         windows'[k] = windows[k], admitted'[k] = admitted[k],
         \A t \in BusyWith(k)' : t \in BusyWith(k) /\ job'[t] = job[t]
  PROVE  AloneAt(k)'
<1>1. \A t \in BusyWith(k)' : t \in Thread /\ job'[t].now \in Time /\ job'[t].key = k
                            /\ job[t].key = k
  BY JobKinds DEF BusyWith, TypeOK
<1>2. clock \in Int /\ clock' \in Int
  BY DEF TypeOK, Time
<1>3. windows[k] # None => windows[k].start \in Int
  BY DEF TypeOK, WindowRecord, Time
<1>4. \A t \in BusyWith(k)' : Found(t)' = Found(t)
  BY <1>1 DEF Found
<1>5. \A t, u \in BusyWith(k)' : t = u
  BY DEF AloneAt
<1>6. ASSUME NEW t \in BusyWith(k)'
      PROVE  /\ job'[t].now <= clock'
             /\ windows'[k] # None => job'[t].now > windows'[k].start
             /\ job'[t].do = "decide" => job'[t].window = Found(t)'
  <2>1. t \in BusyWith(k) /\ job'[t] = job[t] /\ job[t].now \in Time /\ Found(t)' = Found(t)
    BY <1>1, <1>4
  <2> QED BY <1>2, <2>1 DEF AloneAt, Time
<1>7. windows'[k] # None => windows'[k].start <= clock'
  BY <1>2, <1>3 DEF AloneAt
<1> QED BY <1>5, <1>6, <1>7 DEF AloneAt

LEMMA AlonePreserved == TypeOK /\ Alone /\ [Next]_vars => Alone'
<1> SUFFICES ASSUME TypeOK, Alone, [Next]_vars,
                    NEW l \in Key, l \notin overlapped'
             PROVE  AloneAt(l)'
  BY DEF Alone
<1> DEFINE Undisturbed == \A u \in BusyWith(l)' : u \in BusyWith(l) /\ job'[u] = job[u]
<1>1. TypeOK'
  BY TypePreserved
<1>2. l \notin overlapped
  BY DEF Next, ReadClock, ReadWindow, Decide, vars
<1>3. AloneAt(l)
  BY <1>2 DEF Alone
<1>4. clock <= clock'
  <2>1. clock \in Int /\ clock' \in Int
    BY <1>1 DEF TypeOK, Time
  <2>2. clock' = clock \/ clock' > clock
    BY DEF Next, ReadClock, ReadWindow, Decide, vars
  <2> QED BY <2>1, <2>2
<1>5. ASSUME NEW t \in Thread, NEW k \in Key, NEW now \in Time, ReadClock(t, k, now)
      PROVE  AloneAt(l)'
  <2>1. /\ now > clock /\ clock' = now
        /\ job' = [job EXCEPT ![t] = [do |-> "look", key |-> k, now |-> now]]
        /\ windows' = windows /\ admitted' = admitted
    BY <1>5 DEF ReadClock
  <2>2. CASE k = l
    <3>1. BusyWith(l) = {}
      BY <1>5, <2>2 DEF ReadClock
    <3>2. \A u \in BusyWith(l)' : u = t
      BY <2>1, <3>1 DEF BusyWith, TypeOK
    <3>3. /\ job'[t].now = now /\ job'[t].do = "look"
      BY <2>1 DEF TypeOK
    <3>4. windows[l] # None => windows[l].start <= clock /\ windows[l].start \in Int
      BY <1>3 DEF AloneAt, TypeOK, WindowRecord, Time
    <3>5. clock \in Int /\ now \in Int
      BY DEF TypeOK, Time
    <3>6. windows[l] # None => windows[l].start < now
      BY <2>1, <3>4, <3>5
    <3>7. \A u, v \in BusyWith(l)' : u = v
      BY <3>2
    <3>8. windows'[l] # None => windows'[l].start <= clock'
      BY <2>1, <3>4, <3>5
    <3>9. \A u \in BusyWith(l)' :
             /\ job'[u].now <= clock'
             /\ windows'[l] # None => job'[u].now > windows'[l].start
             /\ job'[u].do # "decide"
      BY <2>1, <3>2, <3>3, <3>4, <3>5, <3>6
    <3> QED BY <1>3, <2>1, <3>7, <3>8, <3>9 DEF AloneAt
  <2>3. CASE k # l
    <3>1. Undisturbed
      BY <2>1, <2>3 DEF BusyWith, TypeOK
    <3> QED BY <1>1, <1>3, <1>4, <2>1, <3>1, AloneFrame
  <2> QED BY <2>2, <2>3
<1>6. ASSUME NEW t \in Thread, ReadWindow(t) PROVE AloneAt(l)'
  <2>1. /\ job[t].do = "look"
        /\ job' = [job EXCEPT ![t] = [do |-> "decide", key |-> job[t].key,
                                      now |-> job[t].now, window |-> Found(t)]]
        /\ clock' = clock /\ windows' = windows /\ admitted' = admitted
    BY <1>6 DEF ReadWindow, Found
  <2>2. CASE job[t].key = l
    <3>1. t \in BusyWith(l)
      BY <2>1, <2>2, JobKinds DEF BusyWith, TypeOK
    <3>2. \A u \in BusyWith(l)' : u = t
      BY <1>3, <2>1, <3>1 DEF AloneAt, BusyWith, TypeOK
    <3>3. job'[t].now = job[t].now /\ job'[t].window = Found(t) /\ job'[t].key = job[t].key
      BY <2>1 DEF TypeOK
    <3>4. Found(t)' = Found(t)
      BY <2>1, <3>3 DEF Found
    <3> QED BY <1>3, <2>1, <3>1, <3>2, <3>3, <3>4 DEF AloneAt
  <2>3. CASE job[t].key # l
    <3>1. Undisturbed
      BY <2>1, <2>3 DEF BusyWith, TypeOK
    <3> QED BY <1>1, <1>3, <1>4, <2>1, <3>1, AloneFrame
  <2> QED BY <2>2, <2>3
<1>7. ASSUME NEW t \in Thread, Decide(t) PROVE AloneAt(l)'
  <2> DEFINE k == job[t].key
             w == Current(job[t].now, job[t].window)
  <2>1. /\ k \in Key /\ w \in WindowRecord /\ w.start \in Time /\ w.count \in Nat
        /\ \/ /\ IsFull(w)
              /\ windows' = [windows EXCEPT ![k] = w]
              /\ admitted' = admitted
           \/ /\ w.count < Limit
              /\ windows' = [windows EXCEPT ![k] =
                               [start |-> w.start, count |-> w.count + 1]]
              /\ admitted' = [admitted EXCEPT ![k] =
                                [admitted[k] EXCEPT ![w.start] = admitted[k][w.start] + 1]]
    <3>1. Outcome(k, w)
      BY <1>7, Decision
    <3> QED BY <3>1 DEF Outcome
  <2>2. /\ job[t].do = "decide" /\ job[t].now \in Time /\ job[t].window \in WindowRecord
        /\ job' = [job EXCEPT ![t] = Idle] /\ clock' = clock
    BY <1>7, JobKinds DEF Decide, TypeOK
  <2>3. CASE k = l
    <3>1. t \in BusyWith(l)
      BY <2>2, <2>3, JobKinds DEF BusyWith, TypeOK
    <3>2. BusyWith(l)' = {}
      BY <1>3, <2>2, <3>1 DEF AloneAt, BusyWith, TypeOK
    <3>3. /\ job[t].now <= clock /\ job[t].window = Found(t)
          /\ windows[l] # None => job[t].now > windows[l].start
      BY <1>3, <2>2, <3>1 DEF AloneAt
    \* The count is exact, in the stored window and in a fresh one.
    <3>4. /\ w.start <= clock
          /\ admitted[l][w.start] = w.count
          /\ \A s \in Time : s > w.start => admitted[l][s] = 0
      <4>1. w = job[t].window \/ w = [start |-> job[t].now, count |-> 0]
        BY <2>2, CurrentWindow
      <4>2. job[t].window = IF windows[l] = None THEN [start |-> job[t].now, count |-> 0]
                                                 ELSE windows[l]
        BY <2>3, <3>3 DEF Found
      <4>3. CASE w = [start |-> job[t].now, count |-> 0]
        <5>1. windows[l] # None => windows[l].start \in Int
          BY DEF TypeOK, WindowRecord, Time
        <5>2. \A s \in Time : s >= job[t].now => admitted[l][s] = 0
          BY <1>3, <2>2, <3>3, <5>1 DEF AloneAt, Time
        <5> QED BY <2>2, <3>3, <4>3, <5>2 DEF Time
      <4>4. CASE w = windows[l] /\ windows[l] # None
        BY <1>3, <4>4 DEF AloneAt
      <4> QED BY <4>1, <4>2, <4>3, <4>4
    <3> HIDE DEF k, w
    <3>5. CASE windows' = [windows EXCEPT ![k] = w] /\ admitted' = admitted
      <4>1. windows'[l] = w /\ w # None
        BY <2>1, <2>3, <3>5, NoneIsNoWindow DEF TypeOK
      <4> QED BY <1>3, <2>2, <3>2, <3>4, <3>5, <4>1 DEF AloneAt
    <3>6. CASE /\ w.count < Limit
               /\ windows' = [windows EXCEPT ![k] =
                                [start |-> w.start, count |-> w.count + 1]]
               /\ admitted' = [admitted EXCEPT ![k] =
                                 [admitted[k] EXCEPT ![w.start] = admitted[k][w.start] + 1]]
      <4>1. /\ windows'[l] = [start |-> w.start, count |-> w.count + 1]
            /\ admitted'[l] = [admitted[l] EXCEPT ![w.start] = admitted[l][w.start] + 1]
        BY <2>1, <2>3, <3>6 DEF TypeOK
      <4>2. admitted[l] \in [Time -> Nat]
        BY DEF TypeOK
      <4>3. windows'[l] # None
        BY <2>1, <4>1 DEF None
      <4>4. \A s \in Time : admitted'[l][s] <= Limit
        BY <1>3, <2>1, <3>4, <3>6, <4>1, <4>2, LimiterAssumption DEF AloneAt
      <4>5. /\ windows'[l].start <= clock'
            /\ admitted'[l][windows'[l].start] = windows'[l].count
        BY <2>1, <2>2, <3>4, <4>1, <4>2
      <4>6. \A s \in Time : s > windows'[l].start => admitted'[l][s] = 0
        BY <2>1, <3>4, <4>1, <4>2 DEF Time
      <4> QED BY <3>2, <4>3, <4>4, <4>5, <4>6 DEF AloneAt
    <3> QED BY <2>1, <3>5, <3>6
  <2>4. CASE k # l
    <3> HIDE DEF w
    <3>1. windows'[l] = windows[l] /\ admitted'[l] = admitted[l]
      BY <2>1, <2>4 DEF TypeOK
    <3>2. Undisturbed
      BY <2>2, <2>4 DEF BusyWith, TypeOK
    <3> QED BY <1>1, <1>3, <1>4, <3>1, <3>2, AloneFrame
  <2> QED BY <2>3, <2>4
<1>8. CASE UNCHANGED vars
  BY <1>3, <1>8 DEF vars, AloneAt, BusyWith, Found
<1> QED BY <1>5, <1>6, <1>7, <1>8 DEF Next

\* An address that no two threads were ever at together never gets more than its limit
\* of attempts through one window.
THEOREM LimitIsKeptAlone == Spec => []LimitKeptAlone
<1>1. Alone => LimitKeptAlone
  BY DEF Alone, AloneAt, LimitKeptAlone
<1> QED BY <1>1, InitType, TypePreserved, InitAlone, AlonePreserved, PTL DEF Spec
-----------------------------------------------------------------------------
(* Numbers                                                                 *)

\* Any set of numbers has a least one.
LEMMA Least ==
  ASSUME NEW S \in SUBSET Nat, S # {}
  PROVE  \E n \in S : \A m \in S : n <= m
<1>1. IsWellFoundedOn(OpToRel(<, Nat), Nat)
  BY NatLessThanWellFounded
<1>2. OpToRel(<, Nat) = {ss \in Nat \X Nat : ss[1] < ss[2]}
  BY DEF OpToRel
<1>3. PICK n \in S : \A m \in S : ~(<<m, n>> \in OpToRel(<, Nat))
  BY <1>1, WFMin
<1>4. ASSUME NEW m \in S PROVE n <= m
  <2>1. m \in Nat /\ n \in Nat /\ <<m, n>> \in Nat \X Nat /\ <<m, n>>[1] = m /\ <<m, n>>[2] = n
    OBVIOUS
  <2>2. ~(m < n)
    BY <1>2, <1>3, <2>1
  <2> QED BY <2>1, <2>2
<1> QED BY <1>4

\* Induction over the numbers, for a set of them.
LEMMA AllNumbers ==
  ASSUME NEW S, 0 \in S, \A n \in Nat : n \in S => n + 1 \in S
  PROVE  Nat \subseteq S
<1>1. SUFFICES ASSUME Nat \ S # {} PROVE FALSE
  OBVIOUS
<1>2. Nat \ S \in SUBSET Nat
  OBVIOUS
<1>3. PICK n \in Nat \ S : \A m \in Nat \ S : n <= m
  <2>1. PICK T : T = Nat \ S
    OBVIOUS
  <2>2. T \in SUBSET Nat /\ T # {}
    BY <1>1, <2>1
  <2>3. \E n \in T : \A m \in T : n <= m
    BY <2>2, Least
  <2> QED BY <2>1, <2>3
<1>4. n - 1 \in Nat /\ ~(n <= n - 1) /\ (n - 1) + 1 = n
  BY <1>3
<1>5. n - 1 \in S
  BY <1>3, <1>4
<1> QED BY <1>3, <1>4, <1>5

-----------------------------------------------------------------------------
(* Factorials and choices                                                  *)

FactorialTo(n, h) ==
  h \in [0..n -> Nat \ {0}] /\ \A m \in 0..n : h[m] = IF m = 0 THEN 1 ELSE m * h[m - 1]

LEMMA FactorialExists == \A n \in Nat : \E h : FactorialTo(n, h)
<1>1. PICK S : S = {n \in Nat : \E h : FactorialTo(n, h)}
  OBVIOUS
<1>2. 0 \in S
  <2>1. FactorialTo(0, [m \in 0..0 |-> 1])
    BY DEF FactorialTo
  <2> QED BY <1>1, <2>1
<1>3. ASSUME NEW n \in Nat, n \in S PROVE n + 1 \in S
  <2>1. PICK h : FactorialTo(n, h)
    BY <1>1, <1>3
  <2>2. PICK p : p = (n + 1) * h[n]
    OBVIOUS
  <2>3. PICK g : g = [m \in 0..(n + 1) |-> IF m <= n THEN h[m] ELSE p]
    OBVIOUS
  <2>4. h[n] \in Nat \ {0} /\ p \in Nat \ {0}
    <3>1. PICK q \in Nat \ {0} : q = h[n]
      BY <2>1 DEF FactorialTo
    <3>2. (n + 1) * q \in Nat /\ (n + 1) * q # 0
      BY <3>1
    <3> QED BY <2>2, <3>1, <3>2
  <2>5. g \in [0..(n + 1) -> Nat \ {0}]
    BY <2>1, <2>3, <2>4 DEF FactorialTo
  <2>6. ASSUME NEW m \in 0..(n + 1) PROVE g[m] = IF m = 0 THEN 1 ELSE m * g[m - 1]
    <3>1. CASE m <= n
      BY <2>1, <2>3, <2>6, <3>1 DEF FactorialTo
    <3>2. CASE m = n + 1
      <4>1. m # 0 /\ m - 1 = n /\ ~(m <= n) /\ n <= n /\ n \in 0..(n + 1)
        BY <3>2
      <4>2. g[m] = p /\ g[m - 1] = h[n]
        BY <2>3, <2>6, <4>1
      <4> QED BY <2>2, <3>2, <4>1, <4>2
    <3> QED BY <3>1, <3>2
  <2>7. FactorialTo(n + 1, g)
    BY <2>5, <2>6 DEF FactorialTo
  <2> QED BY <1>1, <2>7
<1>4. Nat \subseteq S
  BY <1>2, <1>3, AllNumbers
<1> QED BY <1>1, <1>4

LEMMA FactorialUnique ==
  ASSUME NEW n \in Nat, NEW m \in Nat, NEW h, NEW g, n <= m,
         FactorialTo(n, h), FactorialTo(m, g)
  PROVE  h[n] = g[n]
<1>1. PICK S : S = {k \in Nat : k <= n => h[k] = g[k]}
  OBVIOUS
<1>2. 0 \in S
  BY <1>1 DEF FactorialTo
<1>3. ASSUME NEW k \in Nat, k \in S PROVE k + 1 \in S
  <2>1. CASE k + 1 <= n
    <3>1. k + 1 \in 0..n /\ k + 1 \in 0..m /\ k + 1 # 0 /\ (k + 1) - 1 = k /\ k <= n
      BY <2>1
    <3> QED BY <1>1, <1>3, <3>1 DEF FactorialTo
  <2>2. CASE ~(k + 1 <= n)
    BY <1>1, <2>2
  <2> QED BY <2>1, <2>2
<1>4. n \in S
  BY <1>2, <1>3, AllNumbers
<1> QED BY <1>1, <1>4

LEMMA FactorialIs ==
  /\ factorial \in [Nat -> Nat \ {0}]
  /\ factorial[0] = 1
  /\ \A n \in Nat : factorial[n + 1] = (n + 1) * factorial[n]
<1>1. PICK F : F = [n \in Nat |-> (CHOOSE h : FactorialTo(n, h))[n]]
  OBVIOUS
<1>2. \A n \in Nat : \A h : FactorialTo(n, h) => F[n] = h[n]
  <2>1. ASSUME NEW n \in Nat, NEW h, FactorialTo(n, h) PROVE F[n] = h[n]
    <3>1. PICK g : g = CHOOSE k : FactorialTo(n, k)
      OBVIOUS
    <3>2. FactorialTo(n, g)
      BY <2>1, <3>1
    <3>3. g[n] = h[n]
      BY <2>1, <3>2, FactorialUnique
    <3> QED BY <1>1, <3>1, <3>3
  <2> QED BY <2>1
<1>3. ASSUME NEW n \in Nat
      PROVE  F[n] \in Nat \ {0} /\ F[n] = IF n = 0 THEN 1 ELSE n * F[n - 1]
  <2>1. PICK h : FactorialTo(n, h)
    BY FactorialExists
  <2>2. h[n] \in Nat \ {0} /\ h[n] = IF n = 0 THEN 1 ELSE n * h[n - 1]
    BY <2>1 DEF FactorialTo
  <2>3. CASE n = 0
    BY <1>2, <2>1, <2>2, <2>3
  <2>4. CASE n # 0
    <3>1. n - 1 \in Nat /\ n - 1 <= n
      BY <2>4
    <3>2. PICK g : FactorialTo(n - 1, g)
      BY <3>1, FactorialExists
    <3>3. h[n - 1] = g[n - 1]
      BY <2>1, <3>1, <3>2, FactorialUnique
    <3> QED BY <1>2, <2>1, <2>2, <2>4, <3>1, <3>2, <3>3
  <2> QED BY <2>3, <2>4
<1>4. F = [n \in Nat |-> IF n = 0 THEN 1 ELSE n * F[n - 1]]
  BY <1>1, <1>3
<1>5. factorial = [n \in Nat |-> IF n = 0 THEN 1 ELSE n * factorial[n - 1]]
  BY <1>4 DEF factorial
<1>6. factorial[0] = 1
  BY <1>5
<1>7. \A n \in Nat : factorial[n + 1] = (n + 1) * factorial[n]
  <2>1. ASSUME NEW n \in Nat PROVE factorial[n + 1] = (n + 1) * factorial[n]
    <3>1. n + 1 \in Nat /\ n + 1 # 0 /\ (n + 1) - 1 = n
      OBVIOUS
    <3>2. factorial[n + 1] = (n + 1) * factorial[(n + 1) - 1]
      BY <1>5, <3>1
    <3> QED BY <3>1, <3>2
  <2> QED BY <2>1
<1>8. PICK S : S = {n \in Nat : factorial[n] \in Nat \ {0}}
  OBVIOUS
<1>9. ASSUME NEW n \in Nat, n \in S PROVE n + 1 \in S
  <2>1. PICK p \in Nat \ {0} : p = factorial[n]
    BY <1>8, <1>9
  <2>2. (n + 1) * p \in Nat /\ (n + 1) * p # 0
    BY <2>1
  <2> QED BY <1>7, <1>8, <2>1, <2>2
<1>10. Nat \subseteq S
  <2>1. 0 \in S
    BY <1>6, <1>8
  <2> QED BY <1>9, <2>1, AllNumbers
<1>11. factorial \in [Nat -> Nat \ {0}]
  <2>1. \A n \in Nat : factorial[n] \in Nat \ {0}
    BY <1>8, <1>10
  <2>2. factorial = [n \in Nat |-> factorial[n]]
    BY <1>5
  <2> QED BY <2>1, <2>2
<1> QED BY <1>6, <1>7, <1>11

\* How many ways there are to order a things of one kind and b of another.
Ways(a, b) == choose(a + b, b)

\* The quotient in the definition of choose is exact.
LEMMA Quotient ==
  ASSUME NEW c \in Nat, NEW d \in Nat \ {0}
  PROVE  (c * d) \div d = c
  OBVIOUS

LEMMA Product ==
  ASSUME NEW a \in Nat, NEW b \in Nat, NEW F \in Nat, NEW G \in Nat,
         NEW c \in Nat, NEW d \in Nat, NEW N \in Nat,
         N = c * (((b + 1) * F) * G), N = d * (F * ((a + 1) * G))
  PROVE  ((a + b) + 2) * N = (c + d) * (((b + 1) * F) * ((a + 1) * G))
<1>1. (a + 1) * N = c * (((b + 1) * F) * ((a + 1) * G))
  OBVIOUS
<1>2. (b + 1) * N = d * (((b + 1) * F) * ((a + 1) * G))
  OBVIOUS
<1>3. ((a + b) + 2) * N = (a + 1) * N + (b + 1) * N
  OBVIOUS
<1>4. PICK P \in Nat : P = ((b + 1) * F) * ((a + 1) * G)
  OBVIOUS
<1>5. (c + d) * P = c * P + d * P
  OBVIOUS
<1> QED BY <1>1, <1>2, <1>3, <1>4, <1>5

\* The product of two factorials divides that of the sum.
Divides(a, b) ==
  \E c \in Nat : factorial[a + b] = c * (factorial[b] * factorial[a])

LEMMA DividesEdge == \A a \in Nat : Divides(a, 0) /\ Divides(0, a)
<1>1. ASSUME NEW a \in Nat PROVE Divides(a, 0) /\ Divides(0, a)
  <2>1. PICK p \in Nat : p = factorial[a]
    BY FactorialIs
  <2>2. a + 0 = a /\ 0 + a = a /\ p = 1 * (1 * p) /\ p = 1 * (p * 1)
    OBVIOUS
  <2> QED BY <2>1, <2>2, FactorialIs DEF Divides
<1> QED BY <1>1

LEMMA DividesStep ==
  ASSUME NEW a \in Nat, NEW b \in Nat, Divides(a, b + 1), Divides(a + 1, b)
  PROVE  Divides(a + 1, b + 1)
<1>1. PICK F \in Nat, G \in Nat, N \in Nat :
        F = factorial[b] /\ G = factorial[a] /\ N = factorial[(a + b) + 1]
  <2>1. a \in Nat /\ b \in Nat /\ (a + b) + 1 \in Nat
    OBVIOUS
  <2> QED BY <2>1, FactorialIs
<1>2. /\ factorial[b + 1] = (b + 1) * F /\ factorial[a + 1] = (a + 1) * G
      /\ factorial[(a + 1) + (b + 1)] = ((a + b) + 2) * N
  <2>1. (a + 1) + (b + 1) = ((a + b) + 1) + 1 /\ ((a + b) + 1) + 1 = (a + b) + 2
    OBVIOUS
  <2>2. (a + b) + 1 \in Nat
    OBVIOUS
  <2>3. factorial[((a + b) + 1) + 1] = (((a + b) + 1) + 1) * N
    BY <1>1, <2>2, FactorialIs
  <2> QED BY <1>1, <2>1, <2>3, FactorialIs
<1>3. PICK c \in Nat : N = c * (((b + 1) * F) * G)
  <2>1. a + (b + 1) = (a + b) + 1
    OBVIOUS
  <2> QED BY <1>1, <1>2, <2>1 DEF Divides
<1>4. PICK d \in Nat : N = d * (F * ((a + 1) * G))
  <2>1. (a + 1) + b = (a + b) + 1
    OBVIOUS
  <2> QED BY <1>1, <1>2, <2>1 DEF Divides
<1>5. ((a + b) + 2) * N = (c + d) * (((b + 1) * F) * ((a + 1) * G))
  BY <1>3, <1>4, Product
<1>6. c + d \in Nat
  OBVIOUS
<1> QED BY <1>2, <1>5, <1>6 DEF Divides

LEMMA DividesAll == \A a, b \in Nat : Divides(a, b)
<1>1. PICK S : S = {n \in Nat : \A a, b \in Nat : a + b = n => Divides(a, b)}
  OBVIOUS
<1>2. 0 \in S
  <2>1. \A a, b \in Nat : a + b = 0 => a = 0 /\ b = 0
    OBVIOUS
  <2> QED BY <1>1, <2>1, DividesEdge
<1>3. ASSUME NEW n \in Nat, n \in S PROVE n + 1 \in S
  <2>1. ASSUME NEW a \in Nat, NEW b \in Nat, a + b = n + 1 PROVE Divides(a, b)
    <3>1. CASE a = 0 \/ b = 0
      BY <3>1, DividesEdge
    <3>2. CASE a # 0 /\ b # 0
      <4>1. PICK k, m \in Nat : a = k + 1 /\ b = m + 1
        <5>1. a - 1 \in Nat /\ b - 1 \in Nat /\ a = (a - 1) + 1 /\ b = (b - 1) + 1
          BY <3>2
        <5> QED BY <5>1
      <4>2. k + (m + 1) = n /\ (k + 1) + m = n /\ m + 1 \in Nat /\ k + 1 \in Nat
        BY <2>1, <4>1
      <4>3. Divides(k, m + 1) /\ Divides(k + 1, m)
        BY <1>1, <1>3, <4>2
      <4> QED BY <4>1, <4>3, DividesStep
    <3> QED BY <3>1, <3>2
  <2> QED BY <1>1, <2>1
<1>4. Nat \subseteq S
  BY <1>2, <1>3, AllNumbers
<1>5. ASSUME NEW a \in Nat, NEW b \in Nat PROVE Divides(a, b)
  <2>1. a + b \in S
    BY <1>4
  <2> QED BY <1>1, <2>1
<1> QED BY <1>5

LEMMA WaysIs ==
  ASSUME NEW a \in Nat, NEW b \in Nat
  PROVE  /\ Ways(a, b) \in Nat
         /\ factorial[a + b] = Ways(a, b) * (factorial[b] * factorial[a])
         /\ \A c \in Nat : factorial[a + b] = c * (factorial[b] * factorial[a]) => c = Ways(a, b)
<1>1. PICK d \in Nat \ {0} : d = factorial[b] * factorial[a]
  <2>1. PICK F, G \in Nat \ {0} : F = factorial[b] /\ G = factorial[a]
    BY FactorialIs
  <2>2. F * G \in Nat \ {0}
    OBVIOUS
  <2> QED BY <2>1, <2>2
<1>2. \A c \in Nat : factorial[a + b] = c * d => c = Ways(a, b)
  <2>1. ASSUME NEW c \in Nat, factorial[a + b] = c * d PROVE c = Ways(a, b)
    <3>1. (a + b) - b = a
      OBVIOUS
    <3>2. Ways(a, b) = (c * d) \div d
      BY <1>1, <2>1, <3>1 DEF Ways, choose
    <3> QED BY <3>2, Quotient
  <2> QED BY <2>1
<1>3. PICK c \in Nat : factorial[a + b] = c * d
  BY <1>1, DividesAll DEF Divides
<1> QED BY <1>1, <1>2, <1>3

LEMMA WaysEdge == \A a \in Nat : Ways(a, 0) = 1 /\ Ways(0, a) = 1
<1>1. ASSUME NEW a \in Nat PROVE Ways(a, 0) = 1 /\ Ways(0, a) = 1
  <2>1. PICK p \in Nat : p = factorial[a]
    BY FactorialIs
  <2>2. a + 0 = a /\ 0 + a = a /\ p = 1 * (1 * p) /\ p = 1 * (p * 1)
    OBVIOUS
  <2>3. /\ factorial[a + 0] = 1 * (factorial[0] * factorial[a])
        /\ factorial[0 + a] = 1 * (factorial[a] * factorial[0])
    BY <2>1, <2>2, FactorialIs
  <2>4. 0 \in Nat /\ 1 \in Nat
    OBVIOUS
  <2> QED BY <2>3, <2>4, WaysIs
<1> QED BY <1>1

\* The recurrence of Pascal's triangle.
LEMMA Pascal ==
  ASSUME NEW a \in Nat, NEW b \in Nat
  PROVE  Ways(a + 1, b + 1) = Ways(a, b + 1) + Ways(a + 1, b)
<1>1. PICK F \in Nat, G \in Nat, N \in Nat :
        F = factorial[b] /\ G = factorial[a] /\ N = factorial[(a + b) + 1]
  <2>1. a \in Nat /\ b \in Nat /\ (a + b) + 1 \in Nat
    OBVIOUS
  <2> QED BY <2>1, FactorialIs
<1>2. /\ factorial[b + 1] = (b + 1) * F /\ factorial[a + 1] = (a + 1) * G
      /\ factorial[(a + 1) + (b + 1)] = ((a + b) + 2) * N
  <2>1. (a + 1) + (b + 1) = ((a + b) + 1) + 1 /\ ((a + b) + 1) + 1 = (a + b) + 2
    OBVIOUS
  <2>2. (a + b) + 1 \in Nat
    OBVIOUS
  <2>3. factorial[((a + b) + 1) + 1] = (((a + b) + 1) + 1) * N
    BY <1>1, <2>2, FactorialIs
  <2> QED BY <1>1, <2>1, <2>3, FactorialIs
<1>3. PICK c, d \in Nat : c = Ways(a, b + 1) /\ d = Ways(a + 1, b)
  <2>1. a + 1 \in Nat /\ b + 1 \in Nat
    OBVIOUS
  <2>2. Ways(a, b + 1) \in Nat /\ Ways(a + 1, b) \in Nat
    BY <2>1, WaysIs
  <2> QED BY <2>2
<1>4. N = c * (((b + 1) * F) * G)
  <2>1. a + (b + 1) = (a + b) + 1 /\ b + 1 \in Nat
    OBVIOUS
  <2> QED BY <1>1, <1>2, <1>3, <2>1, WaysIs
<1>5. N = d * (F * ((a + 1) * G))
  <2>1. (a + 1) + b = (a + b) + 1 /\ a + 1 \in Nat
    OBVIOUS
  <2> QED BY <1>1, <1>2, <1>3, <2>1, WaysIs
<1>6. ((a + b) + 2) * N = (c + d) * (((b + 1) * F) * ((a + 1) * G))
  BY <1>4, <1>5, Product
<1>7. c + d \in Nat /\ a + 1 \in Nat /\ b + 1 \in Nat
  OBVIOUS
<1>8. factorial[(a + 1) + (b + 1)] = (c + d) * (factorial[b + 1] * factorial[a + 1])
  BY <1>2, <1>6
<1>9. c + d = Ways(a + 1, b + 1)
  BY <1>7, <1>8, WaysIs
<1> QED BY <1>3, <1>9

-----------------------------------------------------------------------------
(* Sums                                                                    *)

\* What m threads that are ahead are worth at x below the limit.
Worth(x, m) == IF m = 0 THEN 0 ELSE Ways(x, m - 1)

LEMMA WorthIs ==
  ASSUME NEW x \in Nat \ {0}, NEW m \in Nat
  PROVE  /\ Worth(x, m) \in Nat
         /\ Ways(x, m) = Ways(x - 1, m) + Worth(x, m)
         /\ Worth(x, m + 1) = Ways(x, m)
<1>1. PICK a \in Nat : x = a + 1 /\ x - 1 = a
  OBVIOUS
<1>2. Worth(x, m + 1) = Ways(x, m)
  <2>1. m + 1 # 0 /\ (m + 1) - 1 = m
    OBVIOUS
  <2> QED BY <2>1 DEF Worth
<1>3. CASE m = 0
  <2>1. Worth(x, m) = 0 /\ Ways(x, m) = 1 /\ Ways(x - 1, m) = 1
    BY <1>1, <1>3, WaysEdge DEF Worth
  <2> QED BY <1>2, <2>1
<1>4. CASE m # 0
  <2>1. PICK b \in Nat : m = b + 1 /\ m - 1 = b
    BY <1>4
  <2>2. Worth(x, m) = Ways(x, b) /\ Worth(x, m) \in Nat
    BY <1>4, <2>1, WaysIs DEF Worth
  <2>3. Ways(a + 1, b + 1) = Ways(a, b + 1) + Ways(a + 1, b)
    BY Pascal
  <2> QED BY <1>1, <1>2, <2>1, <2>2, <2>3
<1> QED BY <1>3, <1>4

LEMMA WorthGrows ==
  ASSUME NEW x \in Nat \ {0}, NEW m \in Nat, NEW n \in Nat, m <= n
  PROVE  Worth(x, m) <= Worth(x, n)
<1>1. PICK S : S = {d \in Nat : Worth(x, m) <= Worth(x, m + d)}
  OBVIOUS
<1>2. 0 \in S
  <2>1. m + 0 = m /\ Worth(x, m) \in Nat
    BY WorthIs
  <2> QED BY <1>1, <2>1
<1>3. ASSUME NEW d \in Nat, d \in S PROVE d + 1 \in S
  <2>1. PICK k \in Nat : k = m + d /\ m + (d + 1) = k + 1
    OBVIOUS
  <2>2. Worth(x, m) <= Worth(x, k)
    BY <1>1, <1>3, <2>1
  <2>3. Worth(x, k + 1) = Ways(x - 1, k) + Worth(x, k)
    BY WorthIs
  <2>4. Ways(x - 1, k) \in Nat /\ Worth(x, k) \in Nat /\ Worth(x, m) \in Nat
    <3>1. x - 1 \in Nat
      OBVIOUS
    <3> QED BY <3>1, WaysIs, WorthIs
  <2>5. Worth(x, m) <= Worth(x, k + 1)
    BY <2>2, <2>3, <2>4
  <2> QED BY <1>1, <2>1, <2>5
<1>4. n - m \in S /\ m + (n - m) = n
  <2>1. n - m \in Nat /\ m + (n - m) = n
    OBVIOUS
  <2>2. Nat \subseteq S
    BY <1>2, <1>3, AllNumbers
  <2> QED BY <2>1, <2>2
<1> QED BY <1>1, <1>4

\* sum[x] is 1 and the worth of ahead[1], ..., ahead[x].
Sums(last, ahead, sum) ==
  /\ sum \in [0..last -> Nat] /\ sum[0] = 1
  /\ \A x \in 1..last : sum[x] = sum[x - 1] + Worth(x, ahead[x])

LEMMA SumExists ==
  ASSUME NEW last \in Nat, NEW ahead \in [1..last -> Nat]
  PROVE  \E sum : Sums(last, ahead, sum)
<1>1. PICK S : S = {n \in Nat : n <= last => \E sum : Sums(n, ahead, sum)}
  OBVIOUS
<1>2. 0 \in S
  <2>1. Sums(0, ahead, [x \in 0..0 |-> 1])
    BY DEF Sums
  <2> QED BY <1>1, <2>1
<1>3. ASSUME NEW n \in Nat, n \in S, n + 1 <= last PROVE n + 1 \in S
  <2>1. PICK h : Sums(n, ahead, h)
    BY <1>1, <1>3
  <2>2. n + 1 \in 1..last /\ n + 1 \in Nat \ {0} /\ n \in 0..n
    BY <1>3
  <2>3. PICK w \in Nat : w = Worth(n + 1, ahead[n + 1])
    <3>1. ahead[n + 1] \in Nat
      BY <2>2
    <3> QED BY <2>2, <3>1, WorthIs
  <2>4. PICK v \in Nat : v = h[n]
    BY <2>1, <2>2 DEF Sums
  <2>5. PICK g : g = [x \in 0..(n + 1) |-> IF x <= n THEN h[x] ELSE v + w]
    OBVIOUS
  <2>6. g \in [0..(n + 1) -> Nat] /\ g[0] = 1
    BY <2>1, <2>5 DEF Sums
  <2>7. ASSUME NEW x \in 1..(n + 1) PROVE g[x] = g[x - 1] + Worth(x, ahead[x])
    <3>1. CASE x <= n
      BY <2>1, <2>5, <2>7, <3>1 DEF Sums
    <3>2. CASE x = n + 1
      <4>1. x - 1 = n /\ ~(x <= n) /\ n <= n /\ n \in 0..(n + 1) /\ x \in 0..(n + 1)
        BY <3>2
      <4>2. g[x] = v + w /\ g[x - 1] = v
        BY <2>4, <2>5, <4>1
      <4> QED BY <2>3, <3>2, <4>2
    <3> QED BY <3>1, <3>2
  <2>8. Sums(n + 1, ahead, g)
    BY <2>6, <2>7 DEF Sums
  <2> QED BY <1>1, <2>8
<1>4. \A n \in Nat : n \in S => n + 1 \in S
  BY <1>1, <1>3
<1>5. last \in S
  BY <1>2, <1>4, AllNumbers
<1> QED BY <1>1, <1>5

LEMMA SumPositive ==
  ASSUME NEW last \in Nat, NEW ahead \in [1..last -> Nat], NEW sum, Sums(last, ahead, sum)
  PROVE  \A x \in 0..last : sum[x] \in Nat /\ sum[x] >= 1
<1>1. PICK S : S = {x \in Nat : x <= last => sum[x] \in Nat /\ sum[x] >= 1}
  OBVIOUS
<1>2. 0 \in S
  BY <1>1 DEF Sums
<1>3. ASSUME NEW x \in Nat, x \in S PROVE x + 1 \in S
  <2>1. CASE x + 1 <= last
    <3>1. x + 1 \in 1..last /\ x + 1 \in Nat \ {0} /\ (x + 1) - 1 = x /\ x <= last
      BY <2>1
    <3>2. ahead[x + 1] \in Nat
      BY <3>1
    <3>3. PICK w \in Nat, v \in Nat : w = Worth(x + 1, ahead[x + 1]) /\ v = sum[x] /\ v >= 1
      BY <1>1, <1>3, <3>1, <3>2, WorthIs
    <3>4. sum[x + 1] = v + w
      BY <3>1, <3>3 DEF Sums
    <3> QED BY <1>1, <3>3, <3>4
  <2>2. CASE ~(x + 1 <= last)
    BY <1>1, <2>2
  <2> QED BY <2>1, <2>2
<1>4. Nat \subseteq S
  BY <1>2, <1>3, AllNumbers
<1> QED BY <1>1, <1>4

\* A sum is no more than what its largest part allows at each place.
LEMMA SumBounded ==
  ASSUME NEW last \in Nat, NEW ahead \in [1..last -> Nat], NEW sum, Sums(last, ahead, sum),
         NEW m \in Nat, NEW end \in 0..last, \A x \in 1..end : ahead[x] <= m
  PROVE  sum[end] <= Ways(end, m)
<1>1. PICK S : S = {x \in Nat : x <= end => sum[x] <= Ways(x, m)}
  OBVIOUS
<1>2. 0 \in S
  BY <1>1, WaysEdge DEF Sums
<1>3. ASSUME NEW x \in Nat, x \in S PROVE x + 1 \in S
  <2>1. CASE x + 1 <= end
    <3>1. /\ x + 1 \in 1..last /\ x + 1 \in Nat \ {0} /\ (x + 1) - 1 = x /\ x <= end
          /\ x \in 0..last /\ x + 1 \in 1..end
      BY <2>1
    <3>2. ahead[x + 1] \in Nat /\ ahead[x + 1] <= m
      BY <3>1
    <3>3. PICK w \in Nat, v \in Nat, u \in Nat, p \in Nat :
            /\ w = Worth(x + 1, ahead[x + 1]) /\ v = sum[x]
            /\ u = Worth(x + 1, m) /\ p = Ways(x, m)
      BY <3>1, <3>2, WorthIs, WaysIs, SumPositive
    <3>4. w <= u
      BY <3>1, <3>2, <3>3, WorthGrows
    <3>5. v <= p
      BY <1>1, <1>3, <3>1, <3>3
    <3>6. sum[x + 1] = v + w
      BY <3>1, <3>3 DEF Sums
    <3>7. Ways(x + 1, m) = p + u
      BY <3>1, <3>3, WorthIs
    <3>8. v + w <= p + u
      BY <3>4, <3>5
    <3> QED BY <1>1, <3>6, <3>7, <3>8
  <2>2. CASE ~(x + 1 <= end)
    BY <1>1, <2>2
  <2> QED BY <2>1, <2>2
<1>4. Nat \subseteq S
  BY <1>2, <1>3, AllNumbers
<1> QED BY <1>1, <1>4

\* A sum that has got ahead stays ahead where its parts are no smaller.
LEMMA SumFollows ==
  ASSUME NEW last \in Nat, NEW ahead \in [1..last -> Nat], NEW sum, Sums(last, ahead, sum),
         NEW more \in [1..last -> Nat], NEW total, Sums(last, more, total),
         NEW from \in 0..last, NEW gap \in Nat, sum[from] + gap <= total[from],
         \A x \in (from + 1)..last : ahead[x] <= more[x]
  PROVE  sum[last] + gap <= total[last]
<1>1. PICK S : S = {d \in Nat : from + d <= last =>
                                 sum[from + d] + gap <= total[from + d]}
  OBVIOUS
<1>2. 0 \in S
  <2>1. from + 0 = from
    OBVIOUS
  <2> QED BY <1>1, <2>1
<1>3. ASSUME NEW d \in Nat, d \in S PROVE d + 1 \in S
  <2>1. CASE from + (d + 1) <= last
    <3>1. PICK x \in Nat : x = from + d /\ from + (d + 1) = x + 1
      OBVIOUS
    <3>2. /\ x + 1 \in 1..last /\ x + 1 \in Nat \ {0} /\ (x + 1) - 1 = x
          /\ x \in 0..last /\ x + 1 \in (from + 1)..last
      BY <2>1, <3>1
    <3>3. ahead[x + 1] \in Nat /\ more[x + 1] \in Nat /\ ahead[x + 1] <= more[x + 1]
      BY <3>2
    <3>4. PICK w \in Nat, v \in Nat, u \in Nat, p \in Nat :
            /\ w = Worth(x + 1, ahead[x + 1]) /\ v = sum[x]
            /\ u = Worth(x + 1, more[x + 1]) /\ p = total[x]
      BY <3>2, <3>3, WorthIs, SumPositive
    <3>5. w <= u
      BY <3>2, <3>3, <3>4, WorthGrows
    <3>6. v + gap <= p
      BY <1>1, <1>3, <3>1, <3>2, <3>4
    <3>7. sum[x + 1] = v + w /\ total[x + 1] = p + u
      BY <3>2, <3>4 DEF Sums
    <3>8. (v + w) + gap <= p + u
      BY <3>5, <3>6
    <3> QED BY <1>1, <3>1, <3>7, <3>8
  <2>2. CASE ~(from + (d + 1) <= last)
    BY <1>1, <2>2
  <2> QED BY <2>1, <2>2
<1>4. last - from \in S /\ from + (last - from) = last
  <2>1. last - from \in Nat /\ from + (last - from) = last
    OBVIOUS
  <2>2. Nat \subseteq S
    BY <1>2, <1>3, AllNumbers
  <2> QED BY <2>1, <2>2
<1> QED BY <1>1, <1>4

-----------------------------------------------------------------------------
(* Attempts through one window                                             *)

\* A thread counts with the number it would write back next: count[t].
Counting == [Thread -> 0..Limit]

\* The threads that can no longer set the count back to Limit - x.
Ahead(count, x) == {t \in Thread : count[t] > Limit - x}
AheadBy(count) == [x \in 1..(Limit - 1) |-> Cardinality(Ahead(count, x))]

\* What was let through is covered by what the threads that are ahead are worth.
Covers(count, through) ==
  \E sum : Sums(Limit - 1, AheadBy(count), sum) /\ through <= sum[Limit - 1]

LEMMA Levels ==
  /\ Limit \in Nat \ {0} /\ Limit - 1 \in Nat /\ Limit - 1 \in 0..(Limit - 1)
  /\ 0 \in 0..(Limit - 1)
  BY LimiterAssumption

LEMMA AheadIs ==
  ASSUME NEW count \in Counting
  PROVE  /\ AheadBy(count) \in [1..(Limit - 1) -> Nat]
         /\ \A x \in 1..(Limit - 1) :
              /\ IsFiniteSet(Ahead(count, x))
              /\ AheadBy(count)[x] = Cardinality(Ahead(count, x))
              /\ AheadBy(count)[x] <= Cardinality(Thread)
<1>1. \A x \in 1..(Limit - 1) : /\ IsFiniteSet(Ahead(count, x))
                                /\ Cardinality(Ahead(count, x)) \in Nat
                                /\ Cardinality(Ahead(count, x)) <= Cardinality(Thread)
  <2>1. ASSUME NEW x \in 1..(Limit - 1)
        PROVE  /\ IsFiniteSet(Ahead(count, x)) /\ Cardinality(Ahead(count, x)) \in Nat
               /\ Cardinality(Ahead(count, x)) <= Cardinality(Thread)
    <3>1. Ahead(count, x) \subseteq Thread
      BY DEF Ahead
    <3>2. IsFiniteSet(Thread)
      BY LimiterAssumption
    <3> QED BY <3>1, <3>2, FS_Subset, FS_CardinalityType
  <2> QED BY <2>1
<1> QED BY <1>1 DEF AheadBy

LEMMA FirstCovered ==
  ASSUME NEW count \in Counting, NEW through \in Nat, through <= 1
  PROVE  Covers(count, through)
<1>1. AheadBy(count) \in [1..(Limit - 1) -> Nat]
  BY AheadIs
<1>2. PICK sum : Sums(Limit - 1, AheadBy(count), sum)
  BY <1>1, Levels, SumExists
<1>3. sum[Limit - 1] \in Nat /\ sum[Limit - 1] >= 1
  BY <1>1, <1>2, Levels, SumPositive
<1>4. through <= sum[Limit - 1]
  BY <1>3
<1> QED BY <1>2, <1>4 DEF Covers

\* Counts that only rise keep what is covered.
LEMMA CoveredByMore ==
  ASSUME NEW count \in Counting, NEW next \in Counting, NEW through \in Nat,
         Covers(count, through), \A t \in Thread : count[t] <= next[t]
  PROVE  Covers(next, through)
<1>1. PICK a, b : a = AheadBy(count) /\ b = AheadBy(next)
  OBVIOUS
<1>2. a \in [1..(Limit - 1) -> Nat] /\ b \in [1..(Limit - 1) -> Nat]
  BY <1>1, AheadIs
<1>3. ASSUME NEW x \in 1..(Limit - 1) PROVE a[x] <= b[x]
  <2>1. Ahead(count, x) \subseteq Ahead(next, x)
    <3>1. ASSUME NEW t \in Thread, count[t] > Limit - x PROVE next[t] > Limit - x
      <4>1. PICK n, m \in 0..Limit : n = count[t] /\ m = next[t] /\ n <= m
        BY DEF Counting
      <4> QED BY <3>1, <4>1, Levels
    <3> QED BY <3>1 DEF Ahead
  <2> QED BY <1>1, <2>1, AheadIs, FS_Subset
<1>4. PICK sum : Sums(Limit - 1, a, sum) /\ through <= sum[Limit - 1]
  BY <1>1 DEF Covers
<1>5. PICK total : Sums(Limit - 1, b, total)
  BY <1>2, Levels, SumExists
<1>6. sum[Limit - 1] + 0 <= total[Limit - 1]
  <2>1. sum[0] + 0 <= total[0]
    BY <1>4, <1>5 DEF Sums
  <2>2. \A x \in (0 + 1)..(Limit - 1) : a[x] <= b[x]
    BY <1>3
  <2> QED BY <1>2, <1>4, <1>5, <2>1, <2>2, Levels, SumFollows
<1>7. sum[Limit - 1] \in Nat /\ total[Limit - 1] \in Nat
  BY <1>2, <1>4, <1>5, Levels, SumPositive
<1>8. through <= total[Limit - 1]
  BY <1>4, <1>6, <1>7
<1> QED BY <1>1, <1>5, <1>8 DEF Covers

\* The step that lets one more through: whatever the other threads count with, the worth
\* of those ahead rises by one at least.
LEMMA OneMoreCovered ==
  ASSUME NEW count \in Counting, NEW next \in Counting, NEW through \in Nat,
         Covers(count, through), NEW t \in Thread, count[t] \in 1..(Limit - 1),
         next[t] = count[t] + 1,
         \A u \in Thread : next[u] = count[u] \/ next[u] = count[t] + 1
  PROVE  Covers(next, through + 1)
<1>1. PICK a, b, c : a = AheadBy(count) /\ b = AheadBy(next) /\ c = count[t]
  OBVIOUS
<1>2. a \in [1..(Limit - 1) -> Nat] /\ b \in [1..(Limit - 1) -> Nat]
  BY <1>1, AheadIs
<1>3. PICK e \in 1..(Limit - 1) : /\ e = Limit - c /\ Limit - e = c /\ e \in Nat \ {0}
                                  /\ e \in 0..(Limit - 1) /\ e - 1 \in 0..(Limit - 1)
  BY <1>1, Levels
<1>4. c \in 1..(Limit - 1)
  BY <1>1
<1>5. \A u \in Thread : count[u] \in 0..Limit /\ next[u] \in 0..Limit
  BY DEF Counting
<1>6. ASSUME NEW x \in (e + 1)..(Limit - 1) PROVE a[x] <= b[x]
  <2>1. x \in 1..(Limit - 1) /\ Limit - x < c
    BY <1>3, <1>4, Levels
  <2>2. Ahead(count, x) \subseteq Ahead(next, x)
    <3>1. ASSUME NEW u \in Thread, count[u] > Limit - x PROVE next[u] > Limit - x
      BY <1>1, <1>4, <1>5, <2>1, <3>1, Levels
    <3> QED BY <3>1 DEF Ahead
  <2> QED BY <1>1, <2>1, <2>2, AheadIs, FS_Subset
<1>7. a[e] + 1 <= b[e]
  <2>1. t \notin Ahead(count, e)
    BY <1>1, <1>3, <1>4 DEF Ahead
  <2>2. Ahead(count, e) \cup {t} \subseteq Ahead(next, e)
    <3>1. ASSUME NEW u \in Thread, count[u] > c \/ u = t PROVE next[u] > c
      BY <1>1, <1>4, <1>5, <3>1, Levels
    <3> QED BY <1>3, <3>1 DEF Ahead
  <2>3. /\ IsFiniteSet(Ahead(count, e)) /\ IsFiniteSet(Ahead(next, e))
        /\ a[e] = Cardinality(Ahead(count, e)) /\ b[e] = Cardinality(Ahead(next, e))
    BY <1>1, AheadIs
  <2>4. Cardinality(Ahead(count, e) \cup {t}) = a[e] + 1
    BY <2>1, <2>3, FS_AddElement
  <2> QED BY <2>2, <2>3, <2>4, FS_Subset
<1>8. PICK sum : Sums(Limit - 1, a, sum) /\ through <= sum[Limit - 1]
  BY <1>1 DEF Covers
<1>9. PICK total : Sums(Limit - 1, b, total)
  BY <1>2, Levels, SumExists
<1>10. sum[e] <= Ways(e, a[e])
  <2>1. ASSUME NEW x \in 1..e PROVE a[x] <= a[e]
    <3>1. x \in 1..(Limit - 1) /\ Limit - e <= Limit - x
      BY <1>3, Levels
    <3>2. Ahead(count, x) \subseteq Ahead(count, e)
      <4>1. ASSUME NEW u \in Thread, count[u] > Limit - x PROVE count[u] > Limit - e
        BY <1>3, <1>5, <3>1, <4>1, Levels
      <4> QED BY <4>1 DEF Ahead
    <3> QED BY <1>1, <3>1, <3>2, AheadIs, FS_Subset
  <2>2. a[e] \in Nat
    BY <1>2
  <2> QED BY <1>2, <1>3, <1>8, <2>1, <2>2, Levels, SumBounded
<1>11. sum[e] + 1 <= total[e]
  <2>1. PICK m \in Nat, n \in Nat : m = a[e] /\ n = b[e] /\ m + 1 <= n
    BY <1>2, <1>7
  <2>2. e \in Nat /\ e \in Nat \ {0} /\ m + 1 \in Nat
    BY <1>3, <2>1
  <2>3. /\ Worth(e, n) \in Nat /\ Ways(e, m) \in Nat /\ Worth(e, m + 1) = Ways(e, m)
        /\ Worth(e, m + 1) <= Worth(e, n)
    BY <2>1, <2>2, WorthIs, WaysIs, WorthGrows
  <2>4. total[e - 1] \in Nat /\ total[e - 1] >= 1
    BY <1>2, <1>3, <1>9, Levels, SumPositive
  <2>5. PICK w, v, p \in Nat : /\ w = Worth(e, n) /\ v = total[e - 1] /\ v >= 1
                              /\ p = Ways(e, m) /\ p <= w
    BY <2>3, <2>4
  <2>6. total[e] = v + w
    BY <1>9, <2>1, <2>5 DEF Sums
  <2>7. PICK q \in Nat : q = sum[e] /\ q <= p
    BY <1>2, <1>3, <1>8, <1>10, <2>1, <2>5, Levels, SumPositive
  <2>8. q + 1 <= v + w
    BY <2>5, <2>7
  <2> QED BY <2>6, <2>7, <2>8
<1>12. sum[Limit - 1] + 1 <= total[Limit - 1]
  BY <1>2, <1>3, <1>6, <1>8, <1>9, <1>11, Levels, SumFollows
<1>13. sum[Limit - 1] \in Nat /\ total[Limit - 1] \in Nat
  BY <1>2, <1>8, <1>9, Levels, SumPositive
<1>14. through + 1 <= total[Limit - 1]
  BY <1>8, <1>12, <1>13
<1> QED BY <1>1, <1>9, <1>14 DEF Covers

LEMMA CoveredBound ==
  ASSUME NEW count \in Counting, NEW through \in Nat, Covers(count, through)
  PROVE  through <= choose(Limit - 1 + Cardinality(Thread), Cardinality(Thread))
<1>1. PICK n \in Nat : n = Cardinality(Thread)
  BY LimiterAssumption, FS_CardinalityType
<1>2. PICK a : a = AheadBy(count)
  OBVIOUS
<1>3. a \in [1..(Limit - 1) -> Nat] /\ \A x \in 1..(Limit - 1) : a[x] <= n
  BY <1>1, <1>2, AheadIs
<1>4. PICK sum : Sums(Limit - 1, a, sum) /\ through <= sum[Limit - 1]
  BY <1>2 DEF Covers
<1>5. sum[Limit - 1] <= Ways(Limit - 1, n)
  BY <1>3, <1>4, Levels, SumBounded
<1>6. sum[Limit - 1] \in Nat /\ Ways(Limit - 1, n) \in Nat
  BY <1>3, <1>4, Levels, SumPositive, WaysIs
<1>7. through <= Ways(Limit - 1, n)
  BY <1>4, <1>5, <1>6
<1> QED BY <1>1, <1>7 DEF Ways

-----------------------------------------------------------------------------
(* The window a thread would start                                         *)

Busy(t) == job[t] # Idle

\* Nothing has started later than the clock, and a window someone stored or found has let
\* an attempt through, unless it is the one its thread would start.
NothingAhead ==
  /\ \A k \in Key : windows[k] # None => windows[k].start <= clock /\ windows[k].count >= 1
  /\ \A k \in Key, s \in Time : s > clock => admitted[k][s] = 0
  /\ \A t \in Thread : Busy(t) => job[t].now <= clock
  /\ \A t \in Thread : job[t].do = "decide" =>
       /\ job[t].window.start <= clock
       /\ job[t].window.start = job[t].now \/ job[t].window.count >= 1

\* The window that a thread's reading of the clock would start is nobody else's, and has
\* let nothing through.
Unused(t) ==
  /\ \A u \in Thread : Busy(u) /\ job[u].now = job[t].now => u = t
  /\ admitted[job[t].key][job[t].now] = 0
  /\ windows[job[t].key] # None => windows[job[t].key].start # job[t].now
  /\ \A u \in Thread :
       job[u].do = "decide" /\ job[u].key = job[t].key /\ job[u].window.start = job[t].now
         => u = t

OwnWindows == NothingAhead /\ \A t \in Thread : Busy(t) => Unused(t)

LEMMA InitOwn == Init => OwnWindows
  BY DEF Init, OwnWindows, NothingAhead, Busy, Idle

LEMMA OwnPreserved == TypeOK /\ OwnWindows /\ [Next]_vars => OwnWindows'
<1> SUFFICES ASSUME TypeOK, OwnWindows, [Next]_vars PROVE OwnWindows'
  OBVIOUS
<1>1. \A t \in Thread : Busy(t) => job[t].key \in Key /\ job[t].now \in Time
  BY JobKinds DEF TypeOK, Busy
<1>2. \A t \in Thread : job[t].do = "decide" =>
        /\ Busy(t) /\ job[t].window \in WindowRecord /\ job[t].window.start \in Time
        /\ job[t].window.count \in Nat
  BY JobKinds, LimiterAssumption DEF TypeOK, Busy, WindowRecord
<1>3. \A k \in Key : windows[k] # None => windows[k].start \in Time
  BY DEF TypeOK, WindowRecord
<1>4. clock \in Time /\ \A s \in Time : s \in Int
  BY DEF TypeOK, Time
<1>5. ASSUME NEW t \in Thread, NEW k \in Key, NEW now \in Time, ReadClock(t, k, now)
      PROVE  OwnWindows'
  <2>1. /\ ~Busy(t) /\ now > clock /\ clock' = now
        /\ job' = [job EXCEPT ![t] = [do |-> "look", key |-> k, now |-> now]]
        /\ windows' = windows /\ admitted' = admitted
    BY <1>5 DEF ReadClock, Busy
  <2>2. /\ job'[t].do = "look" /\ job'[t].key = k /\ job'[t].now = now /\ Busy(t)'
        /\ \A u \in Thread \ {t} : job'[u] = job[u] /\ Busy(u)' = Busy(u)
    BY <2>1 DEF TypeOK, Busy, Idle
  <2>3. NothingAhead'
    BY <1>1, <1>2, <1>3, <1>4, <2>1, <2>2 DEF OwnWindows, NothingAhead
  <2>4. Unused(t)'
    BY <1>1, <1>2, <1>3, <1>4, <2>1, <2>2 DEF OwnWindows, NothingAhead, Unused
  <2>5. ASSUME NEW u \in Thread \ {t}, Busy(u)' PROVE Unused(u)'
    <3>1. Unused(u) /\ job[u].now <= clock /\ job[u].now \in Time
      BY <1>1, <2>2, <2>5 DEF OwnWindows, NothingAhead
    <3> QED BY <1>4, <2>1, <2>2, <3>1 DEF Unused
  <2> QED BY <2>3, <2>4, <2>5 DEF OwnWindows
<1>6. ASSUME NEW t \in Thread, ReadWindow(t) PROVE OwnWindows'
  <2>1. /\ job[t].do = "look"
        /\ job' = [job EXCEPT ![t] = [do |-> "decide", key |-> job[t].key,
                                      now |-> job[t].now, window |-> Found(t)]]
        /\ clock' = clock /\ windows' = windows /\ admitted' = admitted
    BY <1>6 DEF ReadWindow, Found
  <2>2. Busy(t)
    BY <2>1 DEF Busy, Idle
  <2>3. /\ job'[t].do = "decide" /\ job'[t].key = job[t].key /\ job'[t].now = job[t].now
        /\ job'[t].window = Found(t) /\ Busy(t)'
        /\ \A u \in Thread \ {t} : job'[u] = job[u] /\ Busy(u)' = Busy(u)
    BY <2>1 DEF TypeOK, Busy, Idle
  <2>4. \/ windows[job[t].key] = None /\ Found(t).start = job[t].now
        \/ windows[job[t].key] # None /\ Found(t) = windows[job[t].key]
    BY DEF Found
  <2>5. NothingAhead'
    BY <1>1, <2>1, <2>2, <2>3, <2>4 DEF OwnWindows, NothingAhead
  <2>6. ASSUME NEW u \in Thread, Busy(u)' PROVE Unused(u)'
    <3>1. Busy(u) /\ Unused(u) /\ job'[u].now = job[u].now /\ job'[u].key = job[u].key
      BY <2>2, <2>3, <2>6 DEF OwnWindows
    <3>2. /\ \A v \in Thread : Busy(v)' => Busy(v) /\ job'[v].now = job[v].now
      BY <2>2, <2>3
    <3>3. ASSUME NEW v \in Thread, job'[v].do = "decide", job'[v].key = job'[u].key,
                 job'[v].window.start = job'[u].now
          PROVE  v = u
      BY <2>2, <2>3, <2>4, <3>1, <3>3 DEF Unused
    <3> QED BY <2>1, <3>1, <3>2, <3>3 DEF Unused
  <2> QED BY <2>5, <2>6 DEF OwnWindows
<1>7. ASSUME NEW t \in Thread, Decide(t) PROVE OwnWindows'
  <2>1. PICK k, w : k = job[t].key /\ w = Current(job[t].now, job[t].window)
    OBVIOUS
  <2>2. Outcome(k, w)
    BY <1>7, <2>1, Decision
  <2>3. /\ job[t].do = "decide" /\ Busy(t) /\ clock' = clock
        /\ job' = [job EXCEPT ![t] = Idle]
    BY <1>2, <1>7 DEF Decide
  <2>4. /\ ~Busy(t)' /\ job'[t].do # "decide"
        /\ \A u \in Thread \ {t} : job'[u] = job[u] /\ Busy(u)' = Busy(u)
    BY <2>3 DEF TypeOK, Busy, Idle
  <2>5. w = job[t].window \/ w.start = job[t].now
    BY <1>1, <1>2, <2>1, <2>3, CurrentWindow
  <2>6. w.start <= clock
    BY <1>1, <1>2, <2>3, <2>5 DEF OwnWindows, NothingAhead
  <2>7. /\ \A l \in Key \ {k} : windows'[l] = windows[l] /\ admitted'[l] = admitted[l]
        /\ windows'[k].start = w.start /\ windows'[k].count >= 1
        /\ \A s \in Time \ {w.start} : admitted'[k][s] = admitted[k][s]
    <3>1. CASE IsFull(w) /\ windows' = [windows EXCEPT ![k] = w] /\ admitted' = admitted
      <4>1. w.count >= 1
        BY <2>2, <3>1, LimiterAssumption DEF IsFull, Outcome
      <4> QED BY <2>2, <3>1, <4>1 DEF TypeOK, Outcome
    <3>2. CASE /\ windows' = [windows EXCEPT ![k] = [start |-> w.start, count |-> w.count + 1]]
               /\ admitted' = [admitted EXCEPT ![k] =
                                [admitted[k] EXCEPT ![w.start] = admitted[k][w.start] + 1]]
      <4>1. w.count + 1 >= 1
        BY <2>2 DEF Outcome
      <4> QED BY <2>2, <3>2, <4>1 DEF TypeOK, Outcome
    <3> QED BY <2>2, <3>1, <3>2 DEF Outcome
  <2>8. NothingAhead'
    <3>1. \A s \in Time : s > clock => s # w.start
      BY <1>4, <2>2, <2>6 DEF Outcome
    <3> QED BY <2>2, <2>3, <2>4, <2>6, <2>7, <3>1 DEF OwnWindows, NothingAhead, Outcome
  <2>9. ASSUME NEW u \in Thread, Busy(u)' PROVE Unused(u)'
    <3>1. u # t /\ Busy(u) /\ Unused(u) /\ job'[u] = job[u]
      BY <2>4, <2>9 DEF OwnWindows
    <3>2. job[u].key = k => job[u].now # w.start
      BY <2>1, <2>3, <2>5, <3>1 DEF Unused
    <3>3. job[u].key \in Key /\ job[u].now \in Time
      BY <1>1, <3>1
    <3> QED BY <2>4, <2>7, <3>1, <3>2, <3>3 DEF Unused
  <2> QED BY <2>8, <2>9 DEF OwnWindows
<1>8. CASE UNCHANGED vars
  BY <1>8 DEF vars, OwnWindows, NothingAhead, Unused, Busy
<1> QED BY <1>5, <1>6, <1>7, <1>8 DEF Next
-----------------------------------------------------------------------------
(* The excess                                                              *)

Holds(k, s, t) == job[t].do = "decide" /\ job[t].key = k /\ job[t].window.start = s

\* What a thread that has yet to read would find for this window.
Stored(k, s) == IF windows[k] # None /\ windows[k].start = s THEN windows[k].count ELSE Limit

CountOf(k, s) ==
  [t \in Thread |-> IF Holds(k, s, t) THEN job[t].window.count ELSE Stored(k, s)]

\* The strengthening ExcessBounded needs: what a window let through is covered by what the
\* threads that are ahead are worth.
ExcessInv == \A k \in Key, s \in Time : Covers(CountOf(k, s), admitted[k][s])

LEMMA StoredIs ==
  ASSUME TypeOK, NEW k \in Key, NEW s \in Time
  PROVE  Stored(k, s) \in 0..Limit
  BY LimiterAssumption DEF Stored, TypeOK, WindowRecord

LEMMA CountIs ==
  ASSUME TypeOK, NEW k \in Key, NEW s \in Time
  PROVE  CountOf(k, s) \in Counting
<1>1. ASSUME NEW t \in Thread, Holds(k, s, t) PROVE job[t].window.count \in 0..Limit
  <2>1. job[t].window \in WindowRecord
    BY <1>1, JobKinds DEF Holds, TypeOK
  <2> QED BY <2>1 DEF WindowRecord
<1> QED BY <1>1, StoredIs DEF CountOf, Counting

LEMMA InitExcess == Init => ExcessInv
<1> SUFFICES ASSUME Init, NEW k \in Key, NEW s \in Time
             PROVE  Covers(CountOf(k, s), admitted[k][s])
  BY DEF ExcessInv
<1>1. CountOf(k, s) \in Counting
  BY InitType, CountIs
<1>2. admitted[k][s] = 0
  BY DEF Init
<1> QED BY <1>1, <1>2, FirstCovered

LEMMA ExcessPreserved ==
  TypeOK /\ OwnWindows /\ ExcessInv /\ [Next]_vars => ExcessInv'
<1> SUFFICES ASSUME TypeOK, OwnWindows, ExcessInv, [Next]_vars,
                    NEW k \in Key, NEW s \in Time
             PROVE  Covers(CountOf(k, s), admitted[k][s])'
  BY DEF ExcessInv
<1>1. PICK c, d, n, m : /\ c = CountOf(k, s) /\ d = CountOf(k, s)'
                        /\ n = admitted[k][s] /\ m = admitted'[k][s]
  OBVIOUS
<1>2. c \in Counting /\ n \in Nat /\ Covers(c, n)
  BY <1>1, CountIs DEF ExcessInv, TypeOK
<1>3. d \in Counting /\ m \in Nat
  <2>1. TypeOK'
    BY TypePreserved
  <2>2. CountOf(k, s)' \in Counting
    <3>1. ASSUME NEW t \in Thread, Holds(k, s, t)' PROVE job'[t].window.count \in 0..Limit
      <4>1. job'[t].window \in WindowRecord
        BY <2>1, <3>1, JobKinds DEF Holds, TypeOK
      <4> QED BY <4>1 DEF WindowRecord
    <3>2. Stored(k, s)' \in 0..Limit
      BY <2>1, LimiterAssumption DEF Stored, TypeOK, WindowRecord
    <3> QED BY <3>1, <3>2 DEF CountOf, Counting
  <2> QED BY <1>1, <2>1, <2>2 DEF TypeOK
<1>4. SUFFICES Covers(d, m)
  <2>1. Covers(CountOf(k, s), admitted[k][s])' = Covers(CountOf(k, s)', admitted'[k][s])
    BY DEF Covers, AheadBy, Ahead
  <2> QED BY <1>1, <2>1
<1>5. \A t \in Thread :
        /\ c[t] = IF Holds(k, s, t) THEN job[t].window.count ELSE Stored(k, s)
        /\ d[t] = IF Holds(k, s, t)' THEN job'[t].window.count ELSE Stored(k, s)'
        /\ c[t] \in 0..Limit /\ d[t] \in 0..Limit
  BY <1>1, <1>2, <1>3 DEF CountOf, Counting
<1>6. \A t \in Thread : job[t].do = "decide" => job[t].window \in WindowRecord
  BY JobKinds DEF TypeOK
<1>7. ASSUME NEW t \in Thread, NEW l \in Key, NEW now \in Time, ReadClock(t, l, now)
      PROVE  Covers(d, m)
  <2>1. /\ job[t].do # "decide" /\ job'[t].do # "decide"
        /\ \A u \in Thread \ {t} : job'[u] = job[u]
        /\ windows' = windows /\ admitted' = admitted
    BY <1>7 DEF ReadClock, TypeOK, Idle
  <2>2. \A u \in Thread : c[u] = d[u]
    BY <1>5, <2>1 DEF Holds, Stored
  <2>3. c = d /\ m = n
    BY <1>1, <1>2, <1>3, <2>1, <2>2 DEF Counting
  <2> QED BY <1>2, <2>3
<1>8. ASSUME NEW t \in Thread, ReadWindow(t) PROVE Covers(d, m)
  <2>1. /\ job[t].do = "look"
        /\ job' = [job EXCEPT ![t] = [do |-> "decide", key |-> job[t].key,
                                      now |-> job[t].now, window |-> Found(t)]]
        /\ windows' = windows /\ admitted' = admitted
    BY <1>8 DEF ReadWindow, Found
  <2>2. /\ job'[t].do = "decide" /\ job'[t].key = job[t].key /\ job'[t].window = Found(t)
        /\ \A u \in Thread \ {t} : job'[u] = job[u]
    BY <2>1 DEF TypeOK
  <2>3. n = m /\ Stored(k, s)' = Stored(k, s)
    BY <1>1, <2>1 DEF Stored
  <2>4. CASE Holds(k, s, t)' /\ windows[k] = None
    <3>1. job[t].key = k /\ job[t].now = s
      BY <2>2, <2>4 DEF Holds, Found
    <3>2. Busy(t)
      BY <2>1 DEF Busy, Idle
    <3>3. m = 0
      BY <1>1, <2>3, <3>1, <3>2 DEF OwnWindows, Unused
    <3> QED BY <1>3, <3>3, FirstCovered
  <2>5. CASE ~(Holds(k, s, t)' /\ windows[k] = None)
    <3>1. ~Holds(k, s, t)
      BY <2>1 DEF Holds
    <3>2. Holds(k, s, t)' => job'[t].window.count = Stored(k, s)
      BY <2>2, <2>5 DEF Holds, Found, Stored
    <3>3. d[t] = c[t]
      BY <1>5, <2>3, <3>1, <3>2
    <3>4. \A u \in Thread \ {t} : d[u] = c[u]
      BY <1>5, <2>2, <2>3 DEF Holds
    <3>5. c = d
      BY <1>2, <1>3, <3>3, <3>4 DEF Counting
    <3> QED BY <1>2, <2>3, <3>5
  <2> QED BY <2>4, <2>5
<1>9. ASSUME NEW t \in Thread, Decide(t) PROVE Covers(d, m)
  <2>1. PICK l, w : l = job[t].key /\ w = Current(job[t].now, job[t].window)
    OBVIOUS
  <2>2. Outcome(l, w)
    BY <1>9, <2>1, Decision
  <2>3. /\ job[t].do = "decide" /\ Busy(t) /\ job' = [job EXCEPT ![t] = Idle]
        /\ job[t].window \in WindowRecord /\ job[t].now \in Time
    BY <1>9, JobKinds DEF Decide, Busy, TypeOK, Idle
  <2>4. job'[t].do # "decide" /\ \A u \in Thread \ {t} : job'[u] = job[u]
    BY <2>3 DEF TypeOK, Idle
  <2>5. l \in Key /\ w.start \in Time /\ w.count \in Nat /\ Limit \in Nat \ {0}
    BY <2>2, LimiterAssumption DEF Outcome
  <2>6. w = job[t].window \/ w.start = job[t].now
    BY <2>1, <2>3, CurrentWindow
  \* A window that is not this one's: every count rises, to the limit unless it is held.
  <2>7. CASE l # k
    <3>1. windows'[k] = windows[k] /\ m = n
      BY <1>1, <2>2, <2>7 DEF Outcome, TypeOK
    <3>2. \A u \in Thread : c[u] = d[u]
      BY <1>5, <2>1, <2>4, <2>7, <3>1 DEF Holds, Stored
    <3>3. c = d
      BY <1>2, <1>3, <3>2 DEF Counting
    <3> QED BY <1>2, <3>1, <3>3
  <2>8. /\ windows'[l] # None /\ windows'[l].start = w.start
        /\ \A x \in Time \ {w.start} : admitted'[l][x] = admitted[l][x]
    BY <2>2, <2>5, NoneIsNoWindow DEF Outcome, TypeOK, None
  <2>9. CASE l = k /\ w.start # s
    <3>1. Stored(k, s)' = Limit
      BY <2>8, <2>9 DEF Stored
    <3>2. m = n
      BY <1>1, <2>8, <2>9
    <3>3. \A u \in Thread : c[u] <= d[u]
      BY <1>5, <2>4, <2>5, <3>1 DEF Holds
    <3> QED BY <1>2, <1>3, <3>2, <3>3, CoveredByMore
  <2>10. CASE l = k /\ w.start = s /\ w.count = Limit
    <3>1. admitted' = admitted /\ windows'[k] = w
      BY <2>2, <2>5, <2>10 DEF Outcome, TypeOK
    <3>2. Stored(k, s)' = Limit /\ m = n
      BY <1>1, <2>8, <2>10, <3>1 DEF Stored
    <3>3. \A u \in Thread : c[u] <= d[u]
      BY <1>5, <2>4, <2>5, <3>2 DEF Holds
    <3> QED BY <1>2, <1>3, <3>2, <3>3, CoveredByMore
  <2>11. CASE l = k /\ w.start = s /\ w.count < Limit
    <3>1. /\ windows'[k] = [start |-> s, count |-> w.count + 1]
          /\ m = n + 1
      BY <1>1, <2>2, <2>5, <2>11 DEF Outcome, TypeOK, IsFull
    <3>2. CASE n = 0
      BY <1>3, <3>1, <3>2, FirstCovered
    <3>3. CASE n # 0
      <4>1. s # job[t].now
        BY <1>1, <2>1, <2>3, <2>11, <3>3 DEF OwnWindows, Unused
      <4>2. w = job[t].window
        BY <2>6, <2>11, <4>1
      <4>3. Holds(k, s, t) /\ w.count >= 1
        BY <2>1, <2>3, <2>11, <4>1, <4>2 DEF Holds, OwnWindows, NothingAhead
      <4>4. c[t] = w.count /\ c[t] \in 1..(Limit - 1)
        BY <1>5, <2>5, <2>11, <4>2, <4>3
      <4>5. Stored(k, s)' = c[t] + 1
        BY <2>8, <2>11, <3>1, <4>4 DEF Stored
      <4>6. d[t] = c[t] + 1
        BY <1>5, <2>4, <4>5 DEF Holds
      <4>7. \A u \in Thread : d[u] = c[u] \/ d[u] = c[t] + 1
        BY <1>5, <2>4, <4>5, <4>6 DEF Holds
      <4> QED BY <1>2, <1>3, <3>1, <4>4, <4>6, <4>7, OneMoreCovered
    <3> QED BY <3>2, <3>3
  <2>12. w.count <= Limit
    BY <2>2, <2>5 DEF Outcome, WindowRecord
  <2> QED BY <2>5, <2>7, <2>9, <2>10, <2>11, <2>12
<1>10. CASE UNCHANGED vars
  <2>1. m = n /\ \A u \in Thread : c[u] = d[u]
    BY <1>1, <1>5, <1>10 DEF vars, Holds, Stored
  <2>2. c = d
    BY <1>2, <1>3, <2>1 DEF Counting
  <2> QED BY <1>2, <2>1, <2>2
<1> QED BY <1>7, <1>8, <1>9, <1>10 DEF Next

\* However n threads overwrite each other's counts, no more than (Limit - 1 + n) choose n
\* attempts get through one window of an address.
THEOREM ExcessIsBounded == Spec => []ExcessBounded
<1>1. TypeOK /\ ExcessInv => ExcessBounded
  <2> SUFFICES ASSUME TypeOK, ExcessInv, NEW k \in Key, NEW s \in Time
               PROVE  admitted[k][s]
                        <= choose(Limit - 1 + Cardinality(Thread), Cardinality(Thread))
    BY DEF ExcessBounded
  <2>1. CountOf(k, s) \in Counting /\ admitted[k][s] \in Nat
    BY CountIs DEF TypeOK
  <2> QED BY <2>1, CoveredBound DEF ExcessInv
<1> QED BY <1>1, InitType, TypePreserved, InitOwn, OwnPreserved, InitExcess, ExcessPreserved,
           PTL DEF Spec
=============================================================================
