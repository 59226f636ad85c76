----------------------------- MODULE HealthProbe ------------------------------
(***************************************************************************)
(* The calendar probe behind GET /health (_otsd_probe_cached, main.py): at *)
(* most one render of the calendar at a time and one per TTL, however many *)
(* worker threads ask.  A fresh result is served as it is; an expired one  *)
(* is served stale while the thread that got the lock refreshes it; only   *)
(* before the first result do callers wait for the lock.                   *)
(*                                                                         *)
(* Steps are those of Redemption.tla: calls to the clock, the lock and the *)
(* calendar end one.                                                       *)
(***************************************************************************)
EXTENDS Integers, FiniteSets

CONSTANTS Worker,    \* worker threads, one /health request each at a time
          TTL,       \* HEALTH_PROBE_CACHE_SECONDS, in ticks; 0 is no cache at all
          MaxClock,  \* bound: ticks in a behaviour
          None       \* no result yet, nobody holds the lock

ASSUME HealthProbeAssumption ==
  /\ TTL \in Nat \ {0}
  /\ MaxClock \in Nat
  /\ None \notin Worker
  /\ None \notin Nat

VARIABLES
  clock,   \* time.monotonic()
  at,      \* _health_probe_cache["at"]
  result,  \* _health_probe_cache["result"]: when its render began
  lock,    \* the holder of _health_probe_lock
  pc,      \* the next step of each worker
  now,     \* the clock as the worker last read it
  began,   \* when the worker's render of the calendar began
  \* for the properties only
  ended,   \* when the latest render ended
  answer   \* what the latest step answered; None if it answered nothing

vars == <<clock, at, result, lock, pc, now, began, ended, answer>>

Time == 0..MaxClock
NoAnswer == [given |-> FALSE, result |-> None]
Given(r) == [given |-> TRUE, result |-> r]

TypeOK ==
  /\ clock \in Time
  /\ at \in Time \cup {None}
  /\ result \in Time \cup {None}
  /\ lock \in Worker \cup {None}
  /\ pc \in [Worker -> {"idle", "look", "wait", "stale", "again", "recheck", "probe",
                      "keep"}]
  /\ now \in [Worker -> Time]
  /\ began \in [Worker -> Time]
  /\ ended \in Time \cup {None}
  /\ answer \in [given : BOOLEAN, result : Time \cup {None}]

Init ==
  /\ clock = 0
  /\ at = None
  /\ result = None
  /\ lock = None
  /\ pc = [w \in Worker |-> "idle"]
  /\ now = [w \in Worker |-> 0]
  /\ began = [w \in Worker |-> 0]
  /\ ended = None
  /\ answer = NoAnswer

-------------------------------------------------------------------------------

Tick ==
  /\ clock < MaxClock
  /\ clock' = clock + 1
  /\ answer' = NoAnswer
  /\ UNCHANGED <<at, result, lock, pc, now, began, ended>>

GoTo(w, label) ==
  /\ pc' = [pc EXCEPT ![w] = label]
  /\ answer' = NoAnswer

\* The request is answered; the worker's registers are dead.
Respond(w, r) ==
  /\ pc' = [pc EXCEPT ![w] = "idle"]
  /\ now' = [now EXCEPT ![w] = 0]
  /\ began' = [began EXCEPT ![w] = 0]
  /\ answer' = Given(r)

\* `now` is read before `at`: another worker's refresh in between only makes the
\* result look younger.
Ask(w) ==
  /\ pc[w] = "idle"
  /\ now' = [now EXCEPT ![w] = clock]
  /\ GoTo(w, "look")
  /\ UNCHANGED <<clock, at, result, lock, began, ended>>

Fresh(w) == at # None /\ now[w] - at < TTL

\* Slip: the lock tried whether there is a result or not.
LookTriesAlways(w) ==
  /\ pc[w] = "look"
  /\ \/ /\ Fresh(w)
        /\ Respond(w, result)
        /\ UNCHANGED lock
     \/ /\ ~Fresh(w)
        /\ \/ lock = None /\ lock' = w /\ GoTo(w, "again")
           \/ lock # None /\ GoTo(w, "stale") /\ UNCHANGED lock
        /\ UNCHANGED <<now, began>>
  /\ UNCHANGED <<clock, at, result, ended>>

\* Slip: an expired result is refreshed without the lock.
LookWithoutLock(w) ==
  /\ pc[w] = "look"
  /\ \/ /\ Fresh(w)
        /\ Respond(w, result)
     \/ /\ ~Fresh(w)
        /\ GoTo(w, IF at = None THEN "wait" ELSE "again")
        /\ UNCHANGED <<now, began>>
  /\ UNCHANGED <<clock, at, result, lock, ended>>

\* Fresh: serve it.  Expired: acquire(blocking=False), or serve it stale.  None
\* yet: wait for the lock.
Look(w) ==
  /\ pc[w] = "look"
  /\ \/ /\ Fresh(w)
        /\ Respond(w, result)
        /\ UNCHANGED lock
     \/ /\ ~Fresh(w)
        /\ \/ at = None /\ GoTo(w, "wait") /\ UNCHANGED lock
           \/ at # None /\ lock = None /\ lock' = w /\ GoTo(w, "again")
           \/ at # None /\ lock # None /\ GoTo(w, "stale") /\ UNCHANGED lock
        /\ UNCHANGED <<now, began>>
  /\ UNCHANGED <<clock, at, result, ended>>

ServeStale(w) ==
  /\ pc[w] = "stale"
  /\ Respond(w, result)
  /\ UNCHANGED <<clock, at, result, lock, ended>>

Acquire(w) ==
  /\ pc[w] = "wait"
  /\ lock = None
  /\ lock' = w
  /\ GoTo(w, "again")
  /\ UNCHANGED <<clock, at, result, now, began, ended>>

ReadClock(w) ==
  /\ pc[w] = "again"
  /\ now' = [now EXCEPT ![w] = clock]
  /\ GoTo(w, "recheck")
  /\ UNCHANGED <<clock, at, result, lock, began, ended>>

\* Slip: no second look under the lock.
RecheckSkipped(w) ==
  /\ pc[w] = "recheck"
  /\ began' = [began EXCEPT ![w] = clock]
  /\ GoTo(w, "probe")
  /\ UNCHANGED <<clock, at, result, lock, now, ended>>

\* Slip: the early return outside the try, so that it keeps the lock.
RecheckKeepsLock(w) ==
  /\ pc[w] = "recheck"
  /\ \/ Fresh(w) /\ Respond(w, result)
     \/ /\ ~Fresh(w)
        /\ began' = [began EXCEPT ![w] = clock]
        /\ GoTo(w, "probe")
        /\ UNCHANGED now
  /\ UNCHANGED <<clock, at, result, lock, ended>>

\* Under the lock: somebody else's result may have come meanwhile.  Otherwise the
\* render of the calendar begins.
Recheck(w) ==
  /\ pc[w] = "recheck"
  /\ \/ Fresh(w) /\ Respond(w, result) /\ lock' = None
     \/ /\ ~Fresh(w)
        /\ began' = [began EXCEPT ![w] = clock]
        /\ GoTo(w, "probe")
        /\ UNCHANGED <<lock, now>>
  /\ UNCHANGED <<clock, at, result, ended>>

\* _probe_otsd ends within its timeouts and never raises; then the clock.
Probe(w) ==
  /\ pc[w] = "probe"
  /\ now' = [now EXCEPT ![w] = clock]
  /\ ended' = clock
  /\ GoTo(w, "keep")
  /\ UNCHANGED <<clock, at, result, lock, began>>

\* Both stores, and the release in the finally.
Keep(w) ==
  /\ pc[w] = "keep"
  /\ at' = now[w]
  /\ result' = began[w]
  /\ lock' = None
  /\ Respond(w, began[w])
  /\ UNCHANGED <<clock, ended>>

Step(w) ==
  \/ Look(w)
  \/ ServeStale(w)
  \/ ReadClock(w)
  \/ Recheck(w)
  \/ Probe(w)
  \/ Keep(w)

Next == Tick \/ \E w \in Worker : Ask(w) \/ Acquire(w) \/ Step(w)

Spec == Init /\ [][Next]_vars

\* Threads are scheduled.  threading.Lock keeps no queue, but it is free whenever
\* no refresh is under way, and a waiter that finds it so takes it in the end.
FairSpec ==
  /\ Spec
  /\ \A w \in Worker : WF_vars(Step(w)) /\ SF_vars(Acquire(w))
-------------------------------------------------------------------------------

\* "At most one read in flight": whatever the workers do, the calendar never
\* renders its status twice at a time for this gateway.
SingleFlight == Cardinality({w \in Worker : pc[w] = "probe"}) <= 1

\* "At most one per HEALTH_PROBE_CACHE_SECONDS": a render never begins before the
\* latest one is TTL old, also when several callers found no result at all and
\* get the lock one after the other.
RendersAreSpaced ==
  [][\A w \in Worker :
       pc[w] # "probe" /\ pc'[w] = "probe" /\ ended # None => clock - ended >= TTL]_vars

\* A render is never undone by one that began before it: what /health tells of the
\* calendar never goes back in time, however long a worker is held up between its render
\* and its stores.
ResultsOnlyGetNewer == [][result # None => result' # None /\ result' >= result]_vars

\* The tuple health() unpacks is there: no caller is answered before a result is.
NobodyIsAnsweredNothing == answer.given => answer.result # None

\* Every caller gets its answer: the lock is released on every way out, and no
\* caller waits for a refresh of a result that it could have had.
EveryCallerIsAnswered == \A w \in Worker : pc[w] = "look" ~> pc[w] = "idle"
===============================================================================
