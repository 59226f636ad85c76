-------------------------- MODULE HealthProbeProofs ---------------------------
(***************************************************************************)
(* HealthProbe.tla's safety properties for any number of workers, any TTL  *)
(* and any stretch of time.  The argument: the lock is held exactly by the *)
(* worker between its second look and its stores, so that nothing changes  *)
(* `at` between what it reads there and the render it decides on.          *)
(***************************************************************************)
EXTENDS HealthProbe, FiniteSetTheorems, TLAPS

\* The steps a worker takes under the lock.
Locked == {"again", "recheck", "probe", "keep"}

LockInv == \A w \in Worker : pc[w] \in Locked <=> lock = w

\* The cache is filled as a whole, and stays filled.
FilledInv ==
  /\ at = None <=> result = None
  /\ \A w \in Worker : pc[w] = "stale" => at # None
  /\ answer.given => answer.result # None

\* Nobody is ahead of the clock, and the stamp in the cache is the end of the
\* latest render, unless that render is still to be kept.
TimeInv ==
  /\ at # None => at <= clock
  /\ \A w \in Worker : now[w] <= clock
  /\ IF lock # None /\ pc[lock] = "keep" THEN ended = now[lock] ELSE ended = at

\* A result is no younger than its stamp, and no younger than the render under way: that
\* one began after its worker had seen, under the lock, that the result had expired.
AgeInv ==
  /\ result # None => result <= at
  /\ \A w \in Worker :
       /\ pc[w] \in {"probe", "keep"} =>
            began[w] <= clock /\ (result # None => result <= began[w])
       /\ pc[w] = "keep" => began[w] <= now[w]

IInv == TypeOK /\ LockInv /\ FilledInv /\ TimeInv /\ AgeInv

USE HealthProbeAssumption

LEMMA Start == Init => IInv
BY DEF Init, IInv, TypeOK, LockInv, FilledInv, TimeInv, AgeInv, Locked, Time, NoAnswer

\* Every step of the probe keeps the lock's discipline and the stamps in order.
LEMMA Preserved == IInv /\ [Next]_vars => IInv'
<1>1. SUFFICES ASSUME IInv, [Next]_vars
               PROVE  IInv'
  OBVIOUS
<1> USE DEF IInv, TypeOK, LockInv, FilledInv, TimeInv, AgeInv, Locked, Time, NoAnswer,
            Given, Respond, GoTo
<1>2. CASE Tick
  BY <1>1, <1>2 DEF Tick
<1>3. ASSUME NEW w \in Worker, Ask(w)
      PROVE  IInv'
  BY <1>1, <1>3 DEF Ask
<1>4. ASSUME NEW w \in Worker, Acquire(w)
      PROVE  IInv'
  BY <1>1, <1>4 DEF Acquire
<1>5. ASSUME NEW w \in Worker, Look(w)
      PROVE  IInv'
  <2>1. CASE Fresh(w) /\ Respond(w, result) /\ lock' = lock
    BY <1>1, <1>5, <2>1 DEF Look, Fresh
  <2>2. CASE at = None /\ GoTo(w, "wait") /\ lock' = lock
    BY <1>1, <1>5, <2>2 DEF Look, Fresh
  <2>3. CASE at # None /\ lock = None /\ lock' = w /\ GoTo(w, "again")
    BY <1>1, <1>5, <2>3 DEF Look, Fresh
  <2>4. CASE at # None /\ GoTo(w, "stale") /\ lock' = lock
    BY <1>1, <1>5, <2>4 DEF Look, Fresh
  <2>5. QED
    BY <1>5, <2>1, <2>2, <2>3, <2>4 DEF Look
<1>6. ASSUME NEW w \in Worker, ServeStale(w)
      PROVE  IInv'
  BY <1>1, <1>6 DEF ServeStale
<1>7. ASSUME NEW w \in Worker, ReadClock(w)
      PROVE  IInv'
  BY <1>1, <1>7 DEF ReadClock
<1>8. ASSUME NEW w \in Worker, Recheck(w)
      PROVE  IInv'
  <2>1. CASE Fresh(w) /\ Respond(w, result) /\ lock' = None
    BY <1>1, <1>8, <2>1 DEF Recheck, Fresh
  <2>2. CASE ~Fresh(w) /\ began' = [began EXCEPT ![w] = clock] /\ GoTo(w, "probe")
             /\ lock' = lock /\ now' = now
    BY <1>1, <1>8, <2>2 DEF Recheck
  <2>3. QED
    BY <1>8, <2>1, <2>2 DEF Recheck
<1>9. ASSUME NEW w \in Worker, Probe(w)
      PROVE  IInv'
  BY <1>1, <1>9 DEF Probe
<1>10. ASSUME NEW w \in Worker, Keep(w)
       PROVE  IInv'
  BY <1>1, <1>10 DEF Keep
<1>11. CASE UNCHANGED vars
  BY <1>1, <1>11 DEF vars
<1>12. QED
  BY <1>1, <1>2, <1>3, <1>4, <1>5, <1>6, <1>7, <1>8, <1>9, <1>10, <1>11 DEF Next, Step

\* The whole invariant holds of every behaviour of the probe.
THEOREM Inductive == Spec => []IInv
BY Start, Preserved, PTL DEF Spec

\* Every variable keeps its type.
THEOREM TypeCorrect == Spec => []TypeOK
<1>1. IInv => TypeOK
  BY DEF IInv
<1>2. QED
  BY Inductive, <1>1, PTL

\* However many workers ask, the calendar renders its status once at a time.
THEOREM OneRender == Spec => []SingleFlight
<1>1. ASSUME IInv
      PROVE  SingleFlight
  <2> DEFINE Rendering == {w \in Worker : pc[w] = "probe"}
  <2>1. CASE Rendering = {}
    BY <2>1, FS_EmptySet DEF SingleFlight
  <2>2. ASSUME NEW w \in Rendering
        PROVE  Rendering = {w}
    BY <1>1, <2>2 DEF IInv, LockInv, Locked
  <2>3. CASE Rendering # {}
    BY <2>2, <2>3, FS_Singleton DEF SingleFlight
  <2>4. QED
    BY <2>1, <2>3
<1>2. QED
  BY Inductive, <1>1, PTL

\* No caller is answered before there is a result to answer.
THEOREM AnswersAreResults == Spec => []NobodyIsAnsweredNothing
<1>1. IInv => NobodyIsAnsweredNothing
  BY DEF IInv, FilledInv, NobodyIsAnsweredNothing
<1>2. QED
  BY Inductive, <1>1, PTL

\* The result never goes back in time: the only store is that of a worker that had seen,
\* under the lock, what it replaces.
THEOREM NewerResults == Spec => ResultsOnlyGetNewer
<1>1. IInv /\ [Next]_vars => [result # None => result' # None /\ result' >= result]_vars
  <2> SUFFICES ASSUME IInv, Next, result # None
               PROVE  result' # None /\ result' >= result
    OBVIOUS
  <2>1. result \in Time
    BY DEF IInv, TypeOK
  <2>2. CASE result' = result
    BY <2>1, <2>2 DEF Time
  <2>3. ASSUME NEW w \in Worker, Keep(w)
        PROVE  result' # None /\ result' >= result
    <3>1. result' = began[w] /\ began[w] \in Time /\ result <= began[w]
      BY <2>3 DEF Keep, IInv, TypeOK, AgeInv
    <3>2. QED
      BY <2>1, <3>1 DEF Time
  <2>4. QED
    BY <2>2, <2>3
    DEF Next, Tick, Ask, Acquire, Step, Look, ServeStale, ReadClock, Recheck, Probe
<1>2. QED
  BY <1>1, Inductive, PTL DEF Spec, ResultsOnlyGetNewer

\* Two renders are TTL apart: the worker that begins one compared the clock,
\* under the lock, with the end of the latest.
THEOREM Spacing == Spec => RendersAreSpaced
<1> DEFINE Begins(w) == pc[w] # "probe" /\ pc'[w] = "probe" /\ ended # None
           Spaced == \A w \in Worker : Begins(w) => clock - ended >= TTL
<1>1. ASSUME IInv, [Next]_vars
      PROVE  Spaced
  <2>1. SUFFICES ASSUME NEW w \in Worker, Begins(w)
                 PROVE  clock - ended >= TTL
    OBVIOUS
  <2>2. Recheck(w) /\ ~Fresh(w)
    <3>1. ASSUME NEW v \in Worker, Ask(v) \/ Acquire(v) \/ Step(v)
          PROVE  Recheck(w) /\ ~Fresh(w)
      BY <1>1, <2>1, <3>1
      DEF IInv, TypeOK, Ask, Acquire, Step, Look, ServeStale, ReadClock, Recheck, Probe,
          Keep, GoTo, Respond
    <3>2. Tick \/ UNCHANGED vars => pc' = pc
      BY DEF Tick, vars
    <3>3. QED
      BY <1>1, <2>1, <3>1, <3>2 DEF Next
  <2>3. lock = w /\ pc[w] = "recheck"
    BY <1>1, <2>2 DEF IInv, LockInv, Locked, Recheck
  <2>4. ended = at /\ now[w] <= clock
    BY <1>1, <2>3 DEF IInv, TimeInv
  <2>5. QED
    BY <1>1, <2>1, <2>2, <2>4 DEF IInv, TypeOK, Time, Fresh
<1>2. QED
  BY Inductive, <1>1, PTL DEF Spec, RendersAreSpaced
===============================================================================
