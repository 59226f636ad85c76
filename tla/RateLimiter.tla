----------------------------- MODULE RateLimiter ------------------------------
(***************************************************************************)
(* The per-peer token bucket of main.py (_bucket_retry_after) and the      *)
(* bounded dict of buckets it works on, without a lock, from every worker  *)
(* thread at once.  There are two such dicts, one for minting and one for  *)
(* the free routes (/verify, /upgrade, /health); this is either of them.   *)
(*                                                                         *)
(* As in Redemption.tla a step is a stretch of Python that no call to an   *)
(* interpreter-level function interrupts: the clock, buckets.get, len,     *)
(* iter and next each end one.                                             *)
(*                                                                         *)
(* Time is discrete: a token accrues every Grain ticks, so that a bucket   *)
(* holds whole units, Grain to a token, and may hold part of a token.      *)
(***************************************************************************)
EXTENDS FifoDict, FiniteSets

CONSTANTS Peer,        \* what _client_ip returns
          Worker,      \* worker threads, one request each at a time
          PerMinute,   \* RATE_LIMIT_PER_MINUTE or VERIFY_...; 0 is no limit at all
          BucketsMax,  \* _RATE_BUCKETS_MAX
          Grain,       \* ticks between tokens
          MaxClock,    \* bound: ticks in a behaviour
          MaxRequests, \* bound: requests in a behaviour
          None         \* no peer

ASSUME RateLimiterAssumption ==
  /\ PerMinute \in Nat \ {0}
  /\ BucketsMax \in Nat \ {0}
  /\ Grain \in Nat \ {0}
  /\ MaxClock \in Nat
  /\ MaxRequests \in Nat
  /\ None \notin Peer
  /\ IsFiniteSet(Worker)

VARIABLES
  clock,    \* time.monotonic(), in ticks
  buckets,  \* a FifoDict from peer to [units, at]: what is left, and since when
  pc,       \* the next step of each worker
  peer,     \* ip
  now,      \* the clock as the worker read it
  units,    \* tokens, after the refill and the request
  wait,     \* retry_after in ticks; 0 is None, the request is allowed
  size,     \* the dict's size when the worker made its iterator
  victim,   \* the peer whose bucket the worker is about to evict
  \* for the properties only
  granted,  \* when the requests allowed so far came, by peer
  promised, \* when a denied peer that stays quiet was told to come back
  excused,  \* peers that had two requests at once, or whose bucket was evicted
  asked     \* requests so far

registers == <<peer, now, units, wait, size, victim>>
observed == <<granted, promised, excused, asked>>
vars == <<clock, buckets, pc, registers, observed>>

Full == PerMinute * Grain

Bucket == [units : Int, at : 0..MaxClock]

TypeOK ==
  /\ clock \in 0..MaxClock
  /\ buckets \in Seq([key : Peer, value : Bucket])
  /\ pc \in [Worker -> {"idle", "get", "store", "test", "pick", "next", "evict"}]
  /\ peer \in [Worker -> Peer \cup {None}]
  /\ now \in [Worker -> 0..MaxClock]
  /\ units \in [Worker -> (-MaxClock)..Full]
  /\ wait \in [Worker -> 0..(Grain + MaxClock)]
  /\ size \in [Worker -> Nat]
  /\ victim \in [Worker -> Peer \cup {None}]
  /\ granted \in [Peer -> Seq(0..MaxClock)]
  /\ promised \in [Peer -> 0..(Grain + 2 * MaxClock)]
  /\ excused \subseteq Peer
  /\ asked \in 0..MaxRequests

Init ==
  /\ clock = 0
  /\ buckets = <<>>
  /\ pc = [w \in Worker |-> "idle"]
  /\ peer = [w \in Worker |-> None]
  /\ now = [w \in Worker |-> 0]
  /\ units = [w \in Worker |-> 0]
  /\ wait = [w \in Worker |-> 0]
  /\ size = [w \in Worker |-> 0]
  /\ victim = [w \in Worker |-> None]
  /\ granted = [p \in Peer |-> <<>>]
  /\ promised = [p \in Peer |-> 0]
  /\ excused = {}
  /\ asked = 0

-------------------------------------------------------------------------------

Tick ==
  /\ clock < MaxClock
  /\ clock' = clock + 1
  /\ UNCHANGED <<buckets, pc, registers, observed>>

\* A request of peer p: the clock is read before the bucket.
Ask(w, p) ==
  /\ pc[w] = "idle"
  /\ asked < MaxRequests
  /\ asked' = asked + 1
  /\ excused' = excused \cup ({p} \cap {peer[v] : v \in Worker})
  /\ pc' = [pc EXCEPT ![w] = "get"]
  /\ peer' = [peer EXCEPT ![w] = p]
  /\ now' = [now EXCEPT ![w] = clock]
  /\ UNCHANGED <<clock, buckets, units, wait, size, victim, granted, promised>>

\* The worker is done with its request and forgets it.
Forget(w) ==
  /\ pc' = [pc EXCEPT ![w] = "idle"]
  /\ peer' = [peer EXCEPT ![w] = None]
  /\ now' = [now EXCEPT ![w] = 0]
  /\ units' = [units EXCEPT ![w] = 0]
  /\ wait' = [wait EXCEPT ![w] = 0]
  /\ size' = [size EXCEPT ![w] = 0]
  /\ victim' = [victim EXCEPT ![w] = None]

\* Slip: the refill without min(), so that an idle peer saves up for a burst.
RefilledWithoutCap(w) ==
  LET held == IF peer[w] \in Keys(buckets)
              THEN Value(buckets, peer[w])
              ELSE [units |-> Full, at |-> now[w]]
  IN  held.units + (now[w] - held.at)

\* The bucket read, or a full one; refilled for the time since, never past Full.
Refilled(w) ==
  LET held == IF peer[w] \in Keys(buckets)
              THEN Value(buckets, peer[w])
              ELSE [units |-> Full, at |-> now[w]]
      sum  == held.units + (now[w] - held.at)
  IN  IF sum < Full THEN sum ELSE Full

\* Slip: a denied request pays for itself all the same.
GetChargesDenied(w) ==
  /\ pc[w] = "get"
  /\ LET u == Refilled(w)
     IN  /\ units' = [units EXCEPT ![w] = u - Grain]
         /\ wait' = [wait EXCEPT ![w] = IF u >= Grain THEN 0 ELSE Grain - u]
  /\ pc' = [pc EXCEPT ![w] = "test"]
  /\ UNCHANGED <<clock, buckets, peer, now, size, victim, observed>>

\* buckets.get and the arithmetic.  A clock read before another worker's store
\* makes the elapsed time negative, and the bucket lower for it.  The Retry-After
\* sent is this wait rounded up to seconds, never earlier than it.
Get(w) ==
  /\ pc[w] = "get"
  /\ LET u == Refilled(w)
     IN  \/ /\ u >= Grain
            /\ units' = [units EXCEPT ![w] = u - Grain]
            /\ wait' = wait
         \/ /\ u < Grain
            /\ units' = [units EXCEPT ![w] = u]
            /\ wait' = [wait EXCEPT ![w] = Grain - u]
  /\ pc' = [pc EXCEPT ![w] = "test"]
  /\ UNCHANGED <<clock, buckets, peer, now, size, victim, observed>>

\* The store that ends the request, and the answer it leads to.
StoreInto(w, dict) ==
  /\ buckets' = Store(dict, peer[w], [units |-> units[w], at |-> now[w]])
  /\ \/ /\ wait[w] = 0
        /\ granted' = [granted EXCEPT ![peer[w]] = Append(@, now[w])]
        /\ promised' = [promised EXCEPT ![peer[w]] = 0]
     \/ /\ wait[w] > 0
        /\ promised' = [promised EXCEPT ![peer[w]] = now[w] + wait[w]]
        /\ UNCHANGED granted
  /\ Forget(w)
  /\ UNCHANGED <<clock, asked>>

\* A peer that has a bucket is stored in place; a new one evicts the oldest first
\* when there are BucketsMax already.
Overwrite(w) ==
  /\ pc[w] = "test"
  /\ peer[w] \in Keys(buckets)
  /\ StoreInto(w, buckets)
  /\ UNCHANGED excused

\* Slip: > for >= in the size test.
MeasureOffByOne(w) ==
  /\ pc[w] = "test"
  /\ peer[w] \notin Keys(buckets)
  /\ pc' = [pc EXCEPT ![w] = IF Len(buckets) > BucketsMax THEN "pick" ELSE "store"]
  /\ UNCHANGED <<clock, buckets, registers, observed>>

Measure(w) ==
  /\ pc[w] = "test"
  /\ peer[w] \notin Keys(buckets)
  /\ pc' = [pc EXCEPT ![w] = IF Len(buckets) >= BucketsMax THEN "pick" ELSE "store"]
  /\ UNCHANGED <<clock, buckets, registers, observed>>

Admit(w) ==
  /\ pc[w] = "store"
  /\ StoreInto(w, buckets)
  /\ UNCHANGED excused

\* iter(buckets), next() of it, and the del with the store that follows.
Pick(w) ==
  /\ pc[w] = "pick"
  /\ size' = [size EXCEPT ![w] = Len(buckets)]
  /\ pc' = [pc EXCEPT ![w] = "next"]
  /\ UNCHANGED <<clock, buckets, peer, now, units, wait, victim, observed>>

PickNext(w) ==
  /\ pc[w] = "next"
  /\ Len(buckets) = size[w]
  /\ victim' = [victim EXCEPT ![w] = Oldest(buckets)]
  /\ pc' = [pc EXCEPT ![w] = "evict"]
  /\ UNCHANGED <<clock, buckets, peer, now, units, wait, size, observed>>

Evict(w) ==
  /\ pc[w] = "evict"
  /\ victim[w] \in Keys(buckets)
  /\ StoreInto(w, Delete(buckets, victim[w]))
  /\ excused' = excused \cup {victim[w]}

\* The dict changed size under the iterator (RuntimeError), or the oldest bucket
\* is another worker's victim already (KeyError).  No route catches it: a 500.
EvictRaces(w) ==
  /\ \/ pc[w] = "next" /\ Len(buckets) # size[w]
     \/ pc[w] = "evict" /\ victim[w] \notin Keys(buckets)
  /\ Forget(w)
  /\ UNCHANGED <<clock, buckets, observed>>

Next ==
  \/ Tick
  \/ \E w \in Worker :
       \/ \E p \in Peer : Ask(w, p)
       \/ Get(w)
       \/ Overwrite(w)
       \/ Measure(w)
       \/ Admit(w)
       \/ Pick(w)
       \/ PickNext(w)
       \/ Evict(w)
       \/ EvictRaces(w)

Spec == Init /\ [][Next]_vars
-------------------------------------------------------------------------------

\* The dict outgrows _RATE_BUCKETS_MAX by at most one bucket for every other
\* worker that measured it before this one stored.
BucketsOvershoot == Len(buckets) <= BucketsMax + Cardinality(Worker) - 1

\* Requests i to j of a peer, all allowed, are at most a minute's burst and a token
\* for every Grain ticks between them.
WithinRate(p, i, j) == (j - i + 1) * Grain <= Full + (granted[p][j] - granted[p][i])

\* What a token bucket is for: over any stretch of time a peer gets one burst and the
\* rate, however long it was quiet before, whatever it was denied meanwhile and whatever
\* other peers do to the dict.  Not so a peer whose own requests overlap, where a worker
\* held up between Get and its store overwrites every charge made meanwhile, nor one
\* whose bucket was evicted.
BurstThenRate ==
  \A p \in Peer \ excused : \A i, j \in DOMAIN granted[p] : i <= j => WithinRate(p, i, j)

\* Nobody else is refused: with the request that a peer is denied there would be, over
\* some stretch up to now, more than one burst and the rate.  A denied request costs
\* nothing, nor does a request of another peer.
DeniedForCause ==
  \A w \in Worker :
    LET g == granted[peer[w]]
    IN  pc[w] = "test" /\ peer[w] \notin excused /\ wait[w] > 0
        => \E i \in DOMAIN g : (Len(g) - i + 2) * Grain > Full + (now[w] - g[i])

\* The Retry-After of a 429 is honest: a peer that sends nothing it is not told
\* to send is allowed when it comes back then.
RetryAfterSuffices ==
  \A w \in Worker :
    /\ pc[w] = "test" /\ peer[w] \notin excused
    /\ promised[peer[w]] > 0 /\ now[w] >= promised[peer[w]]
    => wait[w] = 0
===============================================================================
