--------------------------- MODULE RateLimiterProofs --------------------------
(* Theorems about RateLimiter and their proofs.                            *)
EXTENDS RateLimiter, SequenceTheorems, FiniteSetTheorems, TLAPS

-------------------------------------------------------------------------------
(* What storing and deleting do to the entries and the keys of a dict.     *)

\* The dictionaries from K to V.
Dict(K, V) == Seq([key : K, value : V])

\* e is an entry of d.
HasEntry(d, e) == \E i \in DOMAIN d : d[i] = e

\* The slots of a dictionary, and what is in them.
LEMMA Slots ==
  ASSUME NEW K, NEW V, NEW d \in Dict(K, V)
  PROVE  /\ Len(d) \in Nat
         /\ DOMAIN d = 1..Len(d)
         /\ \A i \in 1..Len(d) : d[i] \in [key : K, value : V]
BY ElementOfSeq, LenProperties DEF Dict

\* A key of the dictionary has a slot, and the value read is the one stored there.
LEMMA SlotOfKey ==
  ASSUME NEW K, NEW V, NEW d \in Dict(K, V), NEW k \in Keys(d)
  PROVE  /\ Slot(d, k) \in 1..Len(d)
         /\ d[Slot(d, k)] = [key |-> k, value |-> Value(d, k)]
         /\ k \in K
         /\ Value(d, k) \in V
<1>1. PICK i \in DOMAIN d : d[i].key = k
  BY DEF Keys
<1>2. Slot(d, k) \in DOMAIN d /\ d[Slot(d, k)].key = k
  BY <1>1 DEF Slot
<1>3. d[Slot(d, k)] \in [key : K, value : V]
  BY <1>2, Slots
<1>4. QED
  BY <1>2, <1>3, Slots DEF Value

\* The oldest entry of a dictionary that is not empty has one of its keys.
LEMMA OldestIsKey ==
  ASSUME NEW K, NEW V, NEW d \in Dict(K, V), Len(d) >= 1
  PROVE  Oldest(d) \in Keys(d) /\ Oldest(d) \in K
<1>1. 1 \in DOMAIN d /\ d[1] \in [key : K, value : V]
  BY Slots
<1>2. QED
  BY <1>1 DEF Oldest, Keys

\* Storing yields a dictionary that is not empty; its entries are old ones or the
\* one stored, and it grows by at most one.
LEMMA StoreEntries ==
  ASSUME NEW K, NEW V, NEW d \in Dict(K, V), NEW k \in K, NEW v \in V
  PROVE  /\ Store(d, k, v) \in Dict(K, V)
         /\ \A e : HasEntry(Store(d, k, v), e) =>
                     HasEntry(d, e) \/ e = [key |-> k, value |-> v]
         /\ 1 <= Len(Store(d, k, v))
         /\ Len(Store(d, k, v)) <= Len(d) + 1
<1> DEFINE entry == [key |-> k, value |-> v]
<1>1. CASE k \in Keys(d)
  <2>1. Slot(d, k) \in 1..Len(d)
    BY <1>1, SlotOfKey
  <2>2. Store(d, k, v) = [d EXCEPT ![Slot(d, k)] = entry]
    BY <1>1 DEF Store
  <2>3. QED
    BY <2>1, <2>2, ExceptSeq DEF Dict, HasEntry
<1>2. CASE k \notin Keys(d)
  <2>1. Store(d, k, v) = Append(d, entry)
    BY <1>2 DEF Store
  <2>2. QED
    BY <2>1, AppendProperties DEF Dict, HasEntry
<1>3. QED
  BY <1>1, <1>2

\* Storing under a key that is there replaces its entry.
LEMMA StoreInPlace ==
  ASSUME NEW K, NEW V, NEW d \in Dict(K, V), NEW k \in Keys(d), NEW v \in V
  PROVE  Len(Store(d, k, v)) = Len(d)
<1> DEFINE entry == [key |-> k, value |-> v]
<1>1. Slot(d, k) \in 1..Len(d) /\ k \in K
  BY SlotOfKey
<1>2. Store(d, k, v) = [d EXCEPT ![Slot(d, k)] = entry]
  BY DEF Store
<1>3. QED
  BY <1>1, <1>2, ExceptSeq DEF Dict

\* What is left of a sequence when its n-th element is removed.
LEMMA RemoveAtElements ==
  ASSUME NEW E, NEW s \in Seq(E), NEW n \in 1..Len(s)
  PROVE  /\ SequenceOps!RemoveAt(s, n) \in Seq(E)
         /\ Len(SequenceOps!RemoveAt(s, n)) = Len(s) - 1
         /\ \A i \in 1..(Len(s) - 1) : SequenceOps!RemoveAt(s, n)[i] = s[IF i < n THEN i ELSE i + 1]
<1>1. Len(s) \in Nat /\ n \in Nat /\ 1 <= n /\ n <= Len(s)
  BY LenProperties
<1>2. PICK len \in Nat : len = Len(s)
  BY <1>1
<1>3. PICK front : front = SubSeq(s, 1, n - 1)
  OBVIOUS
<1>4. PICK back : back = SubSeq(s, n + 1, Len(s))
  OBVIOUS
<1>5. /\ front \in Seq(E)
      /\ Len(front) = n - 1
      /\ \A i \in 1..(n - 1) : front[i] = s[i]
  <2>1. \A i \in 1..(n - 1) : s[i] \in E
    BY <1>1, ElementOfSeq
  <2>2. 1 \in Int /\ n - 1 \in Int
    BY <1>1
  <2>3. /\ front \in Seq(E)
        /\ Len(front) = IF 1 <= n - 1 THEN n - 1 - 1 + 1 ELSE 0
        /\ \A i \in 1..(n - 1 - 1 + 1) : front[i] = s[1 + i - 1]
    BY <1>3, <2>1, <2>2, SubSeqProperties
  <2>4. n - 1 - 1 + 1 = n - 1 /\ \A i \in 1..(n - 1) : 1 + i - 1 = i
    BY <1>1
  <2>5. (IF 1 <= n - 1 THEN n - 1 - 1 + 1 ELSE 0) = n - 1
    BY <1>1
  <2>6. QED
    BY <2>3, <2>4, <2>5
<1>6. /\ back \in Seq(E)
      /\ Len(back) = len - n
      /\ \A i \in 1..(len - n) : back[i] = s[n + i]
  <2>1. \A i \in (n + 1)..len : s[i] \in E
    BY <1>1, <1>2, ElementOfSeq
  <2>2. n + 1 \in Int /\ len \in Int
    BY <1>1
  <2>3. /\ back \in Seq(E)
        /\ Len(back) = IF n + 1 <= len THEN len - (n + 1) + 1 ELSE 0
        /\ \A i \in 1..(len - (n + 1) + 1) : back[i] = s[(n + 1) + i - 1]
    BY <1>2, <1>4, <2>1, <2>2, SubSeqProperties
  <2>4. len - (n + 1) + 1 = len - n /\ \A i \in 1..(len - n) : (n + 1) + i - 1 = n + i
    BY <1>1, <1>2
  <2>5. (IF n + 1 <= len THEN len - (n + 1) + 1 ELSE 0) = len - n
    BY <1>1, <1>2
  <2>6. QED
    BY <2>3, <2>4, <2>5
<1>7. PICK whole : whole = front \o back
  OBVIOUS
<1>8. whole = SequenceOps!RemoveAt(s, n)
  BY <1>3, <1>4, <1>7 DEF SequenceOps!RemoveAt
<1>9. /\ whole \in Seq(E)
      /\ Len(whole) = Len(front) + Len(back)
      /\ \A i \in 1..Len(front) + Len(back) : whole[i] =
           IF i <= Len(front) THEN front[i] ELSE back[i - Len(front)]
  BY <1>5, <1>6, <1>7, ConcatProperties
<1>10. Len(front) + Len(back) = len - 1
  BY <1>1, <1>2, <1>5, <1>6
<1>11. ASSUME NEW i \in 1..(len - 1)
       PROVE  whole[i] = s[IF i < n THEN i ELSE i + 1]
  <2>1. i \in Int /\ 1 <= i /\ i <= len - 1
    BY <1>2
  <2>2. whole[i] = IF i <= n - 1 THEN front[i] ELSE back[i - (n - 1)]
    BY <1>5, <1>9, <1>10
  <2>3. CASE i <= n - 1
    <3>1. i \in 1..(n - 1) /\ i < n
      BY <1>1, <1>2, <2>1, <2>3
    <3>2. whole[i] = s[i]
      BY <1>5, <2>2, <2>3, <3>1
    <3>3. QED
      BY <3>1, <3>2
  <2>4. CASE ~(i <= n - 1)
    <3>1. /\ i - (n - 1) \in 1..(len - n)
          /\ n + (i - (n - 1)) = i + 1
          /\ ~(i < n)
      BY <1>1, <1>2, <2>1, <2>4
    <3>2. whole[i] = s[i + 1]
      BY <1>6, <2>2, <2>4, <3>1
    <3>3. QED
      BY <3>1, <3>2
  <2>5. QED
    BY <2>3, <2>4
<1>12. QED
  BY <1>2, <1>8, <1>9, <1>10, <1>11

\* Deleting a key yields a dictionary of old entries, shorter by one.
LEMMA DeleteEntries ==
  ASSUME NEW K, NEW V, NEW d \in Dict(K, V), NEW k \in Keys(d)
  PROVE  /\ Delete(d, k) \in Dict(K, V)
         /\ \A e : HasEntry(Delete(d, k), e) => HasEntry(d, e)
         /\ Len(Delete(d, k)) = Len(d) - 1
<1>1. Slot(d, k) \in 1..Len(d)
  BY SlotOfKey
<1>2. d \in Seq([key : K, value : V])
  BY DEF Dict
<1>3. /\ Delete(d, k) \in Dict(K, V)
      /\ Len(Delete(d, k)) = Len(d) - 1
      /\ \A i \in 1..(Len(d) - 1) :
           Delete(d, k)[i] = d[IF i < Slot(d, k) THEN i ELSE i + 1]
  BY <1>1, <1>2, RemoveAtElements DEF Delete, Dict, SequenceOps!RemoveAt
<1>4. DOMAIN d = 1..Len(d) /\ DOMAIN Delete(d, k) = 1..(Len(d) - 1)
  BY <1>3, Slots
<1>5. ASSUME NEW i \in 1..(Len(d) - 1)
      PROVE  \E j \in 1..Len(d) : Delete(d, k)[i] = d[j]
  <2>1. Len(d) \in Nat /\ Slot(d, k) \in Nat
    BY <1>1, Slots
  <2>2. (IF i < Slot(d, k) THEN i ELSE i + 1) \in 1..Len(d)
    BY <2>1
  <2>3. QED
    BY <1>3, <2>2
<1>6. QED
  BY <1>3, <1>4, <1>5 DEF HasEntry

\* No key is in two slots.
UniqueKeys(d) == \A i, j \in DOMAIN d : d[i].key = d[j].key => i = j

\* Storing makes k a key, leaves the others, and replaces the entry of k in place when
\* it has one.
LEMMA StoreKeys ==
  ASSUME NEW K, NEW V, NEW d \in Dict(K, V), NEW k \in K, NEW v \in V, UniqueKeys(d)
  PROVE  /\ UniqueKeys(Store(d, k, v))
         /\ Keys(Store(d, k, v)) = Keys(d) \cup {k}
         /\ \A i \in DOMAIN Store(d, k, v) :
              Store(d, k, v)[i].key = k => Store(d, k, v)[i].value = v
<1> DEFINE entry == [key |-> k, value |-> v]
<1>1. Len(d) \in Nat /\ DOMAIN d = 1..Len(d)
  BY Slots
<1>2. CASE k \in Keys(d)
  <2>1. PICK n \in DOMAIN d : n = Slot(d, k) /\ d[n].key = k
    <3>1. Slot(d, k) \in 1..Len(d) /\ d[Slot(d, k)] = [key |-> k, value |-> Value(d, k)]
      BY <1>2, SlotOfKey
    <3>2. QED
      BY <1>1, <3>1
  <2>2. d[n].key = k
    BY <2>1
  <2>3. PICK new : new = Store(d, k, v)
    OBVIOUS
  <2>4. /\ new = [d EXCEPT ![n] = entry]
        /\ DOMAIN new = DOMAIN d
        /\ Len(new) = Len(d)
        /\ new[n] = entry
        /\ \A i \in DOMAIN d : i # n => new[i] = d[i]
    BY <1>2, <2>1, <2>3, ExceptSeq DEF Store, Dict
  <2>5. \A i \in DOMAIN d : new[i].key = d[i].key
    BY <2>2, <2>4
  <2>6. Keys(new) = Keys(d)
    BY <2>4, <2>5 DEF Keys
  <2>7. \A i \in DOMAIN d : new[i].key = k => i = n
    BY <2>2, <2>5 DEF UniqueKeys
  <2>8. UniqueKeys(new)
    BY <2>4, <2>5 DEF UniqueKeys
  <2>9. \A i \in DOMAIN new : new[i].key = k => new[i].value = v
    BY <2>4, <2>7
  <2>10. Keys(new) = Keys(d) \cup {k}
    BY <1>2, <2>6
  <2>11. QED
    BY <2>3, <2>4, <2>8, <2>9, <2>10
<1>3. CASE k \notin Keys(d)
  <2>1. PICK new : new = Store(d, k, v)
    OBVIOUS
  <2>2. /\ Len(new) = Len(d) + 1
        /\ DOMAIN new = 1..(Len(d) + 1)
        /\ \A i \in 1..Len(d) : new[i] = d[i]
        /\ new[Len(d) + 1] = entry
    BY <1>3, <2>1, AppendProperties DEF Store, Dict
  <2>3. 1..(Len(d) + 1) = 1..Len(d) \cup {Len(d) + 1}
    BY <1>1
  <2>4. \A i \in 1..Len(d) : d[i].key # k
    BY <1>1, <1>3 DEF Keys
  <2>5. Keys(new) = Keys(d) \cup {k}
    BY <1>1, <2>2, <2>3 DEF Keys
  <2>6. \A i \in DOMAIN new : new[i].key = k => new[i].value = v
    BY <2>2, <2>3, <2>4
  <2>7. UniqueKeys(new)
    BY <1>1, <2>2, <2>3, <2>4 DEF UniqueKeys
  <2>8. QED
    BY <1>3, <2>1, <2>5, <2>6, <2>7
<1>4. QED
  BY <1>2, <1>3

\* Deleting a key leaves the others, each in one slot.
LEMMA DeleteKeys ==
  ASSUME NEW K, NEW V, NEW d \in Dict(K, V), NEW k \in Keys(d), UniqueKeys(d)
  PROVE  /\ UniqueKeys(Delete(d, k))
         /\ Keys(d) \ {k} \subseteq Keys(Delete(d, k))
<1>1. Len(d) \in Nat /\ DOMAIN d = 1..Len(d) /\ d \in Seq([key : K, value : V])
  BY Slots DEF Dict
<1>2. PICK n \in 1..Len(d) : n = Slot(d, k) /\ d[n].key = k
  <2>1. Slot(d, k) \in 1..Len(d) /\ d[Slot(d, k)] = [key |-> k, value |-> Value(d, k)]
    BY SlotOfKey
  <2>2. QED
    BY <2>1
<1>3. PICK new : new = Delete(d, k)
  OBVIOUS
<1>4. /\ new \in Seq([key : K, value : V])
      /\ Len(new) = Len(d) - 1
      /\ \A i \in 1..(Len(d) - 1) : new[i] = d[IF i < n THEN i ELSE i + 1]
  BY <1>1, <1>2, <1>3, RemoveAtElements DEF Delete, SequenceOps!RemoveAt
<1>5. DOMAIN new = 1..(Len(d) - 1)
  BY <1>4, LenProperties
<1>6. UniqueKeys(new)
  <2>1. SUFFICES ASSUME NEW i \in DOMAIN new, NEW j \in DOMAIN new, new[i].key = new[j].key
                 PROVE  i = j
    BY DEF UniqueKeys
  <2>2. PICK a \in Int : a = IF i < n THEN i ELSE i + 1
    BY <1>5
  <2>3. PICK b \in Int : b = IF j < n THEN j ELSE j + 1
    BY <1>5
  <2>4. a \in 1..Len(d) /\ b \in 1..Len(d)
    BY <1>1, <1>5, <2>2, <2>3
  <2>5. d[a].key = d[b].key
    BY <1>4, <1>5, <2>1, <2>2, <2>3
  <2>6. a = b
    BY <1>1, <2>4, <2>5 DEF UniqueKeys
  <2>7. QED
    BY <1>5, <2>2, <2>3, <2>6
<1>7. Keys(d) \ {k} \subseteq Keys(new)
  <2>1. SUFFICES ASSUME NEW j \in 1..Len(d), d[j].key # k
                 PROVE  \E i \in DOMAIN new : new[i] = d[j]
    BY <1>1 DEF Keys
  <2>2. j # n
    BY <1>2, <2>1
  <2>3. CASE j < n
    BY <1>1, <1>4, <1>5, <2>3
  <2>4. CASE j > n
    <3>1. j - 1 \in 1..(Len(d) - 1) /\ ~(j - 1 < n) /\ (j - 1) + 1 = j
      BY <1>1, <2>4
    <3>2. QED
      BY <1>4, <1>5, <3>1
  <2>5. QED
    BY <2>2, <2>3, <2>4
<1>8. QED
  BY <1>3, <1>6, <1>7
-------------------------------------------------------------------------------
(* The inductive invariant.                                                *)

\* The next step of a worker between its get and its store.
Holding == {"store", "test", "pick", "next", "evict"}

\* A bucket never falls further than the clock can have run back: what is left, less the
\* time it was left at, only sinks when a token is there to be taken.
Floor ==
  /\ \A i \in DOMAIN buckets :
       /\ buckets[i].value.units - buckets[i].value.at >= -MaxClock
       /\ buckets[i].value.units <= Full
  /\ \A w \in Worker : units[w] - now[w] >= -MaxClock

\* What the registers of a worker hold at each step.
Registers ==
  \A w \in Worker :
    /\ pc[w] # "idle" => peer[w] \in Peer
    /\ pc[w] = "idle" => peer[w] = None
    /\ pc[w] \in {"idle", "get"} => units[w] = 0 /\ wait[w] = 0
    /\ pc[w] \in {"pick", "next"} => Len(buckets) >= 1

\* A peer that two workers are at is excused.
Alone ==
  \A v, w \in Worker :
    v # w /\ peer[v] = peer[w] /\ peer[w] # None => peer[w] \in excused

\* Every worker but one that was about to store may have measured before it.
Room ==
  Len(buckets) + Cardinality({w \in Worker : pc[w] = "store"})
    <= BucketsMax + Cardinality(Worker) - 1

\* With u units left at time t, the requests g can have been granted: each took a token
\* out of a bucket that was full at most, and that refilled from then on.
Left(g, u, t) ==
  \A i \in DOMAIN g : u + (Len(g) - i + 1) * Grain <= Full + (t - g[i])

\* Those u units are all: over some stretch up to time t the requests g drew a whole burst
\* and the rate but for them.
Drawn(g, u, t) ==
  \E i \in DOMAIN g : u + (Len(g) - i + 1) * Grain >= Full + (t - g[i])

\* The requests g are a burst and the rate, over any stretch.
Spaced(g) ==
  \A i, j \in DOMAIN g : i <= j => (j - i + 1) * Grain <= Full + (g[j] - g[i])

\* A peer's bucket, and the worker that holds it, account for every request granted, and
\* keep the promise made; a peer without a bucket has not been answered yet.
Accounted(p) ==
  /\ p \notin Keys(buckets) => granted[p] = <<>> /\ promised[p] = 0
  /\ \A i \in DOMAIN buckets :
       LET held == buckets[i].value
       IN  buckets[i].key = p =>
             /\ Left(granted[p], held.units, held.at)
             /\ Drawn(granted[p], held.units, held.at)
             /\ promised[p] > 0 => held.units + (promised[p] - held.at) >= Grain
  /\ \A w \in Worker :
       peer[w] = p /\ pc[w] \in Holding =>
         /\ wait[w] = 0 =>
              /\ units[w] >= 0 /\ units[w] + Grain <= Full
              /\ Left(granted[p], units[w] + Grain, now[w])
              /\ units[w] + Grain = Full \/ Drawn(granted[p], units[w] + Grain, now[w])
         /\ wait[w] > 0 =>
              /\ units[w] + wait[w] = Grain
              /\ Left(granted[p], units[w], now[w])
              /\ Drawn(granted[p], units[w], now[w])
         /\ promised[p] > 0 /\ now[w] >= promised[p] => wait[w] = 0
  /\ Spaced(granted[p])

\* The inductive invariant.
IInv ==
  /\ TypeOK
  /\ UniqueKeys(buckets)
  /\ Floor /\ Registers /\ Alone /\ Room
  /\ \A p \in Peer \ excused : Accounted(p)

-------------------------------------------------------------------------------

\* A burst is at least a token.
LEMMA FullFacts == Full \in Nat /\ Grain \in Nat /\ 1 <= Grain /\ Grain <= Full
<1>1. PerMinute \in Nat /\ 1 <= PerMinute /\ Grain \in Nat /\ 1 <= Grain
  BY RateLimiterAssumption
<1>2. PerMinute * Grain \in Nat
  BY <1>1
<1>3. PerMinute * Grain = (PerMinute - 1) * Grain + Grain
  BY <1>1
<1>4. (PerMinute - 1) * Grain \in Nat
  <2>1. PerMinute - 1 \in Nat
    BY <1>1
  <2>2. QED
    BY <1>1, <2>1
<1>5. QED
  BY <1>1, <1>2, <1>3, <1>4 DEF Full

\* The buckets are a dictionary, and the entries of one are buckets.
LEMMA BucketsAreDict ==
  ASSUME TypeOK
  PROVE  /\ buckets \in Dict(Peer, Bucket)
         /\ DOMAIN buckets = 1..Len(buckets)
         /\ \A i \in DOMAIN buckets : buckets[i] \in [key : Peer, value : Bucket]
<1>1. buckets \in Dict(Peer, Bucket)
  BY DEF TypeOK, Dict
<1>2. QED
  BY <1>1, Slots

\* The requests of a peer are times.
LEMMA GrantedAreTimes ==
  ASSUME TypeOK, NEW p \in Peer
  PROVE  /\ granted[p] \in Seq(0..MaxClock)
         /\ Len(granted[p]) \in Nat
         /\ DOMAIN granted[p] = 1..Len(granted[p])
         /\ \A i \in DOMAIN granted[p] : granted[p][i] \in 0..MaxClock
<1>1. granted[p] \in Seq(0..MaxClock)
  BY DEF TypeOK
<1>2. QED
  BY <1>1, ElementOfSeq, LenProperties

\* A peer is accounted for after a step that leaves its bucket, if it had one, its
\* requests and the worker that holds it alone.
LEMMA Untouched ==
  ASSUME NEW p \in Peer, Accounted(p),
         granted'[p] = granted[p], promised'[p] = promised[p],
         p \in Keys(buckets) => p \in Keys(buckets'),
         \A i \in DOMAIN buckets' : buckets'[i].key = p => HasEntry(buckets, buckets'[i]),
         \A v \in Worker :
           peer'[v] = p /\ pc'[v] \in Holding =>
             /\ peer[v] = p /\ pc[v] \in Holding
             /\ units'[v] = units[v] /\ wait'[v] = wait[v] /\ now'[v] = now[v]
  PROVE  Accounted(p)'
<1>1. p \notin Keys(buckets') => granted'[p] = <<>> /\ promised'[p] = 0
  BY DEF Accounted
<1>2. ASSUME NEW i \in DOMAIN buckets', buckets'[i].key = p
      PROVE  LET held == buckets'[i].value
             IN  /\ Left(granted'[p], held.units, held.at)
                 /\ Drawn(granted'[p], held.units, held.at)
                 /\ promised'[p] > 0 => held.units + (promised'[p] - held.at) >= Grain
  <2>1. PICK j \in DOMAIN buckets : buckets[j] = buckets'[i]
    BY <1>2 DEF HasEntry
  <2>2. QED
    BY <1>2, <2>1 DEF Accounted
<1>3. ASSUME NEW w \in Worker, peer'[w] = p, pc'[w] \in Holding
      PROVE  /\ wait'[w] = 0 =>
                  /\ units'[w] >= 0 /\ units'[w] + Grain <= Full
                  /\ Left(granted'[p], units'[w] + Grain, now'[w])
                  /\ \/ units'[w] + Grain = Full
                     \/ Drawn(granted'[p], units'[w] + Grain, now'[w])
             /\ wait'[w] > 0 =>
                  /\ units'[w] + wait'[w] = Grain
                  /\ Left(granted'[p], units'[w], now'[w])
                  /\ Drawn(granted'[p], units'[w], now'[w])
             /\ promised'[p] > 0 /\ now'[w] >= promised'[p] => wait'[w] = 0
  BY <1>3 DEF Accounted
<1>4. Spaced(granted'[p])
  BY DEF Accounted
<1>5. QED
  BY <1>1, <1>2, <1>3, <1>4 DEF Accounted

\* What a worker reads, refilled, is in range and accounts for the requests granted; it
\* is a token at least when the peer comes back as it was told, and a burst unless the
\* requests granted drew on it.
LEMMA Refill ==
  ASSUME IInv, NEW w \in Worker, pc[w] = "get"
  PROVE  LET u == Refilled(w)
             p == peer[w]
         IN  /\ u \in Int /\ u <= Full /\ u - now[w] >= -MaxClock
             /\ p \notin excused => Left(granted[p], u, now[w])
             /\ p \notin excused => u = Full \/ Drawn(granted[p], u, now[w])
             /\ p \notin excused /\ promised[p] > 0 /\ now[w] >= promised[p] => u >= Grain
<1> DEFINE p == peer[w]
           held == IF p \in Keys(buckets) THEN Value(buckets, p)
                   ELSE [units |-> Full, at |-> now[w]]
           sum == held.units + (now[w] - held.at)
           u == Refilled(w)
<1> HIDE DEF p
<1>1. /\ p \in Peer /\ p = peer[w]
      /\ now[w] \in 0..MaxClock /\ MaxClock \in Nat
      /\ promised[p] \in Nat
  <2>1. peer[w] \in Peer
    BY DEF IInv, Registers
  <2>2. promised[peer[w]] \in 0..(Grain + 2 * MaxClock)
    BY <2>1 DEF IInv, TypeOK
  <2>3. MaxClock \in Nat /\ Grain \in Nat
    BY RateLimiterAssumption
  <2>4. QED
    BY <2>1, <2>2, <2>3 DEF IInv, TypeOK, p
<1>2. Full \in Nat /\ Grain \in Nat /\ 1 <= Grain /\ Grain <= Full
  BY FullFacts
<1>3. u = IF sum < Full THEN sum ELSE Full
  BY <1>1 DEF Refilled
<1>4. CASE p \in Keys(buckets)
  <2>1. PICK n \in DOMAIN buckets : buckets[n] = [key |-> p, value |-> Value(buckets, p)]
    <3>1. Slot(buckets, p) \in 1..Len(buckets)
             /\ buckets[Slot(buckets, p)] = [key |-> p, value |-> Value(buckets, p)]
      BY <1>4, BucketsAreDict, SlotOfKey DEF IInv
    <3>2. QED
      BY <3>1, BucketsAreDict DEF IInv
  <2>2. held = buckets[n].value /\ buckets[n].key = p
    BY <1>4, <2>1
  <2>3. held.units \in Int /\ held.at \in 0..MaxClock
    BY <2>2, BucketsAreDict DEF IInv, Bucket
  <2>4. held.units - held.at >= -MaxClock
    BY <2>2 DEF IInv, Floor
  <2>5. sum \in Int /\ sum - now[w] >= -MaxClock
    BY <1>1, <2>3, <2>4
  <2>6. u \in Int /\ u <= Full /\ u <= sum /\ u - now[w] >= -MaxClock
    BY <1>1, <1>2, <1>3, <2>5
  <2>7. ASSUME p \notin excused
        PROVE  Left(granted[p], u, now[w])
    <3>1. Left(granted[p], held.units, held.at)
      BY <1>1, <2>2, <2>7 DEF IInv, Accounted
    <3>2. SUFFICES ASSUME NEW i \in DOMAIN granted[p]
                   PROVE  u + (Len(granted[p]) - i + 1) * Grain <= Full + (now[w] - granted[p][i])
      BY DEF Left
    <3>3. PICK cost \in Int : cost = (Len(granted[p]) - i + 1) * Grain
      BY <1>1, <1>2, GrantedAreTimes DEF IInv
    <3>4. held.units + cost <= Full + (held.at - granted[p][i])
      BY <3>1, <3>3 DEF Left
    <3>5. granted[p][i] \in Int
      BY <1>1, GrantedAreTimes DEF IInv
    <3>6. u + cost <= Full + (now[w] - granted[p][i])
      BY <1>1, <1>2, <2>3, <2>6, <3>4, <3>5
    <3>7. QED
      BY <3>3, <3>6
  <2>8. ASSUME p \notin excused, promised[p] > 0, now[w] >= promised[p]
        PROVE  u >= Grain
    <3>1. held.units + (promised[p] - held.at) >= Grain
      BY <1>1, <2>2, <2>8 DEF IInv, Accounted
    <3>2. sum >= Grain
      BY <1>1, <1>2, <2>3, <2>8, <3>1
    <3>3. QED
      BY <1>2, <1>3, <2>5, <3>2
  <2>9. ASSUME p \notin excused, u # Full
        PROVE  Drawn(granted[p], u, now[w])
    <3>1. u = held.units + (now[w] - held.at)
      BY <1>3, <2>9
    <3>2. PICK i \in DOMAIN granted[p] :
            held.units + (Len(granted[p]) - i + 1) * Grain >= Full + (held.at - granted[p][i])
      BY <1>1, <2>2, <2>9 DEF IInv, Accounted, Drawn
    <3>3. PICK cost \in Int : cost = (Len(granted[p]) - i + 1) * Grain
      BY <1>1, <1>2, GrantedAreTimes DEF IInv
    <3>4. granted[p][i] \in Int
      BY <1>1, GrantedAreTimes DEF IInv
    <3>5. held.units + cost >= Full + (held.at - granted[p][i])
      BY <3>2, <3>3
    <3>6. u + cost >= Full + (now[w] - granted[p][i])
      BY <1>1, <1>2, <2>3, <2>6, <3>1, <3>4, <3>5
    <3>7. QED
      BY <3>3, <3>6 DEF Drawn
  <2>10. QED
    BY <1>1, <2>6, <2>7, <2>8, <2>9
<1>5. CASE p \notin Keys(buckets)
  <2>1. u = Full
    BY <1>1, <1>2, <1>3, <1>5
  <2>2. p \notin excused => granted[p] = <<>> /\ promised[p] = 0
    BY <1>1, <1>5 DEF IInv, Accounted
  <2>3. p \notin excused => Left(granted[p], u, now[w])
    BY <2>2 DEF Left
  <2>4. QED
    BY <1>1, <1>2, <2>1, <2>2, <2>3
<1>6. QED
  BY <1>4, <1>5

\* What a request leaves of a peer's account once it is stored: a token less to be
\* taken for every request granted, when this one was, and all of them drawn.
LEMMA Granting ==
  ASSUME TypeOK, NEW p \in Peer, Accounted(p), NEW u \in Int, NEW t \in 0..MaxClock,
         0 <= u, u + Grain <= Full, Left(granted[p], u + Grain, t),
         u + Grain = Full \/ Drawn(granted[p], u + Grain, t),
         NEW g, g = Append(granted[p], t)
  PROVE  /\ Left(g, u, t)
         /\ Drawn(g, u, t)
         /\ Spaced(g)
<1> DEFINE n == Len(granted[p])
<1>1. /\ n \in Nat /\ t \in Int
      /\ DOMAIN granted[p] = 1..n
      /\ \A i \in 1..n : granted[p][i] \in Int
      /\ Full \in Nat /\ Grain \in Nat /\ 1 <= Grain /\ Grain <= Full
  BY GrantedAreTimes, FullFacts, RateLimiterAssumption
<1>2. /\ Len(g) = n + 1
      /\ DOMAIN g = 1..(n + 1)
      /\ \A i \in 1..n : g[i] = granted[p][i]
      /\ g[n + 1] = t
  BY GrantedAreTimes, AppendProperties
<1> HIDE DEF n
<1>3. ASSUME NEW i \in 1..(n + 1)
      PROVE  u + (n + 1 - i + 1) * Grain <= Full + (t - g[i])
  <2>1. CASE i = n + 1
    <3>1. (n + 1 - i + 1) * Grain = Grain
      BY <1>1, <2>1
    <3>2. QED
      BY <1>1, <1>2, <2>1, <3>1
  <2>2. CASE i # n + 1
    <3>1. i \in 1..n
      BY <1>1, <2>2
    <3>2. u + Grain + (n - i + 1) * Grain <= Full + (t - granted[p][i])
      BY <1>1, <3>1 DEF Left, n
    <3>3. (n + 1 - i + 1) * Grain = (n - i + 1) * Grain + Grain
      BY <1>1, <3>1
    <3>4. PICK cost \in Int : cost = (n - i + 1) * Grain
      BY <1>1, <3>1
    <3>5. g[i] \in Int /\ g[i] = granted[p][i]
      BY <1>1, <1>2, <3>1
    <3>6. QED
      BY <1>1, <3>2, <3>3, <3>4, <3>5
  <2>3. QED
    BY <2>1, <2>2
<1>4. Left(g, u, t)
  <2> SUFFICES ASSUME NEW i \in 1..(n + 1)
               PROVE  u + (Len(g) - i + 1) * Grain <= Full + (t - g[i])
    BY <1>2 DEF Left
  <2>1. Len(g) - i + 1 = n + 1 - i + 1
    BY <1>1, <1>2
  <2>2. QED
    BY <1>3, <2>1
<1>5. Spaced(g)
  <2> SUFFICES ASSUME NEW i \in 1..(n + 1), NEW j \in 1..(n + 1), i <= j
               PROVE  (j - i + 1) * Grain <= Full + (g[j] - g[i])
    BY <1>2 DEF Spaced
  <2>1. CASE j = n + 1
    <3>1. PICK cost \in Int : cost = (n + 1 - i + 1) * Grain
      BY <1>1
    <3>2. u + cost <= Full + (t - g[i])
      BY <1>3, <3>1
    <3>3. g[i] \in Int
      BY <1>1, <1>2, i \in 1..n \/ i = n + 1
    <3>4. QED
      BY <1>1, <1>2, <2>1, <3>1, <3>2, <3>3
  <2>2. CASE j # n + 1
    <3>1. i \in 1..n /\ j \in 1..n
      BY <1>1, <2>2
    <3>2. (j - i + 1) * Grain <= Full + (granted[p][j] - granted[p][i])
      BY <1>1, <3>1 DEF Accounted, Spaced
    <3>3. QED
      BY <1>2, <3>1, <3>2
  <2>3. QED
    BY <2>1, <2>2
<1>6. Drawn(g, u, t)
  <2>1. ASSUME NEW i \in 1..(n + 1), u + (n + 1 - i + 1) * Grain >= Full + (t - g[i])
        PROVE  Drawn(g, u, t)
    <3>1. Len(g) - i + 1 = n + 1 - i + 1
      BY <1>1, <1>2
    <3>2. i \in DOMAIN g /\ u + (Len(g) - i + 1) * Grain >= Full + (t - g[i])
      BY <1>2, <2>1, <3>1
    <3>3. QED
      BY <3>2 DEF Drawn
  <2>2. CASE u + Grain = Full
    <3>1. PICK i \in 1..(n + 1) : i = n + 1 /\ n + 1 - i + 1 = 1
      BY <1>1
    <3>2. (n + 1 - i + 1) * Grain = Grain
      BY <1>1, <3>1
    <3>3. u + Grain >= Full + (t - g[i])
      BY <1>1, <1>2, <2>2, <3>1
    <3>4. QED
      BY <2>1, <3>2, <3>3
  <2>3. CASE Drawn(granted[p], u + Grain, t)
    <3>1. PICK i \in 1..n : u + Grain + (n - i + 1) * Grain >= Full + (t - granted[p][i])
      BY <1>1, <2>3 DEF Drawn, n
    <3>2. i \in 1..(n + 1) /\ (n + 1 - i + 1) * Grain = (n - i + 1) * Grain + Grain
      BY <1>1
    <3>3. PICK cost \in Int : cost = (n - i + 1) * Grain
      BY <1>1
    <3>4. g[i] \in Int /\ g[i] = granted[p][i]
      BY <1>1, <1>2
    <3>5. u + (cost + Grain) >= Full + (t - g[i])
      BY <1>1, <3>1, <3>3, <3>4
    <3>6. QED
      BY <2>1, <3>2, <3>3, <3>5
  <2>4. QED
    BY <2>2, <2>3
<1>7. QED
  BY <1>4, <1>5, <1>6

\* The store that ends a request, into the buckets as they are or less an evicted one.
LEMMA StoreStep ==
  ASSUME IInv, NEW w \in Worker, pc[w] \in Holding,
         NEW dict \in Dict(Peer, Bucket), UniqueKeys(dict),
         \A e : HasEntry(dict, e) => HasEntry(buckets, e),
         StoreInto(w, dict),
         excused \subseteq excused', excused' \subseteq Peer,
         Keys(buckets) \subseteq Keys(dict) \cup excused'
  PROVE  /\ TypeOK' /\ UniqueKeys(buckets)' /\ Floor' /\ Registers' /\ Alone'
         /\ (\A p \in Peer \ excused : Accounted(p))'
<1> DEFINE p == peer[w]
           new == [units |-> units[w], at |-> now[w]]
<1>1. /\ p \in Peer
      /\ units[w] \in (-MaxClock)..Full /\ now[w] \in 0..MaxClock
      /\ wait[w] \in 0..(Grain + MaxClock)
      /\ MaxClock \in Nat /\ MaxRequests \in Nat
      /\ Full \in Nat /\ Grain \in Nat /\ 1 <= Grain /\ Grain <= Full
  BY FullFacts, RateLimiterAssumption DEF IInv, TypeOK, Registers, Holding
<1>2. new \in Bucket
  BY <1>1 DEF Bucket
<1>3. buckets' = Store(dict, p, new)
  BY DEF StoreInto
<1>4. /\ buckets' \in Dict(Peer, Bucket)
      /\ \A e : HasEntry(buckets', e) => HasEntry(dict, e) \/ e = [key |-> p, value |-> new]
      /\ 1 <= Len(buckets')
  BY <1>1, <1>2, <1>3, StoreEntries
<1>5. /\ UniqueKeys(buckets')
      /\ Keys(buckets') = Keys(dict) \cup {p}
      /\ \A i \in DOMAIN buckets' : buckets'[i].key = p => buckets'[i].value = new
  BY <1>1, <1>2, <1>3, StoreKeys
<1>6. /\ pc' = [pc EXCEPT ![w] = "idle"]
      /\ peer' = [peer EXCEPT ![w] = None]
      /\ now' = [now EXCEPT ![w] = 0]
      /\ units' = [units EXCEPT ![w] = 0]
      /\ wait' = [wait EXCEPT ![w] = 0]
      /\ size' = [size EXCEPT ![w] = 0]
      /\ victim' = [victim EXCEPT ![w] = None]
      /\ clock' = clock /\ asked' = asked
  BY DEF StoreInto, Forget
<1>7. \/ /\ wait[w] = 0
         /\ granted' = [granted EXCEPT ![p] = Append(granted[p], now[w])]
         /\ promised' = [promised EXCEPT ![p] = 0]
      \/ /\ wait[w] > 0
         /\ promised' = [promised EXCEPT ![p] = now[w] + wait[w]]
         /\ granted' = granted
  BY DEF StoreInto
<1>8. /\ granted \in [Peer -> Seq(0..MaxClock)]
      /\ promised \in [Peer -> 0..(Grain + 2 * MaxClock)]
  BY DEF IInv, TypeOK
<1> HIDE DEF p, new
<1>9. TypeOK'
  <2>1. buckets' \in Seq([key : Peer, value : Bucket])
    BY <1>4 DEF Dict
  <2>2. granted' \in [Peer -> Seq(0..MaxClock)]
    <3>1. Append(granted[p], now[w]) \in Seq(0..MaxClock)
      BY <1>1, <1>8, AppendProperties
    <3>2. QED
      BY <1>1, <1>7, <1>8, <3>1
  <2>3. promised' \in [Peer -> 0..(Grain + 2 * MaxClock)]
    <3>1. now[w] + wait[w] \in 0..(Grain + 2 * MaxClock) /\ 0 \in 0..(Grain + 2 * MaxClock)
      BY <1>1
    <3>2. QED
      BY <1>1, <1>7, <1>8, <3>1
  <2>4. 0 \in 0..MaxClock /\ 0 \in (-MaxClock)..Full /\ 0 \in 0..(Grain + MaxClock)
    BY <1>1
  <2>5. QED
    BY <1>6, <2>1, <2>2, <2>3, <2>4 DEF IInv, TypeOK
<1>10. Floor'
  <2>1. ASSUME NEW i \in DOMAIN buckets'
        PROVE  /\ buckets'[i].value.units - buckets'[i].value.at >= -MaxClock
               /\ buckets'[i].value.units <= Full
    <3>1. HasEntry(buckets, buckets'[i]) \/ buckets'[i] = [key |-> p, value |-> new]
      BY <1>4 DEF HasEntry
    <3>2. CASE HasEntry(buckets, buckets'[i])
      BY <3>2 DEF IInv, Floor, HasEntry
    <3>3. CASE buckets'[i] = [key |-> p, value |-> new]
      <4>1. units[w] - now[w] >= -MaxClock /\ units[w] <= Full
        BY <1>1 DEF IInv, Floor
      <4>2. QED
        BY <3>3, <4>1 DEF new
    <3>4. QED
      BY <3>1, <3>2, <3>3
  <2>2. \A v \in Worker : units'[v] - now'[v] >= -MaxClock
    BY <1>1, <1>6 DEF IInv, TypeOK, Floor
  <2>3. QED
    BY <2>1, <2>2 DEF Floor
<1>11. Registers'
  BY <1>4, <1>6 DEF IInv, TypeOK, Registers
<1>12. Alone'
  BY <1>6 DEF IInv, TypeOK, Alone
<1>13. ASSUME NEW q \in Peer, q \notin excused'
       PROVE  Accounted(q)'
  <2>1. Accounted(q) /\ q \notin excused
    BY <1>13 DEF IInv
  <2>2. CASE q # p
    <3>1. granted'[q] = granted[q] /\ promised'[q] = promised[q]
      BY <1>7, <1>8, <2>2
    <3>2. q \in Keys(buckets) => q \in Keys(buckets')
      BY <1>5, <1>13
    <3>3. ASSUME NEW i \in DOMAIN buckets', buckets'[i].key = q
          PROVE  HasEntry(buckets, buckets'[i])
      <4>1. HasEntry(buckets', buckets'[i])
        BY DEF HasEntry
      <4>2. buckets'[i] # [key |-> p, value |-> new]
        BY <2>2, <3>3
      <4>3. QED
        BY <1>4, <4>1, <4>2
    <3>4. ASSUME NEW v \in Worker, peer'[v] = q, pc'[v] \in Holding
          PROVE  /\ peer[v] = q /\ pc[v] \in Holding
                 /\ units'[v] = units[v] /\ wait'[v] = wait[v] /\ now'[v] = now[v]
      BY <1>6, <3>4 DEF IInv, TypeOK, Holding
    <3>5. QED
      BY <2>1, <3>1, <3>2, <3>3, <3>4, Untouched
  <2>3. CASE q = p
    <3>1. ASSUME NEW v \in Worker, peer'[v] = p
          PROVE  FALSE
      <4>1. v # w
        BY <1>1, <1>6, <3>1, RateLimiterAssumption DEF IInv, TypeOK
      <4>2. peer[v] = peer[w] /\ peer[w] # None
        BY <1>1, <1>6, <3>1, <4>1, RateLimiterAssumption DEF p
      <4>3. QED
        BY <2>1, <2>3, <4>1, <4>2 DEF IInv, Alone, p
    <3>2. q \in Keys(buckets')
      BY <1>5, <2>3
    <3>3. CASE wait[w] = 0
      <4>1. /\ units[w] >= 0 /\ units[w] + Grain <= Full
            /\ Left(granted[p], units[w] + Grain, now[w])
            /\ units[w] + Grain = Full \/ Drawn(granted[p], units[w] + Grain, now[w])
        BY <2>1, <2>3, <3>3 DEF Accounted, p
      <4>2. granted'[p] = Append(granted[p], now[w]) /\ promised'[p] = 0
        BY <1>1, <1>7, <1>8, <3>3
      <4>3. /\ Left(granted'[p], units[w], now[w]) /\ Drawn(granted'[p], units[w], now[w])
            /\ Spaced(granted'[p])
        <5>1. Accounted(p) /\ TypeOK /\ units[w] \in Int /\ 0 <= units[w]
          BY <1>1, <2>1, <2>3, <4>1 DEF IInv
        <5>2. QED
          BY <1>1, <4>1, <4>2, <5>1, Granting
      <4>4. QED
        BY <1>5, <2>3, <3>1, <3>2, <4>2, <4>3 DEF Accounted, new
    <3>4. CASE wait[w] > 0
      <4>1. /\ units[w] + wait[w] = Grain
            /\ Left(granted[p], units[w], now[w]) /\ Drawn(granted[p], units[w], now[w])
        BY <2>1, <2>3, <3>4 DEF Accounted, p
      <4>2. granted'[p] = granted[p] /\ promised'[p] = now[w] + wait[w]
        BY <1>1, <1>7, <1>8, <3>4
      <4>3. units[w] + (promised'[p] - now[w]) >= Grain
        BY <1>1, <4>1, <4>2
      <4>4. Spaced(granted'[p])
        BY <2>1, <2>3, <4>2 DEF Accounted
      <4>5. QED
        BY <1>5, <2>3, <3>1, <3>2, <4>1, <4>2, <4>3, <4>4 DEF Accounted, new
    <3>5. QED
      BY <1>1, <3>3, <3>4
  <2>4. QED
    BY <2>2, <2>3
<1>14. QED
  BY <1>5, <1>9, <1>10, <1>11, <1>12, <1>13

\* The workers about to store a new peer are some of the workers.
Storing == {w \in Worker : pc[w] = "store"}

LEMMA StoringIsFinite ==
  /\ IsFiniteSet(Storing) /\ Cardinality(Storing) \in Nat
  /\ Cardinality(Worker) \in Nat
  /\ Cardinality(Storing) <= Cardinality(Worker)
<1>1. Storing \subseteq Worker /\ IsFiniteSet(Worker)
  BY RateLimiterAssumption DEF Storing
<1>2. QED
  BY <1>1, FS_Subset, FS_CardinalityType

\* A step that neither fills the dict nor adds to the workers about to store.
LEMMA RoomKept ==
  ASSUME Room, Storing' = Storing, Len(buckets) \in Nat, Len(buckets') \in Nat,
         Len(buckets') <= Len(buckets)
  PROVE  Room'
<1>1. Cardinality(Storing) \in Nat /\ Cardinality(Worker) \in Nat /\ BucketsMax \in Nat
  BY StoringIsFinite, RateLimiterAssumption
<1>2. Len(buckets) + Cardinality(Storing) <= BucketsMax + Cardinality(Worker) - 1
  BY DEF Room, Storing
<1>3. Len(buckets') + Cardinality(Storing') <= BucketsMax + Cardinality(Worker) - 1
  BY <1>1, <1>2
<1>4. QED
  BY <1>3 DEF Room, Storing

-------------------------------------------------------------------------------

LEMMA InitIInv == Init => IInv
<1> SUFFICES ASSUME Init PROVE IInv
  OBVIOUS
<1>1. /\ MaxClock \in Nat /\ MaxRequests \in Nat /\ BucketsMax \in Nat /\ 1 <= BucketsMax
      /\ Full \in Nat /\ Grain \in Nat
  BY FullFacts, RateLimiterAssumption
<1>2. TypeOK
  <2>1. 0 \in 0..MaxClock /\ 0 \in (-MaxClock)..Full /\ 0 \in 0..(Grain + MaxClock)
          /\ 0 \in 0..(Grain + 2 * MaxClock) /\ 0 \in 0..MaxRequests
    BY <1>1
  <2>2. buckets \in Seq([key : Peer, value : Bucket]) /\ <<>> \in Seq(0..MaxClock)
    BY DEF Init
  <2>3. QED
    BY <2>1, <2>2 DEF Init, TypeOK
<1>3. DOMAIN buckets = {} /\ Len(buckets) = 0 /\ Keys(buckets) = {}
  BY DEF Init, Keys
<1>4. UniqueKeys(buckets) /\ Floor
  BY <1>1, <1>3 DEF Init, UniqueKeys, Floor
<1>5. Registers /\ Alone
  BY DEF Init, Registers, Alone
<1>6. Room
  <2>1. Storing = {}
    BY DEF Init, Storing
  <2>2. Cardinality(Storing) = 0
    BY <2>1, FS_EmptySet
  <2>3. Cardinality(Worker) \in Nat
    BY StoringIsFinite
  <2>4. QED
    BY <1>1, <1>3, <2>2, <2>3 DEF Room, Storing
<1>7. ASSUME NEW p \in Peer
      PROVE  Accounted(p)
  <2>1. granted[p] = <<>> /\ promised[p] = 0 /\ \A w \in Worker : pc[w] = "idle"
    BY DEF Init
  <2>2. QED
    BY <1>3, <2>1 DEF Accounted, Spaced, Holding
<1>8. QED
  BY <1>2, <1>4, <1>5, <1>6, <1>7 DEF IInv

\* The parts of the invariant that a step on the buckets alone could disturb.
LEMMA BucketsKept ==
  ASSUME IInv, UNCHANGED buckets
  PROVE  /\ UniqueKeys(buckets)' /\ Len(buckets) \in Nat
         /\ Keys(buckets') = Keys(buckets)
         /\ \A i \in DOMAIN buckets' : HasEntry(buckets, buckets'[i])
<1>1. Len(buckets) \in Nat
  BY BucketsAreDict, Slots DEF IInv
<1>2. QED
  BY <1>1 DEF IInv, UniqueKeys, Keys, HasEntry

LEMMA NextIInv == IInv /\ [Next]_vars => IInv'
<1> SUFFICES ASSUME IInv, [Next]_vars
             PROVE  IInv'
  OBVIOUS
<1>0. /\ MaxClock \in Nat /\ MaxRequests \in Nat /\ BucketsMax \in Nat /\ 1 <= BucketsMax
      /\ Full \in Nat /\ Grain \in Nat /\ 1 <= Grain /\ Grain <= Full
      /\ None \notin Peer
  BY FullFacts, RateLimiterAssumption
<1>1. CASE UNCHANGED vars
  <2>1. ASSUME NEW p \in Peer, p \notin excused'
        PROVE  Accounted(p)'
    BY <1>1, <2>1, BucketsKept, Untouched DEF IInv, vars, registers, observed
  <2>2. Room'
    BY <1>1, BucketsKept, RoomKept DEF IInv, vars, Storing
  <2>3. QED
    BY <1>1, <2>1, <2>2, BucketsKept
    DEF IInv, TypeOK, Floor, Registers, Alone, vars, registers, observed
<1>2. CASE Tick
  <2>1. ASSUME NEW p \in Peer, p \notin excused'
        PROVE  Accounted(p)'
    BY <1>2, <2>1, BucketsKept, Untouched DEF IInv, Tick, registers, observed
  <2>2. Room'
    BY <1>2, BucketsKept, RoomKept DEF IInv, Tick, Storing
  <2>3. QED
    BY <1>0, <1>2, <2>1, <2>2, BucketsKept
    DEF IInv, TypeOK, Floor, Registers, Alone, Tick, registers, observed
<1>3. ASSUME NEW w \in Worker, NEW q \in Peer, Ask(w, q)
      PROVE  IInv'
  <2>1. ASSUME NEW p \in Peer, p \notin excused'
        PROVE  Accounted(p)'
    <3>1. \A v \in Worker :
            peer'[v] = p /\ pc'[v] \in Holding =>
              /\ peer[v] = p /\ pc[v] \in Holding
              /\ units'[v] = units[v] /\ wait'[v] = wait[v] /\ now'[v] = now[v]
      BY <1>3 DEF IInv, TypeOK, Ask, Holding
    <3>2. Accounted(p)
      BY <1>3, <2>1 DEF IInv, Ask
    <3>3. QED
      BY <1>3, <3>1, <3>2, BucketsKept, Untouched DEF Ask
  <2>2. Room'
    <3>1. Storing' = Storing
      BY <1>3 DEF IInv, TypeOK, Ask, Storing
    <3>2. QED
      BY <1>3, <3>1, BucketsKept, RoomKept DEF IInv, Ask
  <2>3. TypeOK'
    <3>1. excused' \subseteq Peer
      BY <1>3 DEF IInv, TypeOK, Ask
    <3>2. asked' \in 0..MaxRequests
      <4>1. asked \in 0..MaxRequests
        BY DEF IInv, TypeOK
      <4>2. asked < MaxRequests /\ asked' = asked + 1
        BY <1>3 DEF Ask
      <4>3. QED
        BY <1>0, <4>1, <4>2
    <3>3. /\ pc' \in [Worker -> {"idle", "get", "store", "test", "pick", "next", "evict"}]
          /\ peer' \in [Worker -> Peer \cup {None}]
          /\ now' \in [Worker -> 0..MaxClock]
      BY <1>3 DEF IInv, TypeOK, Ask
    <3>4. QED
      BY <1>3, <3>1, <3>2, <3>3 DEF IInv, TypeOK, Ask
  <2>4. Floor'
    <3>1. units[w] = 0 /\ clock \in 0..MaxClock
      BY <1>3 DEF IInv, TypeOK, Registers, Ask
    <3>2. units'[w] - now'[w] >= -MaxClock
      BY <1>0, <1>3, <3>1 DEF IInv, TypeOK, Ask
    <3>3. \A v \in Worker : v # w => units'[v] - now'[v] >= -MaxClock
      BY <1>3 DEF IInv, TypeOK, Floor, Ask
    <3>4. QED
      BY <1>3, <3>2, <3>3 DEF IInv, Floor, Ask
  <2>5. Registers'
    BY <1>3 DEF IInv, TypeOK, Registers, Ask
  <2>6. Alone'
    BY <1>0, <1>3 DEF IInv, TypeOK, Alone, Ask
  <2>7. QED
    BY <1>3, <2>1, <2>2, <2>3, <2>4, <2>5, <2>6, BucketsKept DEF IInv, Ask
<1>4. ASSUME NEW w \in Worker, Get(w)
      PROVE  IInv'
  <2> DEFINE u == Refilled(w)
  <2>1. /\ peer[w] \in Peer /\ wait[w] = 0
        /\ now[w] \in 0..MaxClock
        /\ u \in Int /\ u <= Full /\ u - now[w] >= -MaxClock
    BY <1>4, Refill DEF IInv, TypeOK, Registers, Get
  <2>2. \/ /\ u >= Grain
           /\ units' = [units EXCEPT ![w] = u - Grain]
           /\ wait' = wait
        \/ /\ u < Grain
           /\ units' = [units EXCEPT ![w] = u]
           /\ wait' = [wait EXCEPT ![w] = Grain - u]
    BY <1>4 DEF Get
  <2>3. /\ pc' = [pc EXCEPT ![w] = "test"]
        /\ UNCHANGED <<clock, buckets, peer, now, size, victim, observed>>
    BY <1>4 DEF Get
  <2>4. peer[w] \notin excused =>
          /\ Left(granted[peer[w]], u, now[w])
          /\ u = Full \/ Drawn(granted[peer[w]], u, now[w])
          /\ promised[peer[w]] > 0 /\ now[w] >= promised[peer[w]] => u >= Grain
    BY <1>4, Refill DEF Get
  <2> HIDE DEF u
  <2>5. TypeOK'
    <3>1. u \in (-MaxClock)..Full /\ (u >= Grain => u - Grain \in (-MaxClock)..Full)
            /\ (u < Grain => Grain - u \in 0..(Grain + MaxClock))
      BY <1>0, <2>1
    <3>2. QED
      BY <2>2, <2>3, <3>1 DEF IInv, TypeOK, observed
  <2>6. Floor'
    <3>1. units'[w] - now'[w] >= -MaxClock
      BY <1>0, <2>1, <2>2, <2>3 DEF IInv, TypeOK
    <3>2. \A v \in Worker : v # w => units'[v] - now'[v] >= -MaxClock
      BY <2>2, <2>3 DEF IInv, TypeOK, Floor
    <3>3. QED
      BY <2>3, <3>1, <3>2 DEF IInv, Floor
  <2>7. Registers'
    BY <2>1, <2>2, <2>3 DEF IInv, TypeOK, Registers
  <2>8. Alone'
    BY <2>3 DEF IInv, Alone, observed
  <2>9. Room'
    <3>1. Storing' = Storing
      BY <1>4, <2>3 DEF IInv, TypeOK, Get, Storing
    <3>2. QED
      BY <2>3, <3>1, BucketsKept, RoomKept DEF IInv
  <2>10. ASSUME NEW p \in Peer, p \notin excused'
         PROVE  Accounted(p)'
    <3>1. Accounted(p) /\ p \notin excused
      BY <2>3, <2>10 DEF IInv, observed
    <3>2. CASE p # peer[w]
      <4>1. \A v \in Worker :
              peer'[v] = p /\ pc'[v] \in Holding =>
                /\ peer[v] = p /\ pc[v] \in Holding
                /\ units'[v] = units[v] /\ wait'[v] = wait[v] /\ now'[v] = now[v]
        BY <2>2, <2>3, <3>2 DEF IInv, TypeOK, Holding
      <4>2. QED
        BY <2>3, <3>1, <4>1, BucketsKept, Untouched DEF observed
    <3>3. CASE p = peer[w]
      <4>1. \A v \in Worker : peer'[v] = p => v = w
        BY <1>0, <2>1, <2>3, <3>1, <3>3 DEF IInv, Alone
      <4>2. /\ Left(granted[p], u, now[w])
            /\ u = Full \/ Drawn(granted[p], u, now[w])
            /\ promised[p] > 0 /\ now[w] >= promised[p] => u >= Grain
        BY <2>4, <3>1, <3>3
      <4>3. CASE u >= Grain
        <5>1. units'[w] = u - Grain /\ wait'[w] = 0
          BY <1>0, <2>1, <2>2, <4>3 DEF IInv, TypeOK
        <5>2. units'[w] >= 0 /\ units'[w] + Grain = u
          BY <1>0, <2>1, <4>3, <5>1
        <5>3. QED
          BY <2>1, <2>3, <3>1, <4>1, <4>2, <5>1, <5>2 DEF Accounted, observed
      <4>4. CASE u < Grain
        <5>1. units'[w] = u /\ wait'[w] = Grain - u
          BY <1>0, <2>1, <2>2, <4>4 DEF IInv, TypeOK
        <5>2. wait'[w] # 0 /\ units'[w] + wait'[w] = Grain
          BY <1>0, <2>1, <4>4, <5>1
        <5>3. ~(promised[p] > 0 /\ now[w] >= promised[p]) /\ u # Full
          BY <1>0, <2>1, <4>2, <4>4
        <5>4. QED
          BY <2>3, <3>1, <4>1, <4>2, <5>1, <5>2, <5>3 DEF Accounted, observed
      <4>5. QED
        BY <1>0, <2>1, <4>3, <4>4
    <3>4. QED
      BY <3>2, <3>3
  <2>11. QED
    BY <2>3, <2>5, <2>6, <2>7, <2>8, <2>9, <2>10, BucketsKept DEF IInv, observed
<1>5. ASSUME NEW w \in Worker, Measure(w)
      PROVE  IInv'
  <2> USE DEF Measure, registers, observed
  <2>1. ASSUME NEW p \in Peer, p \notin excused'
        PROVE  Accounted(p)'
    <3>1. \A v \in Worker :
            peer'[v] = p /\ pc'[v] \in Holding =>
              /\ peer[v] = p /\ pc[v] \in Holding
              /\ units'[v] = units[v] /\ wait'[v] = wait[v] /\ now'[v] = now[v]
      BY <1>5 DEF IInv, TypeOK, Holding
    <3>2. Accounted(p)
      BY <1>5, <2>1 DEF IInv
    <3>3. QED
      BY <1>5, <3>1, <3>2, BucketsKept, Untouched
  <2>2. Len(buckets) \in Nat
    BY <1>5, BucketsKept
  <2>3. Room'
    <3>1. CASE Len(buckets) >= BucketsMax
      <4>1. Storing' = Storing
        BY <1>5, <3>1 DEF IInv, TypeOK, Storing
      <4>2. QED
        BY <1>5, <2>2, <4>1, RoomKept DEF IInv
    <3>2. CASE ~(Len(buckets) >= BucketsMax)
      <4>1. Storing' \subseteq Worker
        BY DEF Storing
      <4>2. Cardinality(Storing') <= Cardinality(Worker) /\ Cardinality(Storing') \in Nat
              /\ Cardinality(Worker) \in Nat
        BY <4>1, FS_Subset, FS_CardinalityType, RateLimiterAssumption
      <4>3. QED
        BY <1>0, <1>5, <2>2, <3>2, <4>2 DEF Room, Storing
    <3>3. QED
      BY <3>1, <3>2
  <2>4. TypeOK'
    BY <1>5 DEF IInv, TypeOK
  <2>5. Floor'
    BY <1>5 DEF IInv, Floor
  <2>6. Registers'
    <3>1. /\ pc[w] = "test" /\ pc'[w] \in {"pick", "store"}
          /\ pc'[w] = "pick" => Len(buckets) >= 1
          /\ \A v \in Worker : v # w => pc'[v] = pc[v]
      BY <1>0, <1>5, <2>2 DEF IInv, TypeOK
    <3>2. QED
      BY <1>5, <3>1 DEF IInv, Registers
  <2>7. Alone'
    BY <1>5 DEF IInv, Alone
  <2>8. QED
    BY <1>5, <2>1, <2>3, <2>4, <2>5, <2>6, <2>7, BucketsKept DEF IInv
<1>6. ASSUME NEW w \in Worker, Pick(w) \/ PickNext(w)
      PROVE  IInv'
  <2> USE DEF Pick, PickNext, observed
  <2>1. /\ UNCHANGED <<clock, buckets, peer, now, units, wait, granted, promised, excused, asked>>
        /\ pc[w] \in {"pick", "next"}
        /\ \E s \in {"next", "evict"} : pc' = [pc EXCEPT ![w] = s]
        /\ Len(buckets) \in Nat /\ Len(buckets) >= 1
    BY <1>6, BucketsKept DEF IInv, Registers
  <2>2. ASSUME NEW p \in Peer, p \notin excused'
        PROVE  Accounted(p)'
    <3>1. \A v \in Worker :
            peer'[v] = p /\ pc'[v] \in Holding =>
              /\ peer[v] = p /\ pc[v] \in Holding
              /\ units'[v] = units[v] /\ wait'[v] = wait[v] /\ now'[v] = now[v]
      BY <2>1 DEF IInv, TypeOK, Holding
    <3>2. Accounted(p)
      BY <2>1, <2>2 DEF IInv
    <3>3. QED
      BY <2>1, <3>1, <3>2, BucketsKept, Untouched
  <2>3. Room'
    <3>1. Storing' = Storing
      BY <2>1 DEF IInv, TypeOK, Storing
    <3>2. QED
      BY <2>1, <3>1, RoomKept DEF IInv
  <2>4. TypeOK'
    <3>1. victim' \in [Worker -> Peer \cup {None}]
      <4>1. Oldest(buckets) \in Peer
        BY <2>1, BucketsAreDict, OldestIsKey DEF IInv
      <4>2. QED
        BY <1>6, <4>1 DEF IInv, TypeOK
    <3>2. size' \in [Worker -> Nat]
      BY <1>6, <2>1 DEF IInv, TypeOK
    <3>3. QED
      BY <2>1, <3>1, <3>2 DEF IInv, TypeOK
  <2>5. Floor' /\ Alone'
    BY <2>1 DEF IInv, Floor, Alone
  <2>6. Registers'
    BY <2>1 DEF IInv, TypeOK, Registers
  <2>7. QED
    BY <2>1, <2>2, <2>3, <2>4, <2>5, <2>6, BucketsKept DEF IInv
<1>7. ASSUME NEW w \in Worker, Overwrite(w)
      PROVE  IInv'
  <2>1. /\ pc[w] = "test" /\ peer[w] \in Keys(buckets) /\ StoreInto(w, buckets)
        /\ excused' = excused
    BY <1>7 DEF Overwrite
  <2>2. buckets \in Dict(Peer, Bucket) /\ UniqueKeys(buckets) /\ excused \subseteq Peer
    BY BucketsAreDict DEF IInv, TypeOK
  <2>3. /\ TypeOK' /\ UniqueKeys(buckets)' /\ Floor' /\ Registers' /\ Alone'
        /\ (\A p \in Peer \ excused : Accounted(p))'
    BY <2>1, <2>2, StoreStep DEF Holding
  <2>4. Len(buckets') = Len(buckets) /\ Len(buckets) \in Nat
    <3>1. [units |-> units[w], at |-> now[w]] \in Bucket /\ peer[w] \in Peer
      BY <2>1, <1>0 DEF IInv, TypeOK, Registers, Bucket
    <3>2. buckets' = Store(buckets, peer[w], [units |-> units[w], at |-> now[w]])
      BY <2>1 DEF StoreInto
    <3>3. QED
      BY <2>1, <2>2, <3>1, <3>2, StoreInPlace, Slots
  <2>5. Room'
    <3>1. Storing' = Storing
      BY <2>1 DEF IInv, TypeOK, StoreInto, Forget, Storing
    <3>2. QED
      BY <2>4, <3>1, RoomKept DEF IInv
  <2>6. QED
    BY <2>3, <2>5 DEF IInv
<1>8. ASSUME NEW w \in Worker, Admit(w)
      PROVE  IInv'
  <2>1. pc[w] = "store" /\ StoreInto(w, buckets) /\ excused' = excused
    BY <1>8 DEF Admit
  <2>2. buckets \in Dict(Peer, Bucket) /\ UniqueKeys(buckets) /\ excused \subseteq Peer
    BY BucketsAreDict DEF IInv, TypeOK
  <2>3. /\ TypeOK' /\ UniqueKeys(buckets)' /\ Floor' /\ Registers' /\ Alone'
        /\ (\A p \in Peer \ excused : Accounted(p))'
    BY <2>1, <2>2, StoreStep DEF Holding
  <2>4. Len(buckets') <= Len(buckets) + 1 /\ Len(buckets) \in Nat /\ Len(buckets') \in Nat
    <3>1. [units |-> units[w], at |-> now[w]] \in Bucket /\ peer[w] \in Peer
      BY <2>1, <1>0 DEF IInv, TypeOK, Registers, Bucket
    <3>2. buckets' = Store(buckets, peer[w], [units |-> units[w], at |-> now[w]])
      BY <2>1 DEF StoreInto
    <3>3. QED
      BY <2>2, <3>1, <3>2, StoreEntries, Slots
  <2>5. Room'
    <3>1. w \in Storing /\ Storing' = Storing \ {w}
      BY <2>1 DEF IInv, TypeOK, StoreInto, Forget, Storing
    <3>2. Cardinality(Storing') = Cardinality(Storing) - 1
      BY <3>1, StoringIsFinite, FS_RemoveElement
    <3>3. Len(buckets) + Cardinality(Storing) <= BucketsMax + Cardinality(Worker) - 1
      BY DEF IInv, Room, Storing
    <3>4. Len(buckets') + Cardinality(Storing') <= BucketsMax + Cardinality(Worker) - 1
      BY <1>0, <2>4, <3>2, <3>3, StoringIsFinite
    <3>5. QED
      BY <3>4 DEF Room, Storing
  <2>6. QED
    BY <2>3, <2>5 DEF IInv
<1>9. ASSUME NEW w \in Worker, Evict(w)
      PROVE  IInv'
  <2>1. /\ pc[w] = "evict" /\ victim[w] \in Keys(buckets)
        /\ StoreInto(w, Delete(buckets, victim[w]))
        /\ excused' = excused \cup {victim[w]}
    BY <1>9 DEF Evict
  <2>2. PICK dict : dict = Delete(buckets, victim[w])
    OBVIOUS
  <2>3. /\ dict \in Dict(Peer, Bucket)
        /\ \A e : HasEntry(dict, e) => HasEntry(buckets, e)
        /\ Len(dict) = Len(buckets) - 1
        /\ Len(buckets) \in Nat
    BY <2>1, <2>2, BucketsAreDict, DeleteEntries, Slots DEF IInv
  <2>4. UniqueKeys(dict) /\ Keys(buckets) \ {victim[w]} \subseteq Keys(dict)
    BY <2>1, <2>2, BucketsAreDict, DeleteKeys DEF IInv
  <2>5. /\ excused \subseteq excused' /\ excused' \subseteq Peer
        /\ Keys(buckets) \subseteq Keys(dict) \cup excused'
    <3>1. victim[w] \in Peer
      BY <2>1, BucketsAreDict, SlotOfKey DEF IInv
    <3>2. QED
      BY <2>1, <2>4, <3>1 DEF IInv, TypeOK
  <2>6. /\ TypeOK' /\ UniqueKeys(buckets)' /\ Floor' /\ Registers' /\ Alone'
        /\ (\A p \in Peer \ excused : Accounted(p))'
    BY <2>1, <2>2, <2>3, <2>4, <2>5, StoreStep DEF Holding
  <2>7. Len(buckets') <= Len(buckets) /\ Len(buckets') \in Nat
    <3>1. [units |-> units[w], at |-> now[w]] \in Bucket /\ peer[w] \in Peer
      BY <2>1, <1>0 DEF IInv, TypeOK, Registers, Bucket
    <3>2. buckets' = Store(dict, peer[w], [units |-> units[w], at |-> now[w]])
      BY <2>1, <2>2 DEF StoreInto
    <3>3. Len(buckets') <= Len(dict) + 1 /\ Len(buckets') \in Nat
      BY <2>3, <3>1, <3>2, StoreEntries, Slots
    <3>4. QED
      BY <2>3, <3>3
  <2>8. Room'
    <3>1. Storing' = Storing
      BY <2>1 DEF IInv, TypeOK, StoreInto, Forget, Storing
    <3>2. QED
      BY <2>3, <2>7, <3>1, RoomKept DEF IInv
  <2>9. QED
    BY <2>6, <2>8 DEF IInv
<1>10. ASSUME NEW w \in Worker, EvictRaces(w)
       PROVE  IInv'
  <2> USE DEF EvictRaces, Forget, observed
  <2>1. ASSUME NEW p \in Peer, p \notin excused'
        PROVE  Accounted(p)'
    <3>1. \A v \in Worker :
            peer'[v] = p /\ pc'[v] \in Holding =>
              /\ peer[v] = p /\ pc[v] \in Holding
              /\ units'[v] = units[v] /\ wait'[v] = wait[v] /\ now'[v] = now[v]
      BY <1>10 DEF IInv, TypeOK, Holding
    <3>2. Accounted(p)
      BY <1>10, <2>1 DEF IInv
    <3>3. QED
      BY <1>10, <3>1, <3>2, BucketsKept, Untouched
  <2>2. Room'
    <3>1. Storing' = Storing
      BY <1>10 DEF IInv, TypeOK, Storing
    <3>2. QED
      BY <1>10, <3>1, BucketsKept, RoomKept DEF IInv
  <2>3. TypeOK'
    BY <1>0, <1>10 DEF IInv, TypeOK
  <2>4. Floor'
    BY <1>0, <1>10 DEF IInv, TypeOK, Floor
  <2>5. Registers'
    BY <1>10 DEF IInv, TypeOK, Registers
  <2>6. Alone'
    BY <1>10 DEF IInv, TypeOK, Alone
  <2>7. QED
    BY <1>10, <2>1, <2>2, <2>3, <2>4, <2>5, <2>6, BucketsKept DEF IInv
<1>11. QED
  BY <1>1, <1>2, <1>3, <1>4, <1>5, <1>6, <1>7, <1>8, <1>9, <1>10 DEF Next

\* The invariant holds throughout.
THEOREM Inductive == Spec => []IInv
BY InitIInv, NextIInv, PTL DEF Spec

\* Every variable keeps its type; the buckets never fall below what the clock can have
\* run back between two workers' reads of it (_bucket_retry_after).
THEOREM TypeCorrect == Spec => []TypeOK
<1>1. IInv => TypeOK
  BY DEF IInv
<1>2. QED
  BY <1>1, Inductive, PTL

\* However many workers race past the size test, the dict outgrows _RATE_BUCKETS_MAX by
\* fewer buckets than there are workers.
THEOREM OvershootsByWorkers == Spec => []BucketsOvershoot
<1>1. IInv => BucketsOvershoot
  <2>1. SUFFICES ASSUME IInv PROVE BucketsOvershoot
    OBVIOUS
  <2>2. Len(buckets) + Cardinality(Storing) <= BucketsMax + Cardinality(Worker) - 1
    BY <2>1 DEF IInv, Room, Storing
  <2>3. Len(buckets) \in Nat /\ BucketsMax \in Nat
    BY <2>1, BucketsAreDict, Slots, RateLimiterAssumption DEF IInv
  <2>4. QED
    BY <2>2, <2>3, StoringIsFinite DEF BucketsOvershoot
<1>2. QED
  BY <1>1, Inductive, PTL

\* Over any stretch of time a peer whose requests do not overlap, and whose bucket is not
\* evicted, gets a minute's burst and the rate, whatever the other workers do.
THEOREM GrantsBurstThenRate == Spec => []BurstThenRate
<1>1. IInv => BurstThenRate
  BY DEF IInv, Accounted, Spaced, BurstThenRate, WithinRate
<1>2. QED
  BY <1>1, Inductive, PTL

\* Such a peer is denied only where its requests, and this one, would be more than one
\* burst and the rate over some stretch of time: nothing is charged for a denial.
THEOREM DeniesForCause == Spec => []DeniedForCause
<1>1. IInv => DeniedForCause
  <2>1. SUFFICES ASSUME IInv, NEW w \in Worker, NEW p, p = peer[w], pc[w] = "test",
                        p \notin excused, wait[w] > 0
                 PROVE  \E i \in DOMAIN granted[p] :
                          (Len(granted[p]) - i + 2) * Grain > Full + (now[w] - granted[p][i])
    BY DEF DeniedForCause
  <2>2. p \in Peer \ excused /\ Accounted(p)
    BY <2>1 DEF IInv, Registers
  <2>3. units[w] + wait[w] = Grain /\ Drawn(granted[p], units[w], now[w])
    BY <2>1, <2>2 DEF Accounted, Holding
  <2>4. PICK i \in DOMAIN granted[p] :
          units[w] + (Len(granted[p]) - i + 1) * Grain >= Full + (now[w] - granted[p][i])
    BY <2>3 DEF Drawn
  <2>5. /\ Len(granted[p]) \in Nat /\ i \in 1..Len(granted[p]) /\ granted[p][i] \in Int
        /\ Grain \in Nat /\ Full \in Nat
    BY <2>1, <2>2, FullFacts, GrantedAreTimes, RateLimiterAssumption DEF IInv
  <2>6. units[w] \in Int /\ now[w] \in Int /\ wait[w] \in Int
    BY <2>1, FullFacts, RateLimiterAssumption DEF IInv, TypeOK
  <2>7. PICK cost \in Int : cost = (Len(granted[p]) - i + 1) * Grain
    BY <2>5
  <2>8. (Len(granted[p]) - i + 2) * Grain = cost + Grain
    BY <2>5, <2>7
  <2>9. cost + Grain > Full + (now[w] - granted[p][i])
    <3>1. units[w] + cost >= Full + (now[w] - granted[p][i])
      BY <2>4, <2>7
    <3>2. units[w] < Grain
      BY <2>1, <2>3, <2>5, <2>6
    <3>3. QED
      BY <2>5, <2>6, <3>1, <3>2
  <2>10. QED
    BY <2>8, <2>9
<1>2. QED
  BY <1>1, Inductive, PTL

\* Such a peer is allowed when it comes back no earlier than Retry-After told it.
THEOREM HonoursRetryAfter == Spec => []RetryAfterSuffices
<1>1. IInv => RetryAfterSuffices
  <2>1. SUFFICES ASSUME IInv, NEW w \in Worker, pc[w] = "test", peer[w] \notin excused,
                        promised[peer[w]] > 0, now[w] >= promised[peer[w]]
                 PROVE  wait[w] = 0
    BY DEF RetryAfterSuffices
  <2>2. peer[w] \in Peer \ excused /\ Accounted(peer[w])
    BY <2>1 DEF IInv, Registers
  <2>3. QED
    BY <2>1, <2>2 DEF Accounted, Holding
<1>2. QED
  BY <1>1, Inductive, PTL
===============================================================================
