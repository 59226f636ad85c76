--------------------------- MODULE RedemptionProofs ---------------------------
(***************************************************************************)
(* Redemption.tla's safety properties, and that it implements              *)
(* ProofDuty.tla, for any number of hashes, digests, prices and clients,   *)
(* any cache size and any number of attempts.                              *)
(*                                                                         *)
(* The argument: what the shared state says once it goes on saying         *)
(* (Advance), so that what a thread has established about its payment hash *)
(* at one step still holds at its next, whatever the other threads did     *)
(* meanwhile (ThreadInv).                                                  *)
(***************************************************************************)
EXTENDS Redemption, SequenceTheorems, FiniteSetTheorems, TLAPS

-------------------------------------------------------------------------------
(* What storing and deleting do to the entries of a dict.                  *)

\* The dictionaries from K to V.
Dict(K, V) == Seq([key : K, value : V])

\* e is an entry of d.
HasEntry(d, e) == \E i \in DOMAIN d : d[i] = e

\* The slots of a dictionary, and what is in them.
LEMMA Slots ==
  ASSUME NEW K, NEW V, NEW d \in Dict(K, V)
  PROVE  /\ Len(d) \in Nat
         /\ DOMAIN d = 1..Len(d)
         /\ \A i \in 1..Len(d) : d[i] \in [key : K, value : V]
BY ElementOfSeq, LenProperties DEF Dict

\* A key of the dictionary has a slot, and the value read is the one stored there.
LEMMA SlotOfKey ==
  ASSUME NEW K, NEW V, NEW d \in Dict(K, V), NEW k \in Keys(d)
  PROVE  /\ Slot(d, k) \in 1..Len(d)
         /\ d[Slot(d, k)] = [key |-> k, value |-> Value(d, k)]
         /\ k \in K
         /\ Value(d, k) \in V
<1>1. PICK i \in DOMAIN d : d[i].key = k
  BY DEF Keys
<1>2. Slot(d, k) \in DOMAIN d /\ d[Slot(d, k)].key = k
  BY <1>1 DEF Slot
<1>3. d[Slot(d, k)] \in [key : K, value : V]
  BY <1>2, Slots
<1>4. QED
  BY <1>2, <1>3, Slots DEF Value

\* The oldest entry of a dictionary that is not empty has one of its keys.
LEMMA OldestIsKey ==
  ASSUME NEW K, NEW V, NEW d \in Dict(K, V), Len(d) >= 1
  PROVE  Oldest(d) \in Keys(d) /\ Oldest(d) \in K
<1>1. 1 \in DOMAIN d /\ d[1] \in [key : K, value : V]
  BY Slots
<1>2. QED
  BY <1>1 DEF Oldest, Keys

\* Storing yields a dictionary that is not empty; its entries are old ones or the
\* one stored, and it grows by at most one.
LEMMA StoreEntries ==
  ASSUME NEW K, NEW V, NEW d \in Dict(K, V), NEW k \in K, NEW v \in V
  PROVE  /\ Store(d, k, v) \in Dict(K, V)
         /\ \A e : HasEntry(Store(d, k, v), e) =>
                     HasEntry(d, e) \/ e = [key |-> k, value |-> v]
         /\ 1 <= Len(Store(d, k, v))
         /\ Len(Store(d, k, v)) <= Len(d) + 1
<1> DEFINE entry == [key |-> k, value |-> v]
<1>1. CASE k \in Keys(d)
  <2>1. Slot(d, k) \in 1..Len(d)
    BY <1>1, SlotOfKey
  <2>2. Store(d, k, v) = [d EXCEPT ![Slot(d, k)] = entry]
    BY <1>1 DEF Store
  <2>3. QED
    BY <2>1, <2>2, ExceptSeq DEF Dict, HasEntry
<1>2. CASE k \notin Keys(d)
  <2>1. Store(d, k, v) = Append(d, entry)
    BY <1>2 DEF Store
  <2>2. QED
    BY <2>1, AppendProperties DEF Dict, HasEntry
<1>3. QED
  BY <1>1, <1>2

\* Storing under a key that is there replaces its entry.
LEMMA StoreInPlace ==
  ASSUME NEW K, NEW V, NEW d \in Dict(K, V), NEW k \in Keys(d), NEW v \in V
  PROVE  Len(Store(d, k, v)) = Len(d)
<1> DEFINE entry == [key |-> k, value |-> v]
<1>1. Slot(d, k) \in 1..Len(d) /\ k \in K
  BY SlotOfKey
<1>2. Store(d, k, v) = [d EXCEPT ![Slot(d, k)] = entry]
  BY DEF Store
<1>3. QED
  BY <1>1, <1>2, ExceptSeq DEF Dict

\* Deleting a key yields a dictionary of old entries, shorter by one.
LEMMA DeleteEntries ==
  ASSUME NEW K, NEW V, NEW d \in Dict(K, V), NEW k \in Keys(d)
  PROVE  /\ Delete(d, k) \in Dict(K, V)
         /\ \A e : HasEntry(Delete(d, k), e) => HasEntry(d, e)
         /\ Len(Delete(d, k)) = Len(d) - 1
<1>0. PICK Old : Old = {e \in [key : K, value : V] : HasEntry(d, e)}
  OBVIOUS
<1>1. PICK len \in Nat, n \in Nat : len = Len(d) /\ n = Slot(d, k) /\ n \in 1..len
  <2>1. Len(d) \in Nat /\ Slot(d, k) \in 1..Len(d)
    BY Slots, SlotOfKey
  <2>2. QED
    BY <2>1
<1>2. DOMAIN d = 1..len /\ \A i \in 1..len : d[i] \in Old
  <2>1. DOMAIN d = 1..len /\ \A i \in 1..len : d[i] \in [key : K, value : V]
    BY <1>1, Slots
  <2>2. QED
    BY <1>0, <2>1 DEF HasEntry
<1>3. PICK front : front = SubSeq(d, 1, n - 1)
  OBVIOUS
<1>4. PICK back : back = SubSeq(d, n + 1, len)
  OBVIOUS
<1>5. front \in Seq(Old) /\ Len(front) = n - 1
  <2>1. \A i \in 1..(n - 1) : d[i] \in Old
    BY <1>1, <1>2
  <2>2. /\ front \in Seq(Old)
        /\ Len(front) = IF 1 <= n - 1 THEN n - 1 - 1 + 1 ELSE 0
    BY <1>1, <1>3, <2>1, SubSeqProperties
  <2>3. (IF 1 <= n - 1 THEN n - 1 - 1 + 1 ELSE 0) = n - 1
    BY <1>1
  <2>4. QED
    BY <2>2, <2>3
<1>6. back \in Seq(Old) /\ Len(back) = len - n
  <2>1. \A i \in (n + 1)..len : d[i] \in Old
    BY <1>1, <1>2
  <2>2. /\ back \in Seq(Old)
        /\ Len(back) = IF n + 1 <= len THEN len - (n + 1) + 1 ELSE 0
    BY <1>1, <1>4, <2>1, SubSeqProperties
  <2>3. (IF n + 1 <= len THEN len - (n + 1) + 1 ELSE 0) = len - n
    BY <1>1
  <2>4. QED
    BY <2>2, <2>3
<1>7. PICK left : left = Delete(d, k)
  OBVIOUS
<1>8. left = front \o back
  BY <1>1, <1>3, <1>4, <1>7 DEF Delete, SequenceOps!RemoveAt
<1>9. left \in Seq(Old) /\ Len(left) = len - 1
  <2>1. left \in Seq(Old) /\ Len(left) = Len(front) + Len(back)
    BY <1>5, <1>6, <1>8, ConcatProperties
  <2>2. Len(front) + Len(back) = len - 1
    BY <1>1, <1>5, <1>6
  <2>3. QED
    BY <2>1, <2>2
<1>10. \A i \in DOMAIN left : left[i] \in Old
  <2>1. DOMAIN left = 1..Len(left)
    BY <1>9, LenProperties
  <2>2. QED
    BY <1>9, <2>1, ElementOfSeq
<1>11. Old \subseteq [key : K, value : V] /\ \A e \in Old : HasEntry(d, e)
  BY <1>0
<1>12. left \in Dict(K, V)
  BY <1>9, <1>11, SeqMonotonic DEF Dict
<1>13. QED
  BY <1>1, <1>7, <1>9, <1>10, <1>11, <1>12 DEF HasEntry

-------------------------------------------------------------------------------
(* The inductive invariant.                                                *)

\* The invoice of h was minted for digest d at price p.
Issued(h, d, p) ==
  /\ h \in Hash
  /\ invoice[h].state # "none"
  /\ invoice[h].memo = d
  /\ invoice[h].face = p

\* The invoice of h, minted for digest d, is settled.
Paid(h, d) ==
  /\ h \in Hash
  /\ d \in Digest
  /\ invoice[h].state = "settled"
  /\ invoice[h].memo = d

\* The obligation of h is on disk, for digest d.
Recorded(h, d) ==
  /\ h \in Hash
  /\ row[h] # "none"
  /\ rowDigest[h] = d

\* An invoice has terms from its minting on, and every token states them.
WalletInv ==
  /\ \A h \in Hash : IF invoice[h].state = "none"
                     THEN invoice[h].memo = None
                     ELSE invoice[h].memo \in Digest /\ invoice[h].face \in Price
  /\ \A k \in tokens : Issued(k.hash, k.digest, k.price)

\* A row is for the digest its invoice was settled for.
RowInv == \A h \in Hash : row[h] # "none" => Paid(h, rowDigest[h])

\* A cached proof belongs to a recorded obligation and the calendar has it.
CacheInv ==
  \A i \in DOMAIN cache :
    /\ Recorded(cache[i].key, cache[i].value)
    /\ cache[i].value \in accepted

\* What a thread knows about its payment hash at each step.
ThreadInv(t) ==
  /\ pc[t] \in IF t = Sweeper
               THEN {"idle", "row", "stamp", "put", "pick", "next", "evict", "insert",
                     "mark"}
               ELSE Label \ {"row"}
  /\ pc[t] = "lookup" => Issued(job[t], body[t], bid[t])
  /\ pc[t] \in {"check", "serve", "record"} => Paid(job[t], body[t])
  /\ pc[t] \in {"stamp", "put", "pick", "next", "evict", "insert", "mark", "respond"} =>
       Recorded(job[t], body[t])
  /\ pc[t] \in {"put", "pick", "next", "evict", "insert", "mark", "respond"} =>
       body[t] \in accepted
  /\ pc[t] \in {"pick", "next"} => Len(cache) >= 1
  /\ pc[t] = "evict" => victim[t] \in Hash

\* The sweeper only works through rows.
TodoInv == \A h \in todo : row[h] # "none"

IInv ==
  /\ TypeOK
  /\ WalletInv
  /\ RowInv
  /\ StampedIsCommitted
  /\ CommittedIsOwed
  /\ CacheInv
  /\ \A t \in Thread : ThreadInv(t)
  /\ TodoInv
  /\ ServedIsPaidAndOwed
  /\ SettledIsHonoured

-------------------------------------------------------------------------------
(* The steps, one by one.                                                  *)

\* The name of a step taken by some thread, for proofs by cases.
LEMMA Steps ==
  ASSUME Next
  PROVE  \/ \E h \in Hash, d \in Digest : Challenge(h, d)
         \/ \E h \in Hash : Pay(h) \/ Settle(h) \/ SweepRow(h)
         \/ \E c \in Client, token \in Token, d \in Digest, hasPreimage \in BOOLEAN :
              Present(c, token, d, hasPreimage)
         \/ \E c \in Client :
              \/ Lookup(c) \/ LookupFails(c) \/ CheckCache(c) \/ ServeCached(c)
              \/ ServeEvicted(c) \/ Record(c) \/ RecordFails(c) \/ Respond(c)
         \/ \E t \in Thread :
              \/ Submit(t) \/ SubmitRetries(t) \/ SubmitFails(t)
              \/ Put(t) \/ Pick(t) \/ PickNext(t) \/ Evict(t) \/ EvictRaces(t)
              \/ Insert(t) \/ Mark(t) \/ MarkFails(t)
         \/ BeginSweep \/ SweepRowFails \/ EndSweep
         \/ Crash \/ Halt \/ Resume
         \/ \E p \in Price : Start(p)
BY DEF Next, Normal, Fault, RequestStep, StampStep, SweepStep, Thread

\* A dropped thread has nothing in hand; an exception drops it.
LEMMA Dropped ==
  ASSUME TypeOK, NEW t \in Thread, NEW label \in Label, Drop(t, label)
  PROVE  /\ pc' \in [Thread -> Label]
         /\ job' \in [Thread -> Hash \cup {None}]
         /\ body' \in [Thread -> Digest \cup {None}]
         /\ bid' \in [Thread -> Price \cup {None}]
         /\ tries' \in [Thread -> 0..MaxAttempts]
         /\ size' \in [Thread -> Nat]
         /\ victim' \in [Thread -> Hash \cup {None}]
         /\ pc'[t] = label
BY RedemptionAssumption DEF TypeOK, Drop

LEMMA Finished ==
  ASSUME TypeOK, NEW c \in Client, NEW code \in Code, NEW proof \in Digest \cup {None},
         Finish(c, code, proof)
  PROVE  /\ Drop(c, "idle")
         /\ todo' = todo
         /\ answer' = [code |-> code, hash |-> job[c], proof |-> proof]
         /\ answer' \in [code : Code, hash : Hash \cup {None}, proof : Digest \cup {None}]
BY DEF TypeOK, Finish, Reply, Thread

LEMMA Raised ==
  ASSUME TypeOK, NEW t \in Thread, Raise(t)
  PROVE  /\ Drop(t, "idle")
         /\ todo' \in SUBSET todo
         /\ answer' \in [code : {"none", "server_error"}, hash : Hash \cup {None},
                         proof : {None}]
BY DEF TypeOK, Raise, Finish, Reply, NoAnswer, Thread

\* A step that moves a thread to another label keeps the registers it names.
LEMMA Moved ==
  ASSUME TypeOK, NEW t \in Thread, NEW label \in Label, GoTo(t, label)
  PROVE  /\ pc' \in [Thread -> Label]
         /\ pc'[t] = label
         /\ \A u \in Thread \ {t} : pc'[u] = pc[u]
         /\ job' = job /\ body' = body /\ bid' = bid
BY DEF TypeOK, GoTo, work

-------------------------------------------------------------------------------
(* Types.                                                                  *)

\* The answer a step leaves when it sends none.
LEMMA NoAnswerType ==
  NoAnswer \in [code : Code, hash : Hash \cup {None}, proof : Digest \cup {None}]
BY DEF NoAnswer, Reply, Code

LEMMA TypeStep ==
  ASSUME IInv, [Next]_vars
  PROVE  TypeOK'
<1> USE RedemptionAssumption, NoAnswerType
<1>0. TypeOK
  BY DEF IInv
<1>1. CASE UNCHANGED vars
  BY <1>0, <1>1 DEF TypeOK, vars
<1>2. ASSUME NEW h \in Hash, NEW d \in Digest, Challenge(h, d)
      PROVE  TypeOK'
  BY <1>0, <1>2 DEF TypeOK, Challenge, Token, InvoiceState, disk, process, threads
<1>3. ASSUME NEW h \in Hash, Pay(h) \/ Settle(h)
      PROVE  TypeOK'
  <2>1. PICK st \in InvoiceState :
          invoice' = [invoice EXCEPT ![h] = [invoice[h] EXCEPT !.state = st]]
    BY <1>3 DEF Pay, Settle, InvoiceState
  <2>2. invoice' \in [Hash -> [state : InvoiceState, memo : Digest \cup {None},
                               face : Price \cup {None}]]
    <3>1. invoice[h] \in [state : InvoiceState, memo : Digest \cup {None},
                          face : Price \cup {None}]
      BY <1>0 DEF TypeOK
    <3>2. [invoice[h] EXCEPT !.state = st] \in
            [state : InvoiceState, memo : Digest \cup {None}, face : Price \cup {None}]
      BY <3>1
    <3>3. QED
      BY <1>0, <2>1, <3>2 DEF TypeOK
  <2>3. QED
    BY <1>0, <1>3, <2>2 DEF TypeOK, Pay, Settle, disk, process, threads
<1>4. ASSUME NEW c \in Client, NEW token \in Token, NEW d \in Digest,
             NEW hasPreimage \in BOOLEAN, Present(c, token, d, hasPreimage)
      PROVE  TypeOK'
  <2>1. /\ token.hash \in Hash
        /\ token.price \in Price
        /\ c \in Thread
    BY DEF Token, Thread
  <2>2. \A code \in {"paused", "unauthorized"} :
          Reply(code, None, None) \in
            [code : Code, hash : Hash \cup {None}, proof : Digest \cup {None}]
    BY DEF Reply, Code
  <2>3. CASE UNCHANGED threads
    BY <1>0, <1>4, <2>2, <2>3 DEF TypeOK, Present, wallet, disk, process, threads
  <2>4. CASE /\ pc' = [pc EXCEPT ![c] = "lookup"]
             /\ job' = [job EXCEPT ![c] = token.hash]
             /\ body' = [body EXCEPT ![c] = d]
             /\ bid' = [bid EXCEPT ![c] = token.price]
             /\ answer' = NoAnswer
             /\ UNCHANGED <<tries, size, victim, todo>>
    BY <1>0, <1>4, <2>1, <2>4 DEF TypeOK, Present, Label, wallet, disk, process
  <2>5. QED
    BY <1>4, <2>3, <2>4 DEF Present
<1>5. ASSUME NEW c \in Client,
             \/ Lookup(c) \/ LookupFails(c) \/ CheckCache(c) \/ ServeCached(c)
             \/ ServeEvicted(c) \/ Record(c) \/ RecordFails(c) \/ Respond(c)
      PROVE  TypeOK'
  <2>0. c \in Thread /\ ThreadInv(c)
    BY DEF Thread, IInv
  <2>1. CASE Lookup(c)
    <3>1. CASE GoTo(c, "check") /\ answer' = NoAnswer /\ UNCHANGED <<tries, size, victim, todo>>
      BY <1>0, <2>0, <2>1, <3>1 DEF TypeOK, Lookup, GoTo, Label, wallet, disk, process, work
    <3>2. CASE Finish(c, "payment_required", None)
      BY <1>0, <2>0, <2>1, <3>2
         DEF TypeOK, Lookup, Finish, Drop, Reply, Label, Code, wallet, disk, process
    <3>3. QED
      BY <2>1, <3>1, <3>2 DEF Lookup
  <2>2. CASE LookupFails(c)
    BY <1>0, <2>0, <2>2
       DEF TypeOK, LookupFails, Finish, Drop, Reply, Label, Code, wallet, disk, process
  <2>3. CASE CheckCache(c)
    BY <1>0, <2>0, <2>3 DEF TypeOK, CheckCache, GoTo, Label, wallet, disk, process, work
  <2>4. CASE ServeCached(c)
    <3>1. Value(cache, job[c]) \in Digest
      BY <1>0, <2>4, SlotOfKey DEF TypeOK, ServeCached, Dict
    <3>2. QED
      BY <1>0, <2>0, <2>4, <3>1
         DEF TypeOK, ServeCached, Finish, Drop, Reply, Label, Code, wallet, disk, process
  <2>5. CASE ServeEvicted(c)
    BY <1>0, <2>0, <2>5, Raised, Dropped
       DEF TypeOK, ServeEvicted, Label, Code, wallet, disk, process
  <2>6. CASE Record(c)
    <3>1. job[c] \in Hash /\ body[c] \in Digest
      BY <2>0, <2>6 DEF ThreadInv, Record, Paid
    <3>2. QED
      BY <1>0, <2>0, <2>6, <3>1
         DEF TypeOK, Record, InsertOrIgnore, GoTo, Label, wallet, process, work
  <2>7. CASE RecordFails(c)
    BY <1>0, <2>0, <2>7, Raised, Dropped
       DEF TypeOK, RecordFails, Label, Code, wallet, disk, process
  <2>8. CASE Respond(c)
    BY <1>0, <2>0, <2>8
       DEF TypeOK, Respond, Finish, Drop, Reply, Label, Code, wallet, disk, process
  <2>9. QED
    BY <1>5, <2>1, <2>2, <2>3, <2>4, <2>5, <2>6, <2>7, <2>8
<1>6. ASSUME NEW t \in Thread,
             \/ Submit(t) \/ SubmitRetries(t) \/ SubmitFails(t) \/ Put(t)
             \/ Pick(t) \/ PickNext(t) \/ Evict(t) \/ EvictRaces(t) \/ Insert(t)
             \/ Mark(t) \/ MarkFails(t)
      PROVE  TypeOK'
  <2>0. /\ ThreadInv(t)
        /\ pc[t] \in {"stamp", "put", "pick", "next", "evict", "insert", "mark"} =>
             job[t] \in Hash /\ body[t] \in Digest
    BY <1>0 DEF IInv, ThreadInv, Recorded, RowInv, Paid
  <2>1. CASE Submit(t)
    BY <1>0, <2>0, <2>1 DEF TypeOK, Submit, GoTo, Label, wallet, disk, process, work
  <2>2. CASE SubmitRetries(t)
    BY <1>0, <2>0, <2>2
       DEF TypeOK, SubmitRetries, MaybeAccepted, wallet, disk, process, work
  <2>3. CASE SubmitFails(t)
    <3>1. accepted' \in SUBSET Digest
      BY <1>0, <2>0, <2>3 DEF TypeOK, SubmitFails, MaybeAccepted
    <3>2. CASE t \in Client /\ Finish(t, "stamp_failed", None)
      BY <1>0, <2>3, <3>1, <3>2
         DEF TypeOK, SubmitFails, Finish, Drop, Reply, Label, Code, wallet, disk, process
    <3>3. CASE Drop(t, "row") /\ answer' = NoAnswer /\ UNCHANGED todo
      BY <1>0, <2>3, <3>1, <3>3 DEF TypeOK, SubmitFails, Drop, Label, wallet, disk, process
    <3>4. QED
      BY <2>3, <3>2, <3>3 DEF SubmitFails
  <2>4. CASE Put(t)
    <3>1. Store(cache, job[t], body[t]) \in Seq([key : Hash, value : Digest])
      BY <1>0, <2>0, <2>4, StoreEntries DEF TypeOK, Put, Dict
    <3>2. cache' \in Seq([key : Hash, value : Digest])
      BY <1>0, <2>4, <3>1 DEF TypeOK, Put
    <3>3. pc' \in [Thread -> Label] /\ UNCHANGED work
      BY <1>0, <2>4 DEF TypeOK, Put, GoTo, Label
    <3>4. QED
      BY <1>0, <2>4, <3>2, <3>3 DEF TypeOK, Put, wallet, disk, process, work
  <2>5. CASE Pick(t)
    <3>1. Len(cache) \in Nat
      BY <1>0, LenProperties DEF TypeOK
    <3>2. size' \in [Thread -> Nat]
      BY <1>0, <2>5, <3>1 DEF TypeOK, Pick
    <3>3. QED
      BY <1>0, <2>5, <3>2 DEF TypeOK, Pick, GoTo, Label, wallet, disk, process, work
  <2>6. CASE PickNext(t)
    <3>1. cache \in Dict(Hash, Digest) /\ Len(cache) >= 1
      BY <1>0, <2>0, <2>6 DEF TypeOK, Dict, ThreadInv, PickNext
    <3>2. Oldest(cache) \in Hash
      BY <3>1, OldestIsKey
    <3>3. victim' \in [Thread -> Hash \cup {None}] /\ size' \in [Thread -> Nat]
      BY <1>0, <2>6, <3>2 DEF TypeOK, PickNext
    <3>4. QED
      BY <1>0, <2>6, <3>3 DEF TypeOK, PickNext, GoTo, Label, wallet, disk, process, work
  <2>7. CASE Evict(t)
    <3>1. Delete(cache, victim[t]) \in Dict(Hash, Digest)
      BY <1>0, <2>7, DeleteEntries DEF TypeOK, Evict, Dict
    <3>2. Store(Delete(cache, victim[t]), job[t], body[t]) \in Dict(Hash, Digest)
      BY <2>0, <2>7, <3>1, StoreEntries DEF Evict
    <3>3. QED
      BY <1>0, <2>7, <3>2
         DEF TypeOK, Evict, GoTo, Label, Dict, wallet, disk, process, work
  <2>8. CASE EvictRaces(t)
    BY <1>0, <2>8, Raised, Dropped
       DEF TypeOK, EvictRaces, Label, Code, wallet, disk, process
  <2>9. CASE Insert(t)
    <3>1. Store(cache, job[t], body[t]) \in Dict(Hash, Digest)
      BY <1>0, <2>0, <2>9, StoreEntries DEF TypeOK, Insert, Dict
    <3>2. QED
      BY <1>0, <2>0, <2>9, <3>1
         DEF TypeOK, Insert, GoTo, Label, Dict, wallet, disk, process, work
  <2>10. CASE Mark(t)
    <3>1. row' \in [Hash -> {"none", "needs_stamp", "stamped"}]
      BY <1>0, <2>0, <2>10 DEF TypeOK, Mark
    <3>2. CASE GoTo(t, "respond") /\ UNCHANGED <<tries, size, victim>>
      BY <1>0, <2>10, <3>1, <3>2 DEF TypeOK, Mark, GoTo, Label, wallet, process, work
    <3>3. CASE Drop(t, "row")
      BY <1>0, <2>10, <3>1, <3>3 DEF TypeOK, Mark, Drop, Label, wallet, process
    <3>4. QED
      BY <2>10, <3>2, <3>3 DEF Mark
  <2>11. CASE MarkFails(t)
    BY <1>0, <2>11, Raised, Dropped
       DEF TypeOK, MarkFails, Label, Code, wallet, disk, process
  <2>12. QED
    BY <1>6, <2>1, <2>2, <2>3, <2>4, <2>7, <2>8, <2>9, <2>10, <2>11, <2>5, <2>6
<1>7. CASE BeginSweep \/ EndSweep \/ (\E h \in Hash : SweepRow(h))
  BY <1>0, <1>7
     DEF TypeOK, BeginSweep, EndSweep, SweepRow, GoTo, Label, Thread,
         wallet, disk, process, work
<1>8. CASE SweepRowFails
  <2>1. Sweeper \in Thread
    BY DEF Thread
  <2>2. QED
    BY <1>0, <1>8, <2>1, Raised, Dropped
       DEF TypeOK, SweepRowFails, Label, Code, wallet, disk, process
<1>9. CASE Crash
  <2>1. cache' \in Seq([key : Hash, value : Digest]) /\ 0 \in 0..MaxAttempts
    BY <1>9, EmptySeq DEF Crash
  <2>2. pc' \in [Thread -> Label]
    BY <1>9 DEF Crash, Label
  <2>3. QED
    BY <1>0, <1>9, <2>1, <2>2 DEF TypeOK, Crash, wallet, disk
<1>10. CASE Halt \/ Resume \/ (\E p \in Price : Start(p))
  <2>1. halted' \in BOOLEAN /\ up' \in BOOLEAN
    BY <1>0, <1>10, Zenon DEF TypeOK, Halt, Resume, Start
  <2>2. price' \in Price
    BY <1>0, <1>10 DEF TypeOK, Halt, Resume, Start
  <2>3. /\ answer' = NoAnswer
        /\ UNCHANGED <<wallet, accepted, disk, cache, threads>>
    BY <1>10 DEF Halt, Resume, Start
  <2>4. QED
    BY <1>0, <2>1, <2>2, <2>3 DEF TypeOK, wallet, disk, threads
<1>11. CASE Next
  BY <1>2, <1>3, <1>4, <1>5, <1>6, <1>7, <1>8, <1>9, <1>10, <1>11, Steps
<1>12. QED
  BY <1>1, <1>11
-------------------------------------------------------------------------------
(* What one step does to each part of the shared state.                    *)

LEMMA WalletChange ==
  ASSUME [Next]_vars
  PROVE  \/ UNCHANGED wallet
         \/ \E h \in Hash, d \in Digest : Challenge(h, d)
         \/ \E h \in Hash : Pay(h) \/ Settle(h)
BY Steps DEF vars, wallet, Present, Lookup, LookupFails, CheckCache, ServeCached,
     ServeEvicted, Record, RecordFails, Respond, Submit, SubmitRetries, SubmitFails,
     Put, Pick, PickNext, Evict, EvictRaces, Insert, Mark, MarkFails, BeginSweep, SweepRow,
     SweepRowFails, EndSweep, Crash, Halt, Resume, Start

LEMMA DiskChange ==
  ASSUME [Next]_vars
  PROVE  \/ UNCHANGED disk
         \/ \E c \in Client : Record(c)
         \/ \E t \in Thread : Mark(t)
BY Steps DEF vars, disk, Challenge, Pay, Settle, Present, Lookup, LookupFails,
     CheckCache, ServeCached, ServeEvicted, RecordFails, Respond, Submit,
     SubmitRetries, SubmitFails, Put, Pick, PickNext, Evict, EvictRaces, Insert, MarkFails,
     BeginSweep, SweepRow, SweepRowFails, EndSweep, Crash, Halt, Resume, Start

LEMMA CalendarChange ==
  ASSUME [Next]_vars
  PROVE  \/ UNCHANGED accepted
         \/ \E t \in Thread :
              /\ pc[t] = "stamp"
              /\ accepted' \in {accepted, accepted \cup {body[t]}}
              /\ UNCHANGED <<wallet, disk>>
BY Steps DEF vars, Challenge, Pay, Settle, Present, Lookup, LookupFails,
     CheckCache, ServeCached, ServeEvicted, Record, RecordFails, Respond, Submit,
     SubmitRetries, SubmitFails, MaybeAccepted, Put, Pick, PickNext, Evict, EvictRaces,
     Insert, Mark, MarkFails, BeginSweep, SweepRow, SweepRowFails, EndSweep, Crash, Halt,
     Resume, Start

LEMMA CacheChange ==
  ASSUME [Next]_vars
  PROVE  \/ UNCHANGED cache
         \/ Crash
         \/ \E t \in Thread :
              /\ pc[t] \in {"put", "evict", "insert"}
              /\ \/ cache' = Store(cache, job[t], body[t])
                 \/ /\ victim[t] \in Keys(cache)
                    /\ cache' = Store(Delete(cache, victim[t]), job[t], body[t])
BY Steps DEF vars, Challenge, Pay, Settle, Present, Lookup, LookupFails,
     CheckCache, ServeCached, ServeEvicted, Record, RecordFails, Respond, Submit,
     SubmitRetries, SubmitFails, Put, Pick, PickNext, Evict, EvictRaces,
     Insert, Mark, MarkFails, BeginSweep, SweepRow, SweepRowFails, EndSweep, Crash, Halt,
     Resume, Start

LEMMA TodoChange ==
  ASSUME TypeOK, [Next]_vars
  PROVE  \A h \in todo' : h \in todo \/ row[h] # "none"
<1>1. ASSUME NEW t \in Thread, Raise(t)
      PROVE  todo' \subseteq todo
  BY <1>1, Raised
<1>2. QED
  BY <1>1, Steps DEF vars, threads, Challenge, Pay, Settle, Present, Lookup,
       LookupFails, CheckCache, ServeCached, ServeEvicted, Record, RecordFails,
       Respond, Submit, SubmitRetries, SubmitFails, Put, Pick, PickNext, Evict, EvictRaces,
     Insert,   Mark, MarkFails, BeginSweep, SweepRow, SweepRowFails, EndSweep, Crash, Halt,
       Resume, Start, Finish, Thread

-------------------------------------------------------------------------------
(* What the shared state says once, it goes on saying.                     *)

Advance ==
  /\ \A h \in Hash : invoice[h].state # "none" =>
       /\ invoice'[h].state # "none"
       /\ invoice'[h].memo = invoice[h].memo
       /\ invoice'[h].face = invoice[h].face
       /\ invoice[h].state = "settled" => invoice'[h].state = "settled"
  /\ \A h \in Hash : row[h] # "none" =>
       /\ row'[h] \in {row[h], "stamped"}
       /\ rowDigest'[h] = rowDigest[h]
  /\ accepted \subseteq accepted'

\* A payment changes an invoice's state and none of its terms.
LEMMA PaymentMoves ==
  ASSUME TypeOK, NEW h \in Hash, Pay(h) \/ Settle(h)
  PROVE  /\ invoice[h].state \notin {"none", "settled"}
         /\ invoice'[h].state \notin {"none", "open"}
         /\ invoice'[h].memo = invoice[h].memo
         /\ invoice'[h].face = invoice[h].face
         /\ \A g \in Hash \ {h} : invoice'[g] = invoice[g]
         /\ tokens' = tokens
BY DEF TypeOK, Pay, Settle

LEMMA Advances ==
  ASSUME IInv, [Next]_vars
  PROVE  Advance
<1>0. TypeOK
  BY DEF IInv
<1>1. ASSUME NEW h \in Hash, invoice[h].state # "none"
      PROVE  /\ invoice'[h].state # "none"
             /\ invoice'[h].memo = invoice[h].memo
             /\ invoice'[h].face = invoice[h].face
             /\ invoice[h].state = "settled" => invoice'[h].state = "settled"
  <2>1. CASE UNCHANGED wallet
    BY <1>1, <2>1 DEF wallet
  <2>2. ASSUME NEW g \in Hash, NEW d \in Digest, Challenge(g, d)
        PROVE  invoice'[h] = invoice[h]
    BY <1>0, <1>1, <2>2 DEF TypeOK, Challenge
  <2>3. ASSUME NEW g \in Hash, Pay(g) \/ Settle(g)
        PROVE  /\ invoice'[h].state # "none"
               /\ invoice'[h].memo = invoice[h].memo
               /\ invoice'[h].face = invoice[h].face
               /\ invoice[h].state = "settled" => invoice'[h].state = "settled"
    <3>1. CASE g = h
      BY <1>0, <2>3, <3>1, PaymentMoves
    <3>2. CASE g # h
      BY <1>0, <1>1, <2>3, <3>2, PaymentMoves
    <3>3. QED
      BY <3>1, <3>2
  <2>4. QED
    BY <1>1, <2>1, <2>2, <2>3, WalletChange
<1>2. ASSUME NEW h \in Hash, row[h] # "none"
      PROVE  row'[h] \in {row[h], "stamped"} /\ rowDigest'[h] = rowDigest[h]
  <2>1. CASE UNCHANGED disk
    BY <1>2, <2>1 DEF disk
  <2>2. ASSUME NEW c \in Client, Record(c)
        PROVE  row'[h] = row[h] /\ rowDigest'[h] = rowDigest[h]
    BY <1>0, <1>2, <2>2 DEF TypeOK, Record, InsertOrIgnore
  <2>3. ASSUME NEW t \in Thread, Mark(t)
        PROVE  row'[h] \in {row[h], "stamped"} /\ rowDigest'[h] = rowDigest[h]
    BY <1>0, <1>2, <2>3 DEF TypeOK, Mark
  <2>4. QED
    BY <1>2, <2>1, <2>2, <2>3, DiskChange
<1>3. accepted \subseteq accepted'
  BY CalendarChange
<1>4. QED
  BY <1>1, <1>2, <1>3 DEF Advance

\* An established fact about a payment hash is still one after the step.
LEMMA FactsLast ==
  ASSUME IInv, Advance
  PROVE  /\ \A h, d, p : Issued(h, d, p) => Issued(h, d, p)'
         /\ \A h, d : Paid(h, d) => Paid(h, d)'
         /\ \A h, d : Recorded(h, d) => Recorded(h, d)'
BY DEF Advance, Issued, Paid, Recorded

-------------------------------------------------------------------------------
(* The shared state keeps its invariants.                                  *)

LEMMA WalletStep ==
  ASSUME IInv, [Next]_vars
  PROVE  WalletInv'
<1>0. TypeOK /\ TypeOK' /\ WalletInv
  BY TypeStep DEF IInv
<1>1. CASE UNCHANGED wallet
  BY <1>0, <1>1 DEF WalletInv, wallet, Issued
<1>2. ASSUME NEW h \in Hash, NEW d \in Digest, Challenge(h, d)
      PROVE  WalletInv'
  <2>1. /\ invoice'[h] = [state |-> "open", memo |-> d, face |-> price]
        /\ \A g \in Hash \ {h} : invoice'[g] = invoice[g]
        /\ invoice[h].state = "none"
        /\ price \in Price
    BY <1>0, <1>2 DEF TypeOK, Challenge
  <2>2. ASSUME NEW k \in tokens'
        PROVE  Issued(k.hash, k.digest, k.price)'
    <3>1. CASE k \in tokens
      BY <1>0, <2>1, <3>1 DEF WalletInv, Issued
    <3>2. CASE k = [hash |-> h, digest |-> d, price |-> price]
      BY <2>1, <3>2 DEF Issued
    <3>3. QED
      BY <1>2, <2>2, <3>1, <3>2 DEF Challenge
  <2>3. QED
    BY <1>0, <2>1, <2>2 DEF WalletInv
<1>3. ASSUME NEW h \in Hash, Pay(h) \/ Settle(h)
      PROVE  WalletInv'
  BY <1>0, <1>3, PaymentMoves DEF WalletInv, Issued
<1>4. QED
  BY <1>1, <1>2, <1>3, WalletChange

\* The obligation log and the calendar.
LEMMA LogStep ==
  ASSUME IInv, [Next]_vars
  PROVE  RowInv' /\ StampedIsCommitted' /\ CommittedIsOwed' /\ TodoInv'
<1>0. /\ TypeOK /\ TypeOK' /\ Advance
      /\ RowInv /\ StampedIsCommitted /\ CommittedIsOwed
      /\ \A t \in Thread : ThreadInv(t)
  BY TypeStep, Advances DEF IInv
<1>1. RowInv'
  <2>1. CASE UNCHANGED disk
    BY <1>0, <2>1, FactsLast DEF RowInv, disk
  <2>2. ASSUME NEW c \in Client, Record(c)
        PROVE  RowInv'
    <3>1. Paid(job[c], body[c])
      BY <1>0, <2>2 DEF ThreadInv, Record, Thread
    <3>2. \A h \in Hash : row'[h] # "none" => Paid(h, rowDigest'[h])
      BY <1>0, <2>2, <3>1 DEF RowInv, Record, InsertOrIgnore, TypeOK, Paid
    <3>3. QED
      BY <3>2, FactsLast, <1>0 DEF RowInv
  <2>3. ASSUME NEW t \in Thread, Mark(t)
        PROVE  RowInv'
    <3>1. \A h \in Hash : row'[h] # "none" => Paid(h, rowDigest'[h])
      BY <1>0, <2>3 DEF RowInv, Mark, TypeOK
    <3>2. QED
      BY <3>1, FactsLast, <1>0 DEF RowInv
  <2>4. QED
    BY <2>1, <2>2, <2>3, DiskChange
<1>2. StampedIsCommitted'
  <2>1. CASE UNCHANGED disk
    BY <1>0, <2>1 DEF StampedIsCommitted, Advance, disk
  <2>2. ASSUME NEW c \in Client, Record(c)
        PROVE  StampedIsCommitted'
    BY <1>0, <2>2 DEF StampedIsCommitted, Advance, Record, InsertOrIgnore, TypeOK
  <2>3. ASSUME NEW t \in Thread, Mark(t)
        PROVE  StampedIsCommitted'
    <3>1. Recorded(job[t], body[t]) /\ body[t] \in accepted
      BY <1>0, <2>3 DEF ThreadInv, Mark
    <3>2. QED
      BY <1>0, <2>3, <3>1 DEF StampedIsCommitted, Advance, Mark, TypeOK, Recorded
  <2>4. QED
    BY <2>1, <2>2, <2>3, DiskChange
<1>3. CommittedIsOwed'
  <2>1. ASSUME NEW d \in accepted
        PROVE  \E h \in Hash : Recorded(h, d)' /\ invoice'[h].state = "settled"
    BY <1>0, FactsLast DEF CommittedIsOwed, Recorded, Advance, RowInv, Paid
  <2>2. ASSUME NEW t \in Thread, pc[t] = "stamp"
        PROVE  \E h \in Hash : /\ row'[h] # "none"
                               /\ rowDigest'[h] = body[t]
                               /\ invoice'[h].state = "settled"
    <3>1. Recorded(job[t], body[t]) /\ Paid(job[t], body[t])
      BY <1>0, <2>2 DEF ThreadInv, RowInv, Recorded
    <3>2. QED
      BY <1>0, <3>1 DEF Advance, Recorded, Paid
  <2>3. QED
    BY <2>1, <2>2, CalendarChange DEF CommittedIsOwed, Recorded
<1>4. TodoInv'
  <2>1. \A h \in todo' : h \in todo \/ row[h] # "none"
    BY <1>0, TodoChange
  <2>2. todo' \in SUBSET Hash
    BY <1>0 DEF TypeOK
  <2>3. QED
    BY <1>0, <2>1, <2>2 DEF TodoInv, Advance, IInv
<1>5. QED
  BY <1>1, <1>2, <1>3, <1>4

LEMMA CacheStep ==
  ASSUME IInv, [Next]_vars
  PROVE  CacheInv'
<1> DEFINE Sound(e) == Recorded(e.key, e.value) /\ e.value \in accepted
<1>0. /\ cache \in Dict(Hash, Digest)
      /\ Advance /\ CacheInv
      /\ \A t \in Thread : ThreadInv(t)
  BY Advances DEF IInv, TypeOK, Dict
<1>1. \A e : HasEntry(cache, e) => Sound(e)
  BY <1>0 DEF CacheInv, HasEntry
<1>2. \A e : HasEntry(cache', e) => Sound(e)
  <2>1. CASE UNCHANGED cache
    BY <1>1, <2>1 DEF HasEntry
  <2>2. CASE Crash
    BY <2>2 DEF Crash, HasEntry
  <2>3. ASSUME NEW t \in Thread, pc[t] \in {"put", "evict", "insert"}
        PROVE  /\ Sound([key |-> job[t], value |-> body[t]])
               /\ job[t] \in Hash /\ body[t] \in Digest
    BY <1>0, <2>3 DEF ThreadInv, Recorded, IInv, RowInv, Paid
  <2>4. ASSUME NEW t \in Thread, pc[t] \in {"put", "evict", "insert"},
               cache' = Store(cache, job[t], body[t])
        PROVE  \A e : HasEntry(cache', e) => Sound(e)
    <3>1. \A e : HasEntry(cache', e) =>
                   HasEntry(cache, e) \/ e = [key |-> job[t], value |-> body[t]]
      BY <1>0, <2>3, <2>4, StoreEntries
    <3>2. QED
      BY <1>1, <2>3, <2>4, <3>1
  <2>5. ASSUME NEW t \in Thread, pc[t] \in {"put", "evict", "insert"},
               victim[t] \in Keys(cache),
               cache' = Store(Delete(cache, victim[t]), job[t], body[t])
        PROVE  \A e : HasEntry(cache', e) => Sound(e)
    <3>1. /\ Delete(cache, victim[t]) \in Dict(Hash, Digest)
          /\ \A e : HasEntry(Delete(cache, victim[t]), e) => HasEntry(cache, e)
      BY <1>0, <2>5, DeleteEntries
    <3>2. \A e : HasEntry(cache', e) =>
                   HasEntry(cache, e) \/ e = [key |-> job[t], value |-> body[t]]
      BY <2>3, <2>5, <3>1, StoreEntries
    <3>3. QED
      BY <1>1, <2>3, <2>5, <3>2
  <2>6. QED
    BY <2>1, <2>2, <2>4, <2>5, CacheChange
<1>3. \A e : Sound(e) => Recorded(e.key, e.value)' /\ e.value \in accepted'
  BY <1>0, FactsLast DEF Advance
<1>4. QED
  BY <1>2, <1>3 DEF CacheInv, HasEntry

-------------------------------------------------------------------------------
(* Every thread keeps its invariant.                                       *)

\* The registers of thread u are as they were.
Still(u) ==
  /\ pc'[u] = pc[u]
  /\ job'[u] = job[u]
  /\ body'[u] = body[u]
  /\ bid'[u] = bid[u]
  /\ victim'[u] = victim[u]

\* The cache is not emptied.
CacheKept == Len(cache) >= 1 => Len(cache') >= 1

LEMMA CacheIsKept ==
  ASSUME IInv, [Next]_vars, ~Crash
  PROVE  CacheKept
<1>0. cache \in Dict(Hash, Digest) /\ \A t \in Thread : ThreadInv(t)
  BY DEF IInv, TypeOK, Dict
<1>1. ASSUME NEW t \in Thread, pc[t] \in {"put", "evict", "insert"}
      PROVE  job[t] \in Hash /\ body[t] \in Digest
  BY <1>0, <1>1 DEF ThreadInv, Recorded, IInv, RowInv, Paid
<1>2. ASSUME NEW t \in Thread, pc[t] \in {"put", "evict", "insert"},
             cache' = Store(cache, job[t], body[t])
      PROVE  Len(cache') >= 1
  BY <1>0, <1>1, <1>2, StoreEntries
<1>3. ASSUME NEW t \in Thread, pc[t] \in {"put", "evict", "insert"},
             victim[t] \in Keys(cache),
             cache' = Store(Delete(cache, victim[t]), job[t], body[t])
      PROVE  Len(cache') >= 1
  <2>1. Delete(cache, victim[t]) \in Dict(Hash, Digest)
    BY <1>0, <1>3, DeleteEntries
  <2>2. QED
    BY <1>1, <1>3, <2>1, StoreEntries
<1>4. QED
  BY <1>2, <1>3, CacheChange DEF CacheKept

LEMMA Undisturbed ==
  ASSUME IInv, Advance, CacheKept, NEW u \in Thread, Still(u)
  PROVE  ThreadInv(u)'
<1>1. ThreadInv(u)
  BY DEF IInv
<1>2. pc[u] = "lookup" => Issued(job[u], body[u], bid[u])'
  BY <1>1, FactsLast DEF ThreadInv, Still, Issued, Advance
<1>3. pc[u] \in {"check", "serve", "record"} => Paid(job[u], body[u])'
  BY <1>1 DEF ThreadInv, Still, Paid, Advance
<1>4. pc[u] \in {"stamp", "put", "pick", "next", "evict", "insert", "mark", "respond"} =>
        Recorded(job[u], body[u])'
  BY <1>1 DEF ThreadInv, Still, Recorded, Advance
<1>5. QED
  BY <1>1, <1>2, <1>3, <1>4 DEF ThreadInv, Still, Advance, CacheKept

\* A thread that is dropped has nothing left to know.
LEMMA DroppedThread ==
  ASSUME TypeOK, NEW t \in Thread, NEW label \in {"idle", "row"}, Drop(t, label),
         label = "row" => t = Sweeper
  PROVE  ThreadInv(t)' /\ \A u \in Thread \ {t} : Still(u)
BY DEF TypeOK, Drop, ThreadInv, Still, Label

\* A thread that moves on leaves every other as it was.
LEMMA MovedThread ==
  ASSUME TypeOK, NEW t \in Thread, NEW label \in Label, GoTo(t, label),
         \A u \in Thread \ {t} : victim'[u] = victim[u]
  PROVE  /\ pc'[t] = label /\ job'[t] = job[t] /\ body'[t] = body[t] /\ bid'[t] = bid[t]
         /\ \A u \in Thread \ {t} : Still(u)
BY DEF TypeOK, GoTo, Still, work

LEMMA ThreadStep ==
  ASSUME IInv, [Next]_vars
  PROVE  \A t \in Thread : ThreadInv(t)'
<1> USE RedemptionAssumption
<1>0. TypeOK /\ Advance /\ \A t \in Thread : ThreadInv(t)
  BY Advances DEF IInv
<1>1. CASE Crash
  BY <1>1 DEF Crash, ThreadInv, Label
<1>2. SUFFICES ASSUME CacheKept
                PROVE  \A t \in Thread : ThreadInv(t)'
  BY <1>1, CacheIsKept
<1>3. ASSUME NEW t \in Thread, ThreadInv(t)', \A u \in Thread \ {t} : Still(u)
      PROVE  \A u \in Thread : ThreadInv(u)'
  BY <1>0, <1>3, <1>2, Undisturbed
<1>4. ASSUME \A u \in Thread : Still(u)
      PROVE  \A u \in Thread : ThreadInv(u)'
  BY <1>0, <1>4, <1>2, Undisturbed
<1>5. CASE UNCHANGED vars
  BY <1>4, <1>5 DEF vars, Still
<1>6. CASE UNCHANGED threads
  BY <1>4, <1>6 DEF threads, Still
<1>7. ASSUME NEW t \in Thread, Raise(t)
      PROVE  \A u \in Thread : ThreadInv(u)'
  BY <1>0, <1>3, <1>7, Raised, DroppedThread
<1>8. ASSUME NEW c \in Client, NEW code \in Code, NEW proof, Finish(c, code, proof)
      PROVE  \A u \in Thread : ThreadInv(u)'
  BY <1>0, <1>3, <1>8, DroppedThread DEF Finish, Thread
<1>9. ASSUME NEW c \in Client, NEW token \in Token, NEW d \in Digest,
             NEW hasPreimage \in BOOLEAN, Present(c, token, d, hasPreimage)
      PROVE  \A u \in Thread : ThreadInv(u)'
  <2>1. CASE UNCHANGED threads
    BY <1>6, <2>1
  <2>2. CASE /\ TokenValid(token, d)
             /\ pc' = [pc EXCEPT ![c] = "lookup"]
             /\ job' = [job EXCEPT ![c] = token.hash]
             /\ body' = [body EXCEPT ![c] = d]
             /\ bid' = [bid EXCEPT ![c] = token.price]
             /\ UNCHANGED <<tries, size, victim, todo>>
    <3>1. Issued(token.hash, d, token.price)
      BY <2>2 DEF IInv, WalletInv, TokenValid
    <3>2. /\ pc'[c] = "lookup" /\ job'[c] = token.hash
          /\ body'[c] = d /\ bid'[c] = token.price
          /\ \A u \in Thread \ {c} : Still(u)
          /\ c \in Thread /\ c # Sweeper
      BY <1>0, <2>2 DEF TypeOK, Still, Thread
    <3>3. invoice' = invoice
      BY <1>9 DEF Present, wallet
    <3>4. ThreadInv(c)'
      BY <3>1, <3>2, <3>3 DEF ThreadInv, Issued, Label
    <3>5. QED
      BY <1>3, <3>2, <3>4
  <2>3. QED
    BY <1>9, <2>1, <2>2 DEF Present
<1>10. ASSUME NEW c \in Client, Lookup(c) \/ CheckCache(c) \/ Record(c)
      PROVE  \A u \in Thread : ThreadInv(u)'
  <2>0. c \in Thread /\ c # Sweeper /\ ThreadInv(c)
    BY <1>0 DEF Thread
  <2>1. CASE Lookup(c) /\ PaymentVerified(c) /\ GoTo(c, "check")
    <3>1. Paid(job[c], body[c])
      <4>1. Issued(job[c], body[c], bid[c]) /\ invoice[job[c]].state = "settled"
        BY <2>0, <2>1 DEF ThreadInv, Lookup, PaymentVerified
      <4>2. QED
        BY <4>1 DEF Issued, Paid, IInv, WalletInv
    <3>2. /\ pc'[c] = "check" /\ job'[c] = job[c] /\ body'[c] = body[c]
          /\ \A u \in Thread \ {c} : Still(u)
          /\ invoice' = invoice
      BY <1>0, <2>0, <2>1, MovedThread DEF Lookup, PaymentVerified, Finish, Drop,
           TypeOK, GoTo, Still, Label, wallet, work
    <3>3. ThreadInv(c)'
      BY <2>0, <3>1, <3>2 DEF ThreadInv, Paid, Label
    <3>4. QED
      BY <1>3, <2>0, <3>2, <3>3
  <2>2. CASE Finish(c, "payment_required", None)
    BY <1>8, <2>2 DEF Code
  <2>3. CASE CheckCache(c)
    <3>1. /\ Paid(job[c], body[c])
          /\ pc'[c] \in {"serve", "record"} /\ job'[c] = job[c] /\ body'[c] = body[c]
          /\ \A u \in Thread \ {c} : Still(u)
          /\ invoice' = invoice
      BY <1>0, <2>0, <2>3 DEF CheckCache, ThreadInv, TypeOK, GoTo, Still, wallet, work
    <3>2. ThreadInv(c)'
      BY <2>0, <3>1 DEF ThreadInv, Paid, Label
    <3>3. QED
      BY <1>3, <2>0, <3>1, <3>2
  <2>4. CASE Record(c)
    <3>1. Paid(job[c], body[c])
      BY <2>0, <2>4 DEF Record, ThreadInv
    <3>2. /\ pc'[c] = "stamp" /\ job'[c] = job[c] /\ body'[c] = body[c]
          /\ \A u \in Thread \ {c} : Still(u)
      BY <1>0, <2>0, <2>4 DEF Record, TypeOK, GoTo, Still, work
    <3>3. row'[job[c]] # "none" /\ rowDigest'[job[c]] = body[c]
      BY <1>0, <2>4, <3>1 DEF Record, InsertOrIgnore, IInv, TypeOK, RowInv, Paid
    <3>4. ThreadInv(c)'
      BY <2>0, <3>1, <3>2, <3>3 DEF ThreadInv, Paid, Recorded, Label
    <3>5. QED
      BY <1>3, <2>0, <3>2, <3>4
  <2>5. QED
    BY <1>10, <2>1, <2>2, <2>3, <2>4 DEF Lookup
<1>11. ASSUME NEW c \in Client,
             \/ LookupFails(c) \/ ServeCached(c) \/ ServeEvicted(c)
             \/ RecordFails(c) \/ Respond(c)
      PROVE  \A u \in Thread : ThreadInv(u)'
  BY <1>7, <1>8, <1>11
     DEF LookupFails, ServeCached, ServeEvicted, RecordFails, Respond, Code, Thread
<1>12. ASSUME NEW t \in Thread,
              \/ Submit(t) \/ SubmitRetries(t) \/ SubmitFails(t) \/ Put(t)
              \/ Pick(t) \/ PickNext(t) \/ Evict(t) \/ EvictRaces(t) \/ Insert(t)
              \/ Mark(t) \/ MarkFails(t)
       PROVE  \A u \in Thread : ThreadInv(u)'
  <2>0. ThreadInv(t) /\ (t # Sweeper => t \in Client)
    BY <1>0 DEF Thread
  <2>1. ASSUME Recorded(job[t], body[t]),
               pc'[t] \in {"put", "pick", "next", "evict", "insert", "mark"} \/
                 (pc'[t] = "respond" /\ t # Sweeper),
               job'[t] = job[t], body'[t] = body[t], body[t] \in accepted',
               pc'[t] \in {"pick", "next"} => Len(cache') >= 1,
               pc'[t] = "evict" => victim'[t] \in Hash,
               \A u \in Thread \ {t} : Still(u)
        PROVE  \A u \in Thread : ThreadInv(u)'
    <3>1. Recorded(job[t], body[t])'
      BY <1>0, <2>1 DEF Recorded, Advance
    <3>2. ThreadInv(t)'
      BY <2>1, <3>1 DEF ThreadInv, Label
    <3>3. QED
      BY <1>3, <2>1, <3>2
  <2>2. CASE Submit(t)
    BY <1>0, <2>0, <2>1, <2>2
       DEF Submit, ThreadInv, GoTo, TypeOK, Still, Label, work
  <2>3. CASE SubmitRetries(t)
    BY <1>4, <2>3 DEF SubmitRetries, Still, work
  <2>4. CASE SubmitFails(t)
    <3>1. CASE t \in Client /\ Finish(t, "stamp_failed", None)
      BY <1>8, <3>1 DEF Code
    <3>2. CASE t = Sweeper /\ Drop(t, "row")
      BY <1>0, <1>3, <3>2, DroppedThread
    <3>3. QED
      BY <2>4, <3>1, <3>2 DEF SubmitFails
  <2>5. CASE Put(t)
    <3>1. /\ Recorded(job[t], body[t]) /\ body[t] \in accepted'
          /\ pc'[t] \in {"mark", "pick", "insert"}
          /\ job'[t] = job[t] /\ body'[t] = body[t]
          /\ \A u \in Thread \ {t} : Still(u)
      BY <1>0, <2>0, <2>5 DEF Put, ThreadInv, TypeOK, GoTo, Still, work
    <3>2. pc'[t] = "pick" => Len(cache') >= 1
      <4>1. Len(cache) \in Nat
        BY <1>0, LenProperties DEF TypeOK
      <4>2. QED
        BY <1>0, <2>5, <4>1 DEF Put, TypeOK, GoTo
    <3>3. QED
      BY <2>1, <3>1, <3>2
  <2>6. CASE Pick(t)
    <3>1. /\ Recorded(job[t], body[t]) /\ body[t] \in accepted'
          /\ pc'[t] = "next"
          /\ job'[t] = job[t] /\ body'[t] = body[t]
          /\ \A u \in Thread \ {t} : Still(u)
          /\ Len(cache') >= 1
      BY <1>0, <2>0, <2>6 DEF Pick, ThreadInv, TypeOK, GoTo, Still, work
    <3>2. QED
      BY <2>1, <3>1
  <2>7. CASE PickNext(t)
    <3>1. /\ Recorded(job[t], body[t]) /\ body[t] \in accepted'
          /\ pc'[t] = "evict"
          /\ job'[t] = job[t] /\ body'[t] = body[t]
          /\ \A u \in Thread \ {t} : Still(u)
      BY <1>0, <2>0, <2>7 DEF PickNext, ThreadInv, TypeOK, GoTo, Still, work
    <3>2. victim'[t] \in Hash
      <4>1. cache \in Dict(Hash, Digest) /\ Len(cache) >= 1
        BY <1>0, <2>0, <2>7 DEF TypeOK, Dict, ThreadInv, PickNext
      <4>2. Oldest(cache) \in Hash
        BY <4>1, OldestIsKey
      <4>3. QED
        BY <1>0, <2>7, <4>2 DEF PickNext, TypeOK
    <3>3. QED
      BY <2>1, <3>1, <3>2
  <2>8. CASE Evict(t) \/ Insert(t)
    BY <1>0, <2>0, <2>1, <2>8
       DEF Evict, Insert, ThreadInv, GoTo, TypeOK, Still, Label, work
  <2>9. CASE EvictRaces(t) \/ MarkFails(t)
    BY <1>7, <2>9 DEF EvictRaces, MarkFails
  <2>10. CASE Mark(t)
    <3>1. CASE t \in Client /\ GoTo(t, "respond") /\ UNCHANGED <<tries, size, victim>>
      BY <1>0, <2>0, <2>1, <2>10, <3>1
         DEF Mark, ThreadInv, GoTo, TypeOK, Still, Label, work
    <3>2. CASE t = Sweeper /\ Drop(t, "row")
      BY <1>0, <1>3, <3>2, DroppedThread
    <3>3. QED
      BY <2>10, <3>1, <3>2 DEF Mark
  <2>11. QED
    BY <1>12, <2>2, <2>3, <2>4, <2>5, <2>8, <2>9, <2>10, <2>6, <2>7
<1>13. CASE BeginSweep \/ EndSweep
  <2>1. Sweeper \in Thread /\ Sweeper \notin Client
    BY DEF Thread
  <2>2. /\ pc'[Sweeper] \in {"idle", "row"}
        /\ \A u \in Thread \ {Sweeper} : Still(u)
    BY <1>0, <1>13, <2>1 DEF BeginSweep, EndSweep, GoTo, TypeOK, Still, work
  <2>3. ThreadInv(Sweeper)'
    BY <2>2 DEF ThreadInv
  <2>4. QED
    BY <1>3, <2>1, <2>2, <2>3
<1>14. ASSUME NEW h \in Hash, SweepRow(h)
       PROVE  \A u \in Thread : ThreadInv(u)'
  <2>1. Sweeper \in Thread /\ row[h] # "none" /\ UNCHANGED disk
    BY <1>14 DEF Thread, SweepRow, IInv, TodoInv
  <2>2. /\ pc'[Sweeper] = "stamp" /\ job'[Sweeper] = h /\ body'[Sweeper] = rowDigest[h]
        /\ \A u \in Thread \ {Sweeper} : Still(u)
    BY <1>0, <1>14, <2>1 DEF SweepRow, TypeOK, Still
  <2>3. ThreadInv(Sweeper)'
    BY <2>1, <2>2 DEF ThreadInv, Recorded, disk
  <2>4. QED
    BY <1>3, <2>1, <2>2, <2>3
<1>15. CASE SweepRowFails
  BY <1>7, <1>15 DEF SweepRowFails, Thread
<1>16. CASE \/ UNCHANGED threads
            \/ \E h \in Hash : Pay(h) \/ Settle(h) \/ \E d \in Digest : Challenge(h, d)
  BY <1>6, <1>16 DEF Pay, Settle, Challenge
<1>17. CASE Halt \/ Resume \/ \E p \in Price : Start(p)
  BY <1>6, <1>17 DEF Halt, Resume, Start
<1>18. CASE Next
  BY <1>9, <1>10, <1>11, <1>12, <1>13, <1>14, <1>15, <1>1, <1>16, <1>17, <1>18, Steps
<1>19. QED
  BY <1>5, <1>18
-------------------------------------------------------------------------------
(* What the answers say.                                                   *)

\* The only steps that hand out a proof, and what they hand out.
LEMMA ProofAnswers ==
  ASSUME IInv, Next, answer'.code = "proof"
  PROVE  /\ UNCHANGED <<wallet, accepted, disk>>
         /\ Recorded(answer'.hash, answer'.proof)
         /\ answer'.proof \in accepted
<1>0. TypeOK /\ CacheInv /\ \A t \in Thread : ThreadInv(t)
  BY DEF IInv
<1>1. ASSUME NEW t \in Thread, Raise(t)
      PROVE  FALSE
  BY <1>0, <1>1, Raised
<1>2. ASSUME NEW c \in Client, NEW code \in Code \ {"proof"}, NEW proof,
             Finish(c, code, proof)
      PROVE  FALSE
  BY <1>2 DEF Finish, Reply
<1>3. ASSUME NEW c \in Client, ServeCached(c)
      PROVE  /\ UNCHANGED <<wallet, accepted, disk>>
             /\ Recorded(answer'.hash, answer'.proof)
             /\ answer'.proof \in accepted
  <2>1. answer'.hash = job[c] /\ answer'.proof = Value(cache, job[c])
    BY <1>3 DEF ServeCached, Finish, Reply
  <2>2. /\ Slot(cache, job[c]) \in 1..Len(cache)
        /\ cache[Slot(cache, job[c])] = [key |-> job[c], value |-> Value(cache, job[c])]
        /\ DOMAIN cache = 1..Len(cache)
    <3>1. cache \in Dict(Hash, Digest) /\ job[c] \in Keys(cache)
      BY <1>0, <1>3 DEF TypeOK, ServeCached, Dict
    <3>2. QED
      BY <3>1, SlotOfKey, Slots
  <2>3. QED
    BY <1>0, <1>3, <2>1, <2>2 DEF CacheInv, ServeCached
<1>4. ASSUME NEW c \in Client, Respond(c)
      PROVE  /\ UNCHANGED <<wallet, accepted, disk>>
             /\ Recorded(answer'.hash, answer'.proof)
             /\ answer'.proof \in accepted
  BY <1>0, <1>4 DEF Respond, Finish, Reply, ThreadInv, Thread
<1>5. NoAnswer.code = "none" /\ \A code \in Code : Reply(code, None, None).code = code
  BY DEF NoAnswer, Reply
<1>6. ASSUME NEW c \in Client,
             \/ Lookup(c) \/ LookupFails(c) \/ CheckCache(c) \/ ServeEvicted(c)
             \/ Record(c) \/ RecordFails(c)
      PROVE  FALSE
  BY <1>1, <1>2, <1>5, <1>6
     DEF Lookup, LookupFails, CheckCache, ServeEvicted, Record, RecordFails, Code, Thread
<1>7. ASSUME NEW t \in Thread,
             \/ Submit(t) \/ SubmitRetries(t) \/ SubmitFails(t) \/ Put(t)
             \/ Pick(t) \/ PickNext(t) \/ Evict(t) \/ EvictRaces(t) \/ Insert(t)
             \/ Mark(t) \/ MarkFails(t)
      PROVE  FALSE
  BY <1>1, <1>2, <1>5, <1>7
     DEF Submit, SubmitRetries, SubmitFails, Put, Pick, PickNext, Evict, EvictRaces,
         Insert, Mark, MarkFails, Code
<1>8. ASSUME NEW c \in Client, NEW token \in Token, NEW d \in Digest,
             NEW hasPreimage \in BOOLEAN, Present(c, token, d, hasPreimage)
      PROVE  FALSE
  BY <1>5, <1>8 DEF Present, Code
<1>9. CASE \/ \E h \in Hash, d \in Digest : Challenge(h, d)
           \/ \E h \in Hash : Pay(h) \/ Settle(h) \/ SweepRow(h)
           \/ BeginSweep \/ SweepRowFails \/ EndSweep
           \/ Crash \/ Halt \/ Resume
           \/ \E p \in Price : Start(p)
  BY <1>1, <1>5, <1>9
     DEF Challenge, Pay, Settle, SweepRow, BeginSweep, SweepRowFails, EndSweep,
         Crash, Halt, Resume, Start, Thread
<1>10. QED
  BY <1>3, <1>4, <1>6, <1>7, <1>8, <1>9, Steps

\* A 402 is sent only by a lookup that found the invoice not settled.
LEMMA UnpaidAnswers ==
  ASSUME IInv, Next, answer'.code = "payment_required"
  PROVE  invoice'[answer'.hash].state # "settled"
<1>0. TypeOK /\ \A t \in Thread : ThreadInv(t)
  BY DEF IInv
<1>1. ASSUME NEW t \in Thread, Raise(t)
      PROVE  FALSE
  BY <1>0, <1>1, Raised
<1>2. ASSUME NEW c \in Client, NEW code \in Code \ {"payment_required"}, NEW proof,
             Finish(c, code, proof)
      PROVE  FALSE
  BY <1>2 DEF Finish, Reply
<1>3. NoAnswer.code = "none" /\ \A code \in Code : Reply(code, None, None).code = code
  BY DEF NoAnswer, Reply
<1>4. ASSUME NEW c \in Client, Lookup(c)
      PROVE  invoice'[answer'.hash].state # "settled"
  <2>1. ~PaymentVerified(c) /\ answer'.hash = job[c] /\ invoice' = invoice
    BY <1>3, <1>4 DEF Lookup, Finish, Reply, wallet
  <2>2. /\ invoice[job[c]].memo = body[c]
        /\ invoice[job[c]].face = bid[c]
        /\ bid[c] \in Nat
    BY <1>0, <1>4, RedemptionAssumption
       DEF Lookup, ThreadInv, Issued, Thread, IInv, WalletInv
  <2>3. QED
    BY <2>1, <2>2 DEF PaymentVerified
<1>5. ASSUME NEW c \in Client,
             \/ LookupFails(c) \/ CheckCache(c) \/ ServeCached(c) \/ ServeEvicted(c)
             \/ Record(c) \/ RecordFails(c) \/ Respond(c)
      PROVE  FALSE
  BY <1>1, <1>2, <1>3, <1>5
     DEF LookupFails, CheckCache, ServeCached, ServeEvicted, Record, RecordFails,
         Respond, Code, Thread
<1>6. ASSUME NEW t \in Thread,
             \/ Submit(t) \/ SubmitRetries(t) \/ SubmitFails(t) \/ Put(t)
             \/ Pick(t) \/ PickNext(t) \/ Evict(t) \/ EvictRaces(t) \/ Insert(t)
             \/ Mark(t) \/ MarkFails(t)
      PROVE  FALSE
  BY <1>1, <1>2, <1>3, <1>6
     DEF Submit, SubmitRetries, SubmitFails, Put, Pick, PickNext, Evict, EvictRaces,
         Insert, Mark, MarkFails, Code
<1>7. ASSUME NEW c \in Client, NEW token \in Token, NEW d \in Digest,
             NEW hasPreimage \in BOOLEAN, Present(c, token, d, hasPreimage)
      PROVE  FALSE
  BY <1>3, <1>7 DEF Present, Code
<1>8. CASE \/ \E h \in Hash, d \in Digest : Challenge(h, d)
           \/ \E h \in Hash : Pay(h) \/ Settle(h) \/ SweepRow(h)
           \/ BeginSweep \/ SweepRowFails \/ EndSweep
           \/ Crash \/ Halt \/ Resume
           \/ \E p \in Price : Start(p)
  BY <1>1, <1>3, <1>8
     DEF Challenge, Pay, Settle, SweepRow, BeginSweep, SweepRowFails, EndSweep,
         Crash, Halt, Resume, Start, Thread
<1>9. QED
  BY <1>4, <1>5, <1>6, <1>7, <1>8, Steps

LEMMA AnswerStep ==
  ASSUME IInv, [Next]_vars
  PROVE  ServedIsPaidAndOwed' /\ SettledIsHonoured'
<1>1. CASE UNCHANGED vars
  BY <1>1 DEF vars, IInv, ServedIsPaidAndOwed, SettledIsHonoured
<1>2. CASE Next
  <2>1. ServedIsPaidAndOwed'
    <3>1. SUFFICES ASSUME answer'.code = "proof"
                   PROVE  /\ invoice'[answer'.hash].state = "settled"
                          /\ invoice'[answer'.hash].memo = answer'.proof
                          /\ answer'.proof \in accepted'
                          /\ row'[answer'.hash] # "none"
      BY DEF ServedIsPaidAndOwed
    <3>2. QED
      BY <1>2, <3>1, ProofAnswers DEF Recorded, Paid, IInv, RowInv, wallet, disk
  <2>2. SettledIsHonoured'
    BY <1>2, UnpaidAnswers DEF SettledIsHonoured
  <2>3. QED
    BY <2>1, <2>2
<1>3. QED
  BY <1>1, <1>2

-------------------------------------------------------------------------------
(* The theorems.                                                           *)

LEMMA InitInv ==
  ASSUME Init
  PROVE  IInv
<1> USE RedemptionAssumption
<1>1. TypeOK
  <2>1. cache \in Seq([key : Hash, value : Digest]) /\ 0 \in 0..MaxAttempts
    BY EmptySeq DEF Init
  <2>2. QED
    BY <2>1, NoAnswerType DEF Init, Idle, TypeOK, InvoiceState, Label
<1>2. WalletInv /\ RowInv /\ StampedIsCommitted /\ CommittedIsOwed /\ TodoInv
  BY DEF Init, WalletInv, RowInv, StampedIsCommitted, CommittedIsOwed, TodoInv
<1>3. CacheInv
  BY DEF Init, CacheInv
<1>4. \A t \in Thread : ThreadInv(t)
  BY DEF Init, Idle, ThreadInv, Label
<1>5. ServedIsPaidAndOwed /\ SettledIsHonoured
  BY DEF Init, NoAnswer, Reply, ServedIsPaidAndOwed, SettledIsHonoured
<1>6. QED
  BY <1>1, <1>2, <1>3, <1>4, <1>5 DEF IInv

LEMMA NextInv ==
  ASSUME IInv, [Next]_vars
  PROVE  IInv'
BY TypeStep, WalletStep, LogStep, CacheStep, ThreadStep, AnswerStep DEF IInv

\* The invariant holds in every state the gateway can be in.
THEOREM Inductive == Spec => []IInv
<1>1. Init => IInv
  BY InitInv
<1>2. IInv /\ [Next]_vars => IInv'
  BY NextInv
<1>3. QED
  BY <1>1, <1>2, PTL DEF Spec

\* Every variable keeps its type: no thread ever holds a job, a digest or a victim
\* that is not one, and no attempt number passes MaxAttempts.
THEOREM TypeCorrect == Spec => []TypeOK
<1>1. IInv => TypeOK
  BY DEF IInv
<1>2. QED
  BY <1>1, Inductive, PTL

\* A row marked stamped is for a digest the calendar holds, whichever thread
\* marked it (stamp_digest before mark_obligation_stamped).
THEOREM StampedCommitted == Spec => []StampedIsCommitted
<1>1. IInv => StampedIsCommitted
  BY DEF IInv
<1>2. QED
  BY <1>1, Inductive, PTL

\* Whatever the calendar was given is owed on disk for a settled invoice
\* (record_obligation before stamp_digest).
THEOREM CommittedOwed == Spec => []CommittedIsOwed
<1>1. IInv => CommittedIsOwed
  BY DEF IInv
<1>2. QED
  BY <1>1, Inductive, PTL

\* A proof is served only for its own digest, paid, owed and committed, from the
\* calendar's answer or from the cache (timestamp's two ways to a 200).
THEOREM ServedPaidAndOwed == Spec => []ServedIsPaidAndOwed
<1>1. IInv => ServedIsPaidAndOwed
  BY DEF IInv
<1>2. QED
  BY <1>1, Inductive, PTL

\* A settled invoice is never answered 402 (verify_payment compares with the
\* token's price).
THEOREM SettledHonoured == Spec => []SettledIsHonoured
<1>1. IInv => SettledIsHonoured
  BY DEF IInv
<1>2. QED
  BY <1>1, Inductive, PTL

\* No step loses a row, binds it to another digest or turns it back to owed
\* (INSERT OR IGNORE, and an UPDATE by primary key).
THEOREM RowsAdvance == Spec => RowsOnlyAdvance
<1>1. IInv /\ [Next]_vars =>
        [\A h \in Hash : row[h] # "none" =>
           /\ row'[h] \in {row[h], "stamped"}
           /\ rowDigest'[h] = rowDigest[h]]_vars
  BY Advances DEF Advance
<1>2. QED
  BY <1>1, Inductive, PTL DEF Spec, RowsOnlyAdvance

-------------------------------------------------------------------------------
(* How far the cache outgrows its bound.                                   *)

\* The threads that have found room and not stored yet.
Inserting == {t \in Thread : pc[t] = "insert"}

\* Every thread but one that is about to store may have measured before it.
Room == Len(cache) + Cardinality(Inserting) <= CacheMax + Cardinality(Thread) - 1

LEMMA ThreadsAreFinite ==
  /\ IsFiniteSet(Thread) /\ Cardinality(Thread) \in Nat
  /\ \A S \in SUBSET Thread :
       IsFiniteSet(S) /\ Cardinality(S) \in Nat /\ Cardinality(S) <= Cardinality(Thread)
<1>1. IsFiniteSet(Thread)
  BY FS_AddElement, RedemptionAssumption DEF Thread
<1>2. QED
  BY <1>1, FS_Subset, FS_CardinalityType

\* Only Put leads to an insert, and only it, Insert, Evict and a crash touch the cache.
LEMMA LabelChange ==
  ASSUME TypeOK, [Next]_vars
  PROVE  \/ Crash
         \/ \E t \in Thread : Put(t) \/ Insert(t)
         \/ /\ \A u \in Thread : pc'[u] = "insert" => pc[u] = "insert"
            /\ UNCHANGED cache \/ \E t \in Thread : Evict(t)
<1> DEFINE Quiet == \A u \in Thread : pc'[u] = "insert" => pc[u] = "insert"
<1>1. ASSUME NEW t \in Thread, NEW label \in Label \ {"insert"},
             pc' = [pc EXCEPT ![t] = label]
      PROVE  Quiet
  BY <1>1 DEF TypeOK
<1>2. ASSUME NEW t \in Thread, NEW label \in Label \ {"insert"}, Drop(t, label)
      PROVE  Quiet
  BY <1>1, <1>2 DEF Drop
<1>3. ASSUME NEW t \in Thread, Raise(t)
      PROVE  Quiet
  BY <1>2, <1>3, Raised DEF Label
<1>4. ASSUME NEW t \in Thread, NEW code, NEW proof, Finish(t, code, proof)
      PROVE  Quiet
  BY <1>2, <1>4 DEF Finish, Label
<1>5. /\ \A t \in Thread, label \in Label \ {"insert"} :
           pc' = [pc EXCEPT ![t] = label] \/ Drop(t, label) => Quiet
      /\ UNCHANGED pc => Quiet
      /\ \A t \in Thread : Raise(t) => Quiet
      /\ \A t \in Thread : \A code, proof : Finish(t, code, proof) => Quiet
  BY <1>1, <1>2, <1>3, <1>4
<1> HIDE DEF Quiet
<1>6. ASSUME NEW h \in Hash, (\E d \in Digest : Challenge(h, d)) \/ Pay(h) \/ Settle(h)
      PROVE  Quiet /\ UNCHANGED cache
  BY <1>5, <1>6 DEF Challenge, Pay, Settle, threads
<1>7. ASSUME NEW c \in Client, NEW token \in Token, NEW d \in Digest,
             NEW hasPreimage \in BOOLEAN, Present(c, token, d, hasPreimage)
      PROVE  Quiet /\ UNCHANGED cache
  <2>1. c \in Thread /\ "lookup" \in Label \ {"insert"}
    BY DEF Thread, Label
  <2>2. UNCHANGED pc \/ pc' = [pc EXCEPT ![c] = "lookup"]
    BY <1>7 DEF Present, threads
  <2>3. UNCHANGED cache
    BY <1>7 DEF Present
  <2>4. QED
    BY <1>5, <2>1, <2>2, <2>3
<1>8. ASSUME NEW c \in Client,
             \/ Lookup(c) \/ LookupFails(c) \/ CheckCache(c) \/ ServeCached(c)
             \/ ServeEvicted(c) \/ Record(c) \/ RecordFails(c) \/ Respond(c)
      PROVE  Quiet /\ UNCHANGED cache
  <2> USE <1>5 DEF Label, Thread, GoTo
  <2>1. CASE Lookup(c) \/ LookupFails(c)
    BY <2>1 DEF Lookup, LookupFails
  <2>2. CASE CheckCache(c) \/ ServeCached(c) \/ ServeEvicted(c)
    BY <2>2 DEF CheckCache, ServeCached, ServeEvicted
  <2>3. CASE Record(c) \/ RecordFails(c) \/ Respond(c)
    BY <2>3 DEF Record, RecordFails, Respond
  <2>4. QED
    BY <1>8, <2>1, <2>2, <2>3
<1>9. ASSUME NEW t \in Thread,
             \/ Submit(t) \/ SubmitRetries(t) \/ SubmitFails(t)
             \/ Pick(t) \/ PickNext(t) \/ EvictRaces(t) \/ Mark(t) \/ MarkFails(t)
      PROVE  Quiet /\ UNCHANGED cache
  <2> USE <1>5 DEF Label, GoTo
  <2>1. CASE Submit(t) \/ SubmitRetries(t) \/ SubmitFails(t)
    BY <2>1 DEF Submit, SubmitRetries, SubmitFails, threads
  <2>2. CASE Pick(t) \/ PickNext(t) \/ EvictRaces(t)
    BY <2>2 DEF Pick, PickNext, EvictRaces
  <2>3. CASE Mark(t) \/ MarkFails(t)
    BY <2>3 DEF Mark, MarkFails
  <2>4. QED
    BY <1>9, <2>1, <2>2, <2>3
<1>10. ASSUME NEW t \in Thread, Evict(t)
       PROVE  Quiet
  BY <1>5, <1>10 DEF Evict, GoTo, Label
<1>11. ASSUME BeginSweep \/ SweepRowFails \/ EndSweep \/ \E h \in Hash : SweepRow(h)
       PROVE  Quiet /\ UNCHANGED cache
  BY <1>5, <1>11 DEF BeginSweep, SweepRowFails, EndSweep, SweepRow, GoTo, Label, Thread
<1>12. ASSUME Halt \/ Resume \/ (\E p \in Price : Start(p)) \/ UNCHANGED vars
       PROVE  Quiet /\ UNCHANGED cache
  BY <1>5, <1>12 DEF Halt, Resume, Start, vars, threads
<1>13. QED
  BY <1>6, <1>7, <1>8, <1>9, <1>10, <1>11, <1>12, Steps DEF Quiet

LEMMA RoomStep ==
  ASSUME IInv, Room, [Next]_vars
  PROVE  Room'
<1>0. /\ cache \in Dict(Hash, Digest)
      /\ Len(cache) \in Nat
      /\ pc \in [Thread -> Label]
      /\ CacheMax \in Nat /\ 1 <= CacheMax
      /\ \A t \in Thread : ThreadInv(t)
  BY Slots, RedemptionAssumption DEF IInv, TypeOK, Dict
<1>1. /\ Inserting \subseteq Thread /\ Inserting' \subseteq Thread
      /\ Cardinality(Thread) \in Nat
      /\ Cardinality(Inserting) \in Nat /\ Cardinality(Inserting') \in Nat
      /\ Cardinality(Inserting') <= Cardinality(Thread)
  <2>1. Inserting \subseteq Thread /\ Inserting' \subseteq Thread
    BY DEF Inserting
  <2>2. QED
    BY <2>1, ThreadsAreFinite
<1>2. ASSUME Inserting' \subseteq Inserting
      PROVE  Cardinality(Inserting') <= Cardinality(Inserting)
  BY <1>1, <1>2, FS_Subset, ThreadsAreFinite
<1>3. Len(cache) + Cardinality(Inserting) <= CacheMax + Cardinality(Thread) - 1
  BY DEF Room
<1>4. ASSUME NEW t \in Thread, pc[t] \in {"put", "evict", "insert"}
      PROVE  job[t] \in Hash /\ body[t] \in Digest
  BY <1>0, <1>4 DEF ThreadInv, Recorded, IInv, RowInv, Paid
<1>5. ASSUME NEW n \in Nat, Len(cache') = n, n <= Len(cache), Inserting' \subseteq Inserting
      PROVE  Room'
  <2>1. Cardinality(Inserting') <= Cardinality(Inserting)
    BY <1>2, <1>5
  <2>2. Len(cache) \in Nat /\ CacheMax \in Nat
    BY <1>0
  <2>3. Len(cache') + Cardinality(Inserting') <= CacheMax + Cardinality(Thread) - 1
    BY <1>1, <1>3, <1>5, <2>1, <2>2
  <2>4. QED
    BY <2>3 DEF Room
<1>6. CASE Crash
  <2>1. Inserting' \subseteq Inserting
    BY <1>6 DEF Crash, Inserting
  <2>2. Len(cache') = 0
    BY <1>6 DEF Crash
  <2>3. QED
    BY <1>0, <1>5, <2>1, <2>2
<1>7. ASSUME NEW t \in Thread, Put(t)
      PROVE  Room'
  <2>1. CASE job[t] \in Keys(cache)
    <3>1. cache' = Store(cache, job[t], body[t]) /\ pc' = [pc EXCEPT ![t] = "mark"]
      BY <1>7, <2>1 DEF Put, GoTo
    <3>2. Len(cache') = Len(cache)
      BY <1>0, <1>4, <1>7, <2>1, <3>1, StoreInPlace DEF Put
    <3>3. Inserting' \subseteq Inserting
      BY <1>0, <3>1 DEF Inserting
    <3>4. QED
      BY <1>0, <1>5, <3>2, <3>3
  <2>2. CASE job[t] \notin Keys(cache) /\ Len(cache) >= CacheMax
    <3>1. UNCHANGED cache /\ pc' = [pc EXCEPT ![t] = "pick"]
      BY <1>7, <2>2 DEF Put, GoTo
    <3>2. Inserting' \subseteq Inserting
      BY <1>0, <3>1 DEF Inserting
    <3>3. QED
      BY <1>0, <1>5, <3>1, <3>2
  <2>3. CASE job[t] \notin Keys(cache) /\ ~(Len(cache) >= CacheMax)
    <3>1. UNCHANGED cache
      BY <1>7, <2>3 DEF Put
    <3>2. Len(cache') + Cardinality(Inserting') <= CacheMax + Cardinality(Thread) - 1
      BY <1>0, <1>1, <2>3, <3>1
    <3>3. QED
      BY <3>2 DEF Room
  <2>4. QED
    BY <2>1, <2>2, <2>3
<1>8. ASSUME NEW t \in Thread, Insert(t)
      PROVE  Room'
  <2>1. /\ pc[t] = "insert" /\ pc' = [pc EXCEPT ![t] = "mark"]
        /\ cache' = Store(cache, job[t], body[t])
    BY <1>8 DEF Insert, GoTo
  <2>2. Len(cache') \in Nat /\ Len(cache') <= Len(cache) + 1
    BY <1>0, <1>4, <2>1, StoreEntries, Slots
  <2>3. t \in Inserting /\ Inserting' = Inserting \ {t}
    BY <1>0, <2>1 DEF Inserting
  <2>4. Cardinality(Inserting') = Cardinality(Inserting) - 1
    BY <1>1, <2>3, FS_RemoveElement, ThreadsAreFinite
  <2>5. Len(cache) \in Nat /\ CacheMax \in Nat
    BY <1>0
  <2>6. Len(cache') + Cardinality(Inserting') <= CacheMax + Cardinality(Thread) - 1
    BY <1>1, <1>3, <2>2, <2>4, <2>5
  <2>7. QED
    BY <2>6 DEF Room
<1>9. ASSUME NEW t \in Thread, Evict(t), \A u \in Thread : pc'[u] = "insert" => pc[u] = "insert"
      PROVE  Room'
  <2>1. /\ pc[t] = "evict" /\ victim[t] \in Keys(cache)
        /\ cache' = Store(Delete(cache, victim[t]), job[t], body[t])
    BY <1>9 DEF Evict
  <2>2. Delete(cache, victim[t]) \in Dict(Hash, Digest)
          /\ Len(Delete(cache, victim[t])) = Len(cache) - 1
    BY <1>0, <2>1, DeleteEntries
  <2>3. Len(cache') \in Nat /\ Len(cache') <= Len(Delete(cache, victim[t])) + 1
    BY <1>4, <2>1, <2>2, StoreEntries, Slots
  <2>4. Inserting' \subseteq Inserting
    BY <1>9 DEF Inserting
  <2>5. QED
    BY <1>0, <1>5, <2>2, <2>3, <2>4
<1>10. ASSUME UNCHANGED cache, \A u \in Thread : pc'[u] = "insert" => pc[u] = "insert"
       PROVE  Room'
  <2>1. Inserting' \subseteq Inserting
    BY <1>10 DEF Inserting
  <2>2. QED
    BY <1>0, <1>5, <1>10, <2>1
<1>11. QED
  BY <1>6, <1>7, <1>8, <1>9, <1>10, LabelChange DEF IInv

\* However many threads race past the size test of _proof_cache_put, the cache outgrows
\* _PROOF_CACHE_MAX by fewer entries than there are threads.
THEOREM OvershootsByThreads == Spec => []CacheOvershoot
<1>1. Init => Room
  <2>1. ASSUME Init PROVE Room
    <3>1. Inserting = {} /\ Len(cache) = 0
      BY <2>1 DEF Init, Idle, Inserting
    <3>2. Cardinality(Inserting) = 0
      BY <3>1, FS_EmptySet
    <3>3. QED
      BY <3>1, <3>2, ThreadsAreFinite, RedemptionAssumption DEF Room
  <2>2. QED
    BY <2>1
<1>2. IInv /\ Room /\ [Next]_vars => Room'
  BY RoomStep
<1>3. IInv /\ Room => CacheOvershoot
  <2>1. ASSUME IInv, Room PROVE CacheOvershoot
    <3>1. Len(cache) \in Nat /\ CacheMax \in Nat
      BY <2>1, Slots, RedemptionAssumption DEF IInv, TypeOK, Dict
    <3>2. Cardinality(Inserting) \in Nat /\ Cardinality(Thread) \in Nat
      <4>1. Inserting \subseteq Thread
        BY DEF Inserting
      <4>2. QED
        BY <4>1, ThreadsAreFinite
    <3>3. QED
      BY <2>1, <3>1, <3>2 DEF Room, CacheOvershoot
  <2>2. QED
    BY <2>1
<1>4. QED
  BY <1>1, <1>2, <1>3, Inductive, PTL DEF Spec

-------------------------------------------------------------------------------
(* The gateway implements its promise.                                     *)

LEMMA DutyInit ==
  ASSUME Init
  PROVE  Duty!Init
<1>1. /\ Bound = [h \in Hash |-> None]
      /\ Settled = {}
      /\ Owing = [h \in Hash |-> "none"]
      /\ Delivered = None
  BY DEF Init, NoAnswer, Reply, Bound, Settled, Owing, Delivered
<1>2. QED
  BY <1>1 DEF Init, Duty!Init

\* The parts of the promise's state that a step does not touch.
LEMMA DutyFrame ==
  /\ UNCHANGED wallet => UNCHANGED <<Bound, Settled>>
  /\ UNCHANGED disk => UNCHANGED Owing
  /\ answer'.code # "proof" => Delivered' = None
<1>1. UNCHANGED wallet => UNCHANGED <<Bound, Settled>>
  BY DEF wallet, Bound, Settled
<1>2. UNCHANGED disk => UNCHANGED Owing
  BY DEF disk, Owing
<1>3. answer'.code # "proof" => Delivered' = None
  BY DEF Delivered
<1>4. QED
  BY <1>1, <1>2, <1>3

LEMMA DutyQuiet ==
  ASSUME IInv, UNCHANGED <<wallet, disk, accepted>>, answer'.code # "proof"
  PROVE  Duty!Next
BY DutyFrame DEF Duty!Quiet, Duty!Next

LEMMA DutyDeliver ==
  ASSUME IInv, Next, answer'.code = "proof"
  PROVE  Duty!Next
<1>1. /\ UNCHANGED <<wallet, accepted, disk>>
      /\ Recorded(answer'.hash, answer'.proof)
      /\ answer'.proof \in accepted
  BY ProofAnswers
<1>2. PICK h \in Hash : h = answer'.hash
  BY <1>1 DEF Recorded
<1>3. row[h] \in {"needs_stamp", "stamped"} /\ invoice[h].memo = answer'.proof
  BY <1>1, <1>2 DEF Recorded, IInv, RowInv, Paid, TypeOK
<1>4. /\ Owing[h] # "none"
      /\ Bound[h] = answer'.proof
      /\ Delivered' = [hash |-> h, proof |-> Bound[h]]
  BY <1>2, <1>3 DEF Owing, Bound, Delivered
<1>5. Duty!Deliver(h)
  BY <1>1, <1>4, DutyFrame DEF Duty!Deliver
<1>6. QED
  BY <1>5 DEF Duty!Next

LEMMA DutyStep ==
  ASSUME IInv, IInv', [Next]_vars
  PROVE  [Duty!Next]_(Duty!vars)
<1> USE RedemptionAssumption
<1>0. /\ TypeOK /\ TypeOK' /\ WalletInv /\ RowInv
      /\ \A t \in Thread : ThreadInv(t)
  BY DEF IInv
<1>1. CASE UNCHANGED vars
  BY <1>1 DEF vars, Duty!vars, Bound, Settled, Owing, Delivered
<1>2. CASE Next /\ answer'.code = "proof"
  BY <1>2, DutyDeliver
<1>3. ASSUME NEW h \in Hash, NEW d \in Digest, Challenge(h, d)
      PROVE  Duty!Next
  <2>1. /\ invoice' = [invoice EXCEPT ![h] = [state |-> "open", memo |-> d, face |-> price]]
        /\ invoice[h].state = "none" /\ invoice[h].memo = None
        /\ answer'.code # "proof"
        /\ UNCHANGED <<accepted, disk>>
    BY <1>0, <1>3 DEF Challenge, WalletInv, NoAnswer, Reply
  <2>2. Bound[h] = None /\ Bound' = [Bound EXCEPT ![h] = d] /\ UNCHANGED Settled
    BY <1>0, <2>1 DEF TypeOK, Bound, Settled
  <2>3. Duty!Issue(h, d)
    BY <2>1, <2>2, DutyFrame DEF Duty!Issue
  <2>4. QED
    BY <2>3 DEF Duty!Next
<1>4. ASSUME NEW h \in Hash, Pay(h) \/ Settle(h)
      PROVE  Duty!Next
  <2>1. /\ invoice[h].memo \in Digest
        /\ invoice[h].state # "settled"
        /\ invoice'[h].memo = invoice[h].memo
        /\ \A g \in Hash \ {h} : invoice'[g] = invoice[g]
        /\ answer'.code # "proof"
        /\ UNCHANGED <<accepted, disk>>
    BY <1>0, <1>4, PaymentMoves DEF Pay, Settle, WalletInv, NoAnswer, Reply
  <2>2. UNCHANGED Bound /\ Bound[h] # None
    BY <2>1 DEF Bound
  <2>3. CASE invoice'[h].state = "settled"
    <3>1. Settled' = Settled \cup {h}
      BY <2>1, <2>3 DEF Settled
    <3>2. Duty!Settle(h)
      BY <2>1, <2>2, <3>1, DutyFrame DEF Duty!Settle
    <3>3. QED
      BY <3>2 DEF Duty!Next
  <2>4. CASE invoice'[h].state # "settled"
    <3>1. UNCHANGED Settled
      BY <2>1, <2>4 DEF Settled
    <3>2. QED
      BY <2>1, <2>2, <3>1, DutyFrame DEF Duty!Quiet, Duty!Next
  <2>5. QED
    BY <2>3, <2>4
<1>5. ASSUME NEW c \in Client, Record(c)
      PROVE  Duty!Next
  <2>1. /\ Paid(job[c], body[c])
        /\ answer'.code # "proof"
        /\ UNCHANGED <<wallet, accepted>>
    BY <1>0, <1>5 DEF Record, ThreadInv, Thread, NoAnswer, Reply
  <2>2. CASE row[job[c]] = "none"
    <3>1. PICK h \in Hash : h = job[c]
      BY <2>1 DEF Paid
    <3>2. row[h] = "none" /\ row' = [row EXCEPT ![h] = "needs_stamp"]
      BY <1>5, <2>2, <3>1 DEF Record, InsertOrIgnore
    <3>3. Owing[h] = "none" /\ Owing' = [Owing EXCEPT ![h] = "owed"]
      BY <1>0, <3>2 DEF Owing, TypeOK
    <3>4. h \in Settled
      BY <2>1, <3>1 DEF Paid, Settled
    <3>5. Duty!Owe(h)
      BY <2>1, <3>3, <3>4, DutyFrame DEF Duty!Owe
    <3>6. QED
      BY <3>5 DEF Duty!Next
  <2>3. CASE row[job[c]] # "none"
    BY <1>5, <2>1, <2>3, DutyQuiet DEF Record, InsertOrIgnore, disk
  <2>4. QED
    BY <2>2, <2>3
<1>6. ASSUME NEW t \in Thread, Mark(t)
      PROVE  Duty!Next
  <2>1. /\ Recorded(job[t], body[t]) /\ body[t] \in accepted
        /\ invoice[job[t]].memo = body[t]
        /\ answer'.code # "proof"
        /\ UNCHANGED <<wallet, accepted, rowDigest>>
        /\ row' = [row EXCEPT ![job[t]] = "stamped"]
    BY <1>0, <1>6 DEF Mark, ThreadInv, RowInv, Recorded, Paid, NoAnswer, Reply
  <2>2. CASE row[job[t]] = "needs_stamp"
    <3>1. PICK h \in Hash : h = job[t]
      BY <2>1 DEF Recorded
    <3>2. Owing[h] = "owed" /\ Owing' = [Owing EXCEPT ![h] = "discharged"]
      BY <1>0, <2>1, <2>2, <3>1 DEF Owing, TypeOK
    <3>3. Bound[h] \in accepted
      BY <2>1, <3>1 DEF Bound
    <3>4. Duty!Discharge(h)
      BY <2>1, <3>2, <3>3, DutyFrame DEF Duty!Discharge
    <3>5. QED
      BY <3>4 DEF Duty!Next
  <2>3. CASE row[job[t]] # "needs_stamp"
    <3>1. row' = row
      BY <1>0, <2>1, <2>3 DEF Recorded, TypeOK
    <3>2. QED
      BY <2>1, <3>1, DutyQuiet DEF disk
  <2>4. QED
    BY <2>2, <2>3
<1>7. ASSUME NEW t \in Thread, pc[t] = "stamp", answer'.code # "proof",
             accepted' \in {accepted, accepted \cup {body[t]}},
             UNCHANGED <<wallet, disk>>
      PROVE  Duty!Next
  <2>1. CASE accepted' = accepted
    BY <1>7, <2>1, DutyQuiet
  <2>2. CASE accepted' = accepted \cup {body[t]}
    <3>1. Recorded(job[t], body[t]) /\ invoice[job[t]].memo = body[t]
      BY <1>0, <1>7 DEF ThreadInv, RowInv, Recorded, Paid
    <3>2. PICK h \in Hash : h = job[t]
      BY <3>1 DEF Recorded
    <3>3. row[h] \in {"needs_stamp", "stamped"}
      BY <1>0, <3>1, <3>2 DEF Recorded, TypeOK
    <3>4. Owing[h] # "none" /\ Bound[h] = body[t]
      BY <3>1, <3>2, <3>3 DEF Owing, Bound
    <3>5. Duty!Commit(h)
      BY <1>7, <2>2, <3>4, DutyFrame DEF Duty!Commit
    <3>6. QED
      BY <3>5 DEF Duty!Next
  <2>3. QED
    BY <1>7, <2>1, <2>2
<1>8. CASE answer'.code # "proof" /\ UNCHANGED <<wallet, disk>>
  BY <1>7, <1>8, CalendarChange, DutyQuiet
<1>9. QED
  BY <1>1, <1>2, <1>3, <1>4, <1>5, <1>6, <1>8, WalletChange, DiskChange

\* Whatever interleaving of requests, sweeps, crashes, restarts and failed calls
\* happens, what can be seen of it is a behaviour of ProofDuty.
THEOREM Implementation == Spec => ImplementsProofDuty
<1>1. Init => Duty!Init
  BY DutyInit
<1>2. IInv /\ IInv' /\ [Next]_vars => [Duty!Next]_(Duty!vars)
  BY DutyStep
<1>3. QED
  BY <1>1, <1>2, Inductive, PTL DEF Spec, ImplementsProofDuty, Duty!Spec
===============================================================================
