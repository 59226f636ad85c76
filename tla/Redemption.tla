------------------------------ MODULE Redemption ------------------------------
(***************************************************************************)
(* The paid door of the gateway (main.py): the challenge, the redemption   *)
(* of a paid token (POST /timestamp), the durable obligation log, the      *)
(* process-level proof cache and the background sweeper, running beside a  *)
(* Lightning wallet and an OpenTimestamps calendar that may fail at any    *)
(* call, in a process that may die between any two steps.                  *)
(*                                                                         *)
(* Every request runs in a worker thread of its own and the sweeper in one *)
(* more; pc[t] names the next step of thread t.  A step is one call to the *)
(* wallet, to the calendar or to SQLite, or one stretch of Python that no  *)
(* call to an interpreter-level function interrupts: between two steps any *)
(* other thread may run.                                                   *)
(***************************************************************************)
EXTENDS FifoDict, FiniteSets

CONSTANTS Hash,         \* payment hashes, one per invoice
          Digest,       \* digests clients ask to have stamped
          Price,        \* the prices PRICE_PER_PROOF_SATS may be set to
          Client,       \* worker threads, one request each at a time
          Sweeper,      \* the obligation-sweeper thread
          CacheMax,     \* _PROOF_CACHE_MAX
          MaxAttempts,  \* OTS_SUBMIT_MAX_ATTEMPTS
          None          \* no digest, no hash, no thread's work

ASSUME RedemptionAssumption ==
  /\ None \notin Hash \cup Digest \cup Price
  /\ Sweeper \notin Client
  /\ Price \subseteq Nat \ {0}
  /\ Price # {}
  /\ CacheMax \in Nat \ {0}
  /\ MaxAttempts \in Nat \ {0}
  /\ IsFiniteSet(Client)

Thread == Client \cup {Sweeper}

VARIABLES
  \* the wallet (phoenixd) and the tokens clients hold
  invoice,    \* Hash -> state, memo and face amount of each invoice
  tokens,     \* the macaroons minted under L402_SECRET
  \* the calendar
  accepted,   \* the digests it has committed to its journal
  \* the disk
  row,        \* obligations.status by payment hash; "none" is no row
  rowDigest,  \* obligations.digest
  \* the operator
  halted,     \* PAUSE_FILE exists, or the float backstop is in "stop"
  \* the process
  up,         \* the gateway is running
  price,      \* PRICE_PER_PROOF_SATS, read once at start
  cache,      \* _proof_cache, a FifoDict from payment hash to proof
  \* the threads of the process
  pc,         \* the next step of each thread
  job,        \* payment_hash
  body,       \* the digest being redeemed or swept
  bid,        \* mint_price_sats, from the token
  tries,      \* stamp_digest's attempt number
  size,       \* the cache size _proof_cache_put's iterator was made at
  victim,     \* the key _proof_cache_put is about to evict
  todo,       \* rows of the current sweep not yet tried
  \* for the properties only
  answer      \* the HTTP answer sent by the latest step, if any

wallet  == <<invoice, tokens>>
disk    == <<row, rowDigest>>
process == <<up, price, halted>>
work    == <<job, body, bid>>
threads == <<pc, job, body, bid, tries, size, victim, todo>>
vars == <<invoice, tokens, accepted, row, rowDigest, halted, up, price, cache,
          pc, job, body, bid, tries, size, victim, todo, answer>>

Token == [hash : Hash, digest : Digest, price : Price]

\* A settled invoice was paid: its preimage is with the payer since "paid".
InvoiceState == {"none", "open", "paid", "settled"}

Label == {"idle", "lookup", "check", "serve", "record",       \* requests only
          "row",                                              \* sweeper only
          "stamp", "put", "pick", "next", "evict", "insert", "mark", "respond"}

Code == {"none", "paused", "unauthorized", "backend_error", "payment_required",
         "server_error", "stamp_failed", "proof"}

Reply(code, h, proof) == [code |-> code, hash |-> h, proof |-> proof]

NoAnswer == Reply("none", None, None)

TypeOK ==
  /\ invoice \in [Hash -> [state : InvoiceState, memo : Digest \cup {None},
                           face : Price \cup {None}]]
  /\ tokens \in SUBSET Token
  /\ accepted \in SUBSET Digest
  /\ row \in [Hash -> {"none", "needs_stamp", "stamped"}]
  /\ rowDigest \in [Hash -> Digest \cup {None}]
  /\ halted \in BOOLEAN
  /\ up \in BOOLEAN
  /\ price \in Price
  /\ cache \in Seq([key : Hash, value : Digest])
  /\ pc \in [Thread -> Label]
  /\ job \in [Thread -> Hash \cup {None}]
  /\ body \in [Thread -> Digest \cup {None}]
  /\ bid \in [Thread -> Price \cup {None}]
  /\ tries \in [Thread -> 0..MaxAttempts]
  /\ size \in [Thread -> Nat]
  /\ victim \in [Thread -> Hash \cup {None}]
  /\ todo \in SUBSET Hash
  /\ answer \in [code : Code, hash : Hash \cup {None}, proof : Digest \cup {None}]

Idle(f, value) == f = [t \in Thread |-> value]

Init ==
  /\ invoice = [h \in Hash |-> [state |-> "none", memo |-> None, face |-> None]]
  /\ tokens = {}
  /\ accepted = {}
  /\ row = [h \in Hash |-> "none"]
  /\ rowDigest = [h \in Hash |-> None]
  /\ halted = FALSE
  /\ up = TRUE
  /\ price \in Price
  /\ cache = <<>>
  /\ Idle(pc, "idle")
  /\ Idle(job, None)
  /\ Idle(body, None)
  /\ Idle(bid, None)
  /\ Idle(tries, 0)
  /\ Idle(size, 0)
  /\ Idle(victim, None)
  /\ todo = {}
  /\ answer = NoAnswer

-------------------------------------------------------------------------------
(* The threads: moving on, and leaving the work.                           *)

GoTo(t, label) ==
  /\ pc' = [pc EXCEPT ![t] = label]
  /\ UNCHANGED work

\* The thread has nothing more to do for this payment hash.
Drop(t, label) ==
  /\ pc' = [pc EXCEPT ![t] = label]
  /\ job' = [job EXCEPT ![t] = None]
  /\ body' = [body EXCEPT ![t] = None]
  /\ bid' = [bid EXCEPT ![t] = None]
  /\ tries' = [tries EXCEPT ![t] = 0]
  /\ size' = [size EXCEPT ![t] = 0]
  /\ victim' = [victim EXCEPT ![t] = None]

\* A request is answered; an exception nobody catches is a 500 (Starlette).
Finish(c, code, proof) ==
  /\ Drop(c, "idle")
  /\ answer' = Reply(code, job[c], proof)
  /\ UNCHANGED todo

\* An exception outside stamp_digest's try: a request answers 500, the sweep
\* is over (_sweeper_loop catches it) and its remaining rows wait for the next.
Raise(t) ==
  \/ /\ t \in Client
     /\ Finish(t, "server_error", None)
  \/ /\ t = Sweeper
     /\ Drop(t, "idle")
     /\ todo' = {}
     /\ answer' = NoAnswer

-------------------------------------------------------------------------------
(* The client and the wallet.                                              *)

\* POST /timestamp without Authorization: an invoice for the digest at the
\* current price, and a macaroon bound to the same digest, hash and price.  A
\* 429 and a failed mint leave nothing a client can pay, so neither is a step.
Challenge(h, d) ==
  /\ up
  /\ ~halted
  /\ invoice[h].state = "none"
  /\ invoice' = [invoice EXCEPT ![h] = [state |-> "open", memo |-> d, face |-> price]]
  /\ tokens' = tokens \cup {[hash |-> h, digest |-> d, price |-> price]}
  /\ answer' = NoAnswer
  /\ UNCHANGED <<accepted, disk, process, cache, threads>>

\* The payment completes: the preimage is released to the payer, and some time
\* later the wallet's API reports the invoice settled.
Pay(h) ==
  /\ invoice[h].state = "open"
  /\ invoice' = [invoice EXCEPT ![h].state = "paid"]
  /\ answer' = NoAnswer
  /\ UNCHANGED <<tokens, accepted, disk, process, cache, threads>>

Settle(h) ==
  /\ invoice[h].state = "paid"
  /\ invoice' = [invoice EXCEPT ![h].state = "settled"]
  /\ answer' = NoAnswer
  /\ UNCHANGED <<tokens, accepted, disk, process, cache, threads>>

-------------------------------------------------------------------------------
(* Redemption, up to the stamp.                                            *)

\* The signature covers every caveat and the digest caveat must be the body's.
TokenValid(token, d) == token \in tokens /\ token.digest = d

\* The pause gate, then verify_l402_token, then the preimage.  hasPreimage says
\* that the preimage presented hashes to the token's payment hash.
Present(c, token, d, hasPreimage) ==
  /\ up
  /\ pc[c] = "idle"
  /\ hasPreimage => invoice[token.hash].state \in {"paid", "settled"}
  /\ \/ /\ halted
        /\ answer' = Reply("paused", None, None)
        /\ UNCHANGED threads
     \/ /\ ~halted
        /\ ~(TokenValid(token, d) /\ hasPreimage)
        /\ answer' = Reply("unauthorized", None, None)
        /\ UNCHANGED threads
     \/ /\ ~halted
        /\ TokenValid(token, d)
        /\ hasPreimage
        /\ pc' = [pc EXCEPT ![c] = "lookup"]
        /\ job' = [job EXCEPT ![c] = token.hash]
        /\ body' = [body EXCEPT ![c] = d]
        /\ bid' = [bid EXCEPT ![c] = token.price]
        /\ answer' = NoAnswer
        /\ UNCHANGED <<tries, size, victim, todo>>
  /\ UNCHANGED <<wallet, accepted, disk, process, cache>>

\* Slip: the live price instead of the token's.
PaymentVerifiedAtLivePrice(c) ==
  LET i == invoice[job[c]]
  IN  i.state = "settled" /\ i.memo = body[c] /\ i.face >= price

\* Slip: the preimage taken as proof enough of settlement.
PaymentVerifiedByPreimage(c) ==
  LET i == invoice[job[c]]
  IN  i.memo = body[c] /\ i.face >= bid[c]

\* verify_payment's verdict on the wallet's answer: the price compared with is
\* the token's, whatever the gateway charges by now.
PaymentVerified(c) ==
  LET i == invoice[job[c]]
  IN  i.state = "settled" /\ i.memo = body[c] /\ i.face >= bid[c]

Lookup(c) ==
  /\ pc[c] = "lookup"
  /\ \/ /\ PaymentVerified(c)
        /\ GoTo(c, "check")
        /\ answer' = NoAnswer
        /\ UNCHANGED <<tries, size, victim, todo>>
     \/ /\ ~PaymentVerified(c)
        /\ Finish(c, "payment_required", None)
  /\ UNCHANGED <<wallet, accepted, disk, process, cache>>

\* The call to phoenixd fails.  An answer that does not parse is a 500 instead, on which
\* nothing here depends.
LookupFails(c) ==
  /\ pc[c] = "lookup"
  /\ Finish(c, "backend_error", None)
  /\ UNCHANGED <<wallet, accepted, disk, process, cache>>

\* `payment_hash in _proof_cache`, and then (after a call to the logger)
\* `_proof_cache[payment_hash]`, which raises KeyError if the entry was evicted
\* in between.
CheckCache(c) ==
  /\ pc[c] = "check"
  /\ GoTo(c, IF job[c] \in Keys(cache) THEN "serve" ELSE "record")
  /\ answer' = NoAnswer
  /\ UNCHANGED <<wallet, accepted, disk, process, cache, tries, size, victim, todo>>

ServeCached(c) ==
  /\ pc[c] = "serve"
  /\ job[c] \in Keys(cache)
  /\ Finish(c, "proof", Value(cache, job[c]))
  /\ UNCHANGED <<wallet, accepted, disk, process, cache>>

ServeEvicted(c) ==
  /\ pc[c] = "serve"
  /\ job[c] \notin Keys(cache)
  /\ Raise(c)
  /\ UNCHANGED <<wallet, accepted, disk, process, cache>>

\* Slip: INSERT OR REPLACE.
InsertOrReplace(h, d) ==
  /\ row' = [row EXCEPT ![h] = "needs_stamp"]
  /\ rowDigest' = [rowDigest EXCEPT ![h] = d]

\* record_obligation: INSERT OR IGNORE, committed before the calendar is asked.
InsertOrIgnore(h, d) ==
  /\ row' = IF row[h] = "none" THEN [row EXCEPT ![h] = "needs_stamp"] ELSE row
  /\ rowDigest' = IF row[h] = "none" THEN [rowDigest EXCEPT ![h] = d] ELSE rowDigest

Record(c) ==
  /\ pc[c] = "record"
  /\ InsertOrIgnore(job[c], body[c])
  /\ GoTo(c, "stamp")
  /\ tries' = [tries EXCEPT ![c] = 1]
  /\ answer' = NoAnswer
  /\ UNCHANGED <<wallet, accepted, process, cache, size, victim, todo>>

\* Slip: a failed write is logged and the digest stamped all the same.
RecordFailsUnnoticed(c) ==
  /\ pc[c] = "record"
  /\ GoTo(c, "stamp")
  /\ tries' = [tries EXCEPT ![c] = 1]
  /\ answer' = NoAnswer
  /\ UNCHANGED <<wallet, accepted, disk, process, cache, size, victim, todo>>

RecordFails(c) ==
  /\ pc[c] = "record"
  /\ Raise(c)
  /\ UNCHANGED <<wallet, accepted, disk, process, cache>>

-------------------------------------------------------------------------------
(* The sweeper.                                                            *)

\* A tick: skipped while halted, otherwise the SELECT of every owed row.
BeginSweep ==
  /\ up
  /\ ~halted
  /\ pc[Sweeper] = "idle"
  /\ todo' = {h \in Hash : row[h] = "needs_stamp"}
  /\ GoTo(Sweeper, "row")
  /\ answer' = NoAnswer
  /\ UNCHANGED <<wallet, accepted, disk, process, cache, tries, size, victim>>

\* The next row: attempts+1 is committed (the count, which nothing reads, is
\* left out), then stamp_digest.  The digest is the one the list was read with: a row's
\* never changes (RowsOnlyAdvance).
SweepRow(h) ==
  /\ pc[Sweeper] = "row"
  /\ h \in todo
  /\ todo' = todo \ {h}
  /\ pc' = [pc EXCEPT ![Sweeper] = "stamp"]
  /\ job' = [job EXCEPT ![Sweeper] = h]
  /\ body' = [body EXCEPT ![Sweeper] = rowDigest[h]]
  /\ tries' = [tries EXCEPT ![Sweeper] = 1]
  /\ answer' = NoAnswer
  /\ UNCHANGED <<wallet, accepted, disk, process, cache, bid, size, victim>>

SweepRowFails ==
  /\ pc[Sweeper] = "row"
  /\ todo # {}
  /\ Raise(Sweeper)
  /\ UNCHANGED <<wallet, accepted, disk, process, cache>>

EndSweep ==
  /\ pc[Sweeper] = "row"
  /\ todo = {}
  /\ GoTo(Sweeper, "idle")
  /\ answer' = NoAnswer
  /\ UNCHANGED <<wallet, accepted, disk, process, cache, tries, size, victim, todo>>

-------------------------------------------------------------------------------
(* Stamping and remembering, the same steps for a request and the sweeper. *)

\* One attempt of stamp_digest that the calendar accepts and answers in time.
Submit(t) ==
  /\ pc[t] = "stamp"
  /\ accepted' = accepted \cup {body[t]}
  /\ GoTo(t, "put")
  /\ tries' = [tries EXCEPT ![t] = 0]
  /\ answer' = NoAnswer
  /\ UNCHANGED <<wallet, disk, process, cache, size, victim, todo>>

\* A failed attempt with another to come.  The calendar may have accepted the
\* digest before the gateway stopped waiting for its answer.
MaybeAccepted(t) == accepted' \in {accepted, accepted \cup {body[t]}}

\* Slip: a loop that never gives up.
SubmitRetriesForEver(t) ==
  /\ pc[t] = "stamp"
  /\ MaybeAccepted(t)
  /\ tries' = [tries EXCEPT ![t] = @ + 1]
  /\ answer' = NoAnswer
  /\ UNCHANGED <<wallet, disk, process, cache, pc, work, size, victim, todo>>

SubmitRetries(t) ==
  /\ pc[t] = "stamp"
  /\ tries[t] < MaxAttempts
  /\ MaybeAccepted(t)
  /\ tries' = [tries EXCEPT ![t] = @ + 1]
  /\ answer' = NoAnswer
  /\ UNCHANGED <<wallet, disk, process, cache, pc, work, size, victim, todo>>

\* Slip: the loop's else branch lost, so that the bytes of an empty timestamp
\* are returned after the last failure.
SubmitFailsUnnoticed(t) ==
  /\ pc[t] = "stamp"
  /\ tries[t] = MaxAttempts
  /\ MaybeAccepted(t)
  /\ GoTo(t, "put")
  /\ tries' = [tries EXCEPT ![t] = 0]
  /\ answer' = NoAnswer
  /\ UNCHANGED <<wallet, disk, process, cache, size, victim, todo>>

\* Slip: the sweep ends at the first row that fails.
SubmitFailsEndsSweep(t) ==
  /\ pc[t] = "stamp"
  /\ tries[t] = MaxAttempts
  /\ MaybeAccepted(t)
  /\ \/ t \in Client /\ Finish(t, "stamp_failed", None)
     \/ t = Sweeper /\ Raise(t)
  /\ UNCHANGED <<wallet, disk, process, cache>>

\* The last attempt fails: a request answers 502, the sweeper leaves the row
\* owed and goes on to the next.
SubmitFails(t) ==
  /\ pc[t] = "stamp"
  /\ tries[t] = MaxAttempts
  /\ MaybeAccepted(t)
  /\ \/ t \in Client /\ Finish(t, "stamp_failed", None)
     \/ t = Sweeper /\ Drop(t, "row") /\ answer' = NoAnswer /\ UNCHANGED todo
  /\ UNCHANGED <<wallet, disk, process, cache>>

\* Slip: > for >= in the size test.
PutOffByOne(t) ==
  /\ pc[t] = "put"
  /\ \/ /\ job[t] \in Keys(cache)
        /\ cache' = Store(cache, job[t], body[t])
        /\ GoTo(t, "mark")
     \/ /\ job[t] \notin Keys(cache)
        /\ GoTo(t, IF Len(cache) > CacheMax THEN "pick" ELSE "insert")
        /\ UNCHANGED cache
  /\ answer' = NoAnswer
  /\ UNCHANGED <<wallet, accepted, disk, process, tries, size, victim, todo>>

\* _proof_cache_put overwrites in place; or finds the cache full and goes to evict
\* the oldest entry first; or finds room.  Other threads may run as soon as the
\* size is read.
Put(t) ==
  /\ pc[t] = "put"
  /\ \/ /\ job[t] \in Keys(cache)
        /\ cache' = Store(cache, job[t], body[t])
        /\ GoTo(t, "mark")
     \/ /\ job[t] \notin Keys(cache)
        /\ GoTo(t, IF Len(cache) >= CacheMax THEN "pick" ELSE "insert")
        /\ UNCHANGED cache
  /\ answer' = NoAnswer
  /\ UNCHANGED <<wallet, accepted, disk, process, tries, size, victim, todo>>

\* iter(_proof_cache), which remembers the size.
Pick(t) ==
  /\ pc[t] = "pick"
  /\ size' = [size EXCEPT ![t] = Len(cache)]
  /\ GoTo(t, "next")
  /\ answer' = NoAnswer
  /\ UNCHANGED <<wallet, accepted, disk, process, cache, tries, victim, todo>>

\* next() of the iterator: the oldest key, if the dict is still that size.
PickNext(t) ==
  /\ pc[t] = "next"
  /\ Len(cache) = size[t]
  /\ size' = [size EXCEPT ![t] = 0]
  /\ victim' = [victim EXCEPT ![t] = Oldest(cache)]
  /\ GoTo(t, "evict")
  /\ answer' = NoAnswer
  /\ UNCHANGED <<wallet, accepted, disk, process, cache, tries, todo>>

\* The del and the store that follows it.
Evict(t) ==
  /\ pc[t] = "evict"
  /\ victim[t] \in Keys(cache)
  /\ cache' = Store(Delete(cache, victim[t]), job[t], body[t])
  /\ victim' = [victim EXCEPT ![t] = None]
  /\ GoTo(t, "mark")
  /\ answer' = NoAnswer
  /\ UNCHANGED <<wallet, accepted, disk, process, tries, size, todo>>

\* Another thread got there first: it changed the size under the iterator
\* (RuntimeError), or evicted the same entry (KeyError).
EvictRaces(t) ==
  /\ \/ pc[t] = "next" /\ Len(cache) # size[t]
     \/ pc[t] = "evict" /\ victim[t] \notin Keys(cache)
  /\ Raise(t)
  /\ UNCHANGED <<wallet, accepted, disk, process, cache>>

Insert(t) ==
  /\ pc[t] = "insert"
  /\ cache' = Store(cache, job[t], body[t])
  /\ GoTo(t, "mark")
  /\ answer' = NoAnswer
  /\ UNCHANGED <<wallet, accepted, disk, process, tries, size, victim, todo>>

\* Slip: the UPDATE without its WHERE clause.
MarkEveryRow(t) ==
  /\ pc[t] = "mark"
  /\ row' = [h \in Hash |-> IF row[h] = "none" THEN "none" ELSE "stamped"]
  /\ \/ t \in Client /\ GoTo(t, "respond") /\ UNCHANGED <<tries, size, victim>>
     \/ t = Sweeper /\ Drop(t, "row")
  /\ answer' = NoAnswer
  /\ UNCHANGED <<wallet, accepted, rowDigest, process, cache, todo>>

\* mark_obligation_stamped: an UPDATE, which touches no row that is not there.
Mark(t) ==
  /\ pc[t] = "mark"
  /\ row' = IF row[job[t]] = "none" THEN row ELSE [row EXCEPT ![job[t]] = "stamped"]
  /\ \/ t \in Client /\ GoTo(t, "respond") /\ UNCHANGED <<tries, size, victim>>
     \/ t = Sweeper /\ Drop(t, "row")
  /\ answer' = NoAnswer
  /\ UNCHANGED <<wallet, accepted, rowDigest, process, cache, todo>>

MarkFails(t) ==
  /\ pc[t] = "mark"
  /\ Raise(t)
  /\ UNCHANGED <<wallet, accepted, disk, process, cache>>

Respond(c) ==
  /\ pc[c] = "respond"
  /\ Finish(c, "proof", body[c])
  /\ UNCHANGED <<wallet, accepted, disk, process, cache>>

-------------------------------------------------------------------------------
(* The operator and the process.                                           *)

Halt ==
  /\ ~halted
  /\ halted' = TRUE
  /\ answer' = NoAnswer
  /\ UNCHANGED <<wallet, accepted, disk, up, price, cache, threads>>

Resume ==
  /\ halted
  /\ halted' = FALSE
  /\ answer' = NoAnswer
  /\ UNCHANGED <<wallet, accepted, disk, up, price, cache, threads>>

\* The process dies, at whatever step each thread is: a kill, a power cut, or a
\* stop whose ten-second join the sweeper outlives.  Only the disk survives.
Crash ==
  /\ up
  /\ up' = FALSE
  /\ cache' = <<>>
  /\ pc' = [t \in Thread |-> "idle"]
  /\ job' = [t \in Thread |-> None]
  /\ body' = [t \in Thread |-> None]
  /\ bid' = [t \in Thread |-> None]
  /\ tries' = [t \in Thread |-> 0]
  /\ size' = [t \in Thread |-> 0]
  /\ victim' = [t \in Thread |-> None]
  /\ todo' = {}
  /\ answer' = NoAnswer
  /\ UNCHANGED <<wallet, accepted, disk, halted, price>>

\* A start reads the price from the environment again and finds the rows as they
\* are (CREATE TABLE IF NOT EXISTS).
Start(p) ==
  /\ ~up
  /\ up' = TRUE
  /\ price' = p
  /\ answer' = NoAnswer
  /\ UNCHANGED <<wallet, accepted, disk, halted, cache, threads>>

-------------------------------------------------------------------------------
(* The steps of a thread that go well, and what may go wrong.              *)

RequestStep(c) ==
  \/ Lookup(c)
  \/ CheckCache(c)
  \/ ServeCached(c)
  \/ ServeEvicted(c)
  \/ Record(c)
  \/ Respond(c)

StampStep(t) ==
  \/ Submit(t)
  \/ Put(t)
  \/ Pick(t)
  \/ PickNext(t)
  \/ Evict(t)
  \/ EvictRaces(t)
  \/ Insert(t)
  \/ Mark(t)

SweepStep ==
  \/ BeginSweep
  \/ \E h \in Hash : SweepRow(h)
  \/ EndSweep
  \/ StampStep(Sweeper)

Fault ==
  \/ \E c \in Client :
       \/ LookupFails(c)
       \/ RecordFails(c)
  \/ \E t \in Thread :
       \/ SubmitRetries(t)
       \/ SubmitFails(t)
       \/ MarkFails(t)
  \/ SweepRowFails
  \/ Crash
  \/ Halt

Normal ==
  \/ \E h \in Hash :
       \/ \E d \in Digest : Challenge(h, d)
       \/ Pay(h)
       \/ Settle(h)
  \/ \E c \in Client :
       \/ \E token \in Token, d \in Digest, hasPreimage \in BOOLEAN :
            Present(c, token, d, hasPreimage)
       \/ RequestStep(c)
       \/ StampStep(c)
  \/ SweepStep
  \/ Resume
  \/ \E p \in Price : Start(p)

Next == Normal \/ Fault

Spec == Init /\ [][Next]_vars
-------------------------------------------------------------------------------
(* Safety.                                                                 *)

\* A row says "stamped" only when the calendar holds the digest it was recorded
\* for (mark_obligation_stamped runs after stamp_digest returned, by whichever
\* thread got there first, and never on behalf of another row).
StampedIsCommitted ==
  \A h \in Hash : row[h] = "stamped" => rowDigest[h] \in accepted

\* The calendar is only ever given digests of settled invoices whose obligation
\* is already on disk: whatever step the process dies at, a submission was never
\* made that the log does not account for.
CommittedIsOwed ==
  \A d \in accepted : \E h \in Hash :
    /\ row[h] # "none"
    /\ rowDigest[h] = d
    /\ invoice[h].state = "settled"

\* A 200 carries the proof of the digest the invoice was settled for, the
\* calendar has committed it, and the obligation is on disk, whether the proof
\* comes from a stamp or from a cache entry that another thread put there.
ServedIsPaidAndOwed ==
  answer.code = "proof" =>
    /\ invoice[answer.hash].state = "settled"
    /\ invoice[answer.hash].memo = answer.proof
    /\ answer.proof \in accepted
    /\ row[answer.hash] # "none"

\* A genuine token with its preimage is never refused as unpaid once the wallet
\* reports the invoice settled, however the price changed since the challenge.
SettledIsHonoured ==
  answer.code = "payment_required" => invoice[answer.hash].state # "settled"

\* The lock-free cache can outgrow _PROOF_CACHE_MAX, by at most one entry for
\* every other thread that read its size before this one inserted.
CacheOvershoot == Len(cache) <= CacheMax + Cardinality(Thread) - 1

\* Across requests, sweeps, crashes and restarts a row is never lost, never
\* re-bound to another digest, and never returns from stamped to owed.
RowsOnlyAdvance ==
  [][\A h \in Hash : row[h] # "none" =>
       /\ row'[h] \in {row[h], "stamped"}
       /\ rowDigest'[h] = rowDigest[h]]_vars

\* docs/contracts.md, section 1: a 502 "stamping failed" says that "the
\* obligation row is on disk as `needs_stamp`".
StampFailureLeavesRowOwed ==
  answer.code = "stamp_failed" => row[answer.hash] = "needs_stamp"

\* docs/contracts.md, section 5: "the caches and buckets tolerate a race by
\* under-counting, never by corrupting".  A thread that saw an entry in the
\* cache can still read it, and one that picked a victim can still evict it.
RacesOnlyUndercount ==
  \A t \in Thread :
    /\ pc[t] = "serve" => job[t] \in Keys(cache)
    /\ pc[t] = "next" => size[t] = Len(cache)
    /\ pc[t] = "evict" => victim[t] \in Keys(cache)

-------------------------------------------------------------------------------
(* What the door promises: ProofDuty, with the obligation row as the duty. *)

Bound == [h \in Hash |-> invoice[h].memo]

Settled == {h \in Hash : invoice[h].state = "settled"}

Owing == [h \in Hash |-> CASE row[h] = "none"        -> "none"
                           [] row[h] = "needs_stamp" -> "owed"
                           [] row[h] = "stamped"     -> "discharged"]

Delivered == IF answer.code = "proof"
             THEN [hash |-> answer.hash, proof |-> answer.proof]
             ELSE None

Duty == INSTANCE ProofDuty WITH
  bound <- Bound, settled <- Settled, duty <- Owing, committed <- accepted,
  delivered <- Delivered

\* Every behaviour of the gateway, with its crashes, races and failed calls, is
\* one of ProofDuty: the promise survives the implementation.
ImplementsProofDuty == Duty!Spec

-------------------------------------------------------------------------------
(* Liveness.                                                               *)

\* Threads are scheduled, the supervisor restarts the process (Restart=always,
\* unless-stopped), the operator ends a pause, and the sweeper's interval passes.
Fairness ==
  /\ WF_vars(SweepStep)
  /\ \A c \in Client : WF_vars(RequestStep(c) \/ StampStep(c))
  /\ WF_vars(\E p \in Price : Start(p))
  /\ WF_vars(Resume)

FairSpec == Spec /\ Fairness

\* After some moment nothing fails any more but the calendar's answers to other
\* obligations, and the sweeper no longer loses the race for a cache slot.
FaultsCeaseFor(h) ==
  <>[][/\ \/ Normal
          \/ \E t \in Thread : job[t] # h /\ (SubmitRetries(t) \/ SubmitFails(t))
       /\ ~EvictRaces(Sweeper)]_vars

\* Every owed row is stamped in the end, with no request's help: the sweeper
\* retries it over crashes, pauses and failures for as long as they go on, and a
\* row whose stamp fails for ever never holds up another.
OwedIsDischarged ==
  \A h \in Hash :
    FaultsCeaseFor(h) => (row[h] = "needs_stamp" ~> row[h] = "stamped")
===============================================================================
