# A TLA+ verification of timestamp-gateway

timestamp-gateway sells OpenTimestamps proofs. A client posts a SHA-256 digest,
is answered with a Lightning invoice and a macaroon bound to it, pays, and
presents macaroon and preimage to get a pending proof from the operator's own
calendar. The program is small and mostly sequential text; what is hard about it
is that every request runs in a worker thread, beside a sweeper thread, over two
remote services, one SQLite file and several lock-free dicts, in a process that
may die at any moment. That is what these modules are about.

Line numbers are those of `src/main.py` unless another file is named.

## 1. The system

| Part | State | Operations | Interacts with | Hard about it |
|---|---|---|---|---|
| Paid door (`/timestamp`, 1863-1942) | none of its own | challenge; redeem | wallet, obligation log, cache, calendar | order of checks, failure between any two steps |
| Obligation log (559-632) | one SQLite row per payment hash: `needs_stamp`, `stamped` | insert-or-ignore, mark, select | door, sweeper | the only durable state; concurrent inserts and marks |
| Sweeper (642-720) | the rows read this tick | one tick per interval | log, calendar, cache | races with requests, own exceptions, shutdown |
| Proof cache (455-472) | a dict bounded at 10,000 | test, read, put with FIFO eviction | door, sweeper | no lock |
| Calendar submission (1526-1560) | attempt counter | submit with retries | calendar | an answer lost after the digest was accepted |
| Wallet client (1395-1523) | `_last_mint` | create and look up an invoice | phoenixd | settled later than the preimage is known |
| Rate limiter (475-542) | two dicts of token buckets | take a token | every unpaid route | no lock; time |
| Health probe cache (1678-1716) | last result, its time, a lock | cached read | calendar | single flight, cold start |
| Health verdict (843-1140, 1719-1796) | none: reads files | classify, aggregate | status files | stale or missing readings |
| Pause gate and float backstop (821-924) | a file; a balance | admit or refuse | wallet-balance-check | read once per request |
| Body cap (748-818) | one request's byte count | count, refuse | ASGI server | a response already started |
| L402 token (1261-1368) | none | mint, verify, parse | door | which caveats bind |
| Upgrade walk (1141-1258, 1835-1860) | one request's tally | look up pending commitments | calendar | two budgets, abandoned lookups |
| Backup (`ops/backup-live-state.sh`) | archives, status file, "restart owed" | stop, copy, restart, publish | calendar service | interrupted half way |
| Health monitor (`ops/health-monitor.sh`) | last fingerprint and time | alarm, re-alert, recover | `/health`, notify | undelivered alarms |
| Proof maintenance (`ops/upgrade-*.sh`) | proof files | upgrade each, count | calendar | partial failure |

What makes each correct:

* **Door, log, sweeper, cache, submission.** A settled payment becomes a durable
  obligation before the calendar is asked; the obligation is discharged only
  when the calendar has the digest; nothing undoes it; and it is discharged in
  the end. A proof is only served for what was paid for.
* **Rate limiter.** Burst then rate, whatever the history; an honest Retry-After;
  a bounded dict.
* **Probe cache.** One render at a time, one per TTL, nobody stuck or answered
  with nothing.
* **Health verdict and float.** `ok` never while the float keeps the door shut; a
  drained wallet is noticed even if its check dies; a lost reading is never quiet.
* **Upgrade walk.** Ends within its budgets; "pending" means the calendar answered;
  no late answer gets into the proof.
* **Backup.** The calendar writer this run stopped is running again at the end, or
  the run has failed; a success stands for a snapshot with the newest row and for a
  copy that is not hot.
* **Monitor.** An alarm not delivered is retried; a lasting trouble is the last thing
  the operator heard; the end of one on record is announced.
* **Proof maintenance.** No proof is lost, whatever is killed or fails, while one run
  is at it; a sweep that says ok left nothing behind.

## 2. The modules

| Module | Models |
|---|---|
| `ProofDuty` | The promise of the paid door, without implementation: a duty is taken on for a settled invoice, owed until the calendar has committed its digest, then discharged, never forgotten. |
| `FifoDict` | A Python dict with insertion order, as the caches use it: the sequence of its entries. |
| `Redemption` | Door, obligation log, sweeper, cache and submission together, with the wallet, the calendar, the operator, crashes and restarts. Implements `ProofDuty`. |
| `RateLimiter` | `_bucket_retry_after` over one bucket dict. |
| `HealthProbe` | `_otsd_probe_cached`. |
| `UpgradeWalk` | One `/upgrade`: `_upgrade_ots_bytes` and `_upgrade_pending_against_operator`, with the lookup thread. |
| `Health` | The float backstop, the pause gate, `/health`'s classifiers and verdict, and `ops/wallet-balance-check.sh`. |
| `Backup` | `ops/backup-live-state.sh` and the snapshot verifier, run after run. |
| `Monitor` | `ops/health-monitor.sh` with `ops/notify.sh`, run after run. |
| `ProofSweep` | `ops/upgrade-all-proofs.sh` and `ops/upgrade-proof.sh`, by the timer and by hand. |
| `MC*` | Instances for TLC: symmetry, and for `MCRedemption` the initial states of a restart. |
| `*Proofs` | The theorems about the module of that name, with their lemmas. |

The modules meet where the code does: `Redemption` and `RateLimiter` share
`FifoDict`; what `Redemption` sees of `Health` is the flag `halted`, free to change
at any time; `Health` sees the calendar, the sweep and the backup as values that
may be anything, so that its properties hold whatever `HealthProbe`, `ProofSweep`
and `Backup` produce; `Monitor` sees `/health` in the same way.

### Redemption

Each thread has a program counter `pc[t]` that names the step it takes next, and
registers for the local variables it still needs: `job` (payment_hash), `body`
(the digest), `bid` (the price in the token), `tries`, `size` and `victim` (the
iterator and the key in `_proof_cache_put`); `todo` is the sweeper's row list.

| Code | Actions |
|---|---|
| challenge, 1917-1942 | `Challenge` |
| gate, token, preimage, 832-842 and 1869-1884 | `Present` |
| `verify_payment`, 1886 | `Lookup`, `LookupFails` |
| cache check, 1889-1896 | `CheckCache`, `ServeCached`, `ServeEvicted` |
| `record_obligation`, 1901 | `Record`, `RecordFails` |
| `stamp_digest`, 1904 and 670 | `Submit`, `SubmitRetries`, `SubmitFails` |
| `_proof_cache_put`, 1909 and 678 | `Put`, `Pick`, `PickNext`, `Evict`, `EvictRaces`, `Insert` |
| `mark_obligation_stamped`, 1910 and 679 | `Mark`, `MarkFails` |
| answer, 1911 | `Respond` |
| sweep, 683-701 | `BeginSweep`, `SweepRow`, `SweepRowFails`, `EndSweep` |
| process | `Crash`, `Start` (a new price may be configured) |
| operator, wallet | `Halt`, `Resume`, `Pay`, `Settle` |

A failing call is an action of its own beside the succeeding one. A submission
that fails may still have been accepted by the calendar (`MaybeAccepted`). The
bytes of a proof are abstracted to the digest they prove. `answer` holds the
HTTP answer sent by the latest step and exists for the properties only.

**Where threads switch.** The image runs CPython 3.13 with the GIL. The
interpreter gives it up at calls, at blocking I/O and at loop ends, not between
other bytecodes. A step is therefore one call or one stretch of Python without
any. This is why the `del` and the store that follows it are one step, while
`iter`, `next` and the size test of the same line are not, and why the two stores
of the probe cache (1712-1713) cannot be seen apart. A free-threaded build would
need finer steps.

### RateLimiter

One worker's request is `Ask` (reads the clock), `Get` (reads, refills, charges)
and then either `Overwrite`, or `Measure` followed by `Admit` or by `Pick`,
`PickNext` and `Evict` (or `EvictRaces`). Tokens are counted in whole units,
`Grain` to a token, one unit a tick, so that fractions of a token exist without
real numbers. The Retry-After is compared before it is rounded up to seconds (527), so
a slip in that rounding would not be seen.

### HealthProbe

`Ask` reads the clock; `Look` is the decision of 1698-1705; `ServeStale`,
`Acquire`, `ReadClock`, `Recheck`, `Probe` and `Keep` are the calls that follow. The
result is represented by the time its render began.

### UpgradeWalk

The tree of sub-stamps is the sequence `ahead` of the pending ones not walked yet; a
merged answer puts what it brings in front, as the generator would yield it next.
`Ask` reads the clock and starts the lookup thread; `Join` begins, perhaps later, to
wait for the `remaining` seconds computed then, which count down while it waits.
`Deliver` and `WorkerEnds` are the thread, and `Miss`, `Merge` and `Abandon` are what
the request makes of it after `join`. The thread stores its outcome before it ends, so `Abandon` may find an outcome it must not
use. The calendar is free: late, silent, wrong, or handing out new commitments
for ever. `clock` is the time since `started`, not counted beyond the budget, where
nothing depends on it any more. A proof that does not match its digest may carry a
Bitcoin attestation all the same: `_structural_status` compares the digest first and
the bytes go back as they came (`anchored` in `Init`). `waited` adds up the time spent in
joins and `pending` remembers every commitment that was ever in the proof, each for one
property; no action reads them.

### Health

`wallet` is the status file with its status, its balance and whether it is too old;
`check` is what a run of the script is about to write. `ReadFails` is `fail_unknown`,
which writes a null balance. `WriteFails` leaves the old file, or an empty one: `printf`
fails on a full disk, the script goes on, and `mv` installs what there is (44-45).
`/health` reads it as unknown. `HealthBegins` reads the switch, the float and the last
mint, `HealthAnswers` everything that comes after the calendar's probe. `lastRead`
remembers the last balance that reached the file, for the properties only.

### Backup

The script is a program counter over its sections, and `run` its variables: the mode,
the status so far, the newest row seen, the snapshot, whether the member is the
live directory, `RESTART_CALENDAR`, and whether the error trap is running. Rows are
numbered, so that a copy of the log is a number. The calendar is running, crashed (its
supervisor will restart it) or stopped. `Trap` is any command that fails, `Kill` a
signal. `past.making` and `past.kept` record what happened while the archive was
made, for the properties.

### Monitor

A run is `Poll`, `Probe` or `ProbeFails`, then `Quiet`, `Push` or `PushFails`, then
`WriteState`; `Kill` may come anywhere. `Message` is the decision of 149-176. The script
does not set `-e`, so a `printf` that fails on a full disk is followed by the `mv`, and
the state file is empty, which is like none (`WriteStateEmpties`, 134-135). The two
clocks are flags: the stall file has become old, the re-alert interval has passed.
`heard` is the last message that was delivered, and `open` says that an alarm was since
a run last ended on an ok it wrote down or tried to; both are for the properties only.

### ProofSweep

`file` and `bak` are what `proof.ots` and `proof.ots.bak` hold: nothing, something
torn, a pending proof, a backed one. `ots upgrade` is external: as the comments in
`upgrade-proof.sh` say, it renames the proof to `.bak`, refuses a name that is taken, and
writes the new one. Two runs of the script may be under way, the sweep's and one
by hand. `shared` remembers the proofs both were at together, until a run comes alone to one
of which there is a copy, and `spoiled` those of them where, since, a write failed or was cut
off. The status file has the same writer as the monitor's, and the same empty file
(`PublishEmpties`, `ListFails`), which reads as unknown.

## 3. The runs

| Run | Instance | Shows |
|---|---|---|
| `redemption_races` | 2 clients, 2 invoices, 1 digest, cache of 1, 1 attempt | Under every interleaving, failure and crash, a stamped row's digest is committed, everything committed is owed or was, rows only advance. |
| `redemption_terms` | 1 client, 2 invoices, 2 digests, 2 prices, 2 attempts | A proof is served only for what was settled; repricing strands nobody; the door implements `ProofDuty`. |
| `redemption_recovery` | 1 client, 3 invoices, started after a crash that left 2 of 3 rows owed | Every owed row is stamped in the end, under `Fairness`; the cache exceeds its bound by at most one entry per other thread. |
| `redemption_stamp_failure` | violation | A 502 "stamping failed" can go out when the row is `stamped`. |
| `redemption_cache_race` | violation | A cache race can end in an exception. |
| `rate_limiter` | 2 workers, 3 peers, dict of 1, burst 2, clock to 4, 5 requests | Burst then rate and an honest Retry-After for every peer that sends one request at a time, whatever the others do to the dict; such a peer is refused only when it has used up the rate; the dict's overshoot. |
| `health_probe_flood` | 3 workers, TTL 2, clock to 3 | Single flight, spacing, no render undone by an older one, no empty answer, everybody answered. |
| `upgrade_walk` | 3 commitments, 2 lookups, 2 seconds, 2 stamps in the proof | Both budgets hold and the request ends, whatever the calendar does; the answer's word agrees with what was heard and with the proof; no commitment is passed over without a word. |
| `health_float` | balances below, at and above the cap, cap 2, minimum 4 | A lost reading is loud, `ok` is not given while the float stops the door nor on a wallet last read below the minimum, a drain is noticed and an auto-pause ends. |
| `backup` | 2 rows, every mode | What a success stands for; no calendar left down in silence but by a kill. |
| `health_monitor` | 2 kinds of ok, 2 of trouble | What is on record was heard; no recovery without a new alarm; a lasting trouble, a lasting stall and the lasting end of a trouble still on record are announced. |
| `proof_sweep` | 2 proofs, 1 kill | No proof lost but by two runs at it together and a write that fails or is cut off; no dishonest ok; lasting damage reported. |

`TypeOK` is an invariant of `redemption_races` only: for every module it is a theorem
(section 4), and TLC need not look again at what is proved for every instance.

**Bounds.** A cache of one entry already evicts on the second put, so two invoices
make every eviction race; the races need two threads and there are three. One
digest shared by two invoices is the harder case for the cache and the calendar (the
same digest owed twice); two digests and two prices matter to what is served and to
the refinement, and one request thread beside the sweeper is enough there, because
the interleavings of two requests are the first run's. One attempt has every outcome
of `stamp_digest` but the retry, which `redemption_terms` adds. The limiter's clock
lets a bucket of two tokens empty and refill; three peers and a dict of one make every
eviction race. Two lookups make every order of an answer, a failure and an
abandonment, and three commitments keep one beyond the budget. Two rows tell a
snapshot with the newest row from one without. The balances of `health_float` lie
on each side of each threshold and on the cap itself. One kill of the sweep is
every place a proof can be left in; the second proof is the one that goes
well. `MaxClock`, `MaxRequests`, `MaxRows`, `MaxStamps` and `MaxKills` end or
limit a behaviour. `rate_limiter`, `health_probe_flood` and `upgrade_walk` stop at
their bounds or with the request, so they do not check deadlock; the others do.

**Fairness.** `OwedIsDischarged` assumes that threads are scheduled (weak
fairness of each request and of the sweeper), that the supervisor restarts the
process (`Restart=always`, `restart: unless-stopped`) and that a pause ends. It
does not assume that anything succeeds: it says that *if* after some moment no
fault hits this row (`FaultsCeaseFor`), the row is stamped, while the stamps of
other rows may go on failing. Without a request's help: no fairness makes a client
come back. `EveryCallerIsAnswered` adds strong fairness of taking the lock, since
`threading.Lock` keeps no queue.

`RequestEnds` assumes that the request's own thread runs and that time passes, nothing
of the calendar or of the lookup thread. `DrainIsNoticed` assumes that the timer of
the wallet check fires and time passes; its calls and writes may fail for ever.
`AutoPauseEnds` cannot hold without a reading, so it says in its premise that checks
succeed again and again. The monitor's properties assume its timer (weak) and that a
run is not killed, a push not lost and the state file not left unwritten every single
time (strong): a channel that is down for good delivers nothing. The probe may fail
every time, as it does without a calendar container; only `LastingStallIsHeard`,
which cannot hold then, says in its premise that a probe succeeds again and again. The
`proof_sweep` run assumes the timer and that a sweep goes on unless it is killed; kills
are bounded. With that `DamageIsReported` assumes that each call of `ots` ends:
`upgrade-proofs.service` sets no timeout (11-16), so a call that hangs would hold up
every later sweep. `Backup` needs no fairness.

**What the properties leave out, and why.**

* `BurstThenRate` and `RetryAfterSuffices` excuse a peer whose own requests
  overlapped or whose bucket was evicted (`excused`). In an overlap one worker held
  up between read and store wipes out every charge made meanwhile, any number of
  them; `main.py:483` says "a request or two".
* `DeniedForCause` excuses the same peers. It speaks of requests that were granted: a
  denied one costs nothing.
* `NoneSkippedInSilence` is about a walk that ends on its own. One that ends at an
  attestation, or says `budget_exhausted`, may leave commitments unasked.
* `SuccessIsNotHot` is about a calendar that ran from the boundary on, or that the run
  stopped. The script looks once; an otsd between a crash and its restart passes for
  a stopped one. Assumed: the operator leaves the calendar alone during a backup.
* `RestartedOrReported` excuses a kill. `docs/contracts.md:235` says that after a stop
  between copy and restart "the timer's next run, or the operator, starts it": the
  next run finds no writer to stop, so none to start, and may report a success.
* `LostReadingIsLoud` does not say that the door stays shut: a failed check takes the
  balance out of the file and the auto-pause ends, where `main.py:828` says it clears
  itself when the balance recovered. That the backstop is then inactive is in
  `docs/operator-guide.md`.
* `OkMeansFunded` is about the last balance that reached the file. A deployment whose
  check never told one is answered `ok` without (`lastRead = None`).
* `OkMeansNotStopped` rests on `Cap <= MinSats`, true of the defaults (20,000 and
  50,000). Nothing in the code compares the two settings.
* `RecoveryIsHeard` starts from the state file: a trouble that was pushed but whose
  run was killed before it wrote the file has an end nobody announces. It also excuses
  a record that is lost (`last = None`): a full disk empties the file, and the next
  run takes its ok for "first ever run: nothing to recover from"
  (`health-monitor.sh:152`). And a probe that fails during a stall makes the run push a
  recovery (`LastingStallIsHeard` says that the stall is announced again).
* `NothingLost` excuses a proof that the sweep and the operator were at together and
  where a write failed or was cut off since (`spoiled`): the first compares, the second
  renames and is killed, the first removes the only copy. While nothing of that kind
  happens, a proof that two runs share is either there or about to be written by one of
  them, which the property says.
* `OkIsHonest` speaks of listed proofs (`ready`): a directory whose `proof.ots` a kill
  left under the name `.bak` is listed by no sweep. It leaves out a proof that the
  operator takes in hand or restores while the sweep is under way.

**Two disagreements** between code and text are the violation runs; PROJECT.json
quotes both sides. Neither loses a paid obligation, and the cache race needs a full
dict (10,000 entries). The bucket dict has the same race as the cache, so that
`/health`, which begins with the limiter, can answer 500 where
`docs/contracts.md:207` says that it never raises; `EvictRaces` is that step.

## 4. What is proved

For every value of the constants, checked by TLAPS. Each module assumes the `ASSUME` of
the module it is about and nothing else.

| Module | Theorems about |
|---|---|
| `RedemptionProofs` | `TypeOK`, `StampedIsCommitted`, `CommittedIsOwed`, `ServedIsPaidAndOwed`, `SettledIsHonoured`, `CacheOvershoot`, `RowsOnlyAdvance`, `ImplementsProofDuty` |
| `RateLimiterProofs` | `TypeOK`, `BucketsOvershoot`, `BurstThenRate`, `DeniedForCause`, `RetryAfterSuffices` |
| `HealthProbeProofs` | `TypeOK`, `SingleFlight`, `NobodyIsAnsweredNothing`, `RendersAreSpaced`, `ResultsOnlyGetNewer` |
| `UpgradeWalkProofs` | `TypeOK`, `LookupsAreBounded`, `NeverWaitsPastBudget`, `UnavailableMeansSilence`, `AnswerMatchesProof`, `NoneSkippedInSilence` |
| `BackupProofs` | `TypeOK`, `SuccessHoldsNewestRow`, `SuccessIsNotHot`, `RestartedOrReported` |
| `HealthProofs` | `TypeOK`, `LostReadingIsLoud`, `OkMeansNotStopped`, `OkMeansFunded` |
| `MonitorProofs` | `TypeOK`, `RecordedIsHeard`, `RecoveryFollowsAlarm` |
| `ProofSweepProofs` | `TypeOK`, `NothingLost`, `OkIsHonest` |

With these every safety property of a passing run is a theorem. What storing and
deleting do to the entries and the keys of a dict are lemmas in `RateLimiterProofs` and
`RedemptionProofs`.

**Redemption.** None of the safety properties is inductive. A row is
marked by a thread that stamped some steps earlier, so what has to be carried from
step to step is what each thread has established about its payment hash:
`ThreadInv(t)` says it for each `pc[t]`. From "check" the invoice is settled for the
body's digest; from "stamp" the row is on disk for it; from "put" the calendar has
it. The sweeper starts with no token and no lookup, so it needs `RowInv` (a row's
digest is what its invoice was settled for), and a served cache entry needs
`CacheInv` (it belongs to a recorded row and the calendar has it). That the other
threads cannot spoil this is `Advance`: settled invoices stay settled, rows only
advance, the calendar forgets nothing. The proof first shows that every step
advances, then that facts about one thread survive any advance, then that each
step establishes the fact of its next label. The refinement maps the row to the duty and the
latest answer to the delivery; submissions map to `Commit` or to a quiet step.
`CacheOvershoot` counts: the entries plus the threads that saw room and have not
inserted yet never exceed the bound plus the other threads (`Room`); a thread that
sees room does so while there is some, and one that evicts first adds nothing.

**RateLimiter.** `Room` is the same count. For the rate, `Accounted(p)` says of a peer
that is not excused that what its bucket holds, and what the one worker at it is
about to store, pays for every request granted since any earlier one: `Left(g, u, t)`
is that sum for `u` units at time `t`. A refill keeps it because a unit comes with
every tick and never past a full bucket; a grant keeps it because a token is taken
out; and nobody else stores that bucket, which is `Alone`. `BurstThenRate` follows when
the worker stores. The promise of a Retry-After is carried the same way: the units
plus the time left until then make a token. `Floor` bounds how far a clock read too
early pushes a bucket below zero. `DeniedForCause` needs the opposite bound, that a bucket
is not *poorer* than its grants explain: it is full, or over some stretch up to now the
grants have drawn all that the burst and the rate allow but what it holds
(`Drawn(g, u, t)`). A denial must keep that too, and does because it stores what it
found, refilled, and charges nothing.

**HealthProbe.** The lock is held by exactly the worker between its
second look and its stores (`LockInv`); so `at` cannot change between what it
reads there and the render it decides on, and `at` is the end of the latest
render (`TimeInv`). A worker enters its render only after it saw under the lock that the
stamp is too old, and a result is no younger than its stamp, so the result it will
store is newer than the one it replaces (`AgeInv`).

**UpgradeWalk.** `Counted` ties the lookups made to the commitments seen, `Joined` says
that what was waited and what a join still waits for are within the budget together, `Accounted` says that every lookup but
the one under way has failed or was heard, and `Unanchored` that a walk that goes on has
no Bitcoin attestation in its proof. `Walked` follows the commitments: each that ever
joined the walk is asked for or ahead of it, and each asked for was looked up, but for the one
that finds the budget exhausted; a walk that runs out has nothing ahead, which is
`NoneSkippedInSilence`. Its lemmas say what `Head`, `Tail`, `Append` and `\o` do to the set of
a sequence's elements.

**Backup.** A success is decided by facts that lie many steps apart, so the invariant
carries them through the run: from the check of the snapshot on, a run that may still
succeed has the newest row (`Holds`); before the copy nothing is hot (`Cold`); a
calendar that ran since the boundary takes the run's hope away (`Guarded`); one the run
stopped stays stopped (`Halted`) and is owed a start until the start has been seen
(`Owed`).

**Health.** The file's status agrees with the balance beside it, in the file and in
what is about to be written (`FileAgrees`, `CheckAgrees`). Thus a balance that is
gone is a status of unknown or a file that reads as unknown, and a file that reads ok when the second half of
`/health` looks at it holds a balance above the cap.
For `OkIsFunded` the same agreement says that a file of status ok holds the last balance
read, and that it is the minimum at least; the verdict is ok only if the file was so when the second
half of `/health` read it.

**Monitor.** A run about to write the state file has delivered what that fingerprint
requires (`WriteIsHeard`). A trouble on record, or about to be, was announced after the
last ok that was written (`TroubleIsOpen`), and a recovery is pushed only for one on
record.

**ProofSweep.** Two runs of `upgrade-proof.sh` may be under way, but at one proof only if
it is `shared` (`Apart`). So what a run found out about a proof at one step still holds
at its next: while it clears the `.bak`, or is about to rename, the file holds a
copy, and before it writes, the `.bak` does (`KeptAt`). At a
shared proof the other run may have changed both in between; what remains is that there
is a copy or one of the two is at its write (`RacedAt`), since a copy goes only by a rename,
which leads to a write, or by the removal of a `.bak` whose file was there when it was
compared. For `OkIsHonest` each proof that
was ready when the sweep began is still to be looked at, is being looked at, is backed,
or has been counted as a mismatch or as needing attention (`AccountedFor`); a sweep that
publishes has nothing left to look at, and is `ok` only if it counted none. The proof
splits the steps of a run into those that go on and those that end it
(`GoingOnBase`, `EndingBase`), since they differ in what the sweep's tally learns; `Raced`
is carried apart from the rest (`Base`), which does not need it.

**Only model-checked:** the liveness properties `OwedIsDischarged`,
`EveryCallerIsAnswered`, `RequestEnds`, `DrainIsNoticed`, `AutoPauseEnds`, the three of
`health_monitor` and `DamageIsReported`: the prover has no rules for fairness and ENABLED
that reach them. Induction over data is out of its reach as well, so the
lemmas about dicts and sequences are about one store, delete or append and not about a whole
history.

## 5. Not modelled

* The bytes: macaroon signatures, `.ots` serialisation, JSON. Tokens and proofs
  are records and digests that verify or do not.
* Time in `Redemption`: the token's expiry is advisory (1290-1295) and sweeps are not
  timed, only fair.
* `_last_mint`, and a mint that fails: the client then has nothing it can pay. In
  `Health` the last mint is any value.
* `RATE_LIMIT_PER_MINUTE=0` and `HEALTH_PROBE_CACHE_SECONDS=0`, which switch the
  modelled mechanism off.
* SQLite's journal: a commit is atomic and durable, or an exception.
* The body cap (748-818): it counts the bytes of one request and shares no state, so
  that an automaton of it would repeat its few lines. `/verify` and the caveats'
  satisfiers are pure functions of one request.
* In the backup: the bytes of the archive, and which archives encryption, push and
  retention leave where. A status that cannot be written ends the run as a kill does;
  an invalid `BACKUP_KEEP` ends it before it begins.
* Status reporters, configuration, deployment: no state of their own.

## 6. Plan

Done in this order: the paid door with its log, cache and sweeper; the limiter; the
probe; the upgrade walk; the float and `/health`; the backup; the monitor; the proof
sweep; and the theorems for the safety properties of all of them. Left:

1. The safety halves of the liveness properties, which can be proved where the
   properties cannot: that a thread with work to do always has a step it may take, and
   that the measure of each wait (`tries`, the budgets of a walk, the rows of a sweep)
   only goes down.
2. Composition: `Health` over the status that `Backup` and `ProofSweep` really
   publish, and `Monitor` over `Health`, to follow one fault from its cause to the
   operator's ear. Today each is checked against every value the other may take,
   which implies the safety of the composition but not its liveness.
3. `_last_mint` and the failing mint, in `Redemption` and `Health` together.
4. The caveats of a token, as operators checked against a reference definition.
