----------------------------- MODULE UpgradeWalk ------------------------------
(***************************************************************************)
(* One POST /upgrade (main.py): the proof is inspected, and if it is       *)
(* pending its sub-stamps are walked and the operator's calendar is asked  *)
(* once for each commitment, within a number of lookups and a stretch of   *)
(* time.  A lookup runs in a thread of its own that is joined for what     *)
(* remains of the time; one that is still alive then is abandoned, and     *)
(* may go on and finish behind the answer's back.                          *)
(*                                                                         *)
(* The calendar is whatever it likes: late, silent, wrong, or handing out  *)
(* new pending commitments in every answer, which join the walk.           *)
(***************************************************************************)
EXTENDS Integers, Sequences, FiniteSets
SequenceOps == INSTANCE SequencesExt

CONSTANTS Commitment, \* sub_stamp.msg of the pending sub-stamps
          MaxQueries, \* UPGRADE_MAX_CALENDAR_QUERIES
          MaxSeconds, \* UPGRADE_MAX_SECONDS
          MaxStamps   \* bound: pending sub-stamps in the client's proof

ASSUME UpgradeWalkAssumption ==
  /\ MaxQueries \in Nat \ {0}
  /\ MaxSeconds \in Nat \ {0}
  /\ MaxStamps \in Nat \ {0}

VARIABLES
  pc,        \* "inspect", "walk", "start", "join" or "done"
  proof,     \* _structural_status of the bytes sent, or "invalid"
  ahead,     \* the pending sub-stamps not walked yet
  seen,      \* the commitments asked for
  tally,     \* the tally
  clock,     \* time.monotonic() - started, not counted beyond the budget
  remaining, \* what worker.join(remaining) waits for, and still has to
  alive,     \* worker.is_alive()
  outcome,   \* what the worker left in its outcome dict
  anchored,  \* the proof in memory carries a Bitcoin attestation
  answer,    \* the status answered
  \* for the properties only
  lookups,   \* the commitments looked up, in order
  heard,     \* how many of the lookups were answered in time
  pending,   \* the commitments that joined the walk
  waited     \* the time spent in join

vars == <<pc, proof, ahead, seen, tally, clock, remaining, alive, outcome, anchored,
          answer, lookups, heard, pending, waited>>

\* The calendar's answer merges more pending sub-stamps, a Bitcoin attestation, or
\* neither; merge() itself may refuse it.
Value == [kind : {"value"}, more : {<<>>} \cup {<<c>> : c \in Commitment},
          bitcoin : BOOLEAN]
Nothing == [kind |-> "nothing"]
Outcome == {Nothing} \cup [kind : {"not_found", "error", "unmergeable"}] \cup Value

Status == {"invalid", "mismatch", "bitcoin_attestation_present", "no_attestations",
           "pending"}

Tally == [queries : 0..MaxQueries, found : Nat, not_found : Nat, failed : Nat,
          budget_exhausted : BOOLEAN]

TypeOK ==
  /\ pc \in {"inspect", "walk", "start", "join", "done"}
  /\ proof \in Status
  /\ ahead \in Seq(Commitment)
  /\ seen \subseteq Commitment
  /\ tally \in Tally
  /\ clock \in 0..MaxSeconds
  /\ remaining \in Nat
  /\ alive \in BOOLEAN
  /\ outcome \in Outcome
  /\ anchored \in BOOLEAN
  /\ answer \in Status \cup {"none", "calendar_unavailable"}
  /\ lookups \in Seq(Commitment)
  /\ heard \in 0..MaxQueries
  /\ pending \subseteq Commitment
  /\ waited \in Nat

Init ==
  /\ pc = "inspect"
  /\ proof \in Status
  /\ ahead \in IF proof = "pending"
               THEN UNION {[1..n -> Commitment] : n \in 1..MaxStamps}
               ELSE {<<>>}
  /\ seen = {}
  /\ tally = [queries |-> 0, found |-> 0, not_found |-> 0, failed |-> 0,
              budget_exhausted |-> FALSE]
  /\ clock = 0
  /\ remaining = 0
  /\ alive = FALSE
  /\ outcome = Nothing
  /\ anchored \in CASE proof = "bitcoin_attestation_present" -> {TRUE}
                     [] proof = "mismatch" -> BOOLEAN
                     [] OTHER -> {FALSE}
  /\ answer = "none"
  /\ lookups = <<>>
  /\ heard = 0
  /\ pending = SequenceOps!ToSet(ahead)
  /\ waited = 0

-------------------------------------------------------------------------------

Answer(status) ==
  /\ answer' = status
  /\ pc' = "done"

\* Anything but a pending proof is answered without the calendar.
Inspect ==
  /\ pc = "inspect"
  /\ \/ proof # "pending" /\ Answer(proof)
     \/ proof = "pending" /\ pc' = "walk" /\ UNCHANGED answer
  /\ UNCHANGED <<proof, ahead, seen, tally, clock, remaining, alive, outcome, anchored,
                 lookups, heard, pending, waited>>

\* Time passes, for the request's own thread and, in join, for what it waits for.
Tick ==
  /\ \/ /\ pc \in {"walk", "start"}
        /\ clock < MaxSeconds
        /\ UNCHANGED <<remaining, waited>>
     \/ /\ pc = "join"
        /\ alive
        /\ remaining > 0
        /\ remaining' = remaining - 1
        /\ waited' = waited + 1
  /\ clock' = IF clock < MaxSeconds THEN clock + 1 ELSE clock
  /\ UNCHANGED <<pc, proof, ahead, seen, tally, alive, outcome, anchored, answer, lookups,
                 heard, pending>>

\* The same commitment again: one lookup for both.
Revisit ==
  /\ pc = "walk"
  /\ ahead # <<>>
  /\ Head(ahead) \in seen
  /\ ahead' = Tail(ahead)
  /\ UNCHANGED <<pc, proof, seen, tally, clock, remaining, alive, outcome, anchored, answer,
                 lookups, heard, pending, waited>>

Spent == tally.queries >= MaxQueries \/ clock >= MaxSeconds

\* Slip: every lookup is joined for the whole budget.
AskForAll ==
  /\ pc = "walk"
  /\ ahead # <<>>
  /\ Head(ahead) \notin seen
  /\ ~Spent
  /\ seen' = seen \cup {Head(ahead)}
  /\ tally' = [tally EXCEPT !.queries = @ + 1]
  /\ remaining' = MaxSeconds
  /\ alive' = TRUE
  /\ outcome' = Nothing
  /\ pc' = "start"
  /\ lookups' = Append(lookups, Head(ahead))
  /\ UNCHANGED <<proof, ahead, clock, anchored, answer, heard, pending, waited>>

\* Slip: the commitment is not added to those seen.
AskForgets ==
  /\ pc = "walk"
  /\ ahead # <<>>
  /\ Head(ahead) \notin seen
  /\ ~Spent
  /\ tally' = [tally EXCEPT !.queries = @ + 1]
  /\ remaining' = MaxSeconds - clock
  /\ alive' = TRUE
  /\ outcome' = Nothing
  /\ pc' = "start"
  /\ lookups' = Append(lookups, Head(ahead))
  /\ UNCHANGED <<proof, ahead, seen, clock, anchored, answer, heard, pending, waited>>

\* A new commitment within the budget: the clock is read and a worker thread with a dict
\* of its own started.
Ask ==
  /\ pc = "walk"
  /\ ahead # <<>>
  /\ Head(ahead) \notin seen
  /\ ~Spent
  /\ seen' = seen \cup {Head(ahead)}
  /\ tally' = [tally EXCEPT !.queries = @ + 1]
  /\ remaining' = MaxSeconds - clock
  /\ alive' = TRUE
  /\ outcome' = Nothing
  /\ pc' = "start"
  /\ lookups' = Append(lookups, Head(ahead))
  /\ UNCHANGED <<proof, ahead, clock, anchored, answer, heard, pending, waited>>

\* The join begins, perhaps later, for what remained when the clock was read.
Join ==
  /\ pc = "start"
  /\ pc' = "join"
  /\ UNCHANGED <<proof, ahead, seen, tally, clock, remaining, alive, outcome, anchored,
                 answer, lookups, heard, pending, waited>>

\* Slip: the worker merges what it is given by itself, in its own thread.
DeliverMerges ==
  /\ alive
  /\ outcome = Nothing
  /\ outcome' \in Outcome \ {Nothing}
  /\ anchored' = (anchored \/ (outcome'.kind = "value" /\ outcome'.bitcoin))
  /\ UNCHANGED <<pc, proof, ahead, seen, tally, clock, remaining, alive, answer, lookups,
                 heard, pending, waited>>

\* The worker, also when nobody waits for it any more: the calendar answers or the
\* call raises, and the thread ends a little later.
Deliver ==
  /\ alive
  /\ outcome = Nothing
  /\ outcome' \in Outcome \ {Nothing}
  /\ UNCHANGED <<pc, proof, ahead, seen, tally, clock, remaining, alive, anchored, answer,
                 lookups, heard, pending, waited>>

WorkerEnds ==
  /\ alive
  /\ outcome # Nothing
  /\ alive' = FALSE
  /\ UNCHANGED <<pc, proof, ahead, seen, tally, clock, remaining, outcome, anchored, answer,
                 lookups, heard, pending, waited>>

\* What _upgrade_ots_bytes answers when the walk ends with tally t.
Verdict(t, btc) ==
  IF btc THEN "bitcoin_attestation_present"
  ELSE IF t.queries > 0 /\ t.failed = t.queries THEN "calendar_unavailable"
  ELSE "pending"

\* Slip: an abandoned lookup is not counted as a failed one.
AbandonUncounted ==
  /\ pc = "join"
  /\ alive
  /\ remaining = 0
  /\ tally' = [tally EXCEPT !.budget_exhausted = TRUE]
  /\ Answer(Verdict(tally', FALSE))
  /\ UNCHANGED <<proof, ahead, seen, clock, remaining, alive, outcome, anchored,
                 lookups, heard, pending, waited>>

\* Slip: join() without a timeout.
AbandonNever ==
  /\ pc = "join"
  /\ ~alive
  /\ remaining < 0
  /\ UNCHANGED vars

\* The time is up and the worker is alive, whatever it may have in its dict: a failed
\* lookup, and the end of the walk.
Abandon ==
  /\ pc = "join"
  /\ alive
  /\ remaining = 0
  /\ tally' = [tally EXCEPT !.failed = @ + 1, !.budget_exhausted = TRUE]
  /\ Answer(Verdict(tally', FALSE))
  /\ UNCHANGED <<proof, ahead, seen, clock, remaining, alive, outcome, anchored,
                 lookups, heard, pending, waited>>

\* Slip: break for continue after a lookup without a timestamp.
MissEndsWalk ==
  /\ pc = "join"
  /\ ~alive
  /\ \/ /\ outcome.kind = "not_found"
        /\ tally' = [tally EXCEPT !.not_found = @ + 1]
        /\ heard' = heard + 1
     \/ /\ outcome.kind = "error"
        /\ tally' = [tally EXCEPT !.failed = @ + 1]
        /\ UNCHANGED heard
  /\ Answer(Verdict(tally', FALSE))
  /\ UNCHANGED <<proof, ahead, seen, clock, remaining, alive, outcome, anchored,
                 lookups, pending, waited>>

\* The worker ended without a timestamp to merge: not found is an answer, an error is
\* none, and a timestamp that merge() refuses is logged only.
Miss ==
  /\ pc = "join"
  /\ ~alive
  /\ \/ /\ outcome.kind = "not_found"
        /\ tally' = [tally EXCEPT !.not_found = @ + 1]
        /\ heard' = heard + 1
     \/ /\ outcome.kind = "error"
        /\ tally' = [tally EXCEPT !.failed = @ + 1]
        /\ UNCHANGED heard
     \/ /\ outcome.kind = "unmergeable"
        /\ heard' = heard + 1
        /\ UNCHANGED tally
  /\ ahead' = Tail(ahead)
  /\ pc' = "walk"
  /\ UNCHANGED <<proof, seen, clock, remaining, alive, outcome, anchored, answer,
                 lookups, pending, waited>>

\* A timestamp, merged into the proof; what it brings is walked next.  The walk stops
\* at the first Bitcoin attestation.
Merge ==
  /\ pc = "join"
  /\ ~alive
  /\ outcome.kind = "value"
  /\ tally' = [tally EXCEPT !.found = @ + 1]
  /\ heard' = heard + 1
  /\ anchored' = outcome.bitcoin
  /\ ahead' = outcome.more \o Tail(ahead)
  /\ pending' = pending \cup SequenceOps!ToSet(outcome.more)
  /\ \/ outcome.bitcoin /\ Answer(Verdict(tally', TRUE))
     \/ ~outcome.bitcoin /\ pc' = "walk" /\ UNCHANGED answer
  /\ UNCHANGED <<proof, seen, clock, remaining, alive, outcome, lookups, waited>>

\* The walk is over: nothing left, or nothing more within the budget.
Finish ==
  /\ pc = "walk"
  /\ \/ ahead = <<>> /\ UNCHANGED <<seen, tally>>
     \/ /\ ahead # <<>>
        /\ Head(ahead) \notin seen
        /\ Spent
        /\ seen' = seen \cup {Head(ahead)}
        /\ tally' = [tally EXCEPT !.budget_exhausted = TRUE]
  /\ Answer(Verdict(tally', FALSE))
  /\ UNCHANGED <<proof, ahead, clock, remaining, alive, outcome, anchored, lookups,
                 heard, pending, waited>>

Step == Inspect \/ Revisit \/ Ask \/ Join \/ Abandon \/ Miss \/ Merge \/ Finish

Next == Step \/ Tick \/ Deliver \/ WorkerEnds

Spec == Init /\ [][Next]_vars

\* The request's thread runs and time passes.  Nothing is assumed of the calendar.
FairSpec == Spec /\ WF_vars(Step) /\ WF_vars(Tick)
-------------------------------------------------------------------------------

\* "At most eight lookups": whatever pending commitments the proof holds and the
\* calendar's answers add to it, no more than that, and none of them twice.
LookupsAreBounded ==
  /\ Len(lookups) <= MaxQueries
  /\ \A i, j \in DOMAIN lookups : i # j => lookups[i] # lookups[j]

\* "At most UPGRADE_MAX_SECONDS in all": a lookup that begins late is joined for less, so
\* that all the waits of a request together are within the budget, also if its own
\* thread loses time between reading the clock and waiting.
NeverWaitsPastBudget == waited <= MaxSeconds

\* "A calendar that did not answer, in time or at all, is a 503, never pending", and
\* one that did is never reported silent: lookups abandoned, failed, not found and
\* refused by merge() in any mixture.
UnavailableMeansSilence ==
  pc = "done" /\ lookups # <<>> =>
    (answer = "calendar_unavailable" <=> heard = 0)

\* The bytes answered carry a Bitcoin attestation exactly if the answer says so, or says
\* that they are not of this digest; a value that an abandoned worker brings later gets
\* into neither.
AnswerMatchesProof ==
  pc = "done" =>
    (answer = "bitcoin_attestation_present" <=> anchored /\ proof # "mismatch")

\* No commitment is passed over in silence: a walk that ends without a Bitcoin attestation,
\* and without saying that the budget was exhausted, has asked the calendar for every one,
\* those in the client's proof and those that answers brought, whatever became of the
\* lookups of others.
NoneSkippedInSilence ==
  pc = "done" /\ proof = "pending" /\ ~anchored /\ ~tally.budget_exhausted =>
    pending \subseteq SequenceOps!ToSet(lookups)

\* The request ends even if the calendar never answers, or answers every lookup with a
\* new commitment.
RequestEnds == <>(pc = "done")
===============================================================================
