--------------------------- MODULE UpgradeWalkProofs --------------------------
(* Theorems about UpgradeWalk and their proofs.                            *)
EXTENDS UpgradeWalk, SequenceTheorems, TLAPS

\* The lookups made are the commitments seen, each once, and are what is counted.
Counted ==
  /\ Len(lookups) = tally.queries
  /\ \A i \in 1..Len(lookups) : lookups[i] \in seen
  /\ \A i, j \in 1..Len(lookups) : i # j => lookups[i] # lookups[j]

\* What was waited and what a join may still wait are within the budget together, and
\* something was ahead when the lookup began.
Joined ==
  /\ waited <= clock
  /\ pc \in {"start", "join"} => waited + remaining <= MaxSeconds /\ ahead # <<>>

\* Every lookup but the one under way has failed or was answered.
Accounted ==
  /\ pc = "inspect" => tally.queries = 0 /\ tally.failed = 0 /\ heard = 0
  /\ pc = "walk" => tally.failed + heard = tally.queries
  /\ pc \in {"start", "join"} => tally.failed + heard + 1 = tally.queries

\* A walk that is not over is one of a pending proof without a Bitcoin attestation.
Unanchored ==
  /\ pc = "inspect" =>
       (proof = "bitcoin_attestation_present" <=> anchored /\ proof # "mismatch")
  /\ pc \in {"walk", "start", "join"} => ~anchored /\ proof = "pending"

\* What joined the walk is asked for or ahead; what is asked for was looked up, but for
\* the commitment that finds the budget exhausted, which ends the walk.
Walked ==
  /\ pc = "inspect" => seen = {} /\ pending \subseteq SequenceOps!ToSet(ahead)
  /\ pc \in {"walk", "start", "join"} =>
       /\ pending \subseteq seen \cup SequenceOps!ToSet(ahead)
       /\ seen \subseteq SequenceOps!ToSet(lookups)
  /\ pc \in {"start", "join"} => Head(ahead) \in seen

\* The books of one request: what was asked, what came of it, and the answer.
Books ==
  TypeOK /\ Counted /\ Joined /\ Accounted /\ Unanchored /\ UnavailableMeansSilence
    /\ AnswerMatchesProof

\* The inductive invariant.
IInv == Books /\ Walked /\ NoneSkippedInSilence

-------------------------------------------------------------------------------
\* The elements of a sequence are in its set, and are its head and those of its tail.
LEMMA HeadTailElements ==
  ASSUME NEW S, NEW s \in Seq(S)
  PROVE  /\ SequenceOps!ToSet(s) \subseteq S
         /\ s # <<>> => SequenceOps!ToSet(s) = {Head(s)} \cup SequenceOps!ToSet(Tail(s))
<1> USE DEF SequenceOps!ToSet
<1>1. SequenceOps!ToSet(s) \subseteq S
  BY ElementOfSeq
<1>2. ASSUME s # <<>>
      PROVE  SequenceOps!ToSet(s) = {Head(s)} \cup SequenceOps!ToSet(Tail(s))
  <2>0. PICK rest : rest = Tail(s)
    OBVIOUS
  <2>1. /\ Len(s) \in Nat /\ Len(s) >= 1 /\ DOMAIN s = 1..Len(s)
        /\ Head(s) = s[1]
        /\ DOMAIN rest = 1..(Len(s) - 1)
        /\ \A i \in 1..(Len(s) - 1) : rest[i] = s[i + 1]
    BY <1>2, <2>0, HeadTailProperties, LenProperties, EmptySeq
  <2>2. \A i \in 1..Len(s) : i = 1 \/ (i - 1 \in 1..(Len(s) - 1) /\ (i - 1) + 1 = i)
    BY <2>1
  <2>3. 1 \in 1..Len(s) /\ \A i \in 1..(Len(s) - 1) : i + 1 \in 1..Len(s)
    BY <2>1
  <2>4. SequenceOps!ToSet(s) \subseteq {Head(s)} \cup SequenceOps!ToSet(rest)
    <3>1. ASSUME NEW i \in 1..Len(s)
          PROVE  s[i] = Head(s) \/ s[i] \in SequenceOps!ToSet(rest)
      <4>1. CASE i = 1
        BY <2>1, <4>1
      <4>2. CASE i # 1
        <5>1. PICK j \in 1..(Len(s) - 1) : j + 1 = i
          BY <2>2, <4>2
        <5>2. s[i] = rest[j]
          BY <2>1, <5>1
        <5>3. QED
          BY <2>1, <5>2
      <4>3. QED
        BY <4>1, <4>2
    <3>2. PICK first : first = Head(s)
      OBVIOUS
    <3>3. SequenceOps!ToSet(s) \subseteq {first} \cup SequenceOps!ToSet(rest)
      <4>1. \A i \in DOMAIN s : s[i] \in {first} \cup SequenceOps!ToSet(rest)
        BY <2>1, <3>1, <3>2
      <4>2. QED
        BY <4>1
    <3>4. QED
      BY <3>2, <3>3
  <2>5. SequenceOps!ToSet(rest) \subseteq SequenceOps!ToSet(s)
    BY <2>1, <2>3
  <2>6. Head(s) \in SequenceOps!ToSet(s)
    BY <2>1, <2>3
  <2>7. QED
    BY <2>0, <2>4, <2>5, <2>6
<1>3. QED
  BY <1>1, <1>2

\* An element appended joins the set.
LEMMA AppendElements ==
  ASSUME NEW S, NEW s \in Seq(S), NEW e \in S
  PROVE  SequenceOps!ToSet(Append(s, e)) = SequenceOps!ToSet(s) \cup {e}
<1> USE DEF SequenceOps!ToSet
<1>1. /\ Len(s) \in Nat /\ DOMAIN s = 1..Len(s)
      /\ DOMAIN Append(s, e) = 1..(Len(s) + 1)
      /\ \A i \in 1..Len(s) : Append(s, e)[i] = s[i]
      /\ Append(s, e)[Len(s) + 1] = e
  BY AppendProperties, LenProperties
<1>2. 1..(Len(s) + 1) = 1..Len(s) \cup {Len(s) + 1}
  BY <1>1
<1>3. QED
  BY <1>1, <1>2

\* Two sequences joined have the elements of both.
LEMMA ConcatElements ==
  ASSUME NEW S, NEW s \in Seq(S), NEW t \in Seq(S)
  PROVE  SequenceOps!ToSet(s \o t) = SequenceOps!ToSet(s) \cup SequenceOps!ToSet(t)
<1> USE DEF SequenceOps!ToSet
<1>1. /\ Len(s) \in Nat /\ Len(t) \in Nat /\ DOMAIN s = 1..Len(s) /\ DOMAIN t = 1..Len(t)
      /\ DOMAIN (s \o t) = 1..(Len(s) + Len(t))
      /\ \A i \in 1..(Len(s) + Len(t)) :
           (s \o t)[i] = IF i <= Len(s) THEN s[i] ELSE t[i - Len(s)]
  BY ConcatProperties, LenProperties
<1>2. \A i \in 1..(Len(s) + Len(t)) :
        IF i <= Len(s) THEN i \in 1..Len(s) ELSE i - Len(s) \in 1..Len(t)
  BY <1>1
<1>3. \A i \in 1..Len(s) : i \in 1..(Len(s) + Len(t)) /\ i <= Len(s)
  BY <1>1
<1>4. \A i \in 1..Len(t) : /\ i + Len(s) \in 1..(Len(s) + Len(t)) /\ ~(i + Len(s) <= Len(s))
                          /\ (i + Len(s)) - Len(s) = i
  BY <1>1
<1>5. SequenceOps!ToSet(s \o t) \subseteq SequenceOps!ToSet(s) \cup SequenceOps!ToSet(t)
  BY <1>1, <1>2
<1>6. SequenceOps!ToSet(s) \subseteq SequenceOps!ToSet(s \o t)
  BY <1>1, <1>3
<1>7. SequenceOps!ToSet(t) \subseteq SequenceOps!ToSet(s \o t)
  BY <1>1, <1>4
<1>8. QED
  BY <1>5, <1>6, <1>7
-------------------------------------------------------------------------------

\* What an answer of the calendar brings to the walk is commitments.
LEMMA MoreIsWalked ==
  ASSUME NEW value \in Value
  PROVE  value.more \in Seq(Commitment)
<1>1. value.more = <<>> \/ \E c \in Commitment : value.more = <<c>>
  BY DEF Value
<1>2. CASE value.more = <<>>
  BY <1>2
<1>3. CASE \E c \in Commitment : value.more = <<c>>
  <2>1. PICK c \in Commitment : value.more = <<c>>
    BY <1>3
  <2>2. <<c>> \in Seq(Commitment)
    OBVIOUS
  <2>3. QED
    BY <2>1, <2>2
<1>4. QED
  BY <1>1, <1>2, <1>3

LEMMA InitBooks == Init => Books
<1> SUFFICES ASSUME Init PROVE Books
  OBVIOUS
<1> USE UpgradeWalkAssumption DEF Init
<1>1. ahead \in Seq(Commitment)
  <2>1. CASE proof = "pending"
    <3>1. PICK n \in 1..MaxStamps : ahead \in [1..n -> Commitment]
      BY <2>1
    <3>2. QED
      BY <3>1
  <2>2. CASE proof # "pending"
    BY <2>2
  <2>3. QED
    BY <2>1, <2>2
<1>2. TypeOK
  <2>1. tally \in Tally
    BY DEF Tally
  <2>2. outcome \in Outcome
    BY DEF Outcome
  <2>3. lookups \in Seq(Commitment)
    OBVIOUS
  <2>4. clock \in 0..MaxSeconds /\ heard \in 0..MaxQueries /\ remaining \in Nat
    OBVIOUS
  <2>5. anchored \in BOOLEAN
    OBVIOUS
  <2>6. pending \subseteq Commitment
    BY <1>1, HeadTailElements
  <2>7. QED
    BY <1>1, <2>1, <2>2, <2>3, <2>4, <2>5, <2>6 DEF TypeOK
<1>3. Counted
  BY DEF Counted
<1>4. Unanchored
  <2>1. CASE proof = "bitcoin_attestation_present"
    BY <2>1 DEF Unanchored
  <2>2. CASE proof = "mismatch"
    BY <2>2 DEF Unanchored
  <2>3. CASE proof \notin {"bitcoin_attestation_present", "mismatch"}
    BY <2>3 DEF Unanchored
  <2>4. QED
    BY <2>1, <2>2, <2>3
<1>5. QED
  BY <1>2, <1>3, <1>4 DEF Books, Joined, Accounted, UnavailableMeansSilence,
    AnswerMatchesProof

\* What the updates of the tally do to what the properties look at.
LEMMA TallyUpdates ==
  ASSUME NEW t \in Tally
  PROVE  /\ LET u == [t EXCEPT !.queries = @ + 1] IN
              /\ t.queries < MaxQueries => u \in Tally
              /\ u.queries = t.queries + 1 /\ u.failed = t.failed
         /\ LET u == [t EXCEPT !.failed = @ + 1, !.budget_exhausted = TRUE] IN
              u \in Tally /\ u.queries = t.queries /\ u.failed = t.failed + 1
         /\ LET u == [t EXCEPT !.not_found = @ + 1] IN
              u \in Tally /\ u.queries = t.queries /\ u.failed = t.failed
         /\ LET u == [t EXCEPT !.failed = @ + 1] IN
              u \in Tally /\ u.queries = t.queries /\ u.failed = t.failed + 1
         /\ LET u == [t EXCEPT !.found = @ + 1] IN
              u \in Tally /\ u.queries = t.queries /\ u.failed = t.failed
         /\ LET u == [t EXCEPT !.budget_exhausted = TRUE] IN
              u \in Tally /\ u.queries = t.queries /\ u.failed = t.failed
<1> USE UpgradeWalkAssumption DEF Tally
<1>1. LET u == [t EXCEPT !.queries = @ + 1] IN
        /\ t.queries < MaxQueries => u \in Tally
        /\ u.queries = t.queries + 1 /\ u.failed = t.failed
  OBVIOUS
<1>2. LET u == [t EXCEPT !.failed = @ + 1, !.budget_exhausted = TRUE] IN
        u \in Tally /\ u.queries = t.queries /\ u.failed = t.failed + 1
  <2> DEFINE n == t.failed + 1
             u == [t EXCEPT !.failed = n, !.budget_exhausted = TRUE]
  <2>1. n \in Nat
    OBVIOUS
  <2> HIDE DEF n
  <2>2. u \in Tally /\ u.queries = t.queries /\ u.failed = n
    BY <2>1
  <2>3. QED
    BY <2>2 DEF n
<1>3. LET u == [t EXCEPT !.not_found = @ + 1] IN
        u \in Tally /\ u.queries = t.queries /\ u.failed = t.failed
  OBVIOUS
<1>4. LET u == [t EXCEPT !.failed = @ + 1] IN
        u \in Tally /\ u.queries = t.queries /\ u.failed = t.failed + 1
  OBVIOUS
<1>5. LET u == [t EXCEPT !.found = @ + 1] IN
        u \in Tally /\ u.queries = t.queries /\ u.failed = t.failed
  OBVIOUS
<1>6. LET u == [t EXCEPT !.budget_exhausted = TRUE] IN
        u \in Tally /\ u.queries = t.queries /\ u.failed = t.failed
  OBVIOUS
<1>7. QED
  BY <1>1, <1>2, <1>3, <1>4, <1>5, <1>6, Zenon

\* What the steps that leave the lookups alone have in common.
LEMMA CountedStays ==
  ASSUME Counted, UNCHANGED lookups, seen \subseteq seen', tally'.queries = tally.queries
  PROVE  Counted'
  BY DEF Counted

\* The verdict of a walk whose lookups have all failed or been answered.
LEMMA VerdictSound ==
  ASSUME NEW t, t.queries \in Nat, t.failed \in Nat, NEW n \in Nat, t.failed + n = t.queries,
         NEW btc \in BOOLEAN
  PROVE  /\ Verdict(t, btc) \in Status \cup {"calendar_unavailable"}
         /\ Verdict(t, btc) = "bitcoin_attestation_present" <=> btc
         /\ t.queries > 0 /\ (btc => n > 0) =>
              (Verdict(t, btc) = "calendar_unavailable" <=> n = 0)
  BY DEF Verdict, Status

LEMMA NextBooks == Books /\ [Next]_vars => Books'
<1> SUFFICES ASSUME Books, [Next]_vars
             PROVE  Books'
  OBVIOUS
<1> USE UpgradeWalkAssumption DEF Books
<1>0. /\ tally \in Tally /\ tally.queries \in 0..MaxQueries /\ tally.found \in Nat
      /\ tally.not_found \in Nat /\ tally.failed \in Nat
      /\ clock \in 0..MaxSeconds /\ heard \in 0..MaxQueries
  BY DEF TypeOK, Tally
<1>1. CASE UNCHANGED vars
  BY <1>1 DEF vars, TypeOK, Counted, Joined, Accounted, Unanchored,
    UnavailableMeansSilence, AnswerMatchesProof
<1>2. CASE Inspect
  <2>1. TypeOK'
    BY <1>2 DEF Inspect, Answer, TypeOK
  <2>2. Counted'
    BY <1>2, CountedStays DEF Inspect
  <2>3. lookups = <<>>
    BY <1>2 DEF Inspect, TypeOK, Counted, Accounted
  <2>4. QED
    BY <1>2, <2>1, <2>2, <2>3 DEF Inspect, Answer, Joined, Accounted, Unanchored,
      UnavailableMeansSilence, AnswerMatchesProof
<1>3. CASE Tick
  <2>1. TypeOK'
    BY <1>3 DEF Tick, TypeOK
  <2>2. Counted'
    BY <1>3, CountedStays DEF Tick
  <2>3. Joined'
    BY <1>3 DEF Tick, Joined, TypeOK
  <2>4. QED
    BY <1>3, <2>1, <2>2, <2>3 DEF Tick, Accounted, Unanchored, UnavailableMeansSilence,
      AnswerMatchesProof
<1>4. CASE Revisit
  <2>1. Tail(ahead) \in Seq(Commitment)
    BY <1>4 DEF Revisit, TypeOK
  <2>2. TypeOK'
    BY <1>4, <2>1 DEF Revisit, TypeOK
  <2>3. Counted'
    BY <1>4, CountedStays DEF Revisit
  <2>4. QED
    BY <1>4, <2>2, <2>3 DEF Revisit, Joined, Accounted, Unanchored,
      UnavailableMeansSilence, AnswerMatchesProof
<1>5. CASE Ask
  <2> DEFINE c == Head(ahead)
  <2>1. c \in Commitment /\ c \notin seen /\ ahead # <<>>
    BY <1>5 DEF Ask, TypeOK
  <2>2. tally.queries < MaxQueries /\ clock < MaxSeconds
    BY <1>0, <1>5 DEF Ask, Spent
  <2>3. /\ tally' \in Tally
        /\ tally'.queries = tally.queries + 1 /\ tally'.failed = tally.failed
    BY <1>0, <1>5, <2>2, TallyUpdates DEF Ask
  <2>4. lookups' = Append(lookups, c) /\ lookups \in Seq(Commitment)
    BY <1>5 DEF Ask, TypeOK
  <2>5. TypeOK'
    <3>1. tally' \in Tally
      BY <2>3
    <3>2. lookups' \in Seq(Commitment)
      BY <2>1, <2>4
    <3>3. remaining' = MaxSeconds - clock /\ remaining' \in Nat
      BY <1>0, <1>5, <2>2 DEF Ask
    <3>4. QED
      BY <1>5, <2>1, <3>1, <3>2, <3>3 DEF Ask, TypeOK, Outcome
  <2>6. Counted'
    <3>1. Len(lookups') = Len(lookups) + 1
      BY <2>4
    <3>2. \A i \in 1..Len(lookups') : lookups'[i] = IF i = Len(lookups') THEN c ELSE lookups[i]
      BY <2>4, <3>1
    <3>3. Len(lookups') = tally'.queries
      BY <2>3, <3>1 DEF Counted
    <3>4. seen' = seen \cup {c}
      BY <1>5 DEF Ask
    <3>5. \A i \in 1..Len(lookups') : i # Len(lookups') => i \in 1..Len(lookups)
      BY <2>4, <3>1
    <3>6. \A i \in 1..Len(lookups') : lookups'[i] \in seen'
      BY <3>2, <3>4, <3>5 DEF Counted
    <3>7. \A i, j \in 1..Len(lookups') : i # j => lookups'[i] # lookups'[j]
      BY <2>1, <3>2, <3>5 DEF Counted
    <3>8. QED
      BY <3>3, <3>6, <3>7 DEF Counted
  <2>7. Joined'
    BY <1>0, <1>5, <2>1 DEF Ask, Joined, TypeOK
  <2>8. Accounted'
    BY <1>5, <2>3 DEF Ask, Accounted, TypeOK
  <2>9. QED
    BY <1>5, <2>5, <2>6, <2>7, <2>8 DEF Ask, Unanchored, UnavailableMeansSilence,
      AnswerMatchesProof
<1>6. CASE Deliver
  <2>1. TypeOK'
    BY <1>6 DEF Deliver, TypeOK
  <2>2. Counted'
    BY <1>6, CountedStays DEF Deliver
  <2>3. QED
    BY <1>6, <2>1, <2>2 DEF Deliver, Joined, Accounted, Unanchored,
      UnavailableMeansSilence, AnswerMatchesProof
<1>7. CASE WorkerEnds
  <2>1. TypeOK'
    BY <1>7 DEF WorkerEnds, TypeOK
  <2>2. Counted'
    BY <1>7, CountedStays DEF WorkerEnds
  <2>3. QED
    BY <1>7, <2>1, <2>2 DEF WorkerEnds, Joined, Accounted, Unanchored,
      UnavailableMeansSilence, AnswerMatchesProof
<1>8. CASE Abandon
  <2>1. /\ tally'.queries = tally.queries /\ tally'.failed = tally.failed + 1
        /\ tally'.failed + heard = tally'.queries
        /\ tally' \in Tally
    <3>1. tally' = [tally EXCEPT !.failed = @ + 1, !.budget_exhausted = TRUE]
      BY <1>8 DEF Abandon
    <3>2. tally.failed + heard + 1 = tally.queries
      BY <1>8 DEF Abandon, Accounted
    <3>3. /\ tally'.queries = tally.queries /\ tally'.failed = tally.failed + 1
          /\ tally' \in Tally
      BY <1>0, <3>1, TallyUpdates
    <3>4. QED
      BY <1>0, <3>2, <3>3
  <2>2. /\ answer' \in Status \cup {"calendar_unavailable"}
        /\ answer' # "bitcoin_attestation_present"
        /\ tally'.queries > 0 => (answer' = "calendar_unavailable" <=> heard = 0)
    <3>1. answer' = Verdict(tally', FALSE) /\ heard \in Nat
      BY <1>8 DEF Abandon, Answer, TypeOK
    <3>2. tally'.queries \in Nat /\ tally'.failed \in Nat
      BY <2>1 DEF Tally
    <3>3. QED
      BY <2>1, <3>1, <3>2, VerdictSound
  <2>3. TypeOK'
    BY <1>8, <2>1, <2>2 DEF Abandon, Answer, TypeOK
  <2>4. Counted'
    BY <1>8, <2>1, CountedStays DEF Abandon
  <2>5. tally'.queries > 0
    BY <1>0, <2>1
  <2>6. QED
    BY <1>8, <2>2, <2>3, <2>4, <2>5 DEF Abandon, Answer, Joined, Accounted, Unanchored,
      UnavailableMeansSilence, AnswerMatchesProof
<1>9. CASE Miss
  <2>1. Tail(ahead) \in Seq(Commitment)
    BY <1>9 DEF Miss, TypeOK, Joined
  <2>2. /\ tally'.queries = tally.queries
        /\ tally'.failed + heard' = tally'.queries
        /\ heard' \in 0..MaxQueries
        /\ tally' \in Tally
    <3>1. tally.failed + heard + 1 = tally.queries
      BY <1>9 DEF Miss, Accounted
    <3>2. CASE /\ tally' = [tally EXCEPT !.not_found = @ + 1]
               /\ heard' = heard + 1
      <4>1. tally' \in Tally /\ tally'.queries = tally.queries /\ tally'.failed = tally.failed
        BY <1>0, <3>2, TallyUpdates
      <4>2. QED
        BY <1>0, <3>1, <3>2, <4>1
    <3>3. CASE /\ tally' = [tally EXCEPT !.failed = @ + 1]
               /\ UNCHANGED heard
      <4>1. /\ tally' \in Tally /\ tally'.queries = tally.queries
            /\ tally'.failed = tally.failed + 1
        BY <1>0, <3>3, TallyUpdates
      <4>2. QED
        BY <1>0, <3>1, <3>3, <4>1
    <3>4. CASE UNCHANGED tally /\ heard' = heard + 1
      BY <1>0, <3>1, <3>4
    <3>5. QED
      BY <1>9, <3>2, <3>3, <3>4 DEF Miss
  <2>3. TypeOK'
    BY <1>9, <2>1, <2>2 DEF Miss, TypeOK
  <2>4. Counted'
    BY <1>9, <2>2, CountedStays DEF Miss
  <2>5. QED
    BY <1>9, <2>2, <2>3, <2>4 DEF Miss, Joined, Accounted, Unanchored,
      UnavailableMeansSilence, AnswerMatchesProof
<1>10. CASE Merge
  <2>1. /\ tally'.queries = tally.queries
        /\ tally'.failed + heard' = tally'.queries
        /\ heard' \in 0..MaxQueries /\ heard' > 0
        /\ tally' \in Tally
    <3>1. tally' = [tally EXCEPT !.found = @ + 1] /\ heard' = heard + 1
      BY <1>10 DEF Merge
    <3>2. tally.failed + heard + 1 = tally.queries
      BY <1>10 DEF Merge, Accounted
    <3>3. tally' \in Tally /\ tally'.queries = tally.queries /\ tally'.failed = tally.failed
      BY <1>0, <3>1, TallyUpdates
    <3>4. QED
      BY <1>0, <3>1, <3>2, <3>3
  <2>2. outcome \in Value
    BY <1>10 DEF Merge, TypeOK, Outcome, Nothing
  <2>3. outcome.more \in Seq(Commitment) /\ outcome.bitcoin \in BOOLEAN
    <3>2. outcome.more \in Seq(Commitment)
      BY <2>2, MoreIsWalked
    <3>3. outcome.bitcoin \in BOOLEAN
      BY <2>2 DEF Value
    <3>4. QED
      BY <3>2, <3>3
  <2>4. ahead' \in Seq(Commitment) /\ pending' \subseteq Commitment
    <3>1. ahead' \in Seq(Commitment)
      BY <1>10, <2>3 DEF Merge, TypeOK, Joined
    <3>2. SequenceOps!ToSet(outcome.more) \subseteq Commitment
      BY <2>3, HeadTailElements
    <3>3. QED
      BY <1>10, <3>1, <3>2 DEF Merge, TypeOK
  <2>a. proof' = "pending" /\ waited' <= clock'
    BY <1>10 DEF Merge, Unanchored, Joined
  <2>5. CASE outcome.bitcoin
    <3>1. pc' = "done" /\ answer' = Verdict(tally', TRUE) /\ anchored'
      BY <1>10, <2>5 DEF Merge, Answer
    <3>2. answer' = "bitcoin_attestation_present"
      BY <3>1 DEF Verdict
    <3>3. TypeOK'
      BY <1>10, <2>1, <2>3, <2>4, <3>1, <3>2 DEF Merge, TypeOK, Status
    <3>4. Counted'
      BY <1>10, <2>1, CountedStays DEF Merge
    <3>5. heard' # 0
      BY <2>1
    <3>6. QED
      BY <2>a, <3>1, <3>2, <3>3, <3>4, <3>5 DEF Joined, Accounted, Unanchored,
        UnavailableMeansSilence, AnswerMatchesProof
  <2>6. CASE ~outcome.bitcoin
    <3>1. pc' = "walk" /\ answer' = answer /\ ~anchored'
      BY <1>10, <2>6 DEF Merge
    <3>2. TypeOK'
      BY <1>10, <2>1, <2>3, <2>4, <3>1 DEF Merge, TypeOK
    <3>3. Counted'
      BY <1>10, <2>1, CountedStays DEF Merge
    <3>4. QED
      BY <2>1, <2>a, <3>1, <3>2, <3>3 DEF Joined, Accounted, Unanchored,
        UnavailableMeansSilence, AnswerMatchesProof
  <2>7. QED
    BY <2>3, <2>5, <2>6
<1>11. CASE Finish
  <2>1. /\ tally'.queries = tally.queries /\ tally'.failed = tally.failed
        /\ tally'.failed + heard = tally'.queries
        /\ tally' \in Tally
    <3>1. \/ UNCHANGED tally
          \/ tally' = [tally EXCEPT !.budget_exhausted = TRUE]
      BY <1>11 DEF Finish
    <3>2. tally.failed + heard = tally.queries
      BY <1>11 DEF Finish, Accounted
    <3>3. QED
      BY <1>0, <3>1, <3>2, TallyUpdates
  <2>2. /\ answer' \in Status \cup {"calendar_unavailable"}
        /\ answer' # "bitcoin_attestation_present"
        /\ tally'.queries > 0 => (answer' = "calendar_unavailable" <=> heard = 0)
    <3>1. answer' = Verdict(tally', FALSE) /\ heard \in Nat
      BY <1>11 DEF Finish, Answer, TypeOK
    <3>2. tally'.queries \in Nat /\ tally'.failed \in Nat
      BY <2>1 DEF Tally
    <3>3. QED
      BY <2>1, <3>1, <3>2, VerdictSound
  <2>a. seen \subseteq seen' /\ seen' \subseteq Commitment
    <3>1. CASE seen' = seen
      BY <3>1 DEF TypeOK
    <3>2. CASE ahead # <<>> /\ seen' = seen \cup {Head(ahead)}
      <4>1. Head(ahead) \in Commitment
        BY <3>2 DEF TypeOK
      <4>2. QED
        BY <3>2, <4>1 DEF TypeOK
    <3>3. QED
      BY <1>11, <3>1, <3>2 DEF Finish
  <2>3. TypeOK'
    BY <1>11, <2>1, <2>2, <2>a DEF Finish, Answer, TypeOK
  <2>4. Counted'
    BY <1>11, <2>1, <2>a, CountedStays DEF Finish
  <2>5. lookups # <<>> => tally'.queries > 0
    BY <2>1 DEF Counted, TypeOK
  <2>6. QED
    BY <1>11, <2>2, <2>3, <2>4, <2>5 DEF Finish, Answer, Joined, Accounted, Unanchored,
      UnavailableMeansSilence, AnswerMatchesProof
<1>12. CASE Join
  <2>1. TypeOK'
    BY <1>12 DEF Join, TypeOK
  <2>2. Counted'
    BY <1>12, CountedStays DEF Join
  <2>3. QED
    BY <1>12, <2>1, <2>2 DEF Join, Joined, Accounted, Unanchored, UnavailableMeansSilence,
      AnswerMatchesProof
<1>13. QED
  BY <1>1, <1>2, <1>3, <1>4, <1>5, <1>6, <1>7, <1>8, <1>9, <1>10, <1>11, <1>12
  DEF Next, Step

-------------------------------------------------------------------------------
\* A step that takes nothing from what is ahead, seen or looked up.
LEMMA WalkStays ==
  ASSUME Walked, NoneSkippedInSilence, UNCHANGED <<ahead, seen, lookups, pending>>,
         UNCHANGED <<pc, proof, anchored, tally>>
  PROVE  Walked' /\ NoneSkippedInSilence'
BY DEF Walked, NoneSkippedInSilence

LEMMA InitIInv == Init => IInv
<1> SUFFICES ASSUME Init PROVE IInv
  OBVIOUS
<1>1. Books
  BY InitBooks
<1>2. QED
  BY <1>1 DEF IInv, Init, Walked, NoneSkippedInSilence

LEMMA NextIInv == IInv /\ [Next]_vars => IInv'
<1> SUFFICES ASSUME IInv, [Next]_vars
             PROVE  Walked' /\ NoneSkippedInSilence'
  BY NextBooks DEF IInv
<1> DEFINE Elements(s) == SequenceOps!ToSet(s)
<1>0. /\ Walked /\ NoneSkippedInSilence
      /\ ahead \in Seq(Commitment) /\ lookups \in Seq(Commitment) /\ seen \subseteq Commitment
      /\ tally \in Tally
      /\ pc \in {"start", "join"} => ahead # <<>>
  BY DEF IInv, Books, TypeOK, Joined
<1>1. ahead # <<>> => Elements(ahead) = {Head(ahead)} \cup Elements(Tail(ahead))
  BY <1>0, HeadTailElements
<1> HIDE DEF Elements
<1>2. CASE UNCHANGED vars
  BY <1>0, <1>2, WalkStays DEF vars
<1>3. CASE Inspect
  <2>1. CASE proof # "pending" /\ pc' = "done"
    BY <1>3, <2>1 DEF Inspect, Walked, NoneSkippedInSilence
  <2>2. CASE proof = "pending" /\ pc' = "walk"
    BY <1>0, <1>3, <2>2 DEF Inspect, Walked, NoneSkippedInSilence
  <2>3. QED
    BY <1>3, <2>1, <2>2 DEF Inspect, Answer
<1>4. CASE Tick \/ Deliver \/ WorkerEnds
  BY <1>0, <1>4, WalkStays DEF Tick, Deliver, WorkerEnds
<1>5. CASE Revisit
  <2>1. /\ pc = "walk" /\ pc' = "walk" /\ ahead # <<>> /\ Head(ahead) \in seen
        /\ ahead' = Tail(ahead) /\ UNCHANGED <<seen, lookups, pending>>
    BY <1>5 DEF Revisit
  <2>2. pending \subseteq seen \cup Elements(ahead) /\ seen \subseteq Elements(lookups)
    BY <1>0, <2>1 DEF Walked, Elements
  <2>3. pending' \subseteq seen' \cup Elements(ahead') /\ seen' \subseteq Elements(lookups')
    BY <1>1, <2>1, <2>2
  <2>4. QED
    BY <2>1, <2>3 DEF Walked, NoneSkippedInSilence, Elements
<1>6. CASE Ask
  <2>1. /\ pc = "walk" /\ pc' = "start" /\ ahead # <<>>
        /\ seen' = seen \cup {Head(ahead)} /\ lookups' = Append(lookups, Head(ahead))
        /\ UNCHANGED <<ahead, pending>>
    BY <1>6 DEF Ask
  <2>2. pending \subseteq seen \cup Elements(ahead) /\ seen \subseteq Elements(lookups)
    BY <1>0, <2>1 DEF Walked, Elements
  <2>3. Elements(lookups') = Elements(lookups) \cup {Head(ahead)}
    <3>1. Head(ahead) \in Commitment
      BY <1>0, <2>1
    <3>2. QED
      BY <1>0, <2>1, <3>1, AppendElements DEF Elements
  <2>4. pending' \subseteq seen' \cup Elements(ahead') /\ seen' \subseteq Elements(lookups')
    BY <2>1, <2>2, <2>3
  <2>5. Head(ahead') \in seen'
    BY <2>1
  <2>6. QED
    BY <2>1, <2>4, <2>5 DEF Walked, NoneSkippedInSilence, Elements
<1>7. CASE Abandon
  <2>1. pc' = "done" /\ tally'.budget_exhausted
    BY <1>0, <1>7 DEF Abandon, Answer, Tally
  <2>2. QED
    BY <2>1 DEF Walked, NoneSkippedInSilence
<1>8. CASE Miss
  <2>1. /\ pc = "join" /\ pc' = "walk" /\ ahead' = Tail(ahead)
        /\ UNCHANGED <<seen, lookups, pending>>
    BY <1>8 DEF Miss
  <2>2. /\ pending \subseteq seen \cup Elements(ahead) /\ seen \subseteq Elements(lookups)
        /\ Head(ahead) \in seen
    BY <1>0, <2>1 DEF Walked, Elements
  <2>3. pending' \subseteq seen' \cup Elements(ahead') /\ seen' \subseteq Elements(lookups')
    BY <1>0, <1>1, <2>1, <2>2
  <2>4. QED
    BY <2>1, <2>3 DEF Walked, NoneSkippedInSilence, Elements
<1>9. CASE Merge
  <2>1. /\ pc = "join" /\ ahead' = outcome.more \o Tail(ahead)
        /\ pending' = pending \cup Elements(outcome.more)
        /\ UNCHANGED <<seen, lookups>>
        /\ (pc' = "done" /\ anchored') \/ pc' = "walk"
    BY <1>9 DEF Merge, Answer, Elements
  <2>2. /\ pending \subseteq seen \cup Elements(ahead) /\ seen \subseteq Elements(lookups)
        /\ Head(ahead) \in seen
    BY <1>0, <2>1 DEF Walked, Elements
  <2>3. Elements(ahead') = Elements(outcome.more) \cup Elements(Tail(ahead))
    <3>1. outcome \in Value
      BY <1>9 DEF Merge, IInv, Books, TypeOK, Outcome, Nothing
    <3>2. outcome.more \in Seq(Commitment) /\ Tail(ahead) \in Seq(Commitment)
      BY <1>0, <2>1, <3>1, MoreIsWalked
    <3>3. QED
      BY <2>1, <3>2, ConcatElements DEF Elements
  <2>4. pending' \subseteq seen' \cup Elements(ahead') /\ seen' \subseteq Elements(lookups')
    BY <1>0, <1>1, <2>1, <2>2, <2>3
  <2>5. CASE pc' = "done" /\ anchored'
    BY <2>5 DEF Walked, NoneSkippedInSilence
  <2>6. CASE pc' = "walk"
    BY <2>4, <2>6 DEF Walked, NoneSkippedInSilence, Elements
  <2>7. QED
    BY <2>1, <2>5, <2>6
<1>10. CASE Finish
  <2>1. pc = "walk" /\ pc' = "done" /\ UNCHANGED <<lookups, pending>>
    BY <1>10 DEF Finish, Answer
  <2>2. CASE ahead = <<>> /\ UNCHANGED <<seen, tally>>
    <3>1. pending \subseteq seen \cup Elements(ahead) /\ seen \subseteq Elements(lookups)
      BY <1>0, <2>1 DEF Walked, Elements
    <3>2. Elements(ahead) = {}
      BY <2>2 DEF Elements, SequenceOps!ToSet
    <3>3. pending' \subseteq Elements(lookups')
      BY <2>1, <3>1, <3>2
    <3>4. QED
      BY <2>1, <3>3 DEF Walked, NoneSkippedInSilence, Elements
  <2>3. CASE tally' = [tally EXCEPT !.budget_exhausted = TRUE]
    <3>1. tally'.budget_exhausted
      BY <1>0, <2>3 DEF Tally
    <3>2. QED
      BY <2>1, <3>1 DEF Walked, NoneSkippedInSilence
  <2>4. QED
    BY <1>10, <2>2, <2>3 DEF Finish
<1>11. CASE Join
  BY <1>0, <1>11 DEF Join, Walked, NoneSkippedInSilence
<1>12. QED
  BY <1>2, <1>3, <1>4, <1>5, <1>6, <1>7, <1>8, <1>9, <1>10, <1>11 DEF Next, Step

\* IInv holds of every state that can be reached.
THEOREM Inductive == Spec => []IInv
<1>1. QED
  BY InitIInv, NextIInv, PTL DEF Spec

\* Every variable of the walk keeps its type; the tally never exceeds the budget.
THEOREM TypeCorrect == Spec => []TypeOK
<1>1. IInv => TypeOK
  BY DEF IInv, Books
<1>2. QED
  BY <1>1, Inductive, PTL

\* No more lookups than the budget, and none twice, for proofs of any size and answers
\* that add commitments without end.
THEOREM LookupsBounded == Spec => []LookupsAreBounded
<1>1. IInv => LookupsAreBounded
  <2> SUFFICES ASSUME IInv PROVE LookupsAreBounded
    OBVIOUS
  <2>1. lookups \in Seq(Commitment) /\ tally.queries <= MaxQueries
    BY UpgradeWalkAssumption DEF IInv, Books, TypeOK, Tally
  <2>2. DOMAIN lookups = 1..Len(lookups)
    BY <2>1
  <2>3. QED
    BY <2>1, <2>2 DEF IInv, Books, LookupsAreBounded, Counted
<1>2. QED
  BY <1>1, Inductive, PTL

\* The waits of a request for the calendar are within the budget together, whatever time
\* passes between them.
THEOREM WaitsBounded == Spec => []NeverWaitsPastBudget
<1>1. IInv => NeverWaitsPastBudget
  BY UpgradeWalkAssumption DEF IInv, Books, NeverWaitsPastBudget, Joined, TypeOK
<1>2. QED
  BY <1>1, Inductive, PTL

\* The calendar is called unavailable exactly if no lookup was answered in time.
THEOREM SilenceIsUnavailable == Spec => []UnavailableMeansSilence
<1>1. IInv => UnavailableMeansSilence
  BY DEF IInv, Books
<1>2. QED
  BY <1>1, Inductive, PTL

\* The proof answered and the answer agree, whatever late workers bring and whatever a
\* proof of another digest carries.
THEOREM AnswersMatch == Spec => []AnswerMatchesProof
<1>1. IInv => AnswerMatchesProof
  BY DEF IInv, Books
<1>2. QED
  BY <1>1, Inductive, PTL

\* A walk that ends without an attestation, and does not call the budget exhausted, has
\* asked for every commitment of the proof and of the answers.
THEOREM NoneSkipped == Spec => []NoneSkippedInSilence
<1>1. IInv => NoneSkippedInSilence
  BY DEF IInv
<1>2. QED
  BY <1>1, Inductive, PTL
===============================================================================
