---------------------------- MODULE MonitorProofs -----------------------------
(* Theorems about Monitor and their proofs.                                *)
EXTENDS Monitor, TLAPS

\* A run that is about to write the state file has said what it will write: nothing
\* happens to fp, last or heard between the push and the write but a kill.
WriteIsHeard ==
  pc = "write" => /\ Bad(fp) => heard = fp
                  /\ ~Bad(fp) /\ Bad(last) => heard = Recovered

\* A trouble is on record, or about to be, only while its alarm is open.
TroubleIsOpen ==
  /\ Bad(last) => open
  /\ pc = "write" /\ Bad(fp) => open

\* The inductive invariant.
IInv == TypeOK /\ WriteIsHeard /\ TroubleIsOpen

LEMMA InitIInv == Init => IInv
<1> SUFFICES ASSUME Init PROVE IInv
  OBVIOUS
<1>1. fp \in Fingerprint
  BY MonitorAssumption DEF Init, Fingerprint
<1>2. QED
  BY <1>1 DEF Init, IInv, TypeOK, WriteIsHeard, TroubleIsOpen, Bad

\* What is pushed is the fingerprint of a trouble or the recovery.
LEMMA MessageType ==
  ASSUME IInv
  PROVE  /\ Message \in Fingerprint \cup {None, Recovered}
         /\ Message # None /\ Bad(fp) => Message = fp
         /\ Message # None /\ ~Bad(fp) => Message = Recovered
         /\ Message = None /\ fp # last => ~Bad(fp) /\ ~Bad(last)
  <1>1. fp # None
    BY MonitorAssumption DEF IInv, TypeOK, Fingerprint
  <1>2. Recovered # None
    BY MonitorAssumption
  <1>3. CASE fp = last
    BY <1>1, <1>3 DEF IInv, TypeOK, Message, Bad
  <1>4. CASE fp # last /\ Bad(fp)
    BY <1>1, <1>4 DEF IInv, TypeOK, Message, Bad
  <1>5. CASE fp # last /\ ~Bad(fp) /\ Bad(last)
    BY <1>1, <1>2, <1>5 DEF IInv, TypeOK, Message, Bad
  <1>6. CASE fp # last /\ ~Bad(fp) /\ ~Bad(last)
    BY <1>1, <1>6 DEF IInv, TypeOK, Message, Bad
  <1>7. QED
    BY <1>3, <1>4, <1>5, <1>6

LEMMA NextIInv == IInv /\ [Next]_vars => IInv'
<1> SUFFICES ASSUME IInv, [Next]_vars
             PROVE  IInv'
  OBVIOUS
<1> USE DEF IInv, TypeOK, WriteIsHeard, TroubleIsOpen
<1>1. CASE UNCHANGED vars
  BY <1>1 DEF vars, told, Bad, Fine
<1>2. CASE Change
  BY <1>2 DEF Change, told, Bad, Fine
<1>3. CASE StallAges
  BY <1>3 DEF StallAges, told, Bad, Fine
<1>4. CASE Cool
  BY <1>4 DEF Cool, told, Bad, Fine
<1>5. CASE Poll
  BY <1>5 DEF Poll, told, Fingerprint, Bad, Fine
<1>6. CASE ProbeFails
  BY <1>6 DEF ProbeFails, told, Bad, Fine
<1>7. CASE Probe
  BY <1>7 DEF Probe, told, Fingerprint, Bad, Fine
<1>8. CASE Quiet
  <2>1. fp # last => ~Bad(fp) /\ ~Bad(last)
    BY <1>8, MessageType DEF Quiet
  <2>2. QED
    BY <1>8, <2>1 DEF Quiet, told, Bad, Fine
<1>9. CASE Push
  <2>1. Message # None /\ heard' = Message /\ UNCHANGED <<fp, last>>
    BY <1>9 DEF Push, Deliver
  <2>2. TypeOK'
    BY <1>9, MessageType DEF Push, Deliver
  <2>3. WriteIsHeard'
    BY <2>1, MessageType DEF Bad, Fine
  <2>4. TroubleIsOpen'
    <3>1. Bad(fp) => open'
      <4>1. fp # Recovered
        BY DEF Recovered, Fingerprint
      <4>2. QED
        BY <1>9, <4>1, MessageType DEF Push, Deliver
    <3>2. Bad(last) => open'
      BY <1>9 DEF Push, Deliver
    <3>3. QED
      BY <2>1, <3>1, <3>2 DEF Bad, Fine
  <2>5. QED
    BY <2>2, <2>3, <2>4
<1>10. CASE PushFails
  <2>1. pc' = "idle" /\ Message # None /\ (Deliver \/ UNCHANGED told) /\ last' = last
    BY <1>10 DEF PushFails
  <2>2. TypeOK'
    BY <1>10, MessageType DEF PushFails, Deliver, told
  <2>3. TroubleIsOpen'
    <3>1. CASE Deliver
      BY <2>1, <3>1 DEF Deliver, Bad, Fine
    <3>2. CASE UNCHANGED told
      BY <2>1, <3>2 DEF told, Bad, Fine
    <3>3. QED
      BY <2>1, <3>1, <3>2
  <2>4. WriteIsHeard'
    BY <2>1
  <2>5. QED
    BY <2>2, <2>3, <2>4
<1>11. CASE WriteState
  BY <1>11 DEF WriteState, Bad, Fine
<1>12. CASE WriteStateEmpties
  BY <1>12 DEF WriteStateEmpties, Bad, Fine
<1>13. CASE Kill
  BY <1>13 DEF Kill, told, Bad, Fine
<1>14. QED
  BY <1>1, <1>2, <1>3, <1>4, <1>5, <1>6, <1>7, <1>8, <1>9, <1>10, <1>11, <1>12, <1>13
  DEF Next

\* IInv holds of every state that can be reached.
THEOREM Inductive == Spec => []IInv
<1>1. QED
  BY InitIInv, NextIInv, PTL DEF Spec

\* Every variable of the monitor keeps its type.
THEOREM TypeCorrect == Spec => []TypeOK
<1>1. IInv => TypeOK
  BY DEF IInv
<1>2. QED
  BY <1>1, Inductive, PTL

\* The debounce never swallows an undelivered alarm, whatever /health answers, wherever
\* runs are killed and whenever the disk is full.
THEOREM RecordsAreHeard == Spec => RecordedIsHeard
<1>1. IInv /\ [Next]_vars =>
        [ last' \notin {last, None} =>
            /\ Bad(last') => heard = last'
            /\ ~Bad(last') /\ Bad(last) => heard = Recovered ]_vars
  <2> SUFFICES ASSUME IInv, Next, last' \notin {last, None}
               PROVE  /\ Bad(last') => heard = last'
                      /\ ~Bad(last') /\ Bad(last) => heard = Recovered
    OBVIOUS
  <2>1. WriteState
    BY DEF Next, Change, StallAges, Cool, Poll, ProbeFails, Probe, Quiet, Push, PushFails,
           WriteStateEmpties, Kill
  <2>2. pc = "write" /\ last' = fp
    BY <2>1 DEF WriteState
  <2>3. QED
    BY <2>2 DEF IInv, WriteIsHeard, Bad, Fine
<1>2. QED
  BY <1>1, Inductive, PTL DEF Spec, RecordedIsHeard

\* The end of a trouble is announced only to somebody who was told of one since the last
\* end that was announced and written down.
THEOREM RecoveriesFollowAlarms == Spec => []RecoveryFollowsAlarm
<1>1. IInv => RecoveryFollowsAlarm
  <2> SUFFICES ASSUME IInv, Message = Recovered
               PROVE  open
    BY DEF RecoveryFollowsAlarm
  <2>1. Recovered # None /\ Recovered # fp
    BY MonitorAssumption DEF IInv, TypeOK, Recovered, Fingerprint
  <2>2. Bad(last)
    BY <2>1 DEF Message
  <2>3. QED
    BY <2>2 DEF IInv, TroubleIsOpen
<1>2. QED
  BY <1>1, Inductive, PTL
===============================================================================
