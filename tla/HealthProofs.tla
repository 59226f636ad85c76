----------------------------- MODULE HealthProofs -----------------------------
(* Theorems about Health and their proofs.                                 *)
EXTENDS Health, TLAPS

\* What the script writes: a status that agrees with the balance beside it.
Agrees(file) ==
  /\ file.status \in {"ok", "low"} => file.balance_sats # None
  /\ file.status = "ok" => file.balance_sats >= MinSats
  /\ file.status \notin {"ok", "low"} => file.balance_sats = None

\* The file is the last balance read, or says that there was none to read, or nothing.
FileAgrees ==
  /\ Agrees(wallet)
  /\ wallet.balance_sats # None => lastRead = wallet.balance_sats
  /\ wallet.balance_sats = None /\ lastRead # None => wallet.status \in {"unknown", "malformed"}

\* So will what is about to be written.
CheckAgrees ==
  check # None => Agrees(check) /\ check.status \in {"ok", "low", "unknown"}

\* The inductive invariant.
IInv == TypeOK /\ FileAgrees /\ CheckAgrees

LEMMA InitIInv == Init => IInv
<1> SUFFICES ASSUME Init PROVE IInv
  OBVIOUS
<1>1. TypeOK
  BY DEF Init, TypeOK, WalletFile
<1>2. QED
  BY <1>1 DEF Init, IInv, FileAgrees, CheckAgrees, Agrees

\* Whatever the script makes of a reading agrees with itself.
LEMMA StatusAgrees ==
  ASSUME NEW sats \in Balance \cup {None}
  PROVE  /\ StatusOf(sats) \in WalletFile
         /\ Agrees(StatusOf(sats))
         /\ StatusOf(sats).status \in {"ok", "low", "unknown"}
<1> USE HealthAssumption DEF StatusOf
<1>1. CASE sats = None
  <2>1. StatusOf(sats) = [status |-> "unknown", balance_sats |-> None, stale |-> FALSE]
    BY <1>1
  <2>2. QED
    BY <2>1 DEF WalletFile, Agrees
<1>2. CASE sats # None
  <2>1. sats \in Balance /\ sats \in Nat
    BY <1>2
  <2>2. CASE sats < MinSats
    BY <1>2, <2>1, <2>2 DEF WalletFile, Agrees
  <2>3. CASE ~(sats < MinSats)
    <3>1. sats >= MinSats
      BY <2>1, <2>3
    <3>2. QED
      BY <1>2, <2>1, <2>3, <3>1 DEF WalletFile, Agrees
  <2>4. QED
    BY <2>2, <2>3
<1>3. QED
  BY <1>1, <1>2

\* A verdict is one of the four words.
LEMMA VerdictType ==
  ASSUME NEW fields, NEW otsd, NEW wstatus, NEW proofs, NEW backup
  PROVE  Verdict(fields, otsd, wstatus, proofs, backup) \in Overall
  BY DEF Verdict, Overall

LEMMA NextIInv == IInv /\ [Next]_vars => IInv'
<1> SUFFICES ASSUME IInv, [Next]_vars
             PROVE  IInv'
  OBVIOUS
<1> USE DEF IInv, TypeOK
<1>1. CASE UNCHANGED vars
  BY <1>1 DEF vars, FileAgrees, CheckAgrees
<1>2. CASE Spend
  BY <1>2 DEF Spend, FileAgrees, CheckAgrees
<1>3. CASE Pause
  BY <1>3 DEF Pause, FileAgrees, CheckAgrees
<1>4. CASE Age
  <2>1. wallet' \in WalletFile /\ wallet'.status = wallet.status
          /\ wallet'.balance_sats = wallet.balance_sats
    BY <1>4 DEF Age, WalletFile
  <2>2. QED
    BY <1>4, <2>1 DEF Age, FileAgrees, CheckAgrees, Agrees
<1>5. CASE ReadBalance
  <2>1. check' = StatusOf(balance) /\ balance \in Balance \cup {None}
    BY <1>5 DEF ReadBalance
  <2>2. check' \in WalletFile /\ CheckAgrees'
    BY <2>1, StatusAgrees DEF CheckAgrees
  <2>3. QED
    BY <1>5, <2>2 DEF ReadBalance, FileAgrees
<1>6. CASE ReadFails
  <2>1. check' = StatusOf(None) /\ None \in Balance \cup {None}
    BY <1>6 DEF ReadFails
  <2>2. check' \in WalletFile /\ CheckAgrees'
    BY <2>1, StatusAgrees DEF CheckAgrees
  <2>3. QED
    BY <1>6, <2>2 DEF ReadFails, FileAgrees
<1>7. CASE WriteStatus
  <2>1. check \in WalletFile /\ Agrees(check) /\ check.status \in {"ok", "low", "unknown"}
    BY <1>7 DEF WriteStatus, CheckAgrees
  <2>2. wallet' = check /\ check' = None
    BY <1>7 DEF WriteStatus
  <2>3. CASE check.balance_sats = None
    <3>1. lastRead' = lastRead /\ check.status = "unknown"
      BY <1>7, <2>1, <2>3 DEF WriteStatus, Agrees
    <3>2. QED
      BY <1>7, <2>1, <2>2, <2>3, <3>1 DEF WriteStatus, FileAgrees, CheckAgrees
  <2>4. CASE check.balance_sats # None
    <3>1. lastRead' = check.balance_sats /\ lastRead' \in Balance \cup {None}
      BY <1>7, <2>1, <2>4 DEF WriteStatus, WalletFile
    <3>2. QED
      BY <1>7, <2>1, <2>2, <2>4, <3>1 DEF WriteStatus, FileAgrees, CheckAgrees
  <2>5. QED
    BY <2>3, <2>4
<1>8. CASE WriteFails
  <2>1. check' = None /\ lastRead' = lastRead
    BY <1>8 DEF WriteFails
  <2>2. CASE wallet' = wallet
    BY <1>8, <2>1, <2>2 DEF WriteFails, FileAgrees, CheckAgrees
  <2>3. CASE wallet' = Emptied
    BY <1>8, <2>1, <2>3 DEF WriteFails, Emptied, WalletFile, FileAgrees, CheckAgrees, Agrees
  <2>4. QED
    BY <1>8, <2>2, <2>3 DEF WriteFails
<1>9. CASE HealthBegins
  <2>1. early' \in [paused : BOOLEAN, float : {"inactive", "stop", "alarm", "ok"},
                    payment : {"ok", "degraded", "unknown"}]
    BY <1>9 DEF HealthBegins, FloatState
  <2>2. QED
    BY <1>9, <2>1 DEF HealthBegins, FileAgrees, CheckAgrees
<1>10. CASE HealthAnswers
  <2>1. answer' \in Overall
    BY <1>10, VerdictType DEF HealthAnswers
  <2>2. QED
    BY <1>10, <2>1 DEF HealthAnswers, FileAgrees, CheckAgrees
<1>11. QED
  BY <1>1, <1>2, <1>3, <1>4, <1>5, <1>6, <1>7, <1>8, <1>9, <1>10 DEF Next

\* IInv holds of every state that can be reached.
THEOREM Inductive == Spec => []IInv
  BY InitIInv, NextIInv, PTL DEF Spec

\* The variables keep their types.
THEOREM TypeCorrect == Spec => []TypeOK
<1>1. IInv => TypeOK
  BY DEF IInv
<1>2. QED
  BY <1>1, Inductive, PTL

\* Whatever the balances, the cap and the minimum, and in whichever order checks fail,
\* are killed and are read: an open door below the cap is one that /health reports.
THEOREM LostReadingsAreLoud == Spec => []LostReadingIsLoud
<1>1. IInv => LostReadingIsLoud
  <2> SUFFICES ASSUME IInv, GateOpen, lastRead # None, lastRead < Cap
               PROVE  Unknown
    BY DEF LostReadingIsLoud
  <2> USE DEF IInv, TypeOK
  <2>1. wallet.balance_sats = None
    <3>1. SUFFICES ASSUME wallet.balance_sats # None
                   PROVE  FALSE
      OBVIOUS
    <3>2. wallet.balance_sats < Cap
      BY <3>1 DEF FileAgrees
    <3>3. FloatState = "stop"
      BY <3>1, <3>2 DEF FloatState, WalletBalance
    <3>4. QED
      BY <3>3 DEF GateOpen
  <2>2. wallet.status \in {"unknown", "malformed"}
    BY <2>1 DEF FileAgrees
  <2>3. QED
    BY <2>2 DEF Unknown, FileStatus
<1>2. QED
  BY <1>1, Inductive, PTL

\* A file that counts as "ok" or is not there does not stop the float.
LEMMA FineFileFloats ==
  ASSUME IInv, FileStatus(wallet) \in {"ok", "absent"}
  PROVE  FloatState # "stop"
<1> USE DEF IInv, TypeOK, WalletFile
<1>1. wallet.status \in {"ok", "absent"}
  BY DEF FileStatus
<1>2. CASE wallet.status = "absent"
  <2>1. WalletBalance = None
    BY <1>2 DEF FileAgrees, Agrees, WalletBalance
  <2>2. QED
    BY <2>1 DEF FloatState
<1>3. CASE wallet.status = "ok"
  <2>1. WalletBalance \in Nat /\ WalletBalance >= MinSats
    BY <1>3, HealthAssumption DEF FileAgrees, Agrees, WalletBalance
  <2>2. ~(WalletBalance < Cap)
    BY <2>1, HealthAssumption
  <2>3. QED
    BY <2>2 DEF FloatState
<1>4. QED
  BY <1>1, <1>2, <1>3

\* A file that counts as "ok" or is not there is no sign of a wallet below its minimum.
LEMMA FineFileIsFunded ==
  ASSUME IInv, FileStatus(wallet) \in {"ok", "absent"}
  PROVE  lastRead = None \/ lastRead >= MinSats
<1> USE DEF IInv, TypeOK, WalletFile
<1>1. wallet.status \in {"ok", "absent"}
  BY DEF FileStatus
<1>2. CASE wallet.status = "absent"
  BY <1>2 DEF FileAgrees, Agrees
<1>3. CASE wallet.status = "ok"
  BY <1>3 DEF FileAgrees, Agrees
<1>4. QED
  BY <1>1, <1>2, <1>3

\* An answer that comes from the two halves of /health is one of HealthAnswers, and "ok"
\* only where the wallet's file is.
LEMMA OkLooksAtTheFile ==
  ASSUME [Next]_vars, early # None, answer' = "ok", early' = None
  PROVE  FileStatus(wallet) \in {"ok", "absent"}
<1>1. HealthAnswers
  BY DEF Next, vars, Spend, Pause, Age, ReadBalance, ReadFails, WriteStatus, WriteFails,
    HealthBegins
<1>2. QED
  BY <1>1 DEF HealthAnswers, Verdict

\* An "ok" that was put together from two moments is never one of a shut door, as long
\* as the wallet's minimum is not below the cap.
THEOREM OkIsNotStopped == Spec => OkMeansNotStopped
<1>1. IInv /\ [Next]_vars =>
        [early # None /\ answer' = "ok" /\ early' = None => FloatState # "stop"]_vars
  <2> SUFFICES ASSUME IInv, [Next]_vars, early # None, answer' = "ok", early' = None
               PROVE  FloatState # "stop"
    OBVIOUS
  <2>1. QED
    BY OkLooksAtTheFile, FineFileFloats
<1>2. QED
  BY <1>1, Inductive, PTL DEF Spec, OkMeansNotStopped

\* Nor is it one of a wallet below its minimum, whatever became of the reading since.
THEOREM OkIsFunded == Spec => OkMeansFunded
<1>1. IInv /\ [Next]_vars =>
        [early # None /\ answer' = "ok" /\ early' = None
           => lastRead = None \/ lastRead >= MinSats]_vars
  <2> SUFFICES ASSUME IInv, [Next]_vars, early # None, answer' = "ok", early' = None
               PROVE  lastRead = None \/ lastRead >= MinSats
    OBVIOUS
  <2>1. QED
    BY OkLooksAtTheFile, FineFileIsFunded
<1>2. QED
  BY <1>1, Inductive, PTL DEF Spec, OkMeansFunded
===============================================================================
