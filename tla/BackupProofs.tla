----------------------------- MODULE BackupProofs -----------------------------
(* Theorems about Backup and their proofs.                                 *)
EXTENDS Backup, TLAPS

Preparing == {"newest", "take", "verify", "boundary", "stop"}
Copying == {"see", "tar", "copying"}
Closing == {"restart", "back", "ship", "publish"}

\* The run may still end in a success.
Hopeful == run.status = "ok" /\ ~run.aborting

\* From the check of the snapshot on, a run that may succeed has the newest row.
Holds == pc \in {"boundary", "stop"} \cup Copying \cup Closing /\ Hopeful => past.making.newest

\* Only what is copied of the live directory is hot, and nothing is before the copy.
Cold ==
  /\ pc \in Preparing \cup {"see", "tar"} => ~past.making.hot
  /\ pc # "idle" /\ past.making.hot => run.live

\* A calendar that has run since the boundary is running, and a run that copies its
\* directory can no longer succeed.
Guarded ==
  /\ pc \in {"stop"} \cup Copying /\ past.making.awake => writer = "running"
  /\ pc \in {"tar", "copying"} \cup Closing /\ Hopeful => ~past.making.awake \/ ~run.live

\* A calendar that the run stopped stays stopped through the copy.
Halted ==
  /\ pc \in Preparing => ~past.making.halted
  /\ pc \in Copying /\ past.making.halted => writer = "stopped"
  /\ pc # "idle" => ~(past.making.halted /\ past.making.hot)

\* What was stopped is owed until it is started, and a start that had no effect is known.
Owed ==
  /\ pc = "stop" => run.owed
  /\ pc \in Copying /\ past.making.halted => run.owed
  /\ pc \in {"restart", "ship", "publish"} /\ past.making.halted /\ writer = "stopped" =>
       (pc = "restart" /\ run.owed) \/ run.aborting \/ run.status = "failed"

\* The inductive invariant.
IInv ==
  /\ TypeOK
  /\ Holds /\ Cold /\ Guarded /\ Halted /\ Owed
  /\ SuccessHoldsNewestRow /\ SuccessIsNotHot /\ RestartedOrReported

LEMMA InitIInv == Init => IInv
<1> SUFFICES ASSUME Init PROVE IInv
  OBVIOUS
<1>1. TypeOK
  <2>1. Empty \in Archive
    BY DEF Empty, Archive
  <2>2. past \in Past
    BY <2>1 DEF Init, Past
  <2>3. run \in Run
    BY BackupAssumption DEF Init, Fresh, Run, Mode, Copy
  <2>4. QED
    BY <2>2, <2>3 DEF Init, TypeOK
<1>2. QED
  BY <1>1 DEF Init, IInv, Holds, Cold, Guarded, Halted, Owed, Preparing, Copying, Closing,
    Empty, SuccessHoldsNewestRow, SuccessIsNotHot, RestartedOrReported, Success

LEMMA NextIInv == IInv /\ [Next]_vars => IInv'
<1> SUFFICES ASSUME IInv, [Next]_vars
             PROVE  IInv'
  OBVIOUS
<1> USE DEF IInv, Holds, Cold, Guarded, Halted, Owed, SuccessHoldsNewestRow, SuccessIsNotHot,
        RestartedOrReported, Success, Hopeful, Preparing, Copying, Closing
<1> DEFINE m == past.making
<1>1. CASE UNCHANGED vars
  BY <1>1 DEF vars, TypeOK
<1>2. CASE BeginFails
  <2>1. TypeOK'
    BY <1>2 DEF BeginFails, TypeOK, Run, Past, Archive, world, GoOn, Empty
  <2>2. QED
    BY <1>2, <2>1 DEF BeginFails, TypeOK, Run, Past, Archive, world, GoOn, Empty
<1>3. CASE Begin
  <2>1. PICK mode \in Mode : run' = Fresh(mode)
    BY <1>3 DEF Begin
  <2>2. run' \in Run
    BY <2>1, BackupAssumption DEF Fresh, Run, Copy
  <2>3. past' \in Past /\ past'.making = Empty /\ past'.kept = past.kept /\ ~past'.killed
    BY <1>3 DEF Begin, TypeOK, Past, Archive, Empty
  <2>4. TypeOK'
    BY <1>3, <2>2, <2>3 DEF Begin, TypeOK, world
  <2>5. QED
    BY <1>3, <2>1, <2>3, <2>4 DEF Begin, Fresh, Empty, world
<1>4. CASE ReadNewest
  <2>1. PICK newest \in {rows, 0} : run' = [run EXCEPT !.expect = newest]
    BY <1>4 DEF ReadNewest
  <2>2. newest \in 0..MaxRows
    BY BackupAssumption DEF TypeOK
  <2>3. run' \in Run
    BY <2>1, <2>2 DEF TypeOK, Run
  <2>4. TypeOK'
    BY <1>4, <2>3 DEF ReadNewest, TypeOK, world
  <2>5. QED
    BY <1>4, <2>4 DEF ReadNewest, world
<1>5. CASE NoLog
  <2>1. TypeOK'
    BY <1>5 DEF NoLog, TypeOK, Run, Past, Archive, world, GoOn, degrade, fail_member
  <2>2. QED
    BY <1>5, <2>1 DEF NoLog, TypeOK, Run, Past, Archive, world, GoOn, degrade, fail_member
<1>6. CASE Take
  <2>1. PICK copy \in 0..rows \cup {Torn} : run' = [run EXCEPT !.snap = copy]
    BY <1>6 DEF Take
  <2>2. copy \in Copy
    BY BackupAssumption DEF TypeOK, Copy
  <2>3. run' \in Run
    BY <2>1, <2>2 DEF TypeOK, Run
  <2>4. TypeOK'
    BY <1>6, <2>3 DEF Take, TypeOK, world
  <2>5. QED
    BY <1>6, <2>4 DEF Take, world
<1>7. CASE Verify
  <2>1. TypeOK'
    BY <1>7 DEF Verify, TypeOK, Run, Past, Archive, world, GoOn, Usable, degrade, fail_member
  <2>2. QED
    BY <1>7, <2>1 DEF Verify, TypeOK, Run, Past, Archive, world, GoOn, Usable, degrade, fail_member
<1>8. CASE Refuse
  <2>1. TypeOK'
    BY <1>8 DEF Refuse, TypeOK, Run, Past, Archive, world, GoOn
  <2>2. QED
    BY <1>8, <2>1 DEF Refuse, TypeOK, Run, Past, Archive, world, GoOn
<1>9. CASE Boundary
  <2>1. TypeOK'
    BY <1>9 DEF Boundary, TypeOK, Run, Past, Archive, world, GoOn, calendar_writer, fail_member, Mode
  <2>2. QED
    BY <1>9, <2>1 DEF Boundary, TypeOK, Run, Past, Archive, world, GoOn, calendar_writer, fail_member, Mode
<1>10. CASE Stop
  <2>1. /\ past' \in Past
        /\ past'.making.newest = m.newest /\ past'.making.hot = m.hot
        /\ past'.making.halted = (writer' = "stopped")
        /\ past'.making.awake = (m.awake /\ writer' = "running")
        /\ past'.kept = past.kept
    BY <1>10 DEF Stop, TypeOK, Past, Archive
  <2>2. /\ pc' \in {"see", "tar"} /\ pc = "stop"
        /\ run' \in Run /\ run'.owed = run.owed /\ run'.aborting = run.aborting
        /\ run'.live = run.live
        /\ (pc' = "see" /\ run'.status = run.status) \/ run'.status = "failed"
    BY <1>10 DEF Stop, GoOn, fail_member, TypeOK, Run
  <2>3. TypeOK'
    BY <1>10, <2>1, <2>2 DEF Stop, TypeOK
  <2>4. Holds' /\ Cold'
    BY <2>1, <2>2
  <2>5. Guarded' /\ Halted' /\ Owed'
    BY <2>1, <2>2, <2>3 DEF TypeOK
  <2>6. QED
    BY <1>10, <2>1, <2>2, <2>3, <2>4, <2>5 DEF Stop
<1>11. CASE See
  <2>1. TypeOK'
    BY <1>11 DEF See, TypeOK, Run, Past, Archive, world, GoOn, calendar_writer, fail_member
  <2>2. QED
    BY <1>11, <2>1 DEF See, TypeOK, Run, Past, Archive, world, GoOn, calendar_writer, fail_member
<1>12. CASE TarBegins
  <2>1. TypeOK'
    BY <1>12 DEF TarBegins, TypeOK, Run, Past, Archive, world, GoOn, degrade, calendar_writer
  <2>2. QED
    BY <1>12, <2>1 DEF TarBegins, TypeOK, Run, Past, Archive, world, GoOn, degrade, calendar_writer
<1>13. CASE TarEnds
  <2>1. TypeOK'
    BY <1>13 DEF TarEnds, TypeOK, Run, Past, Archive, world, GoOn
  <2>2. QED
    BY <1>13, <2>1 DEF TarEnds, TypeOK, Run, Past, Archive, world, GoOn
<1>14. CASE Restart
  <2>1. run' \in Run /\ run'.status = run.status /\ run'.live = run.live
          /\ run'.aborting = run.aborting /\ run'.owed = FALSE
    BY <1>14 DEF Restart, TypeOK, Run
  <2>2. pc' \in {"back", "publish", "ship"} /\ writer' \in {writer, "running"}
    BY <1>14 DEF Restart, Resume
  <2>3. TypeOK'
    BY <1>14, <2>1, <2>2 DEF Restart, TypeOK
  <2>4. QED
    BY <1>14, <2>1, <2>3 DEF Restart, Resume
<1>15. CASE Back
  <2>1. TypeOK'
    BY <1>15 DEF Back, TypeOK, Run, Past, Archive, world, GoOn, Resume, calendar_writer, fail_member
  <2>2. QED
    BY <1>15, <2>1 DEF Back, TypeOK, Run, Past, Archive, world, GoOn, Resume, calendar_writer, fail_member
<1>16. CASE Ship
  <2>1. TypeOK'
    BY <1>16 DEF Ship, TypeOK, Run, Past, Archive, world, GoOn, degrade
  <2>2. QED
    BY <1>16, <2>1 DEF Ship, TypeOK, Run, Past, Archive, world, GoOn, degrade
<1>17. CASE Publish
  <2>1. TypeOK'
    BY <1>17 DEF Publish, TypeOK, Run, Past, Archive, world, GoOn
  <2>2. QED
    BY <1>17, <2>1 DEF Publish, TypeOK, Run, Past, Archive, world, GoOn
<1>18. CASE Trap
  <2>1. run' \in Run /\ run'.aborting
    BY <1>18 DEF Trap, TypeOK, Run
  <2>2. TypeOK'
    BY <1>18, <2>1 DEF Trap, TypeOK, world
  <2>3. QED
    BY <1>18, <2>1, <2>2 DEF Trap, TypeOK, Run, world
<1>19. CASE Kill
  <2>1. TypeOK'
    BY <1>19 DEF Kill, TypeOK, Run, Past, Archive, world, GoOn
  <2>2. QED
    BY <1>19, <2>1 DEF Kill, TypeOK, Run, Past, Archive, world, GoOn
<1>20. CASE Crash
  <2>1. past' \in Past
    BY <1>20 DEF Crash, TypeOK, Past, Archive
  <2>2. TypeOK'
    BY <1>20, <2>1 DEF Crash, TypeOK
  <2>3. QED
    BY <1>20, <2>2 DEF Crash, TypeOK, Past, Archive
<1>21. CASE Supervise
  <2>1. TypeOK'
    BY <1>21 DEF Supervise, TypeOK, Run, Past, Archive, world, GoOn
  <2>2. QED
    BY <1>21, <2>1 DEF Supervise, TypeOK, Run, Past, Archive, world, GoOn
<1>22. CASE ByHand
  <2>1. TypeOK'
    BY <1>22 DEF ByHand, TypeOK, Run, Past, Archive, world, GoOn
  <2>2. QED
    BY <1>22, <2>1 DEF ByHand, TypeOK, Run, Past, Archive, world, GoOn
<1>23. CASE Gateway
  <2>1. TypeOK'
    BY <1>23 DEF Gateway, TypeOK, Run, Past, Archive, world, GoOn
  <2>2. QED
    BY <1>23, <2>1 DEF Gateway, TypeOK, Run, Past, Archive, world, GoOn
<1>24. CASE Oblige
  <2>1. rows' \in 0..MaxRows
    BY <1>24, BackupAssumption DEF Oblige, TypeOK
  <2>2. TypeOK'
    BY <1>24, <2>1 DEF Oblige, TypeOK
  <2>3. QED
    BY <1>24, <2>2 DEF Oblige
<1>25. QED
  BY <1>1, <1>2, <1>3, <1>4, <1>5, <1>6, <1>7, <1>8, <1>9, <1>10, <1>11, <1>12, <1>13, <1>14, <1>15, <1>16, <1>17, <1>18, <1>19, <1>20, <1>21, <1>22, <1>23, <1>24 DEF Next, Script

\* IInv holds of every state that can be reached.
THEOREM Inductive == Spec => []IInv
  BY InitIInv, NextIInv, PTL DEF Spec

\* The variables keep their types.
THEOREM TypeCorrect == Spec => []TypeOK
<1>1. IInv => TypeOK
  BY DEF IInv
<1>2. QED
  BY <1>1, Inductive, PTL

\* However many rows are written while it runs, a backup that is published as a success
\* holds the newest one its run saw.
THEOREM SuccessesHoldTheNewestRow == Spec => []SuccessHoldsNewestRow
<1>1. IInv => SuccessHoldsNewestRow
  BY DEF IInv
<1>2. QED
  BY <1>1, Inductive, PTL

\* No success stands for a copy of a directory in use from before the boundary to the
\* end, nor for one in use after the run had stopped its user.
THEOREM SuccessesAreNotHot == Spec => []SuccessIsNotHot
<1>1. IInv => SuccessIsNotHot
  BY DEF IInv
<1>2. QED
  BY <1>1, Inductive, PTL

\* A calendar that a finished run stopped is up again, or the run has said that it
\* failed.
THEOREM StopsAreRepaired == Spec => []RestartedOrReported
<1>1. IInv => RestartedOrReported
  BY DEF IInv
<1>2. QED
  BY <1>1, Inductive, PTL
===============================================================================
