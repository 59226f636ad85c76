-------------------------------- MODULE Backup --------------------------------
(***************************************************************************)
(* ops/backup-live-state.sh: one daily run after another.  A run takes and *)
(* checks a snapshot of the obligation log, brings the calendar to the     *)
(* boundary it is told to, copies, restarts the calendar writer it         *)
(* stopped, ships the archive and publishes a status for /health.  Around  *)
(* it the gateway writes rows, starts and stops, the calendar crashes and  *)
(* is restarted by its supervisor, and the run may be killed at any point: *)
(* it traps its own errors, not signals.                                   *)
(*                                                                         *)
(* Obligation rows are numbered in the order they are written; a copy of   *)
(* the log is the number of rows it holds.  A status that cannot be        *)
(* written ends the run as a kill does.                                    *)
(***************************************************************************)
EXTENDS Naturals

CONSTANTS MaxRows,   \* bound: obligation rows
          Torn       \* a snapshot that fails integrity_check, or none at all

ASSUME BackupAssumption == MaxRows \in Nat /\ Torn \notin Nat

VARIABLES
  writer,   \* the calendar's process: "running", "crashed" or "stopped"
  gateway,  \* the gateway runs
  rows,     \* obligations in the live log
  file,     \* the status in backup-status
  pc,       \* the run's next step
  run,      \* the run's shell variables
  past      \* for the properties only

vars == <<writer, gateway, rows, file, pc, run, past>>
world == <<writer, gateway, rows>>

Mode == {"unset", "stop", "stopped", "snapshot", "other"}
Copy == 0..MaxRows \cup {Torn}

Run == [mode : Mode,        \* CALENDAR_BACKUP_BOUNDARY
        status : {"ok", "attention", "failed"},
        expect : 0..MaxRows, \* EXPECT_HASH: the newest row seen, 0 for none
        snap : Copy,        \* SNAPSHOT
        live : BOOLEAN,     \* CALENDAR_MEMBER is the live directory
        owed : BOOLEAN,     \* RESTART_CALENDAR
        aborting : BOOLEAN] \* inside on_err

\* What an archive is: its snapshot holds the row expected; the run stopped the calendar;
\* the calendar ran all the while from the boundary on; it ran during the copy.
Archive == [newest : BOOLEAN, halted : BOOLEAN, awake : BOOLEAN, hot : BOOLEAN]

\* The archive being made and the one behind backup-status; whether the last run was
\* killed.
Past == [making : Archive, kept : Archive, killed : BOOLEAN]

TypeOK ==
  /\ writer \in {"running", "crashed", "stopped"}
  /\ gateway \in BOOLEAN
  /\ rows \in 0..MaxRows
  /\ file \in {"absent", "ok", "local_only", "attention", "failed"}
  /\ pc \in {"idle", "newest", "take", "verify", "boundary", "stop", "see", "tar",
             "copying", "restart", "back", "ship", "publish"}
  /\ run \in Run
  /\ past \in Past

Fresh(mode) == [mode |-> mode, status |-> "ok", expect |-> 0, snap |-> Torn, live |-> TRUE,
                owed |-> FALSE, aborting |-> FALSE]
Empty == [newest |-> FALSE, halted |-> FALSE, awake |-> TRUE, hot |-> FALSE]

Init ==
  /\ writer \in {"running", "stopped"}
  /\ gateway \in BOOLEAN
  /\ rows \in 0..MaxRows
  /\ file = "absent"
  /\ pc = "idle"
  /\ run = Fresh("unset")
  /\ past = [making |-> Empty, kept |-> Empty, killed |-> FALSE]

-------------------------------------------------------------------------------

\* calendar_writer: a crashed calendar is not active, though it will be restarted.
calendar_writer == writer = "running"

degrade == IF run.status = "failed" THEN "failed" ELSE "attention"
fail_member == "failed"

\* The run goes on at step next with status st.
GoOn(next, st) ==
  /\ pc' = next
  /\ run' = [run EXCEPT !.status = st]

\* No .env: nothing but the status.
BeginFails ==
  /\ pc = "idle"
  /\ file' = "failed"
  /\ past' = [past EXCEPT !.making = Empty, !.killed = FALSE]
  /\ UNCHANGED <<world, pc, run>>

Begin ==
  /\ pc = "idle"
  /\ pc' = "newest"
  /\ run' \in {Fresh(mode) : mode \in Mode}
  /\ past' = [past EXCEPT !.making = Empty, !.killed = FALSE]
  /\ UNCHANGED <<world, file>>

\* The newest row, or nothing where it cannot be read.
ReadNewest ==
  /\ pc = "newest"
  /\ pc' = "take"
  /\ \E newest \in {rows, 0} : run' = [run EXCEPT !.expect = newest]
  /\ UNCHANGED <<world, file, past>>

\* There is no log where it should be: the default path is only missing, a configured
\* one must not be.
NoLog ==
  /\ pc = "newest"
  /\ \E st \in {degrade, fail_member} : GoOn("boundary", st)
  /\ UNCHANGED <<world, file, past>>

\* An online backup: rows committed since it was asked for are in it.  The path seen by
\* the container may name another file than the host's, so that it may also lack rows.
Take ==
  /\ pc = "take"
  /\ pc' = "verify"
  /\ \E copy \in 0..rows \cup {Torn} : run' = [run EXCEPT !.snap = copy]
  /\ UNCHANGED <<world, file, past>>

\* Slip: the snapshot is checked without the row it must contain.
UsableWithoutRow == run.snap # Torn

\* verify-obligations-snapshot.sh
Usable == run.snap # Torn /\ run.snap >= run.expect

\* Without a usable snapshot the raw files stand, if no gateway writes them.
Verify ==
  /\ pc = "verify"
  /\ \/ Usable /\ GoOn("boundary", run.status)
     \/ ~Usable /\ gateway /\ GoOn("boundary", fail_member)
     \/ ~Usable /\ ~gateway /\ GoOn("boundary", degrade)
  /\ past' = [past EXCEPT !.making.newest = run.snap # Torn /\ run.snap >= run.expect]
  /\ UNCHANGED <<world, file>>

\* An unknown mode ends the run before anything is stopped, and without a status.
Refuse ==
  /\ pc = "boundary"
  /\ run.mode = "other"
  /\ pc' = "idle"
  /\ UNCHANGED <<world, file, run, past>>

\* Without a boundary the copy is hot, and goes on as a failed member.
Boundary ==
  /\ pc = "boundary"
  /\ run.mode # "other"
  /\ LET halting == run.mode = "stop" /\ calendar_writer
         refused == run.mode \in {"unset", "stopped"} /\ calendar_writer
     IN /\ pc' = IF halting THEN "stop" ELSE "tar"
        /\ \E declared \in BOOLEAN :
             run' = [run EXCEPT !.owed = halting,
                                !.live = run.mode # "snapshot" \/ ~declared,
                                !.status = IF refused \/ (run.mode = "snapshot" /\ ~declared)
                                           THEN fail_member ELSE @]
  /\ past' = [past EXCEPT !.making.awake = calendar_writer]
  /\ UNCHANGED <<world, file>>

\* stop_calendar_writer: it may fail after the stop, or succeed without one; a crashed
\* calendar whose stop succeeds is no longer restarted.
Stop ==
  /\ pc = "stop"
  /\ writer' \in {"stopped", writer}
  /\ \/ writer' # "crashed" /\ GoOn("see", run.status)
     \/ GoOn("tar", fail_member)
  /\ past' = [past EXCEPT !.making.halted = writer' = "stopped",
                          !.making.awake = @ /\ writer' = "running"]
  /\ UNCHANGED <<gateway, rows, file>>

\* Slip: the stop is believed.
SeeNothing ==
  /\ pc = "see"
  /\ GoOn("tar", run.status)
  /\ UNCHANGED <<world, file, past>>

\* A calendar that is still running is no boundary.
See ==
  /\ pc = "see"
  /\ GoOn("tar", IF calendar_writer THEN fail_member ELSE run.status)
  /\ UNCHANGED <<world, file, past>>

\* tar begins; members that are missing are named on the way.
TarBegins ==
  /\ pc = "tar"
  /\ \E st \in {run.status, degrade} : GoOn("copying", st)
  /\ past' = [past EXCEPT !.making.hot = run.live /\ calendar_writer]
  /\ UNCHANGED <<world, file>>

TarEnds ==
  /\ pc = "copying"
  /\ pc' = "restart"
  /\ UNCHANGED <<world, file, run, past>>

\* After the copy, or out of the trap.
Resume == IF run.aborting THEN "publish" ELSE "ship"

\* restart_calendar_writer, once: what is owed is forgotten before the calendar is
\* started, and the start may have no effect.
Restart ==
  /\ pc = "restart"
  /\ pc' = IF run.owed THEN "back" ELSE Resume
  /\ run' = [run EXCEPT !.owed = FALSE]
  /\ writer' \in IF run.owed THEN {writer, "running"} ELSE {writer}
  /\ UNCHANGED <<gateway, rows, file, past>>

\* Slip: a calendar that does not come back is only worth a warning.
BackOrDegrade ==
  /\ pc = "back"
  /\ GoOn(Resume, IF calendar_writer THEN run.status ELSE degrade)
  /\ UNCHANGED <<world, file, past>>

\* The calendar is seen running, or the member has failed.
Back ==
  /\ pc = "back"
  /\ GoOn(Resume, IF calendar_writer THEN run.status ELSE fail_member)
  /\ UNCHANGED <<world, file, past>>

\* Encryption, push and pruning: a step that cannot be taken degrades or is skipped.
Ship ==
  /\ pc = "ship"
  /\ \E st \in {run.status, degrade} : GoOn("publish", st)
  /\ UNCHANGED <<world, file, past>>

\* The status of the run; an "ok" without a remote is local_only.
Publish ==
  /\ pc = "publish"
  /\ pc' = "idle"
  /\ file' \in IF run.aborting THEN {"failed"}
               ELSE IF run.status = "ok" THEN {"ok", "local_only"} ELSE {run.status}
  /\ past' = [past EXCEPT !.kept = past.making]
  /\ UNCHANGED <<world, run>>

\* on_err: any other command that fails, outside the trap.
Trap ==
  /\ pc \notin {"idle", "restart", "back", "publish"}
  /\ pc' = "restart"
  /\ run' = [run EXCEPT !.aborting = TRUE]
  /\ UNCHANGED <<world, file, past>>

\* A signal, which nothing traps.
Kill ==
  /\ pc # "idle"
  /\ pc' = "idle"
  /\ past' = [past EXCEPT !.killed = TRUE]
  /\ UNCHANGED <<world, file, run>>

Script ==
  \/ BeginFails \/ Begin \/ ReadNewest \/ NoLog \/ Take \/ Verify \/ Refuse \/ Boundary
  \/ Stop \/ See \/ TarBegins \/ TarEnds \/ Restart \/ Back \/ Ship \/ Publish \/ Trap
  \/ Kill

-------------------------------------------------------------------------------

\* The calendar's supervisor restarts a crash, never a stop.
Crash ==
  /\ writer = "running"
  /\ writer' = "crashed"
  /\ past' = [past EXCEPT !.making.awake = FALSE]
  /\ UNCHANGED <<gateway, rows, file, pc, run>>

Supervise ==
  /\ writer = "crashed"
  /\ writer' = "running"
  /\ past' = [past EXCEPT !.making.hot = @ \/ (pc = "copying" /\ run.live)]
  /\ UNCHANGED <<gateway, rows, file, pc, run>>

\* The operator's hand, which leaves the calendar alone while a backup runs.
ByHand ==
  /\ pc = "idle"
  /\ writer' \in {"running", "stopped"} \ {writer}
  /\ past' = [past EXCEPT !.making.halted = FALSE]
  /\ UNCHANGED <<gateway, rows, file, pc, run>>

Gateway ==
  /\ gateway' = ~gateway
  /\ UNCHANGED <<writer, rows, file, pc, run, past>>

Oblige ==
  /\ gateway
  /\ rows < MaxRows
  /\ rows' = rows + 1
  /\ UNCHANGED <<writer, gateway, file, pc, run, past>>

Next == Script \/ Crash \/ Supervise \/ ByHand \/ Gateway \/ Oblige

Spec == Init /\ [][Next]_vars
-------------------------------------------------------------------------------

Success == file \in {"ok", "local_only"}

\* "The snapshot holds the newest row the run saw": behind a status that counts as a
\* success is a snapshot that does, whichever file it was taken of and whatever was
\* committed meanwhile.
SuccessHoldsNewestRow == Success => past.kept.newest

\* "The hot copy is not a backup of the calendar": no success stands for a copy of a
\* directory the calendar kept open all the while; and a run that stopped the calendar
\* for the copy had it stopped to the end of the copy.
SuccessIsNotHot ==
  Success => /\ ~(past.kept.awake /\ past.kept.hot)
             /\ ~(past.kept.halted /\ past.kept.hot)

\* "The copy is never worth a stopped calendar": a run that stopped the calendar and
\* came to an end, by whichever way, has started it again or published a failure.
RestartedOrReported ==
  pc = "idle" /\ past.making.halted /\ ~past.killed /\ writer = "stopped" => file = "failed"
===============================================================================
