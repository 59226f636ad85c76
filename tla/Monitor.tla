-------------------------------- MODULE Monitor -------------------------------
(***************************************************************************)
(* ops/health-monitor.sh: one run after another asks /health and the       *)
(* calendar's home page, forms a fingerprint of the condition, and pushes  *)
(* a message when it changed, when it recovered, and again when it lasts.  *)
(* What it pushed is kept in a state file, which is written after the push *)
(* was delivered, or emptied when the disk is full; a run may be killed    *)
(* between any two steps.                                                  *)
(*                                                                         *)
(* Time is two flags: the stall file has become older than                 *)
(* ANCHOR_STALL_SECONDS, and HEALTH_REALERT_SECONDS have passed since the  *)
(* state file was written.                                                 *)
(***************************************************************************)

CONSTANTS Body,   \* what /health may come to, one of them no answer at all
          OkBody, \* those with status=ok
          None

\* FP: the mark of a stalled calendar and the fields of /health.
Fingerprint == [stall : BOOLEAN, body : Body]

\* The message that trouble is over.
Recovered == [recovered |-> TRUE]

ASSUME MonitorAssumption ==
  /\ OkBody \subseteq Body
  /\ None \notin Fingerprint \cup {Recovered}

VARIABLES
  health,  \* what /health says now
  stalled, \* commitments are pending and there is no anchor transaction
  pc,      \* "idle", "probe", "push" or "write"
  fp,      \* FP, of the run under way or of the last one
  last,    \* the fingerprint in the state file, or None: no file, or an empty one
  cooled,  \* LAST_TS is HEALTH_REALERT_SECONDS ago
  stall,   \* the stall file: "none", "young" or "old"
  \* for the properties only
  heard,   \* the last message delivered: a fingerprint, Recovered or None
  open     \* an alarm was delivered since a run last wrote, or tried to write, an ok

told == <<heard, open>>
vars == <<health, stalled, pc, fp, last, cooled, stall, told>>

Fine(f) == f.body \in OkBody /\ ~f.stall
Bad(f) == f # None /\ ~Fine(f)

TypeOK ==
  /\ health \in Body
  /\ stalled \in BOOLEAN
  /\ pc \in {"idle", "probe", "push", "write"}
  /\ fp \in Fingerprint
  /\ last \in Fingerprint \cup {None}
  /\ cooled \in BOOLEAN
  /\ stall \in {"none", "young", "old"}
  /\ heard \in Fingerprint \cup {None, Recovered}
  /\ open \in BOOLEAN

Init ==
  /\ health \in Body
  /\ stalled \in BOOLEAN
  /\ pc = "idle"
  /\ fp \in [stall : {FALSE}, body : OkBody]
  /\ last = None
  /\ cooled = TRUE
  /\ stall = "none"
  /\ heard = None
  /\ open = FALSE

-------------------------------------------------------------------------------
\* The world

Change ==
  /\ health' \in Body
  /\ stalled' \in BOOLEAN
  /\ UNCHANGED <<pc, fp, last, cooled, stall, told>>

StallAges ==
  /\ stall = "young"
  /\ stall' = "old"
  /\ UNCHANGED <<health, stalled, pc, fp, last, cooled, told>>

Cool ==
  /\ ~cooled
  /\ cooled' = TRUE
  /\ UNCHANGED <<health, stalled, pc, fp, last, stall, told>>

-------------------------------------------------------------------------------
\* A run

Poll ==
  /\ pc = "idle"
  /\ pc' = "probe"
  /\ fp' = [stall |-> FALSE, body |-> health]
  /\ UNCHANGED <<health, stalled, last, cooled, stall, told>>

\* Slip: a probe that fails is a probe that saw nothing stalled.
ProbeFailsClearing ==
  /\ pc = "probe"
  /\ pc' = "push"
  /\ stall' = "none"
  /\ UNCHANGED <<health, stalled, fp, last, cooled, told>>

\* A probe that fails leaves the stall file alone; so does one that saw the first of a
\* stall and could not date it.
ProbeFails ==
  /\ pc = "probe"
  /\ pc' = "push"
  /\ UNCHANGED <<health, stalled, fp, last, cooled, stall, told>>

\* The first sight of a stall dates it; an old one marks the fingerprint.
Probe ==
  /\ pc = "probe"
  /\ pc' = "push"
  /\ stall' = IF ~stalled THEN "none" ELSE IF stall = "none" THEN "young" ELSE stall
  /\ fp' = [fp EXCEPT !.stall = stalled /\ stall = "old"]
  /\ UNCHANGED <<health, stalled, last, cooled, told>>

\* Slip: a condition that lasts is announced once.
MessageOnce ==
  IF fp = last THEN None
  ELSE IF ~Fine(fp) THEN fp
  ELSE IF Bad(last) THEN Recovered
  ELSE None

\* Slip: "status=ok" anywhere in the last fingerprint counts as ok, also behind a stall.
MessageByStatus ==
  IF fp = last THEN IF ~Fine(fp) /\ cooled THEN fp ELSE None
  ELSE IF ~Fine(fp) THEN fp
  ELSE IF last # None /\ last.body \notin OkBody THEN Recovered
  ELSE None

\* What is to be pushed: a change for the worse or to another trouble, a recovery, a
\* trouble that lasts; else nothing.
Message ==
  IF fp = last THEN IF ~Fine(fp) /\ cooled THEN fp ELSE None
  ELSE IF ~Fine(fp) THEN fp
  ELSE IF Bad(last) THEN Recovered
  ELSE None

\* Nothing to push; the first ok, and a change from ok to ok, are written all the same.
Quiet ==
  /\ pc = "push"
  /\ Message = None
  /\ pc' = IF fp = last THEN "idle" ELSE "write"
  /\ UNCHANGED <<health, stalled, fp, last, cooled, stall, told>>

\* The message reaches the operator.
Deliver ==
  /\ heard' = Message
  /\ open' = (open \/ Message # Recovered)

Push ==
  /\ pc = "push"
  /\ Message # None
  /\ Deliver
  /\ pc' = "write"
  /\ UNCHANGED <<health, stalled, fp, last, cooled, stall>>

\* Slip: the state is written whether or not the push was delivered.
PushFailsUnnoticed ==
  /\ pc = "push"
  /\ Message # None
  /\ pc' = "write"
  /\ UNCHANGED <<health, stalled, fp, last, cooled, stall, told>>

\* notify.sh fails, perhaps after the message got through: the run ends there.
PushFails ==
  /\ pc = "push"
  /\ Message # None
  /\ Deliver \/ UNCHANGED told
  /\ pc' = "idle"
  /\ UNCHANGED <<health, stalled, fp, last, cooled, stall>>

WriteState ==
  /\ pc = "write"
  /\ pc' = "idle"
  /\ last' = fp
  /\ cooled' = FALSE
  /\ open' = (open /\ ~Fine(fp))
  /\ UNCHANGED <<health, stalled, fp, stall, heard>>

\* The disk is full: printf fails, and mv puts an empty file in the place of the old one.
WriteStateEmpties ==
  /\ pc = "write"
  /\ pc' = "idle"
  /\ last' = None
  /\ cooled' = TRUE
  /\ open' = (open /\ ~Fine(fp))
  /\ UNCHANGED <<health, stalled, fp, stall, heard>>

\* Killed, or an exit without a new state file (mktemp or mv fails).
Kill ==
  /\ pc # "idle"
  /\ pc' = "idle"
  /\ UNCHANGED <<health, stalled, fp, last, cooled, stall, told>>

Next ==
  \/ Change \/ StallAges \/ Cool
  \/ Poll \/ ProbeFails \/ Probe \/ Quiet \/ Push \/ PushFails
  \/ WriteState \/ WriteStateEmpties \/ Kill

Spec == Init /\ [][Next]_vars

\* The timer fires and time passes.  A run is not killed, a push is not lost and the
\* state file is not unwritable every time.  The probe may fail every time.
FairSpec ==
  /\ Spec
  /\ WF_vars(Poll)
  /\ WF_vars(StallAges)
  /\ WF_vars(Cool)
  /\ SF_vars(Probe \/ ProbeFails)
  /\ SF_vars(Quiet)
  /\ SF_vars(Push)
  /\ SF_vars(WriteState)
-------------------------------------------------------------------------------

\* "The debounce can never swallow an undelivered alarm": the state file takes a new
\* fingerprint only if the last message delivered was its alarm, or the recovery of the
\* trouble the file held.  An ok after an ok or after nothing needs no message; a file
\* that is emptied takes none.
RecordedIsHeard ==
  [][ last' \notin {last, None} =>
        /\ Bad(last') => heard = last'
        /\ ~Bad(last') /\ Bad(last) => heard = Recovered ]_vars

\* No message that trouble is over without the alarm that it had begun: between two
\* messages of recovery, unless the first was not written down, an alarm got through.
RecoveryFollowsAlarm == pc = "push" /\ Message = Recovered => open

Alarmed == heard \notin {None, Recovered}

\* Trouble that lasts, in one shape or in changing ones, is the last thing the operator
\* heard of in the end, whatever was pushed, lost or left unrecorded before.
LastingTroubleIsHeard == <>[](health \notin OkBody) => <>[]Alarmed

\* "A flapping probe can never reset the clock": a stall that lasts behind a /health
\* that is ok is announced again and again, although probes go on failing, if they do not
\* fail every time.
LastingStallIsHeard ==
  SF_vars(Probe) =>
    (<>[](stalled /\ health \in OkBody) => []<>(Alarmed /\ heard.stall))

\* A trouble on record whose end lasts is followed by the message that it is over, unless
\* the record is lost: a state file that a full disk emptied is like none ("first ever
\* run: nothing to recover from").
RecoveryIsHeard ==
  Bad(last) ~> (heard = Recovered \/ last = None \/ stalled \/ health \notin OkBody)
===============================================================================
