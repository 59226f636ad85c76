-------------------------------- MODULE Health --------------------------------
(***************************************************************************)
(* The float backstop and GET /health (main.py), with the wallet check     *)
(* that feeds them (ops/wallet-balance-check.sh): a timer's script reads   *)
(* the anchor wallet's balance and leaves it in a file; the gateway reads  *)
(* the file anew whenever it needs to know.  The pause gate stops the door *)
(* below the stamper's fee cap, and /health puts the file, the operator's  *)
(* PAUSED, the last mint, the calendar and two more files into one word.   *)
(*                                                                         *)
(* /health reads at two moments: paused, float and mint first, and the     *)
(* rest after a probe of the calendar that may take most of a minute.      *)
(***************************************************************************)
EXTENDS Integers

CONSTANTS Balance, \* what the wallet may hold, in sats
          Cap,     \* STAMPER_FEE_CAP_SATS
          MinSats, \* WALLET_MIN_SATS, a setting of its own
          None

\* The wallet is low before it is below the cap, as with the defaults (50,000 and
\* 20,000): nothing in the code compares the two settings.
ASSUME HealthAssumption ==
  /\ Balance \subseteq Nat
  /\ Cap \in Nat \ {0}
  /\ MinSats \in Nat
  /\ Cap <= MinSats
  /\ None \notin Nat

VARIABLES
  balance,  \* of the anchor wallet
  paused,   \* the operator's PAUSED file exists
  wallet,   \* the wallet-status file
  check,    \* what the wallet check is about to write, or None
  early,    \* what a GET /health under way has read so far, or None
  answer,   \* the status of the last /health, or None
  lastRead  \* for the properties only: the last balance that reached the file

vars == <<balance, paused, wallet, check, early, answer, lastRead>>

\* A status file: not there, not readable as one, or a status that may have outlived
\* its maximum age.
File(statuses) == [status : statuses \cup {"absent", "malformed"}, stale : BOOLEAN]

WalletFile == [status : {"ok", "low", "unknown", "absent", "malformed"},
               balance_sats : Balance \cup {None}, stale : BOOLEAN]

\* What a full disk makes of the file: printf writes nothing, and mv puts it in place.
Emptied == [status |-> "malformed", balance_sats |-> None, stale |-> FALSE]

Overall == {"paused", "auto_paused", "ok", "degraded"}

TypeOK ==
  /\ balance \in Balance
  /\ paused \in BOOLEAN
  /\ wallet \in WalletFile
  /\ check \in {None} \cup WalletFile
  /\ early \in {None} \cup [paused : BOOLEAN, float : {"inactive", "stop", "alarm", "ok"},
                            payment : {"ok", "degraded", "unknown"}]
  /\ answer \in Overall \cup {None}
  /\ lastRead \in Balance \cup {None}

Init ==
  /\ balance \in Balance
  /\ paused = FALSE
  /\ wallet \in [status : {"absent", "malformed"}, balance_sats : {None}, stale : {FALSE}]
  /\ check = None
  /\ early = None
  /\ answer = None
  /\ lastRead = None

-------------------------------------------------------------------------------
\* What the gateway makes of the files

\* Slip: a file's age is not looked at.
FileStatusOfAnyAge(file) == IF file.status = "malformed" THEN "unknown" ELSE file.status

\* _wallet_status, _proofs_status and _backup_status.
FileStatus(file) ==
  CASE file.status = "absent" -> "absent"
    [] file.status = "malformed" -> "unknown"
    [] file.status \notin {"absent", "malformed"} /\ file.stale -> "stale"
    [] OTHER -> file.status

\* _wallet_balance_sats: the last reading stands, however old.
WalletBalance == wallet.balance_sats

\* Slip: the cap itself is below the cap.
FloatStateAtCap ==
  IF WalletBalance = None THEN "inactive"
  ELSE IF WalletBalance <= Cap THEN "stop"
  ELSE IF WalletBalance < 5 * Cap THEN "alarm"
  ELSE "ok"

FloatState ==
  IF WalletBalance = None THEN "inactive"
  ELSE IF WalletBalance < Cap THEN "stop"
  ELSE IF WalletBalance < 5 * Cap THEN "alarm"
  ELSE "ok"

\* The pause gate lets a request other than /health pass.
GateOpen == ~paused /\ FloatState # "stop"

\* Slip: the float stands for the wallet.
VerdictWithoutWallet(fields, otsd, wstatus, proofs, backup) ==
  IF fields.paused THEN "paused"
  ELSE IF fields.float = "stop" THEN "auto_paused"
  ELSE IF /\ fields.payment \in {"ok", "unknown"}
          /\ otsd = "ok"
          /\ proofs \in {"ok", "absent"}
          /\ backup \in {"ok", "local_only", "absent"}
          /\ fields.float \in {"ok", "inactive"}
       THEN "ok" ELSE "degraded"

Verdict(fields, otsd, wstatus, proofs, backup) ==
  IF fields.paused THEN "paused"
  ELSE IF fields.float = "stop" THEN "auto_paused"
  ELSE IF /\ fields.payment \in {"ok", "unknown"}
          /\ otsd = "ok"
          /\ wstatus \in {"ok", "absent"}
          /\ proofs \in {"ok", "absent"}
          /\ backup \in {"ok", "local_only", "absent"}
          /\ fields.float \in {"ok", "inactive"}
       THEN "ok" ELSE "degraded"

-------------------------------------------------------------------------------
\* The world

Spend == balance' \in Balance /\ UNCHANGED <<paused, wallet, check, early, answer, lastRead>>

Pause == paused' = ~paused /\ UNCHANGED <<balance, wallet, check, early, answer, lastRead>>

\* WALLET_STATUS_MAX_AGE_SECONDS pass without a check that writes.
Age ==
  /\ wallet.status \notin {"absent", "malformed"}
  /\ ~wallet.stale
  /\ wallet' = [wallet EXCEPT !.stale = TRUE]
  /\ UNCHANGED <<balance, paused, check, early, answer, lastRead>>

-------------------------------------------------------------------------------
\* ops/wallet-balance-check.sh

\* What the script makes of a balance, or of a call that failed.
StatusOf(sats) ==
  [status |-> IF sats = None THEN "unknown" ELSE IF sats < MinSats THEN "low" ELSE "ok",
   balance_sats |-> sats, stale |-> FALSE]

ReadBalance ==
  /\ check = None
  /\ check' = StatusOf(balance)
  /\ UNCHANGED <<balance, paused, wallet, early, answer, lastRead>>

\* Slip: the status of the last reading is kept, the balance is not.
ReadFailsKeepingStatus ==
  /\ check = None
  /\ check' = [wallet EXCEPT !.balance_sats = None]
  /\ UNCHANGED <<balance, paused, wallet, early, answer, lastRead>>

\* fail_unknown: the failure is written, and no balance.
ReadFails ==
  /\ check = None
  /\ check' = StatusOf(None)
  /\ UNCHANGED <<balance, paused, wallet, early, answer, lastRead>>

\* write_status, atomic.
WriteStatus ==
  /\ check # None
  /\ wallet' = check
  /\ lastRead' = IF check.balance_sats = None THEN lastRead ELSE check.balance_sats
  /\ check' = None
  /\ UNCHANGED <<balance, paused, early, answer>>

\* The file cannot be written, which may leave it empty, or the script is killed.
WriteFails ==
  /\ check # None
  /\ check' = None
  /\ wallet' \in {wallet, Emptied}
  /\ UNCHANGED <<balance, paused, early, answer, lastRead>>

-------------------------------------------------------------------------------
\* GET /health

HealthBegins ==
  /\ early = None
  /\ \E payment \in {"ok", "degraded", "unknown"} :
       early' = [paused |-> paused, float |-> FloatState, payment |-> payment]
  /\ UNCHANGED <<balance, paused, wallet, check, answer, lastRead>>

\* The calendar's answer and the files of the proof sweep and of the backup are
\* whatever they are at this moment.
HealthAnswers ==
  /\ early # None
  /\ \E otsd \in {"ok", "unreachable"},
        proofs \in File({"ok", "mismatch", "attention"}),
        backup \in File({"ok", "local_only", "attention", "failed"}) :
       answer' = Verdict(early, otsd, FileStatus(wallet), FileStatus(proofs),
                         FileStatus(backup))
  /\ early' = None
  /\ UNCHANGED <<balance, paused, wallet, check, lastRead>>

Next ==
  \/ Spend \/ Pause \/ Age
  \/ ReadBalance \/ ReadFails \/ WriteStatus \/ WriteFails
  \/ HealthBegins \/ HealthAnswers

Spec == Init /\ [][Next]_vars

\* The check's timer fires, whatever comes of the check, and time passes.
FairSpec ==
  /\ Spec
  /\ WF_vars(ReadBalance \/ ReadFails)
  /\ WF_vars(WriteStatus \/ WriteFails)
  /\ WF_vars(Age)
-------------------------------------------------------------------------------

\* /health says that the balance is not known.
Unknown == FileStatus(wallet) \in {"unknown", "stale"}

\* The door is open although the last balance that was read is below the cap only while
\* /health says that the wallet is not known: a failed check, which takes the balance
\* out of the file and so ends an auto-pause, is never quiet.
LostReadingIsLoud ==
  GateOpen /\ lastRead # None /\ lastRead < Cap => Unknown

\* An answer is never "ok" while the float keeps the door shut, though the float was
\* looked at before the probe and the wallet only after it.
OkMeansNotStopped ==
  [][early # None /\ answer' = "ok" /\ early' = None => FloatState # "stop"]_vars

\* An answer is never "ok" on a wallet that is not: the last balance that was read is
\* then WALLET_MIN_SATS at least, also when checks have failed since, or one failed or
\* wrote while the probe was under way.  Only a deployment whose check has never told a
\* balance may answer "ok" without one.
OkMeansFunded ==
  [][early # None /\ answer' = "ok" /\ early' = None
       => lastRead = None \/ lastRead >= MinSats]_vars

\* A wallet that stays below the cap is noticed in the end and from then on: the door
\* is shut or the wallet's status is not known.  Also if the check's calls or writes
\* fail for ever.
DrainIsNoticed ==
  <>[](balance < Cap /\ wallet.status # "absent") => <>[](FloatState = "stop" \/ Unknown)

\* "Clears itself on recovery": if checks succeed again and again, a wallet that stays
\* at or above the cap has the door open in the end, at least for the float.
AutoPauseEnds ==
  SF_vars(ReadBalance) /\ SF_vars(WriteStatus) /\ <>[](balance >= Cap)
    => <>[](FloatState # "stop")
===============================================================================
