------------------------------ MODULE ProofSweep ------------------------------
(***************************************************************************)
(* The operator's own proof files: ops/upgrade-all-proofs.sh, which a      *)
(* timer runs over every proof.ots and which tells /health what it found,  *)
(* and ops/upgrade-proof.sh, which it calls for each proof and which the   *)
(* operator also runs by hand, perhaps on the same proof at the same time. *)
(*                                                                         *)
(* upgrade-proof.sh leaves the file to `ots upgrade`: the proof is renamed *)
(* to proof.ots.bak, unless that name is taken, and written anew.  Any run *)
(* may be killed between any two of its steps.                             *)
(***************************************************************************)
EXTENDS Naturals

CONSTANTS Proof,   \* the proof artifacts
          MaxKills, \* bound: kills in a behaviour
          None

\* What a sweep has counted, as far as its status depends on it.
Tally == [mismatch : BOOLEAN, attention : BOOLEAN]

ASSUME ProofSweepAssumption ==
  /\ MaxKills \in Nat
  /\ None \notin Proof \cup Tally

VARIABLES
  made,     \* the artifacts there are
  calendar, \* those the calendar holds a Bitcoin attestation for
  file,     \* what proof.ots is, by artifact
  bak,      \* what proof.ots.bak is
  pc,       \* the next step of each run of upgrade-proof.sh
  at,       \* the proof of each run, or None
  todo,     \* the proofs listed and not taken yet
  sweep,    \* the tally of the sweep under way, or None
  status,   \* the status in the proofs-status file
  kills,    \* kills so far
  \* for the properties only
  shared,   \* proofs that two hands were at together, and none alone since
  spoiled,  \* those where, since, a write failed or was cut off
  ready     \* proofs listed, held by the calendar then, and left to the sweep since

artifacts == <<made, calendar, file, bak>>
runs == <<pc, at, todo, sweep>>
observed == <<shared, spoiled, ready>>
vars == <<artifacts, runs, status, kills, observed>>

Run == {"sweep", "hand"} \* of upgrade-proof.sh
Content == {"none", "torn", "pending", "backed"}
Good == {"pending", "backed"}
Status == {"ok", "mismatch", "attention"}

\* There is a copy of the proof, in the file or in its .bak.
Held(p) == file[p] \in Good \/ bak[p] \in Good

TypeOK ==
  /\ made \subseteq Proof
  /\ calendar \subseteq Proof
  /\ file \in [Proof -> Content]
  /\ bak \in [Proof -> Content]
  /\ pc \in [Run -> {"idle", "info", "cmp", "rm", "fetch", "rename", "write"}]
  /\ at \in [Run -> Proof \cup {None}]
  /\ todo \subseteq Proof
  /\ sweep \in Tally \cup {None}
  /\ status \in Status \cup {"absent", "unknown"}
  /\ kills \in 0..MaxKills
  /\ shared \subseteq Proof
  /\ spoiled \subseteq shared
  /\ ready \subseteq Proof

Init ==
  /\ made = {}
  /\ calendar = {}
  /\ file = [p \in Proof |-> "none"]
  /\ bak = [p \in Proof |-> "none"]
  /\ pc = [r \in Run |-> "idle"]
  /\ at = [r \in Run |-> None]
  /\ todo = {}
  /\ sweep = None
  /\ status = "absent"
  /\ kills = 0
  /\ shared = {}
  /\ spoiled = {}
  /\ ready = {}

-------------------------------------------------------------------------------
\* The world

\* A pending proof is saved.
Make(p) ==
  /\ p \notin made
  /\ made' = made \cup {p}
  /\ file' = [file EXCEPT ![p] = "pending"]
  /\ UNCHANGED <<calendar, bak, runs, status, kills, observed>>

Anchor(p) ==
  /\ p \in made \ calendar
  /\ calendar' = calendar \cup {p}
  /\ UNCHANGED <<made, file, bak, runs, status, kills, observed>>

\* The operator puts a proof that is damaged or missing back from its .bak.
Restore(p) ==
  /\ at["hand"] = None
  /\ file[p] \notin Good
  /\ bak[p] \in Good
  /\ file' = [file EXCEPT ![p] = bak[p]]
  /\ shared' = shared \cup ({p} \cap {at["sweep"]})
  /\ ready' = ready \ {p}
  /\ UNCHANGED <<made, calendar, bak, runs, status, kills, spoiled>>

-------------------------------------------------------------------------------
\* ops/upgrade-proof.sh, run r

GoOn(r, next) ==
  /\ pc' = [pc EXCEPT ![r] = next]
  /\ UNCHANGED <<at, sweep>>

\* The run prints its state; the sweep counts it, and an unknown one as attention.
End(r, state) ==
  /\ pc' = [pc EXCEPT ![r] = "idle"]
  /\ at' = [at EXCEPT ![r] = None]
  /\ sweep' = IF r = "hand" THEN sweep
              ELSE [mismatch  |-> sweep.mismatch \/ state = "attestation_mismatch",
                    attention |-> sweep.attention \/ state = "needs_attention"]

\* `ots info`: a proof that is not there, one that is backed, any other.
Info(r) ==
  /\ pc[r] = "info"
  /\ LET content == file[at[r]]
     IN  \/ content = "none" /\ End(r, "needs_attention")
         \/ content = "backed" /\ End(r, "bitcoin_backed")
         \/ content \in {"torn", "pending"} /\ GoOn(r, "cmp")
  /\ UNCHANGED <<artifacts, todo, status, kills, observed>>

\* Slip: any .bak is cleared.
CompareNothing(r) ==
  /\ pc[r] = "cmp"
  /\ LET p == at[r]
     IN  GoOn(r, IF bak[p] # "none" THEN "rm" ELSE "fetch")
  /\ UNCHANGED <<artifacts, todo, status, kills, observed>>

\* A .bak that is the same as the proof is about to be cleared.
Compare(r) ==
  /\ pc[r] = "cmp"
  /\ LET p == at[r]
     IN  GoOn(r, IF bak[p] # "none" /\ bak[p] = file[p] THEN "rm" ELSE "fetch")
  /\ UNCHANGED <<artifacts, todo, status, kills, observed>>

Remove(r) ==
  /\ pc[r] = "rm"
  /\ bak' = [bak EXCEPT ![at[r]] = "none"]
  /\ GoOn(r, "fetch")
  /\ UNCHANGED <<made, calendar, file, todo, status, kills, observed>>

\* Slip: a calendar that cannot be asked is one that has not anchored yet, and a file
\* that cannot be read with it.
FetchForgives(r) ==
  /\ pc[r] = "fetch"
  /\ LET p == at[r]
     IN  \/ file[p] = "backed" /\ End(r, "bitcoin_backed")
         \/ file[p] = "pending" /\ p \in calendar /\ GoOn(r, "rename")
         \/ file[p] # "backed" /\ End(r, "waiting_for_bitcoin")
  /\ UNCHANGED <<artifacts, todo, status, kills, observed>>

\* `ots upgrade` reads the proof and asks the calendar, which may not answer.
Fetch(r) ==
  /\ pc[r] = "fetch"
  /\ LET p == at[r]
     IN  \/ file[p] = "backed" /\ End(r, "bitcoin_backed")
         \/ file[p] = "pending" /\ p \in calendar /\ GoOn(r, "rename")
         \/ file[p] = "pending" /\ p \notin calendar /\ End(r, "waiting_for_bitcoin")
         \/ file[p] # "backed" /\ End(r, "needs_attention")
  /\ UNCHANGED <<artifacts, todo, status, kills, observed>>

\* It renames the proof; the name may be taken, or the directory not writable.
Rename(r) ==
  /\ pc[r] = "rename"
  /\ LET p == at[r]
     IN  /\ bak[p] = "none"
         /\ file[p] # "none"
         /\ bak' = [bak EXCEPT ![p] = file[p]]
         /\ file' = [file EXCEPT ![p] = "none"]
  /\ GoOn(r, "write")
  /\ UNCHANGED <<made, calendar, todo, status, kills, observed>>

\* Slip: an attestation that could not be put into the file reads as pending.
RenameFailsAsWaiting(r) ==
  /\ pc[r] = "rename"
  /\ End(r, "waiting_for_bitcoin")
  /\ UNCHANGED <<artifacts, todo, status, kills, observed>>

\* "Could not backup timestamp"
RenameFails(r) ==
  /\ pc[r] = "rename"
  /\ End(r, "attestation_mismatch")
  /\ UNCHANGED <<artifacts, todo, status, kills, observed>>

\* It writes the upgraded proof, under a name that must not exist.
Write(r) ==
  /\ pc[r] = "write"
  /\ file[at[r]] = "none"
  /\ file' = [file EXCEPT ![at[r]] = "backed"]
  /\ End(r, "bitcoin_backed")
  /\ UNCHANGED <<made, calendar, bak, todo, status, kills, observed>>

\* "Could not upgrade timestamp": somebody else has written it, or the disk is full.
WriteFails(r) ==
  /\ pc[r] = "write"
  /\ \/ UNCHANGED file
     \/ file[at[r]] = "none" /\ file' = [file EXCEPT ![at[r]] = "torn"]
  /\ End(r, "attestation_mismatch")
  /\ spoiled' = spoiled \cup ({at[r]} \cap shared)
  /\ UNCHANGED <<made, calendar, bak, todo, status, kills, shared, ready>>

\* A run is cut off, perhaps between its rename and its write.
CutOff(r) ==
  spoiled' = IF pc[r] = "write" THEN spoiled \cup ({at[r]} \cap shared) ELSE spoiled

\* The run is killed, and the sweep goes on without a state to count.
Die(r) ==
  /\ pc[r] # "idle"
  /\ kills < MaxKills
  /\ kills' = kills + 1
  /\ End(r, "needs_attention")
  /\ CutOff(r)
  /\ UNCHANGED <<artifacts, todo, status, shared, ready>>

Upgrade(r) ==
  \/ Info(r) \/ Compare(r) \/ Remove(r) \/ Fetch(r) \/ Rename(r) \/ RenameFails(r)
  \/ Write(r) \/ WriteFails(r)

\* A run comes to p, where the other one may be; alone, and with a copy there, it starts
\* afresh.
Arrive(other, p) ==
  /\ shared' = IF at[other] = p THEN shared \cup {p}
               ELSE IF Held(p) THEN shared \ {p} ELSE shared
  /\ spoiled' = spoiled \cap shared'

\* The operator runs it, on any artifact.
ByHand(p) ==
  /\ p \in made
  /\ at["hand"] = None
  /\ at' = [at EXCEPT !["hand"] = p]
  /\ pc' = [pc EXCEPT !["hand"] = "info"]
  /\ Arrive("sweep", p)
  /\ ready' = ready \ {p}
  /\ UNCHANGED <<artifacts, todo, sweep, status, kills>>

-------------------------------------------------------------------------------
\* ops/upgrade-all-proofs.sh

List ==
  /\ sweep = None
  /\ sweep' = [mismatch |-> FALSE, attention |-> FALSE]
  /\ todo' = {p \in Proof : file[p] # "none"}
  /\ ready' = (todo' \cap calendar) \ {at["hand"]}
  /\ UNCHANGED <<artifacts, pc, at, status, kills, shared, spoiled>>

\* fail_scan, which a full disk may keep from saying so
ListFails ==
  /\ sweep = None
  /\ status' \in {"attention", "unknown"}
  /\ UNCHANGED <<artifacts, runs, kills, observed>>

Take(p) ==
  /\ sweep # None
  /\ at["sweep"] = None
  /\ p \in todo
  /\ todo' = todo \ {p}
  /\ at' = [at EXCEPT !["sweep"] = p]
  /\ pc' = [pc EXCEPT !["sweep"] = "info"]
  /\ Arrive("hand", p)
  /\ UNCHANGED <<artifacts, sweep, status, kills, ready>>

\* One status for the sweep: a mismatch before anything else that needs attention.
Publish ==
  /\ sweep # None
  /\ at["sweep"] = None
  /\ todo = {}
  /\ status' = IF sweep.mismatch THEN "mismatch"
               ELSE IF sweep.attention THEN "attention" ELSE "ok"
  /\ sweep' = None
  /\ UNCHANGED <<artifacts, pc, at, todo, kills, observed>>

\* The disk is full: printf fails, and mv puts an empty file in the place of the old one,
\* which /health cannot tell anything from.
PublishEmpties ==
  /\ sweep # None
  /\ at["sweep"] = None
  /\ todo = {}
  /\ status' = "unknown"
  /\ sweep' = None
  /\ UNCHANGED <<artifacts, pc, at, todo, kills, observed>>

\* The sweep is killed, or exits without a new status (mktemp fails).
Kill ==
  /\ sweep # None
  /\ kills < MaxKills
  /\ kills' = kills + 1
  /\ pc' = [pc EXCEPT !["sweep"] = "idle"]
  /\ at' = [at EXCEPT !["sweep"] = None]
  /\ todo' = {}
  /\ sweep' = None
  /\ ready' = {}
  /\ CutOff("sweep")
  /\ UNCHANGED <<artifacts, status, shared>>

Next ==
  \/ \E p \in Proof : Make(p) \/ Anchor(p) \/ Restore(p) \/ ByHand(p) \/ Take(p)
  \/ \E r \in Run : Upgrade(r) \/ Die(r)
  \/ List \/ ListFails \/ Publish \/ PublishEmpties \/ Kill

Spec == Init /\ [][Next]_vars

\* The timer fires and a sweep that is not killed goes on.
FairSpec ==
  /\ Spec
  /\ WF_vars(List \/ ListFails)
  /\ WF_vars(Upgrade("sweep"))
  /\ WF_vars((\E p \in Proof : Take(p)) \/ Publish \/ PublishEmpties)

-------------------------------------------------------------------------------
\* What must hold

\* Whatever a run does, and wherever it is killed, there is a copy of the proof: a .bak is
\* cleared only while the file holds the same (upgrade-proof.sh).  When the sweep and the
\* operator were at the proof together, the .bak that the one compared may be the only
\* copy once the other has renamed the file; that one is then about to write it again,
\* and the proof is lost only if its write fails or it is killed first.
NothingLost ==
  /\ \A p \in made \ shared : Held(p)
  /\ \A p \in shared \ spoiled : Held(p) \/ \E r \in Run : at[r] = p /\ pc[r] = "write"

\* A sweep that reports ok has left nothing pending that the calendar held, and the
\* sweep listed, when it began: a blocked write is never misread as still waiting.  A
\* proof that the operator took in hand meanwhile is left out.
OkIsHonest ==
  [][ Publish /\ status' = "ok" => \A p \in ready : file[p] = "backed" ]_vars

\* A listed proof that stays damaged, or pending though the calendar holds its
\* attestation, is reported from some sweep on, and every sweep after it, if the calls of
\* `ots` end (the timer's unit sets them no timeout).
DamageIsReported ==
  \A p \in Proof :
    <>[](p \in calendar /\ file[p] \in {"torn", "pending"}) => <>[](status # "ok" /\ status # "absent")
===============================================================================
