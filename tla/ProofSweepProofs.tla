--------------------------- MODULE ProofSweepProofs ---------------------------
(***************************************************************************)
(* ProofSweep.tla's safety properties, for any number of proofs and kills. *)
(*                                                                         *)
(* The argument: a proof that was never shared has at most one run of      *)
(* upgrade-proof.sh at it, so what that run found at one step still holds  *)
(* at its next (Kept); a sweep that is through with a proof the calendar   *)
(* held has either backed it or counted it (Accounted); and of two runs at *)
(* one proof, the one about to clear the .bak does so under a good file or *)
(* under the other's coming write (Raced).                                 *)
(***************************************************************************)
EXTENDS ProofSweep, TLAPS

\* What is listed or worked at is there, and an artifact that is not has no files.
Places ==
  /\ calendar \subseteq made
  /\ todo \subseteq made
  /\ \A r \in Run : /\ pc[r] = "idle" <=> at[r] = None
                    /\ at[r] # None => at[r] \in made
  /\ sweep = None => at["sweep"] = None /\ todo = {}
  /\ \A p \in Proof \ made : file[p] = "none" /\ bak[p] = "none"

\* Two runs are at one proof only if it is shared.
Apart == at["sweep"] = at["hand"] /\ at["hand"] # None => at["hand"] \in shared

\* A copy of p is in the file or in its .bak, and in the one a run relies on at each
\* step: the file while its .bak is cleared or its name is about to be, the .bak after.
KeptAt(p) ==
  /\ Held(p)
  /\ \A r \in Run : at[r] = p => /\ pc[r] \in {"rm", "rename"} => file[p] \in Good
                                 /\ pc[r] = "write" => bak[p] \in Good

Kept == \A p \in made \ shared : KeptAt(p)

\* A ready proof is left to the sweep, which has yet to see it, is at it, has found or
\* made it backed, or has counted what keeps its status from being ok.
AccountedFor(p) ==
  /\ p \in calendar
  /\ at["hand"] # p
  /\ sweep # None => \/ p \in todo
                     \/ at["sweep"] = p
                     \/ file[p] = "backed"
                     \/ sweep.mismatch
                     \/ sweep.attention

Accounted == \A p \in ready : AccountedFor(p)

\* A run is between its rename of p and its write of it.
Writing(p) == \E r \in Run : at[r] = p /\ pc[r] = "write"

\* What the two runs leave of a proof they were at together, while no write of it failed.
RacedAt(p) ==
  /\ Held(p) \/ Writing(p)
  /\ \A r \in Run : at[r] = p /\ pc[r] = "rm" => file[p] \in Good \/ Writing(p)

Raced == \A p \in shared \ spoiled : RacedAt(p)

\* The inductive invariant, in two halves: the second needs the first, not the reverse.
Base == TypeOK /\ Places /\ Apart /\ Kept /\ Accounted
IInv == Base /\ Raced

LEMMA InitIInv == Init => IInv
<1> SUFFICES ASSUME Init PROVE IInv
  OBVIOUS
<1>1. TypeOK
  BY ProofSweepAssumption DEF Init, TypeOK, Run, Content, Status
<1>2. Places
  BY <1>1 DEF Init, Places, Run
<1>3. QED
  BY <1>1, <1>2 DEF Init, IInv, Base, Apart, Kept, Accounted, Raced, Run

-------------------------------------------------------------------------------
(* What a step of upgrade-proof.sh does to the runs.                       *)

Label == {"info", "cmp", "rm", "fetch", "rename", "write"}

\* Every run that is under way has a proof, and the sweep's has a tally to be counted in.
LEMMA AtWork ==
  ASSUME Base, NEW r \in Run, pc[r] # "idle"
  PROVE  /\ at[r] \in made
         /\ at[r] \in Proof
         /\ at[r] # None
         /\ r = "sweep" => sweep \in Tally /\ sweep # None
<1>1. at[r] # None /\ at[r] \in made
  BY DEF Base, Places
<1>2. at[r] \in Proof
  BY <1>1 DEF Base, TypeOK
<1>3. r = "sweep" => sweep \in Tally /\ sweep # None
  BY <1>1 DEF Base, TypeOK, Places
<1>4. QED
  BY <1>1, <1>2, <1>3

\* A run that goes on stays where it is.
LEMMA GoingOn ==
  ASSUME Base, NEW r \in Run, pc[r] # "idle", NEW next \in Label, GoOn(r, next),
         UNCHANGED <<made, calendar, todo, shared, ready>>
  PROVE  /\ pc' \in [Run -> Label \cup {"idle"}]
         /\ pc'[r] = next
         /\ \A q \in Run \ {r} : pc'[q] = pc[q]
         /\ at' = at
         /\ sweep' = sweep
         /\ Apart'
         /\ \A q \in Run : /\ pc'[q] = "idle" <=> at'[q] = None
                           /\ at'[q] # None => at'[q] \in made'
<1>1. /\ pc' = [pc EXCEPT ![r] = next]
      /\ at' = at
      /\ sweep' = sweep
  BY DEF GoOn
<1>2. pc \in [Run -> Label \cup {"idle"}]
  BY DEF Base, TypeOK, Label
<1>3. /\ pc' \in [Run -> Label \cup {"idle"}]
      /\ pc'[r] = next
      /\ \A q \in Run \ {r} : pc'[q] = pc[q]
  BY <1>1, <1>2
<1>4. next # "idle" /\ at[r] # None
  BY AtWork DEF Label
<1>5. Apart'
  BY <1>1 DEF Base, Apart
<1>6. \A q \in Run : /\ pc'[q] = "idle" <=> at'[q] = None
                     /\ at'[q] # None => at'[q] \in made'
  BY <1>1, <1>3, <1>4 DEF Base, Places
<1>7. QED
  BY <1>1, <1>3, <1>5, <1>6

\* A run that ends leaves its proof, and the sweep counts a mismatch, and whatever needs
\* attention; it forgets neither.
LEMMA Ending ==
  ASSUME Base, NEW r \in Run, pc[r] # "idle", NEW state, End(r, state),
         UNCHANGED <<made, calendar, todo, shared, ready>>
  PROVE  /\ pc' \in [Run -> Label \cup {"idle"}]
         /\ at' \in [Run -> Proof \cup {None}]
         /\ pc'[r] = "idle"
         /\ at'[r] = None
         /\ \A q \in Run \ {r} : pc'[q] = pc[q] /\ at'[q] = at[q]
         /\ sweep' \in Tally \cup {None}
         /\ sweep' = None <=> sweep = None
         /\ sweep # None /\ sweep.mismatch => sweep'.mismatch
         /\ sweep # None /\ sweep.attention => sweep'.attention
         /\ r = "sweep" /\ state = "attestation_mismatch" => sweep'.mismatch
         /\ r = "sweep" /\ state = "needs_attention" => sweep'.attention
         /\ Apart'
         /\ \A q \in Run : /\ pc'[q] = "idle" <=> at'[q] = None
                           /\ at'[q] # None => at'[q] \in made'
<1>1. /\ pc' = [pc EXCEPT ![r] = "idle"]
      /\ at' = [at EXCEPT ![r] = None]
  BY DEF End
<1>2. pc \in [Run -> Label \cup {"idle"}] /\ at \in [Run -> Proof \cup {None}]
  BY DEF Base, TypeOK, Label
<1>3. /\ pc' \in [Run -> Label \cup {"idle"}]
      /\ at' \in [Run -> Proof \cup {None}]
      /\ pc'[r] = "idle"
      /\ at'[r] = None
      /\ \A q \in Run \ {r} : pc'[q] = pc[q] /\ at'[q] = at[q]
  BY <1>1, <1>2
<1>4. /\ sweep' \in Tally \cup {None}
      /\ sweep' = None <=> sweep = None
      /\ sweep # None /\ sweep.mismatch => sweep'.mismatch
      /\ sweep # None /\ sweep.attention => sweep'.attention
      /\ r = "sweep" /\ state = "attestation_mismatch" => sweep'.mismatch
      /\ r = "sweep" /\ state = "needs_attention" => sweep'.attention
  <2>1. CASE r = "hand"
    <3>1. sweep' = sweep
      BY <2>1 DEF End
    <3>2. QED
      BY <2>1, <3>1 DEF Base, TypeOK
  <2>2. CASE r = "sweep"
    <3>1. sweep \in Tally /\ sweep # None
      BY <2>2, AtWork
    <3>2. sweep' = [mismatch  |-> sweep.mismatch \/ state = "attestation_mismatch",
                    attention |-> sweep.attention \/ state = "needs_attention"]
      BY <2>2 DEF End
    <3>3. sweep' \in Tally
      BY <3>1, <3>2 DEF Tally
    <3>4. sweep' # None
      BY <3>3, ProofSweepAssumption
    <3>5. QED
      BY <3>1, <3>2, <3>3, <3>4
  <2>3. QED
    BY <2>1, <2>2 DEF Run
<1>5. Apart'
  BY <1>3 DEF Base, Apart, Run
<1>6. \A q \in Run : /\ pc'[q] = "idle" <=> at'[q] = None
                     /\ at'[q] # None => at'[q] \in made'
  BY <1>3 DEF Base, Places
<1>7. QED
  BY <1>3, <1>4, <1>5, <1>6

\* What of the files is left alone by a step of a run at p.
FilesBut(p) ==
  /\ file' \in [Proof -> Content]
  /\ bak' \in [Proof -> Content]
  /\ \A q \in Proof \ {p} : file'[q] = file[q] /\ bak'[q] = bak[q]

\* A run that goes on keeps the invariant if what its next step relies on is there.
LEMMA GoingOnBase ==
  ASSUME Base, NEW r \in Run, pc[r] # "idle", NEW next \in Label, GoOn(r, next),
         UNCHANGED <<made, calendar, todo, status, kills, shared, ready>>,
         spoiled' \subseteq shared,
         FilesBut(at[r]),
         at[r] \notin shared =>
           /\ file'[at[r]] \in Good \/ bak'[at[r]] \in Good
           /\ next \in {"rm", "rename"} => file'[at[r]] \in Good
           /\ next = "write" => bak'[at[r]] \in Good
  PROVE  Base'
<1>1. /\ pc' \in [Run -> Label \cup {"idle"}]
      /\ pc'[r] = next
      /\ \A q \in Run \ {r} : pc'[q] = pc[q]
      /\ at' = at
      /\ sweep' = sweep
      /\ Apart'
      /\ \A q \in Run : /\ pc'[q] = "idle" <=> at'[q] = None
                        /\ at'[q] # None => at'[q] \in made'
  BY GoingOn
<1>2. at[r] \in made /\ at[r] \in Proof /\ (r = "sweep" => sweep # None)
  BY AtWork
<1>3. TypeOK'
  BY <1>1 DEF Base, TypeOK, FilesBut, Label
<1>4. Places'
  BY <1>1, <1>2 DEF Base, Places, FilesBut
<1>5. Kept'
  <2>1. SUFFICES ASSUME NEW p \in made \ shared
                 PROVE  KeptAt(p)'
    BY DEF Kept
  <2>2. p \in Proof /\ KeptAt(p)
    BY DEF Base, TypeOK, Kept
  <2>3. CASE p = at[r]
    <3>1. \A q \in Run \ {r} : at[q] # p
      BY <1>2, <2>1, <2>3, ProofSweepAssumption DEF Base, Apart, Run
    <3>2. QED
      BY <1>1, <2>1, <2>3, <3>1 DEF KeptAt, Held
  <2>4. CASE p # at[r]
    <3>1. file'[p] = file[p] /\ bak'[p] = bak[p]
      BY <2>2, <2>4 DEF FilesBut
    <3>2. QED
      BY <1>1, <2>2, <2>4, <3>1 DEF KeptAt, Held
  <2>5. QED
    BY <2>3, <2>4
<1>6. Accounted'
  <2>1. SUFFICES ASSUME NEW p \in ready
                 PROVE  AccountedFor(p)'
    BY DEF Accounted
  <2>2. p \in Proof /\ AccountedFor(p)
    BY DEF Base, TypeOK, Accounted
  <2>3. p = at[r] => r = "sweep"
    BY <2>2 DEF AccountedFor, Run
  <2>4. CASE p = at[r]
    BY <1>1, <2>2, <2>3, <2>4 DEF AccountedFor
  <2>5. CASE p # at[r]
    <3>1. file'[p] = file[p]
      BY <2>2, <2>5 DEF FilesBut
    <3>2. QED
      BY <1>1, <2>2, <3>1 DEF AccountedFor
  <2>6. QED
    BY <2>4, <2>5
<1>7. QED
  BY <1>1, <1>3, <1>4, <1>5, <1>6 DEF Base

\* So does a run that ends, if it leaves a copy and, of a ready proof, either a backed
\* one or a state that keeps the sweep's status from being ok.
LEMMA EndingBase ==
  ASSUME Base, NEW r \in Run, pc[r] # "idle", NEW state, End(r, state),
         UNCHANGED <<made, calendar, todo, status, shared, ready>>,
         spoiled' \subseteq shared,
         kills' \in 0..MaxKills,
         FilesBut(at[r]),
         at[r] \notin shared => file'[at[r]] \in Good \/ bak'[at[r]] \in Good,
         r = "sweep" /\ at[r] \in ready =>
           file'[at[r]] = "backed" \/ state \in {"attestation_mismatch", "needs_attention"}
  PROVE  Base'
<1>1. /\ pc' \in [Run -> Label \cup {"idle"}]
      /\ at' \in [Run -> Proof \cup {None}]
      /\ pc'[r] = "idle"
      /\ at'[r] = None
      /\ \A q \in Run \ {r} : pc'[q] = pc[q] /\ at'[q] = at[q]
      /\ sweep' \in Tally \cup {None}
      /\ sweep' = None <=> sweep = None
      /\ sweep # None /\ sweep.mismatch => sweep'.mismatch
      /\ sweep # None /\ sweep.attention => sweep'.attention
      /\ r = "sweep" /\ state = "attestation_mismatch" => sweep'.mismatch
      /\ r = "sweep" /\ state = "needs_attention" => sweep'.attention
      /\ Apart'
      /\ \A q \in Run : /\ pc'[q] = "idle" <=> at'[q] = None
                        /\ at'[q] # None => at'[q] \in made'
  BY Ending
<1>2. at[r] \in made /\ at[r] \in Proof /\ at[r] # None /\ (r = "sweep" => sweep # None)
  BY AtWork
<1>3. TypeOK'
  BY <1>1 DEF Base, TypeOK, FilesBut, Label
<1>4. Places'
  <2>1. sweep' = None => at'["sweep"] = None /\ todo' = {}
    BY <1>1, <1>2 DEF Base, Places, Run
  <2>2. QED
    BY <1>1, <1>2, <2>1 DEF Base, Places, FilesBut
<1>5. Kept'
  <2>1. SUFFICES ASSUME NEW p \in made \ shared
                 PROVE  KeptAt(p)'
    BY DEF Kept
  <2>2. p \in Proof /\ p # None /\ KeptAt(p)
    BY ProofSweepAssumption DEF Base, TypeOK, Kept
  <2>3. CASE p = at[r]
    <3>1. \A q \in Run \ {r} : at[q] # p
      BY <1>2, <2>1, <2>3 DEF Base, Apart, Run
    <3>2. QED
      BY <1>1, <2>1, <2>2, <2>3, <3>1 DEF KeptAt, Held
  <2>4. CASE p # at[r]
    <3>1. file'[p] = file[p] /\ bak'[p] = bak[p]
      BY <2>2, <2>4 DEF FilesBut
    <3>2. QED
      BY <1>1, <2>2, <2>4, <3>1 DEF KeptAt, Held
  <2>5. QED
    BY <2>3, <2>4
<1>6. Accounted'
  <2>1. SUFFICES ASSUME NEW p \in ready
                 PROVE  AccountedFor(p)'
    BY DEF Accounted
  <2>2. p \in Proof /\ p # None /\ AccountedFor(p)
    BY ProofSweepAssumption DEF Base, TypeOK, Accounted
  <2>3. p \in calendar' /\ at'["hand"] # p
    BY <1>1, <2>2 DEF AccountedFor, Run
  <2>4. CASE p = at[r]
    <3>1. r = "sweep"
      BY <2>2, <2>4 DEF AccountedFor, Run
    <3>2. QED
      BY <1>1, <2>1, <2>3, <2>4, <3>1 DEF AccountedFor
  <2>5. CASE p # at[r]
    <3>1. file'[p] = file[p]
      BY <2>2, <2>5 DEF FilesBut
    <3>2. at["sweep"] = p => at'["sweep"] = p
      BY <1>1, <2>5 DEF Run
    <3>3. QED
      BY <1>1, <2>2, <2>3, <3>1, <3>2 DEF AccountedFor
  <2>6. QED
    BY <2>4, <2>5
<1>7. QED
  BY <1>1, <1>3, <1>4, <1>5, <1>6 DEF Base

-------------------------------------------------------------------------------
(* Every step keeps the invariant.                                         *)

\* A step of upgrade-proof.sh, or a kill of it.
LEMMA UpgradeBase ==
  ASSUME Base, NEW r \in Run, Upgrade(r) \/ Die(r)
  PROVE  Base'
<1> DEFINE p == at[r]
<1>1. pc[r] # "idle"
  BY DEF Upgrade, Info, Compare, Remove, Fetch, Rename, RenameFails, Write, WriteFails, Die
<1>2. p \in made /\ p \in Proof
  BY <1>1, AtWork
<1>3. /\ file \in [Proof -> Content]
      /\ bak \in [Proof -> Content]
      /\ kills \in 0..MaxKills
  BY DEF Base, TypeOK
<1>4. p \notin shared => /\ file[p] \in Good \/ bak[p] \in Good
                         /\ pc[r] \in {"rm", "rename"} => file[p] \in Good
                         /\ pc[r] = "write" => bak[p] \in Good
  BY <1>2 DEF Base, Kept, KeptAt, Held
<1>5. p \in ready => p \in calendar
  BY DEF Base, Accounted, AccountedFor
<1>6. UNCHANGED artifacts => FilesBut(p) /\ file'[p] = file[p] /\ bak'[p] = bak[p]
  BY <1>3 DEF artifacts, FilesBut
<1>7. spoiled' \subseteq shared
  BY DEF Upgrade, Info, Compare, Remove, Fetch, Rename, RenameFails, Write, WriteFails, Die,
         CutOff, observed, Base, TypeOK
<1>8. CASE Info(r)
  <2>1. FilesBut(p) /\ file' = file /\ bak' = bak
    BY <1>6, <1>8 DEF Info, artifacts
  <2>2. CASE file[p] = "none" /\ End(r, "needs_attention")
    BY <1>7, <1>1, <1>3, <1>4, <1>8, <2>1, <2>2, EndingBase DEF Info, artifacts, observed
  <2>3. CASE file[p] = "backed" /\ End(r, "bitcoin_backed")
    BY <1>7, <1>1, <1>3, <1>4, <1>8, <2>1, <2>3, EndingBase DEF Info, artifacts, observed
  <2>4. CASE GoOn(r, "cmp")
    BY <1>7, <1>1, <1>3, <1>4, <1>8, <2>1, <2>4, GoingOnBase
    DEF Info, artifacts, observed, Label
  <2>5. QED
    BY <1>8, <2>2, <2>3, <2>4 DEF Info
<1>9. CASE Compare(r)
  <2>1. FilesBut(p) /\ file' = file /\ bak' = bak
    BY <1>6, <1>9 DEF Compare, artifacts
  <2>2. CASE bak[p] # "none" /\ bak[p] = file[p]
    <3>1. GoOn(r, "rm")
      BY <1>9, <2>2 DEF Compare
    <3>2. p \notin shared => file[p] \in Good
      BY <1>4, <2>2
    <3>3. QED
      BY <1>7, <1>1, <1>3, <1>9, <2>1, <3>1, <3>2, GoingOnBase
      DEF Compare, artifacts, observed, Label
  <2>3. CASE ~(bak[p] # "none" /\ bak[p] = file[p])
    <3>1. GoOn(r, "fetch")
      BY <1>9, <2>3 DEF Compare
    <3>2. QED
      BY <1>7, <1>1, <1>3, <1>4, <1>9, <2>1, <3>1, GoingOnBase
      DEF Compare, artifacts, observed, Label
  <2>4. QED
    BY <2>2, <2>3
<1>10. CASE Remove(r)
  <2>1. /\ bak' = [bak EXCEPT ![p] = "none"]
        /\ file' = file
        /\ GoOn(r, "fetch")
        /\ pc[r] = "rm"
    BY <1>10 DEF Remove
  <2>2. FilesBut(p)
    BY <1>3, <2>1 DEF FilesBut, Content
  <2>3. QED
    BY <1>7, <1>1, <1>4, <1>10, <2>1, <2>2, GoingOnBase DEF Remove, observed, Label
<1>11. CASE Fetch(r)
  <2>1. FilesBut(p) /\ file' = file /\ bak' = bak
    BY <1>6, <1>11 DEF Fetch, artifacts
  <2>2. CASE file[p] = "backed" /\ End(r, "bitcoin_backed")
    BY <1>7, <1>1, <1>3, <1>4, <1>11, <2>1, <2>2, EndingBase DEF Fetch, artifacts, observed
  <2>3. CASE file[p] = "pending" /\ GoOn(r, "rename")
    BY <1>7, <1>1, <1>3, <1>4, <1>11, <2>1, <2>3, GoingOnBase
    DEF Fetch, artifacts, observed, Label, Good
  <2>4. CASE p \notin calendar /\ End(r, "waiting_for_bitcoin")
    BY <1>7, <1>1, <1>3, <1>4, <1>5, <1>11, <2>1, <2>4, EndingBase
    DEF Fetch, artifacts, observed
  <2>5. CASE End(r, "needs_attention")
    BY <1>7, <1>1, <1>3, <1>4, <1>11, <2>1, <2>5, EndingBase DEF Fetch, artifacts, observed
  <2>6. QED
    BY <1>11, <2>2, <2>3, <2>4, <2>5 DEF Fetch
<1>12. CASE Rename(r)
  <2>1. /\ pc[r] = "rename"
        /\ bak' = [bak EXCEPT ![p] = file[p]]
        /\ file' = [file EXCEPT ![p] = "none"]
        /\ GoOn(r, "write")
    BY <1>12 DEF Rename
  <2>2. FilesBut(p) /\ bak'[p] = file[p]
    BY <1>2, <1>3, <2>1 DEF FilesBut, Content
  <2>3. p \notin shared => bak'[p] \in Good
    BY <1>4, <2>1, <2>2
  <2>4. QED
    BY <1>7, <1>1, <1>12, <2>1, <2>2, <2>3, GoingOnBase DEF Rename, observed, Label
<1>13. CASE RenameFails(r)
  <2>1. FilesBut(p) /\ file' = file /\ bak' = bak
    BY <1>6, <1>13 DEF RenameFails, artifacts
  <2>2. QED
    BY <1>7, <1>1, <1>3, <1>4, <1>13, <2>1, EndingBase DEF RenameFails, artifacts, observed
<1>14. CASE Write(r)
  <2>1. file' = [file EXCEPT ![p] = "backed"] /\ bak' = bak /\ End(r, "bitcoin_backed")
    BY <1>14 DEF Write
  <2>2. FilesBut(p) /\ file'[p] = "backed"
    BY <1>2, <1>3, <2>1 DEF FilesBut, Content
  <2>3. QED
    BY <1>7, <1>1, <1>3, <1>14, <2>1, <2>2, EndingBase DEF Write, observed, Good
<1>15. CASE WriteFails(r)
  <2>1. /\ file' = file \/ file' = [file EXCEPT ![p] = "torn"]
        /\ bak' = bak
        /\ End(r, "attestation_mismatch")
        /\ pc[r] = "write"
    BY <1>15 DEF WriteFails
  <2>2. FilesBut(p)
    BY <1>2, <1>3, <2>1 DEF FilesBut, Content
  <2>3. QED
    BY <1>7, <1>1, <1>3, <1>4, <1>15, <2>1, <2>2, EndingBase DEF WriteFails, observed
<1>16. CASE Die(r)
  <2>1. FilesBut(p) /\ file' = file /\ bak' = bak
    BY <1>6, <1>16 DEF Die, artifacts
  <2>2. kills' \in 0..MaxKills
    BY <1>3, <1>16, ProofSweepAssumption DEF Die
  <2>3. QED
    BY <1>7, <1>1, <1>4, <1>16, <2>1, <2>2, EndingBase DEF Die, artifacts, observed
<1>17. QED
  BY <1>8, <1>9, <1>10, <1>11, <1>12, <1>13, <1>14, <1>15, <1>16 DEF Upgrade

\* What happens to the artifacts outside the scripts, and a run by hand.
LEMMA WorldBase ==
  ASSUME Base, NEW p \in Proof, Make(p) \/ Anchor(p) \/ Restore(p) \/ ByHand(p)
  PROVE  Base'
<1> USE DEF Base, TypeOK, Places, Apart, Kept, KeptAt, Held, Accounted, AccountedFor
<1>1. CASE Make(p)
  <2>1. /\ made' = made \cup {p}
        /\ file' = [file EXCEPT ![p] = "pending"]
        /\ UNCHANGED <<calendar, bak, runs, status, kills, observed>>
        /\ p \notin made
    BY <1>1 DEF Make
  <2>2. \A r \in Run : at[r] # p
    BY <2>1, ProofSweepAssumption
  <2>3. TypeOK'
    BY <2>1 DEF runs, observed, Content
  <2>4. Places' /\ Apart' /\ Accounted'
    BY <2>1 DEF runs, observed
  <2>5. Kept'
    BY <2>1, <2>2 DEF runs, observed, Good
  <2>6. QED
    BY <2>3, <2>4, <2>5
<1>2. CASE Anchor(p)
  BY <1>2 DEF Anchor, runs, observed
<1>3. CASE Restore(p)
  <2>1. /\ file[p] \notin Good
        /\ bak[p] \in Good
        /\ at["hand"] = None
        /\ file' = [file EXCEPT ![p] = bak[p]]
        /\ shared' = shared \cup ({p} \cap {at["sweep"]})
        /\ ready' = ready \ {p}
        /\ UNCHANGED <<made, calendar, bak, runs, status, kills, spoiled>>
    BY <1>3 DEF Restore
  <2>2. TypeOK' /\ file'[p] \in Good
    BY <2>1 DEF runs
  <2>3. p \in made
    BY <2>1 DEF Good
  <2>4. Places' /\ Apart' /\ Accounted'
    BY <2>1, <2>3 DEF runs
  <2>5. Kept'
    BY <2>1, <2>2 DEF runs
  <2>6. QED
    BY <2>2, <2>4, <2>5
<1>4. CASE ByHand(p)
  <2>1. /\ p \in made
        /\ at["hand"] = None
        /\ at' = [at EXCEPT !["hand"] = p]
        /\ pc' = [pc EXCEPT !["hand"] = "info"]
        /\ Arrive("sweep", p)
        /\ ready' = ready \ {p}
        /\ UNCHANGED <<artifacts, todo, sweep, status, kills>>
    BY <1>4 DEF ByHand
  <2>2. /\ at'["hand"] = p /\ at'["sweep"] = at["sweep"]
        /\ pc'["hand"] = "info" /\ pc'["sweep"] = pc["sweep"]
        /\ p # None
    BY <2>1, ProofSweepAssumption DEF Run
  <2>3. TypeOK'
    BY <2>1 DEF artifacts, Run, Arrive
  <2>4. Places'
    BY <2>1, <2>2 DEF artifacts, Run
  <2>5. Apart' /\ Accounted'
    BY <2>1, <2>2 DEF artifacts, Arrive
  <2>6. Kept'
    <3>1. SUFFICES ASSUME NEW q \in made \ shared' PROVE KeptAt(q)'
      BY <2>1 DEF artifacts
    <3>2. Held(q) /\ (q # p => KeptAt(q))
      BY <2>1 DEF Arrive
    <3>3. file' = file /\ bak' = bak
      BY <2>1 DEF artifacts
    <3>4. q = p => at'["sweep"] # q
      BY <2>1, <2>2 DEF Arrive
    <3>5. QED
      BY <2>2, <3>2, <3>3, <3>4 DEF Run
  <2>7. QED
    BY <2>3, <2>4, <2>5, <2>6
<1>5. QED
  BY <1>1, <1>2, <1>3, <1>4

\* A step of the sweep itself.
LEMMA SweepBase ==
  ASSUME Base, (\E p \in Proof : Take(p)) \/ List \/ ListFails \/ Publish \/ PublishEmpties \/ Kill
  PROVE  Base'
<1> USE DEF Base, TypeOK, Places, Apart, Kept, KeptAt, Held, Accounted, AccountedFor
<1>1. ASSUME NEW p \in Proof, Take(p)
      PROVE  Base'
  <2>1. /\ sweep # None
        /\ at["sweep"] = None
        /\ p \in todo
        /\ todo' = todo \ {p}
        /\ at' = [at EXCEPT !["sweep"] = p]
        /\ pc' = [pc EXCEPT !["sweep"] = "info"]
        /\ Arrive("hand", p)
        /\ UNCHANGED <<artifacts, sweep, status, kills, ready>>
    BY <1>1 DEF Take
  <2>2. /\ at'["sweep"] = p /\ at'["hand"] = at["hand"]
        /\ pc'["sweep"] = "info" /\ pc'["hand"] = pc["hand"]
        /\ p # None /\ p \in made
    BY <2>1, ProofSweepAssumption DEF Run
  <2>3. TypeOK'
    BY <2>1 DEF artifacts, Run, Arrive
  <2>4. Places'
    BY <2>1, <2>2 DEF artifacts, Run
  <2>5. Apart' /\ Accounted'
    <3>1. Apart'
      BY <2>1, <2>2 DEF Arrive
    <3>2. SUFFICES ASSUME NEW q \in ready PROVE AccountedFor(q)'
      BY <2>1, <3>1
    <3>3. AccountedFor(q) /\ calendar' = calendar /\ file' = file /\ sweep' = sweep
      BY <2>1 DEF artifacts
    <3>4. q \in todo => q \in todo' \/ at'["sweep"] = q
      BY <2>1, <2>2
    <3>5. at["sweep"] # q
      BY <2>1, ProofSweepAssumption
    <3>6. QED
      BY <2>2, <3>3, <3>4, <3>5
  <2>6. Kept'
    <3>1. SUFFICES ASSUME NEW q \in made \ shared' PROVE KeptAt(q)'
      BY <2>1 DEF artifacts
    <3>2. Held(q) /\ (q # p => KeptAt(q))
      BY <2>1 DEF Arrive
    <3>3. file' = file /\ bak' = bak
      BY <2>1 DEF artifacts
    <3>4. q = p => at'["hand"] # q
      BY <2>1, <2>2 DEF Arrive
    <3>5. QED
      BY <2>2, <3>2, <3>3, <3>4 DEF Run
  <2>7. QED
    BY <2>3, <2>4, <2>5, <2>6
<1>2. CASE List
  <2>1. /\ sweep = None
        /\ sweep' = [mismatch |-> FALSE, attention |-> FALSE]
        /\ todo' = {p \in Proof : file[p] # "none"}
        /\ ready' = (todo' \cap calendar) \ {at["hand"]}
        /\ UNCHANGED <<artifacts, pc, at, status, kills, shared, spoiled>>
    BY <1>2 DEF List
  <2>2. sweep' \in Tally /\ sweep' # None
    <3>1. sweep' \in Tally
      BY <2>1 DEF Tally
    <3>2. QED
      BY <3>1, ProofSweepAssumption
  <2>3. todo' \subseteq made
    <3>1. \A p \in Proof : file[p] # "none" => p \in made
      OBVIOUS
    <3>2. QED
      BY <2>1, <3>1
  <2>4. TypeOK' /\ Places'
    BY <2>1, <2>2, <2>3 DEF artifacts
  <2>5. Apart' /\ Kept' /\ Accounted'
    BY <2>1 DEF artifacts
  <2>6. QED
    BY <2>4, <2>5
<1>3. CASE ListFails
  BY <1>3 DEF ListFails, artifacts, runs, observed, Status
<1>4. CASE Publish \/ PublishEmpties
  <2>1. /\ sweep' = None
        /\ at["sweep"] = None
        /\ todo = {}
        /\ status' \in Status \cup {"unknown"}
        /\ UNCHANGED <<artifacts, pc, at, todo, kills, observed>>
    BY <1>4 DEF Publish, PublishEmpties, Status
  <2>2. QED
    BY <2>1 DEF artifacts, observed
<1>5. CASE Kill
  <2>1. /\ kills < MaxKills
        /\ kills' = kills + 1
        /\ pc' = [pc EXCEPT !["sweep"] = "idle"]
        /\ at' = [at EXCEPT !["sweep"] = None]
        /\ todo' = {}
        /\ sweep' = None
        /\ ready' = {}
        /\ CutOff("sweep")
        /\ UNCHANGED <<artifacts, status, shared>>
    BY <1>5 DEF Kill
  <2>2. /\ at'["sweep"] = None /\ at'["hand"] = at["hand"]
        /\ pc'["sweep"] = "idle" /\ pc'["hand"] = pc["hand"]
    BY <2>1 DEF Run
  <2>3. TypeOK'
    BY <2>1, ProofSweepAssumption DEF artifacts, Run, CutOff
  <2>4. Places' /\ Apart' /\ Accounted'
    BY <2>1, <2>2 DEF artifacts, Run
  <2>5. Kept'
    BY <2>1, <2>2, ProofSweepAssumption DEF artifacts, Run
  <2>6. QED
    BY <2>3, <2>4, <2>5
<1>6. QED
  BY <1>1, <1>2, <1>3, <1>4, <1>5

LEMMA NextBase == Base /\ [Next]_vars => Base'
<1> SUFFICES ASSUME Base, [Next]_vars
             PROVE  Base'
  OBVIOUS
<1>1. CASE UNCHANGED vars
  BY <1>1 DEF vars, artifacts, runs, observed, Base, TypeOK, Places, Apart, Kept, KeptAt, Held,
              Accounted, AccountedFor
<1>2. ASSUME NEW p \in Proof, Make(p) \/ Anchor(p) \/ Restore(p) \/ ByHand(p)
      PROVE  Base'
  BY <1>2, WorldBase
<1>3. ASSUME NEW r \in Run, Upgrade(r) \/ Die(r)
      PROVE  Base'
  BY <1>3, UpgradeBase
<1>4. CASE (\E p \in Proof : Take(p)) \/ List \/ ListFails \/ Publish \/ PublishEmpties \/ Kill
  BY <1>4, SweepBase
<1>5. QED
  BY <1>1, <1>2, <1>3, <1>4 DEF Next

-------------------------------------------------------------------------------
(* Two runs at one proof.                                                  *)

\* A run that comes to p does not disturb what is there.
LEMMA ArriveRaced ==
  ASSUME Base, Raced, NEW r \in Run, NEW other \in Run \ {r}, NEW p \in made,
         at[r] = None, Arrive(other, p),
         at' = [at EXCEPT ![r] = p], pc' = [pc EXCEPT ![r] = "info"],
         UNCHANGED artifacts
  PROVE  Raced'
<1> SUFFICES ASSUME NEW q \in shared' \ spoiled'
             PROVE  RacedAt(q)'
  BY DEF Raced
<1> USE DEF Base, TypeOK
<1>1. /\ file' = file /\ bak' = bak
      /\ at'[r] = p /\ pc'[r] = "info" /\ pc[r] = "idle"
      /\ \A s \in Run \ {r} : at'[s] = at[s] /\ pc'[s] = pc[s]
  BY DEF artifacts, Places
<1>2. Held(q)' <=> Held(q)
  BY <1>1 DEF Held
<1>3. CASE q \in shared
  <2>1. RacedAt(q)
    BY <1>3 DEF Raced, Arrive
  <2>2. Writing(q) => Writing(q)'
    BY <1>1 DEF Writing
  <2>3. QED
    BY <1>1, <1>2, <2>1, <2>2 DEF RacedAt
<1>4. CASE q \notin shared
  <2>1. q = p
    BY <1>4 DEF Arrive
  <2>2. KeptAt(q)
    BY <1>4, <2>1 DEF Kept
  <2>3. QED
    BY <1>1, <1>2, <2>2 DEF KeptAt, Held, RacedAt
<1>5. QED
  BY <1>3, <1>4

\* A step of upgrade-proof.sh, or a kill of it.
LEMMA UpgradeRaced ==
  ASSUME Base, Raced, NEW r \in Run, Upgrade(r) \/ Die(r)
  PROVE  Raced'
<1> SUFFICES ASSUME NEW p \in shared' \ spoiled'
             PROVE  RacedAt(p)'
  BY DEF Raced
<1> USE DEF Base, TypeOK
<1>1. /\ shared' = shared
      /\ spoiled \subseteq spoiled'
  BY DEF Upgrade, Info, Compare, Remove, Fetch, Rename, RenameFails, Write, WriteFails, Die,
         CutOff, observed
<1>2. p \in Proof /\ RacedAt(p)
  BY <1>1 DEF Raced
<1>3. /\ \A s \in Run \ {r} : at'[s] = at[s] /\ pc'[s] = pc[s]
      /\ at'[r] \in {at[r], None}
  BY DEF Upgrade, Info, Compare, Remove, Fetch, Rename, RenameFails, Write, WriteFails, Die,
         GoOn, End
<1>4. p # None
  BY <1>2, ProofSweepAssumption
<1>5. CASE at[r] # p
  <2>1. file'[p] = file[p] /\ bak'[p] = bak[p]
    BY <1>2, <1>5
    DEF Upgrade, Info, Compare, Remove, Fetch, Rename, RenameFails, Write, WriteFails, Die,
        artifacts
  <2>2. \A s \in Run : at'[s] = p <=> at[s] = p
    BY <1>3, <1>4, <1>5
  <2>3. \A s \in Run : at[s] = p => pc'[s] = pc[s]
    BY <1>3, <1>5
  <2>4. QED
    BY <1>2, <2>1, <2>2, <2>3 DEF RacedAt, Writing, Held
<1>6. CASE at[r] = p
  <2> USE <1>6
  <2>1. ASSUME UNCHANGED <<file, bak>>, pc[r] # "write", pc'[r] # "rm"
        PROVE  RacedAt(p)'
    <3>1. Writing(p) => Writing(p)'
      BY <1>3, <2>1 DEF Writing
    <3>2. QED
      BY <1>2, <1>3, <2>1, <3>1 DEF RacedAt, Held
  <2>2. CASE Info(r)
    BY <2>1, <2>2 DEF Info, GoOn, End, artifacts
  <2>3. CASE Compare(r)
    <3>1. CASE pc'[r] = "rm"
      <4>1. bak[p] = file[p] /\ UNCHANGED <<file, bak>> /\ pc[r] = "cmp" /\ at' = at
        BY <2>3, <3>1 DEF Compare, GoOn, artifacts
      <4>2. Writing(p) => Writing(p)'
        BY <1>3, <4>1 DEF Writing
      <4>3. file[p] \in Good \/ Writing(p)
        BY <1>2, <4>1 DEF RacedAt, Held
      <4>4. QED
        BY <4>1, <4>2, <4>3 DEF RacedAt, Held
    <3>2. CASE pc'[r] # "rm"
      BY <2>1, <2>3, <3>2 DEF Compare, artifacts
    <3>3. QED
      BY <3>1, <3>2
  <2>4. CASE Remove(r)
    <3>1. pc[r] = "rm" /\ pc'[r] = "fetch" /\ file' = file
      BY <2>4 DEF Remove, GoOn
    <3>2. Writing(p) => Writing(p)'
      BY <1>3, <2>4, <3>1 DEF Writing, Remove, GoOn
    <3>3. file[p] \in Good \/ Writing(p)
      BY <1>2, <3>1 DEF RacedAt
    <3>4. QED
      BY <3>1, <3>2, <3>3 DEF RacedAt, Held
  <2>5. CASE Fetch(r)
    BY <2>1, <2>5 DEF Fetch, GoOn, End, artifacts
  <2>6. CASE Rename(r)
    <3>1. pc'[r] = "write" /\ at'[r] = p
      BY <2>6 DEF Rename, GoOn
    <3>2. QED
      BY <3>1 DEF RacedAt, Writing
  <2>7. CASE RenameFails(r)
    BY <2>1, <2>7 DEF RenameFails, End, artifacts
  <2>8. CASE Write(r)
    <3>1. file'[p] = "backed"
      BY <1>2, <2>8 DEF Write
    <3>2. QED
      BY <3>1 DEF RacedAt, Held, Good
  <2>9. CASE WriteFails(r)
    BY <1>1, <2>9 DEF WriteFails
  <2>10. CASE Die(r)
    BY <1>1, <2>1, <2>10 DEF Die, CutOff, End, artifacts
  <2>11. QED
    BY <2>2, <2>3, <2>4, <2>5, <2>6, <2>7, <2>8, <2>9, <2>10 DEF Upgrade
<1>7. QED
  BY <1>5, <1>6

\* Everything else.
LEMMA OthersRaced ==
  ASSUME Base, Raced,
         \/ \E p \in Proof : Make(p) \/ Anchor(p) \/ Restore(p) \/ ByHand(p) \/ Take(p)
         \/ List \/ ListFails \/ Publish \/ PublishEmpties \/ Kill
         \/ UNCHANGED vars
  PROVE  Raced'
<1> USE DEF Base, TypeOK
<1>1. ASSUME UNCHANGED <<file, bak, pc, at, shared, spoiled>>
      PROVE  Raced'
  BY <1>1 DEF Raced, RacedAt, Writing, Held
<1>2. ASSUME NEW p \in Proof, Make(p)
      PROVE  Raced'
  <2>1. SUFFICES ASSUME NEW q \in shared \ spoiled
                 PROVE  RacedAt(q)'
    BY <1>2 DEF Make, Raced, observed
  <2>2. RacedAt(q) /\ q \in Proof
    BY DEF Raced
  <2>3. bak' = bak /\ pc' = pc /\ at' = at /\ (file'[q] = file[q] \/ file'[q] = "pending")
    BY <1>2, <2>2 DEF Make, runs
  <2>4. QED
    BY <2>2, <2>3 DEF RacedAt, Writing, Held, Good
<1>3. ASSUME NEW p \in Proof, Anchor(p)
      PROVE  Raced'
  BY <1>1, <1>3 DEF Anchor, runs, observed
<1>4. ASSUME NEW p \in Proof, Restore(p)
      PROVE  Raced'
  <2>1. SUFFICES ASSUME NEW q \in shared' \ spoiled'
                 PROVE  RacedAt(q)'
    BY DEF Raced
  <2>2. /\ bak' = bak /\ pc' = pc /\ at' = at /\ spoiled' = spoiled
        /\ file'[p] \in Good
        /\ \A s \in Proof \ {p} : file'[s] = file[s]
        /\ shared' \subseteq shared \cup {p}
    BY <1>4 DEF Restore, runs
  <2>3. CASE q = p
    BY <2>2, <2>3 DEF RacedAt, Held
  <2>4. CASE q # p
    <3>1. q \in Proof /\ RacedAt(q)
      BY <2>1, <2>2, <2>4 DEF Raced
    <3>2. QED
      BY <2>2, <2>4, <3>1 DEF RacedAt, Writing, Held
  <2>5. QED
    BY <2>3, <2>4
<1>5. ASSUME NEW p \in Proof, ByHand(p)
      PROVE  Raced'
  BY <1>5, ArriveRaced DEF ByHand, Run
<1>6. ASSUME NEW p \in Proof, Take(p)
      PROVE  Raced'
  BY <1>6, ArriveRaced DEF Take, Run, Places
<1>7. CASE List \/ ListFails \/ Publish \/ PublishEmpties
  BY <1>1, <1>7 DEF List, ListFails, Publish, PublishEmpties, artifacts, runs, observed
<1>8. CASE Kill
  <2>1. SUFFICES ASSUME NEW q \in shared \ spoiled'
                 PROVE  RacedAt(q)'
    BY <1>8 DEF Kill, Raced
  <2>2. /\ file' = file /\ bak' = bak /\ spoiled \subseteq spoiled'
        /\ at'["sweep"] = None /\ at'["hand"] = at["hand"] /\ pc'["hand"] = pc["hand"]
    BY <1>8 DEF Kill, CutOff, artifacts, Run
  <2>3. RacedAt(q) /\ q \in Proof /\ q # None
    BY <2>2, ProofSweepAssumption DEF Raced
  <2>4. Writing(q) => Writing(q)'
    <3>1. ~(at["sweep"] = q /\ pc["sweep"] = "write")
      BY <1>8, <2>1 DEF Kill, CutOff
    <3>2. QED
      BY <2>2, <3>1 DEF Writing, Run
  <2>5. QED
    BY <2>2, <2>3, <2>4 DEF RacedAt, Held, Run
<1>9. CASE UNCHANGED vars
  BY <1>1, <1>9 DEF vars, artifacts, runs, observed
<1>10. QED
  BY <1>2, <1>3, <1>4, <1>5, <1>6, <1>7, <1>8, <1>9

LEMMA NextIInv == IInv /\ [Next]_vars => IInv'
<1> SUFFICES ASSUME Base, Raced, [Next]_vars
             PROVE  IInv'
  BY DEF IInv
<1>1. Base'
  BY NextBase
<1>2. Raced'
  <2>1. ASSUME NEW r \in Run, Upgrade(r) \/ Die(r)
        PROVE  Raced'
    BY <2>1, UpgradeRaced
  <2>2. QED
    BY <2>1, OthersRaced DEF Next
<1>3. QED
  BY <1>1, <1>2 DEF IInv

-------------------------------------------------------------------------------
(* What follows.                                                           *)

\* IInv holds of every state that can be reached.
THEOREM Inductive == Spec => []IInv
  BY InitIInv, NextIInv, PTL DEF Spec

\* The variables keep their types.
THEOREM TypeCorrect == Spec => []TypeOK
<1>1. IInv => TypeOK
  BY DEF IInv, Base
<1>2. QED
  BY <1>1, Inductive, PTL

\* However many proofs there are, in whichever order the sweep and the operator come to
\* them and wherever either is killed: a proof has a good copy in its file or in its .bak,
\* unless they were at it together and a write of it is still to come, has failed or was
\* cut off.
THEOREM NothingIsLost == Spec => []NothingLost
<1>1. IInv => NothingLost
  BY DEF IInv, Base, Kept, KeptAt, Raced, RacedAt, Writing, NothingLost
<1>2. QED
  BY <1>1, Inductive, PTL

\* A sweep that reports ok has left no listed proof pending that the calendar held: what
\* it could not put into the file it has counted.
THEOREM OksAreHonest == Spec => OkIsHonest
<1>1. IInv /\ [Next]_vars =>
        [ Publish /\ status' = "ok" => \A p \in ready : file[p] = "backed" ]_vars
  <2> SUFFICES ASSUME IInv, Publish, status' = "ok", NEW p \in ready
               PROVE  file[p] = "backed"
    OBVIOUS
  <2>1. sweep # None /\ at["sweep"] = None /\ todo = {}
    BY DEF Publish
  <2>2. ~sweep.mismatch /\ ~sweep.attention
    BY DEF Publish
  <2>3. p # None
    BY ProofSweepAssumption DEF IInv, Base, TypeOK
  <2>4. QED
    BY <2>1, <2>2, <2>3 DEF IInv, Base, Accounted, AccountedFor
<1>2. QED
  BY <1>1, Inductive, PTL DEF Spec, OkIsHonest
===============================================================================
