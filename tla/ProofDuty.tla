------------------------------ MODULE ProofDuty ------------------------------
(***************************************************************************)
(* What the paid door promises, with nothing of how it keeps the promise.  *)
(*                                                                         *)
(* An invoice is bound to one digest.  Once it is settled the gateway may  *)
(* take on a duty for it, and from then on the duty is never forgotten:    *)
(* it is owed until the calendar has committed the digest, and only then   *)
(* discharged.  The calendar is asked only for digests somebody is owed,   *)
(* and a proof is handed out only for a duty, and only once the calendar   *)
(* has committed its digest.                                               *)
(*                                                                         *)
(* Redemption.tla implements this specification (docs/contracts.md, G3 and *)
(* G4): crashes, restarts, evictions, races and failed calls all appear    *)
(* here as steps that change nothing but the delivery being observed.      *)
(***************************************************************************)

CONSTANTS Hash,     \* payment hashes
          Digest,   \* the SHA-256 digests clients want stamped
          None      \* no digest, no delivery

VARIABLES
  bound,      \* the digest each invoice was issued for
  settled,    \* the invoices the wallet reports settled
  duty,       \* what the gateway owes for each invoice
  committed,  \* the digests the calendar has committed to
  delivered   \* the proof handed out by the latest step, or None

vars == <<bound, settled, duty, committed, delivered>>

Delivery == [hash : Hash, proof : Digest]

TypeOK ==
  /\ bound \in [Hash -> Digest \cup {None}]
  /\ settled \in SUBSET Hash
  /\ duty \in [Hash -> {"none", "owed", "discharged"}]
  /\ committed \in SUBSET Digest
  /\ delivered \in Delivery \cup {None}

Init ==
  /\ bound = [h \in Hash |-> None]
  /\ settled = {}
  /\ duty = [h \in Hash |-> "none"]
  /\ committed = {}
  /\ delivered = None

Issue(h, d) ==
  /\ bound[h] = None
  /\ bound' = [bound EXCEPT ![h] = d]
  /\ delivered' = None
  /\ UNCHANGED <<settled, duty, committed>>

Settle(h) ==
  /\ bound[h] # None
  /\ settled' = settled \cup {h}
  /\ delivered' = None
  /\ UNCHANGED <<bound, duty, committed>>

Owe(h) ==
  /\ h \in settled
  /\ duty[h] = "none"
  /\ duty' = [duty EXCEPT ![h] = "owed"]
  /\ delivered' = None
  /\ UNCHANGED <<bound, settled, committed>>

Commit(h) ==
  /\ duty[h] # "none"
  /\ committed' = committed \cup {bound[h]}
  /\ delivered' = None
  /\ UNCHANGED <<bound, settled, duty>>

Discharge(h) ==
  /\ duty[h] = "owed"
  /\ bound[h] \in committed
  /\ duty' = [duty EXCEPT ![h] = "discharged"]
  /\ delivered' = None
  /\ UNCHANGED <<bound, settled, committed>>

Deliver(h) ==
  /\ duty[h] # "none"
  /\ bound[h] \in committed
  /\ delivered' = [hash |-> h, proof |-> bound[h]]
  /\ UNCHANGED <<bound, settled, duty, committed>>

Quiet ==
  /\ delivered' = None
  /\ UNCHANGED <<bound, settled, duty, committed>>

Next ==
  \/ \E h \in Hash :
       \/ \E d \in Digest : Issue(h, d)
       \/ Settle(h)
       \/ Owe(h)
       \/ Commit(h)
       \/ Discharge(h)
       \/ Deliver(h)
  \/ Quiet

Spec == Init /\ [][Next]_vars
==============================================================================
