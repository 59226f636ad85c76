----------------------------- MODULE MCRedemption -----------------------------
(* Small instances of Redemption for TLC.                                  *)
EXTENDS Redemption, TLC

\* Requests, invoices and digests are interchangeable.
Symmetry ==
  Permutations(Client) \cup Permutations(Hash) \cup Permutations(Digest)

\* Where a restart may find the gateway: every invoice settled, one obligation
\* discharged, the others owed because the process died before their stamps.
\* The hashes are interchangeable, so which one is discharged does not matter.
Discharged == CHOOSE h \in Hash : TRUE

RestartedInit ==
  \E d \in Digest, p \in Price :
    /\ invoice = [h \in Hash |-> [state |-> "settled", memo |-> d, face |-> p]]
    /\ tokens = {[hash |-> h, digest |-> d, price |-> p] : h \in Hash}
    /\ price = p
    /\ accepted = {d}
    /\ row = [h \in Hash |-> IF h = Discharged THEN "stamped" ELSE "needs_stamp"]
    /\ rowDigest = [h \in Hash |-> d]
    /\ halted = FALSE
    /\ up = TRUE
    /\ cache = <<>>
    /\ Idle(pc, "idle")
    /\ Idle(job, None)
    /\ Idle(body, None)
    /\ Idle(bid, None)
    /\ Idle(tries, 0)
    /\ Idle(size, 0)
    /\ Idle(victim, None)
    /\ todo = {}
    /\ answer = NoAnswer

RestartedSpec == RestartedInit /\ [][Next]_vars /\ Fairness
===============================================================================
