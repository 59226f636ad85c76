----------------------------- MODULE MCProofSweep -----------------------------
(* A small instance of ProofSweep for TLC.                                 *)
EXTENDS ProofSweep
===============================================================================
