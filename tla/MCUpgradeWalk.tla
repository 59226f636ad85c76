---------------------------- MODULE MCUpgradeWalk -----------------------------
(* A small instance of UpgradeWalk for TLC.                                *)
EXTENDS UpgradeWalk
===============================================================================
