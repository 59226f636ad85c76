---------------------------- MODULE MCHealthProbe -----------------------------
(* A small instance of HealthProbe for TLC.                                *)
EXTENDS HealthProbe
===============================================================================
