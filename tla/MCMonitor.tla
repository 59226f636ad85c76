------------------------------ MODULE MCMonitor -------------------------------
(* A small instance of Monitor for TLC.                                    *)
EXTENDS Monitor
===============================================================================
