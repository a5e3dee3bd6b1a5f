------------------------------- MODULE MCUpdate -------------------------------
(* Update for TLC: three releases and a few faults.                            *)
EXTENDS Update
=============================================================================
