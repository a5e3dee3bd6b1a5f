------------------------------- MODULE MCRelay -------------------------------
(* Relay for TLC: two clients for one place in the table.                     *)
EXTENDS Relay
=============================================================================
