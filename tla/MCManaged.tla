------------------------------ MODULE MCManaged ------------------------------
(* Managed for TLC: one VPS, new or enrolled by an older release.             *)
EXTENDS Managed, TLC

\* Host keys are interchangeable, and so are peers.
Symmetry == Permutations(HostKeys) \cup Permutations(Peers)
=============================================================================
