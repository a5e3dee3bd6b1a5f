---------------------------- MODULE MCController ----------------------------
(* Instances of Controller for TLC. *)
EXTENDS ControllerGateway, TLC

\* The installed controller.json: the VPN off, no servers, no exclusions.
MCDefault ==
    [vpn |-> FALSE, active |-> NoKey, servers |-> [k \in Keys |-> NoServer],
     routing |-> CHOOSE r \in Routings : TRUE, excl |-> {}, auto |-> FALSE]

\* Servers are interchangeable, and so are devices.
Symmetry == Permutations(Keys) \cup Permutations(Macs)
=============================================================================
