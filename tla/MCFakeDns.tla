------------------------------ MODULE MCFakeDns ------------------------------
(* FakeDns for TLC. *)
EXTENDS FakeDnsInv, TLC

CONSTANTS d1, d2, r1, r2, lan

\* Two names on two hosts; both may also resolve to a host on the LAN.
MCPairZone == d1 :> {{r1}, {lan}} @@ d2 :> {{r2, lan}}

\* Rules for both names, or for one only, with another route.
MCPolicies ==
    {[ruled |-> {d1, d2}, asked |-> {d1, d2}, target |-> [k \in Domains \X Reals |-> "vpn"]],
     [ruled |-> {d1}, asked |-> {d1, d2},
      target |-> [k \in Domains \X Reals |-> IF k[1] = d1 THEN "direct" ELSE "vpn"]]}
=============================================================================
