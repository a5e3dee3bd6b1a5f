------------------------------- MODULE Gateway -------------------------------
(***************************************************************************)
(* What gofro-agent, its file and its scripts promise of the router,       *)
(* whatever happens to the process, the helpers and the power: LAN traffic *)
(* is forwarded by exactly the policy that is stored, or not at all.       *)
(*                                                                         *)
(* A new policy is stored only while nothing is forwarded, and forwarding  *)
(* starts only when a power loss could not bring back another policy.      *)
(***************************************************************************)
CONSTANTS
    Policies,   \* what a configuration asks of nftables and of the tunnel
    Closed      \* nothing but exempted devices is forwarded

VARIABLES
    wanted,     \* the policy of the stored configuration
    survivors,  \* the policies that a power loss may leave
    forwarding  \* the policy that traffic is forwarded by, or Closed

vars == <<wanted, survivors, forwarding>>

Init ==
    /\ wanted \in Policies /\ survivors = {wanted}
    /\ forwarding = Closed

Close == forwarding' = Closed /\ UNCHANGED <<wanted, survivors>>

Open ==
    /\ survivors = {wanted} /\ forwarding' = wanted
    /\ UNCHANGED <<wanted, survivors>>

Store ==
    /\ forwarding = Closed
    /\ wanted' \in Policies /\ survivors' = survivors \cup {wanted'}
    /\ UNCHANGED forwarding

Settle == survivors' = {wanted} /\ UNCHANGED <<wanted, forwarding>>

PowerLoss ==
    /\ wanted' \in survivors /\ survivors' = {wanted'}
    /\ forwarding' = Closed

Next == Close \/ Open \/ Store \/ Settle \/ PowerLoss

Spec == Init /\ [][Next]_vars
=============================================================================
