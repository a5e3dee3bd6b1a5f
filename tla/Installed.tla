------------------------------ MODULE Installed ------------------------------
(***************************************************************************)
(* What an update promises to the owner of the router: the release, the    *)
(* version file and the settings change together, in one step, only to a   *)
(* release that was offered and is newer, and nothing that fails, is       *)
(* killed or loses power on the way shows.                                 *)
(***************************************************************************)
EXTENDS Naturals

CONSTANTS Newest
VARIABLES
    installed,      \* what the router is after the next boot that is not disturbed
    offered         \* the newest release that is published

Whole(v) == [release |-> v, version |-> v, settings |-> v]

Init == installed = Whole(1) /\ offered = 1

Offer == offered < Newest /\ offered' = offered + 1 /\ UNCHANGED installed

Commit ==
    /\ \E v \in installed.release + 1 .. offered : installed' = Whole(v)
    /\ UNCHANGED offered

Next == Offer \/ Commit

Spec == Init /\ [][Next]_<<installed, offered>>
=============================================================================
