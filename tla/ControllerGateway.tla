-------------------------- MODULE ControllerGateway --------------------------
(***************************************************************************)
(* The controller as an implementation of Gateway.  A configuration stands *)
(* for what it asks of the kernel: server names, servers that are not in   *)
(* use and the auto-update flag make no difference, so an edit of those    *)
(* has to be a stuttering step.                                            *)
(***************************************************************************)
EXTENDS ControllerInv

CONSTANT Closed

PolicyOf(c) == [rules |-> Render(c), excl |-> c.excl, dns |-> TRUE, net |-> NetOf(c)]

Policies == {PolicyOf(c) : c \in {d \in Config : WellFormed(d)}}

\* Before the network comes up there is nothing to forward (START=18).
Forwards == lc # "boot" /\ guard = NoGuard

\* What the kernel does with a packet of a device that is not exempt.
Enforced ==
    IF table = NoTable THEN NoTable
    ELSE [rules |-> table.rules, excl |-> table.excl, dns |-> table.dns, net |-> net]

G == INSTANCE Gateway WITH
        wanted <- PolicyOf(disk),
        survivors <- {PolicyOf(c) : c \in stable},
        forwarding <- IF Forwards THEN Enforced ELSE Closed

\* ImplementsGateway: every step of the agent, the scripts, a crash or a power
\* loss is one that Gateway allows: no edit, failed helper, rollback, half saved
\* file or aborted stop changes what unguarded traffic meets, except through a
\* closed gate.
\* (controller.rs update_config, mode.rs reconcile_locked, libexec/guard)
ImplementsGateway == G!Spec
=============================================================================
