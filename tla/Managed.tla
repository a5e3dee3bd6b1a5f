------------------------------- MODULE Managed -------------------------------
(***************************************************************************)
(* The VPS servers the agent manages over SSH (gofro-agent/src/managed.rs,  *)
(* managed/*.rs, api/managed.rs): enrolment of a VPS with its root password,*)
(* the pinned SSH host keys, and the remote commands afterwards.            *)
(*                                                                         *)
(* One operation at a time holds managed_operations: `op' is that one.  A   *)
(* second bootstrap is refused and changes nothing, every other request     *)
(* waits, so both are invisible here.  The controller's own operations take *)
(* only the configuration lock and run between any two steps.  All that     *)
(* happens under the configuration lock is one step, with every place where *)
(* it may fail as an outcome; the agent or the router may stop after any    *)
(* step.  Losing the browser cancels nothing and is no event.               *)
(*                                                                         *)
(* A command that changes the VPS is executed by it at some point while the *)
(* agent waits; when the agent gives up (a timeout, a broken connection)    *)
(* the command may have run, may never run or may run later.                *)
(***************************************************************************)
EXTENDS Naturals, FiniteSets, Sequences

CONSTANTS
    Hosts,          \* SSH targets: an address with a port
    HostKeys,       \* ed25519 host keys
    Peers,          \* router peers a VPS may create (each at most once)
    NoKey, NoPeer,
    Legacy,         \* hosts an older release, which kept no pins, may manage
    MaxLate,        \* bound: commands that outlive the agent's patience
    MaxFaults       \* bound: failing calls, reinstalled servers, crashes

ASSUME HostAssumption == Legacy \subseteq Hosts
ASSUME KeyAssumption == NoKey \notin HostKeys /\ NoPeer \notin Peers
ASSUME BoundAssumption == MaxLate \in Nat /\ MaxFaults \in Nat

VARIABLES
    config,     \* the servers of the configuration: in memory, and what a
                \* reader of config.json finds
    kept,       \* config.json as a power loss leaves it
    degraded,   \* routing_degraded: no change before a full reconcile
    pins,       \* host-<address>-<port>.pub of every host
    vps,        \* the servers themselves
    late,       \* commands the agent no longer waits for
    op,         \* the operation that holds managed_operations
    result,     \* how the last one ended
    trusted,    \* the key that was given the password, until a reset (history)
    dropped,    \* peers whose server the administrator deleted (history)
    faults

local == <<config, kept, degraded>>
history == <<trusted, dropped>>
vars == <<local, pins, vps, late, op, result, history, faults>>

Keys == HostKeys \cup {NoKey}
NoServer == [managed |-> FALSE, key |-> NoKey, peer |-> NoPeer, known |-> FALSE]
\* known: the server's WireGuard key is in the list.  A server without
\* management was imported as a profile.
Server == [known : BOOLEAN, managed : BOOLEAN, key : Keys, peer : Peers \cup {NoPeer}]

\* seen: the file as a reader finds it; kept: as a power loss leaves it;
\* alias: the temporary name still links to it.
Pin == [seen : Keys, kept : Keys, alias : BOOLEAN]

\* ready: gofro-server is installed and runs; setting: anything a write changes.
Machine == [key : HostKeys, ready : BOOLEAN, peers : SUBSET Peers, setting : {0, 1}]

Message == [host : Hosts, key : HostKeys, cmd : {"create", "remove", "set"},
            peer : Peers \cup {NoPeer}, want : {0, 1}]

Idle == [at |-> "idle"]
Remote == {"status", "set", "create", "remove"}
Operation ==
    [kind : {"boot", "write"}, host : Hosts, key : Keys, peer : Peers \cup {NoPeer},
     stage : 0 .. 7, marker : 0 .. 3, want : {0, 1}, todo : Seq(Remote),
     done : BOOLEAN,                        \* the write is confirmed
     ran : BOOLEAN,                         \* the VPS executed it and said so (history)
     reply : {"none", "ok", "error"},
     at : {"probe", "pin", "connect", "script", "capabilities", "call", "wait",
           "save", "check"}]

Hows == {"none", "ok", "committed", "failed", "unknown", "retained", "stuck", "unsafe"}

TypeOK ==
    /\ config \in [Hosts -> Server] /\ kept \in [Hosts -> Server] /\ degraded \in BOOLEAN
    /\ pins \in [Hosts -> Pin] /\ vps \in [Hosts -> Machine]
    /\ late \in SUBSET Message /\ op \in {Idle} \cup Operation
    /\ result \in Hows
    /\ trusted \in [Hosts -> Keys] /\ dropped \in SUBSET Peers /\ faults \in Nat

Fault == faults < MaxFaults /\ faults' = faults + 1

At(step) == op # Idle /\ op.at = step
End(how) == op' = Idle /\ result' = how

-----------------------------------------------------------------------------
(* Host pins.                                                              *)

\* Mutant: the new key replaces the stored one.
PinOutcomesReplacing(pin, k) ==
    {[pin |-> [seen |-> k, kept |-> k, alias |-> FALSE], ok |-> TRUE, bad |-> FALSE]}

\* Mutant: an existing pin counts as synced.
PinOutcomesSyncedOnce(pin, k) ==
    LET to(s, d, a) == [seen |-> s, kept |-> d, alias |-> a]
        good(p) == [pin |-> p, ok |-> TRUE, bad |-> FALSE]
        bad(p) == [pin |-> p, ok |-> FALSE, bad |-> TRUE]
    IN  IF pin.seen = NoKey
        THEN {good(to(k, k, FALSE)), bad(pin), bad(to(k, pin.kept, TRUE)),
              bad(to(k, pin.kept, FALSE))}
        ELSE IF pin.seen # k THEN {[pin |-> pin, ok |-> FALSE, bad |-> FALSE]}
        ELSE {good([pin EXCEPT !.alias = FALSE])}

\* pin_host: write and sync a temporary file, link it to the pin's name, remove
\* the temporary name, compare, remove what an earlier crash left of temporary
\* names, sync the file and the directory.  A stored key is never replaced.
PinOutcomes(pin, k) ==
    LET to(s, d, a) == [seen |-> s, kept |-> d, alias |-> a]
        good(p) == [pin |-> p, ok |-> TRUE, bad |-> FALSE]
        bad(p) == [pin |-> p, ok |-> FALSE, bad |-> TRUE]
    IN  IF pin.seen = NoKey
        THEN {good(to(k, k, FALSE)), bad(pin), bad(to(k, pin.kept, TRUE)),
              bad(to(k, pin.kept, FALSE))}
        ELSE IF pin.seen # k THEN {[pin |-> pin, ok |-> FALSE, bad |-> FALSE]}
        ELSE {good(to(k, k, FALSE)), bad(pin), bad([pin EXCEPT !.alias = FALSE])}

ManagedHosts == {h \in Hosts : config[h].managed}
Outcomes(h) == PinOutcomes(pins[h], config[h].key)
CanPin(D) == \A h \in D : \E o \in Outcomes(h) : o.ok
Pinned(D) == [h \in Hosts |->
    IF h \in D THEN (CHOOSE o \in Outcomes(h) : o.ok).pin ELSE pins[h]]

\* preserve_host_pins: pins the key of every managed server, one after the
\* other, up to the first failure.
Preserve ==
    {[pins |-> Pinned(D), ok |-> TRUE, bad |-> FALSE] : D \in {D \in {ManagedHosts} : CanPin(D)}}
    \cup {[pins |-> [Pinned(r.done) EXCEPT ![r.host] = r.out.pin], ok |-> FALSE, bad |-> r.out.bad] :
            r \in UNION {[done : {D \in SUBSET (ManagedHosts \ {h}) : CanPin(D)},
                          host : {h}, out : {o \in Outcomes(h) : ~o.ok}] : h \in ManagedHosts}}

\* What one pass of preserve_host_pins does; the caller goes on when it is ok.
Preserving(out) ==
    /\ out \in Preserve /\ pins' = out.pins
    /\ IF out.bad THEN Fault ELSE UNCHANGED faults

-----------------------------------------------------------------------------
(* Enrolment (bootstrap).                                                  *)

NewOperation(kind, h, k, at, todo, want) ==
    op' = [kind |-> kind, host |-> h, key |-> k, peer |-> NoPeer, stage |-> 1, marker |-> 0,
           want |-> want, todo |-> todo, done |-> FALSE, ran |-> FALSE, reply |-> "none", at |-> at]

\* A host that is already managed is refused.
StartBootstrap(h) ==
    /\ op = Idle
    /\ \E out \in Preserve :
         /\ Preserving(out)
         /\ IF out.ok /\ ~config[h].managed
            THEN NewOperation("boot", h, NoKey, "probe", <<>>, 0) /\ UNCHANGED result
            ELSE End("failed")
    /\ UNCHANGED <<local, vps, late, history>>

\* probe: ssh-keyscan shows the key the host has now, or fails.
ProbeHost ==
    /\ At("probe")
    /\ \/ op' = [op EXCEPT !.key = vps[op.host].key, !.at = "pin"] /\ UNCHANGED <<result, faults>>
       \/ Fault /\ End("failed")
    /\ UNCHANGED <<local, pins, vps, late, history>>

\* The key is pinned, durably, before anything is sent to the host.
PinHost ==
    /\ At("pin")
    /\ \E out \in Preserve :
         IF out.ok
         THEN \E o \in PinOutcomes(out.pins[op.host], op.key) :
                /\ pins' = [out.pins EXCEPT ![op.host] = o.pin]
                /\ IF o.bad THEN Fault ELSE UNCHANGED faults
                /\ IF o.ok THEN op' = [op EXCEPT !.at = "connect", !.stage = 2] /\ UNCHANGED result
                           ELSE End("failed")
         ELSE Preserving(out) /\ End("failed")
    /\ UNCHANGED <<local, vps, late, history>>

\* password_ssh: ssh checks the host's key against the pinned one, then sshpass
\* gives it the password.
SendPassword ==
    /\ At("connect")
    /\ IF vps[op.host].key = op.key
       THEN /\ op' = [op EXCEPT !.at = "script"]
            /\ trusted' = [trusted EXCEPT ![op.host] = op.key] /\ UNCHANGED result
       ELSE End("failed") /\ UNCHANGED trusted
    /\ UNCHANGED <<local, pins, vps, late, dropped, faults>>

\* read_bootstrap_stages: lines of the remote script's output that are markers.
\* The output is the server's: markers may repeat and come in any order, and one
\* that does not advance is dropped.
Marker(n) ==
    /\ At("script") /\ n > op.marker
    /\ op' = [op EXCEPT !.marker = n, !.stage = 2 + n]
    /\ UNCHANGED <<local, pins, vps, late, result, history, faults>>

\* bootstrap_result: a failure or a timeout may leave the install done.
ScriptFails ==
    /\ Fault /\ End("failed")
    /\ \E ready \in {TRUE, vps[op.host].ready} : vps' = [vps EXCEPT ![op.host].ready = ready]

\* The script installs a compatible gofro-server unless there is one and adds
\* the management key.
ScriptEnds ==
    /\ At("script")
    /\ \/ vps' = [vps EXCEPT ![op.host].ready = TRUE]
          /\ op' = [op EXCEPT !.at = "capabilities"] /\ UNCHANGED <<result, faults>>
       \/ ScriptFails
    /\ UNCHANGED <<local, pins, late, history>>

\* key_ssh for a command that only reads: it succeeds when the host still has
\* the key and the server answers, and may fail anyway.
Reads(ok, failed) ==
    \/ vps[op.host].key = op.key /\ vps[op.host].ready /\ ok /\ UNCHANGED faults
    \/ (IF vps[op.host].key = op.key /\ vps[op.host].ready THEN Fault ELSE UNCHANGED faults)
       /\ failed

\* capabilities, and require_owner_protocol; then the profile is asked for.
Capabilities ==
    /\ At("capabilities")
    /\ Reads(op' = [op EXCEPT !.at = "call", !.stage = 6, !.todo = <<"create">>]
                /\ UNCHANGED result,
             End("failed"))
    /\ UNCHANGED <<local, pins, vps, late, history>>

-----------------------------------------------------------------------------
(* Remote commands.  A write is one of update, restart, set_warp,           *)
(* create_friend, rename_friend, revoke_friend and create_profile; todo     *)
(* holds the calls it still has to make: set_warp asks for the status first,*)
(* all but create_profile ask for it (or for the version) at the end.       *)

Calls == {<<"set", "status">>, <<"status", "set", "status">>, <<"set">>, <<"status">>}

StartCommand(h) ==
    /\ op = Idle
    /\ \E todo \in Calls, want \in {0, 1} : NewOperation("write", h, NoKey, "call", todo, want)
    /\ UNCHANGED <<local, pins, vps, late, result, history, faults>>

\* What is reported when a call fails.  Once the write is confirmed that is
\* CommittedRefreshFailed; before, nothing is known of a call that had no answer.
CallFails(answered) ==
    End(IF op.done THEN "committed"
        ELSE IF Head(op.todo) = "remove" THEN "stuck"
        ELSE IF answered THEN "failed" ELSE "unknown")

\* A call succeeded: the next one, or the end.
CallReturns ==
    IF Tail(op.todo) = <<>> THEN End("ok")
    ELSE /\ op' = [op EXCEPT !.todo = Tail(op.todo), !.at = "call", !.key = NoKey,
                             !.reply = "none", !.done = op.done \/ Head(op.todo) = "set"]
         /\ UNCHANGED result

\* managed_server: each call of a write looks its server up again, in the
\* configuration of that moment, and uses the host key found there.
LookUp ==
    /\ At("call") /\ op.key = NoKey
    /\ IF ~config[op.host].managed
       THEN CallFails(TRUE) /\ UNCHANGED <<pins, faults>>
       ELSE \E out \in Preserve :
              /\ Preserving(out)
              /\ IF out.ok THEN op' = [op EXCEPT !.key = config[op.host].key] /\ UNCHANGED result
                           ELSE CallFails(TRUE)
    /\ UNCHANGED <<local, vps, late, history>>

\* status_unlocked, check_unlocked
AskStatus ==
    /\ At("call") /\ op.key # NoKey /\ Head(op.todo) = "status"
    /\ Reads(CallReturns, CallFails(TRUE))
    /\ UNCHANGED <<local, pins, vps, late, history>>

\* key_ssh starts a command that changes the VPS.
SendCommand ==
    /\ At("call") /\ op.key # NoKey /\ Head(op.todo) # "status"
    /\ op' = [op EXCEPT !.at = "wait", !.reply = "none"]
    /\ UNCHANGED <<local, pins, vps, late, result, history, faults>>

Sent == [host |-> op.host, key |-> op.key, cmd |-> Head(op.todo), peer |-> op.peer, want |-> op.want]

\* A router key as wg genkey makes it: never seen before.
Fresh(p) ==
    /\ \A h \in Hosts : p \notin vps[h].peers /\ \A c \in {config, kept} : c[h].peer # p
    /\ p \notin dropped /\ (op # Idle => op.peer # p)
    /\ \A m \in late : m.peer # p

\* What gofro-server does with a command (add_router_peer, remove_router_peer; in
\* its own steps it is the subject of Friends); p is the peer it creates.
Executes(m, p) ==
    /\ vps[m.host].key = m.key /\ vps[m.host].ready
    /\ m.cmd = "create" <=> p # NoPeer
    /\ m.cmd = "create" => Fresh(p)
    /\ vps' = CASE m.cmd = "create" -> [vps EXCEPT ![m.host].peers = @ \cup {p}]
                [] m.cmd = "remove" -> [vps EXCEPT ![m.host].peers = @ \ {m.peer}]
                [] m.cmd = "set" -> [vps EXCEPT ![m.host].setting = m.want]

\* The VPS executes what the agent waits for.
CommandRuns ==
    /\ At("wait") /\ op.reply = "none"
    /\ \E p \in Peers \cup {NoPeer} :
         /\ Executes(Sent, p)
         /\ op' = [op EXCEPT !.reply = "ok", !.ran = TRUE, !.peer = IF p = NoPeer THEN @ ELSE p]
    /\ UNCHANGED <<local, pins, late, result, history, faults>>

\* The command ends with an error: it was refused, there is no free address left
\* or no server; or it was executed and then neither saved nor rolled back, and
\* the router does not learn which peer it has created.
CommandRefused ==
    /\ At("wait") /\ op.reply = "none" /\ vps[op.host].key = op.key
    /\ IF vps[op.host].ready THEN Fault ELSE UNCHANGED faults
    /\ op' = [op EXCEPT !.reply = "error"]
    /\ UNCHANGED vps \/ \E p \in Peers \cup {NoPeer} : Executes(Sent, p)
    /\ UNCHANGED <<local, pins, late, result, history>>

\* The agent reads the answer.  A profile that makes no sense leaves the peer.
ReadAnswer ==
    /\ At("wait") /\ op.reply # "none"
    /\ CASE op.reply = "error" -> CallFails(TRUE) /\ UNCHANGED faults
         [] op.reply = "ok" /\ Head(op.todo) = "create" ->
              \/ op' = [op EXCEPT !.at = "save", !.stage = 7] /\ UNCHANGED <<result, faults>>
              \/ Fault /\ End("unknown")
         [] op.reply = "ok" /\ Head(op.todo) = "remove" -> End("failed") /\ UNCHANGED faults
         [] op.reply = "ok" /\ Head(op.todo) = "set" -> CallReturns /\ UNCHANGED faults
    /\ UNCHANGED <<local, pins, vps, late, history>>

\* A command whose answer nobody waits for any more may still be executed.
Abandon ==
    IF At("wait") /\ op.reply = "none"
    THEN \E L \in {late, late \cup {Sent}} : Cardinality(L) =< MaxLate /\ late' = L
    ELSE UNCHANGED late

\* The deadline passes, the connection breaks, the output is too large.
GiveUp ==
    /\ At("wait")
    /\ Abandon /\ CallFails(FALSE)
    /\ UNCHANGED <<local, pins, vps, history, faults>>

LateCommand(m) ==
    /\ m \in late /\ late' = late \ {m}
    /\ \E p \in Peers \cup {NoPeer} : Executes(m, p)
    /\ UNCHANGED <<local, pins, op, result, history, faults>>

-----------------------------------------------------------------------------
(* The configuration.  Each of these holds the apply and configuration      *)
(* locks to its end.                                                        *)

\* update_config: saved; not saved, and rolled back or not; or published while
\* the sync after the rename, or the clean-up after the commit, failed.
SaveOutcomes(next) ==
    {[c |-> next, k |-> next, d |-> FALSE, ok |-> TRUE],
     [c |-> config, k |-> kept, d |-> degraded, ok |-> FALSE],
     [c |-> config, k |-> kept, d |-> TRUE, ok |-> FALSE],
     [c |-> next, k |-> kept, d |-> TRUE, ok |-> FALSE],
     [c |-> next, k |-> next, d |-> TRUE, ok |-> FALSE]}

UpdateConfig(next, ok, failed) ==
    \E o \in SaveOutcomes(next) :
        /\ config' = o.c /\ kept' = o.k /\ degraded' = o.d
        /\ IF o.ok THEN ok /\ UNCHANGED faults ELSE Fault /\ failed

\* add_server.  What the panel gets on success is the status, which may fail.
SaveServer ==
    /\ At("save")
    /\ IF degraded \/ config[op.host].known
       THEN op' = [op EXCEPT !.at = "check"] /\ UNCHANGED <<local, result, faults>>
       ELSE UpdateConfig([config EXCEPT ![op.host] =
                             [known |-> TRUE, managed |-> TRUE, key |-> op.key, peer |-> op.peer]],
                         \E how \in {"ok", "committed"} : End(how),
                         op' = [op EXCEPT !.at = "check"] /\ UNCHANGED result)
    /\ UNCHANGED <<pins, vps, late, history>>

Holds(c, p) == \E h \in Hosts : c[h].peer = p

\* Mutant: whatever add_server says is believed.
CheckEnrollmentNever ==
    /\ At("check")
    /\ op' = [op EXCEPT !.at = "call", !.todo = <<"remove">>]
    /\ UNCHANGED <<local, pins, vps, late, result, history, faults>>

\* Mutant: the remote peer is left to the administrator.
CheckEnrollmentLazy ==
    /\ At("check")
    /\ End(IF Holds(config, op.peer) THEN "retained" ELSE "failed")
    /\ UNCHANGED <<local, pins, vps, late, history, faults>>

\* rollback_enrollment: the remote peer is removed only if neither the
\* configuration in memory nor the one on disk has it; a file that cannot be
\* read may have it.
CheckEnrollment ==
    /\ At("check")
    /\ IF Holds(config, op.peer)
       THEN End("retained") /\ UNCHANGED faults
       ELSE \/ op' = [op EXCEPT !.at = "call", !.todo = <<"remove">>] /\ UNCHANGED <<result, faults>>
            \/ Fault /\ End("retained")
    /\ UNCHANGED <<local, pins, vps, late, history>>

\* import_server: a profile made by hand on the VPS.  A server already in the
\* list gets the credentials of the profile and keeps its management.
ImportServer(h) ==
    /\ ~degraded /\ (~config[h].known \/ config[h].peer # NoPeer)
    /\ UpdateConfig([config EXCEPT ![h].known = TRUE, ![h].peer = NoPeer], TRUE, TRUE)
    /\ dropped' = dropped \cup ({config[h].peer} \ {NoPeer, config'[h].peer})
    /\ UNCHANGED <<pins, vps, late, op, result, trusted>>

\* delete_server: the pins first, they may be only in the configuration.
DeleteServer(h) ==
    /\ ~degraded /\ config[h].known
    /\ \E out \in Preserve :
         IF out.ok
         THEN /\ pins' = out.pins
              /\ UpdateConfig([config EXCEPT ![h] = NoServer], TRUE, TRUE)
              /\ dropped' = dropped \cup ({config[h].peer} \ {NoPeer, config'[h].peer})
         ELSE Preserving(out) /\ UNCHANGED <<local, dropped>>
    /\ UNCHANGED <<vps, late, op, result, trusted>>

\* reconcile_locked retries the sync first; a later step may fail.
Reconcile ==
    /\ degraded
    /\ \/ kept' = config /\ degraded' = FALSE /\ UNCHANGED faults
       \/ Fault /\ kept' \in {kept, config} /\ UNCHANGED degraded
    /\ UNCHANGED <<config, pins, vps, late, op, result, history>>

\* reset_host_pin holds both locks.  A pin with a second name is not touched.
ResetHostPin(h) ==
    /\ op = Idle
    /\ \E out \in Preserve :
         IF out.ok /\ ~config[h].managed /\ out.pins[h].seen # NoKey /\ ~out.pins[h].alias
         THEN \/ /\ pins' = [out.pins EXCEPT ![h].seen = NoKey, ![h].kept = NoKey]
                 /\ trusted' = [trusted EXCEPT ![h] = NoKey] /\ End("ok") /\ UNCHANGED faults
              \/ /\ Fault /\ pins' = out.pins /\ End("failed") /\ UNCHANGED trusted
              \/ /\ Fault /\ pins' = [out.pins EXCEPT ![h].seen = NoKey]
                 /\ trusted' = [trusted EXCEPT ![h] = NoKey] /\ End("failed")
         ELSE /\ Preserving(out) /\ UNCHANGED trusted
              /\ End(IF ~out.ok \/ config[h].managed THEN "failed"
                     ELSE IF out.pins[h].seen = NoKey THEN "ok" ELSE "unsafe")
    /\ UNCHANGED <<local, vps, late, dropped>>

-----------------------------------------------------------------------------
(* Restarts, and what happens to a VPS.                                     *)

\* The agent is killed or restarted: it serves again once config.json is synced.
Restart ==
    /\ Fault /\ op # Idle
    /\ op' = Idle /\ result' = "none" /\ Abandon
    /\ degraded' = TRUE /\ kept' = config
    /\ UNCHANGED <<config, pins, vps, history>>

\* What is not synced may be there or not; an unlink and a link that are both
\* not synced may leave nothing.
PowerLoss ==
    /\ Fault /\ op' = Idle /\ result' = "none" /\ Abandon
    /\ \E c \in {config, kept} : config' = c /\ kept' = c
    /\ degraded' = TRUE
    /\ \E f \in [Hosts -> Keys] :
         /\ \A h \in Hosts : f[h] \in IF pins[h].seen = pins[h].kept THEN {pins[h].seen}
                                      ELSE {pins[h].seen, pins[h].kept, NoKey}
         /\ pins' = [h \in Hosts |-> [seen |-> f[h], kept |-> f[h],
                                      alias |-> pins[h].alias /\ f[h] = pins[h].seen]]
    /\ UNCHANGED <<vps, history>>

\* The provider reinstalls the VPS: a new host key and nothing on it.
Reinstall(h) ==
    /\ Fault
    /\ \E k \in HostKeys \ {vps[h].key, trusted[h], pins[h].seen, pins[h].kept} :
         vps' = [vps EXCEPT ![h] = [key |-> k, ready |-> FALSE, peers |-> {}, setting |-> 0]]
    /\ UNCHANGED <<local, pins, late, op, result, history>>

\* A server that an older release enrolled, if there is one, is in the
\* configuration and its host key nowhere else.
Init ==
    /\ \E old \in SUBSET Legacy, k \in HostKeys, p \in [Hosts -> Peers] :
         /\ \A g, h \in old : g # h => p[g] # p[h]
         /\ config = [h \in Hosts |->
                IF h \in old THEN [known |-> TRUE, managed |-> TRUE, key |-> k, peer |-> p[h]]
                             ELSE NoServer]
         /\ vps = [h \in Hosts |-> [key |-> k, ready |-> h \in old,
                      peers |-> IF h \in old THEN {p[h]} ELSE {}, setting |-> 0]]
         /\ trusted = [h \in Hosts |-> IF h \in old THEN k ELSE NoKey]
    /\ kept = config /\ degraded = FALSE
    /\ pins = [h \in Hosts |-> [seen |-> NoKey, kept |-> NoKey, alias |-> FALSE]]
    /\ late = {} /\ op = Idle /\ result = "none" /\ dropped = {} /\ faults = 0

\* The steps of the thread that holds managed_operations.
Step ==
    \/ ProbeHost \/ PinHost \/ SendPassword \/ ScriptEnds \/ Capabilities
    \/ LookUp \/ AskStatus \/ SendCommand \/ ReadAnswer \/ GiveUp
    \/ SaveServer \/ CheckEnrollment

Next ==
    \/ \E h \in Hosts :
         \/ StartBootstrap(h) \/ StartCommand(h) \/ ResetHostPin(h)
         \/ ImportServer(h) \/ DeleteServer(h) \/ Reinstall(h)
    \/ Step \/ (\E n \in 1 .. 3 : Marker(n))
    \/ CommandRuns \/ CommandRefused \/ (\E m \in late : LateCommand(m))
    \/ Reconcile \/ Restart \/ PowerLoss

Spec == Init /\ [][Next]_vars

-----------------------------------------------------------------------------
(* Properties.                                                             *)

\* FirstKeyStays: the root password of a host is never given to a second key
\* unless the administrator reset the pin, whatever was deleted, re-added,
\* interrupted or lost in between (README: "pinned for subsequent connections,
\* including after removing and re-adding the server").
FirstKeyStays ==
    [][\A h \in Hosts : trusted[h] # NoKey => trusted'[h] \in {trusted[h], NoKey}]_vars

\* TrustIsDurable: what the agent knows of a host it trusted is on stable
\* storage, as a pin or as the only copy in a server of the configuration, so
\* that no loss of power at any moment forgets it.
TrustIsDurable ==
    /\ TypeOK
    /\ \A h \in Hosts : trusted[h] # NoKey =>
         \/ pins[h].seen = trusted[h] /\ pins[h].kept = trusted[h]
         \/ \A c \in {config, kept} : c[h].managed /\ c[h].key = trusted[h]

\* EnrolledKeepsAccess: the VPS has the peer of every server the router has
\* saved, in memory or where a power loss finds it, and nothing under way will
\* remove it: a rollback never revokes what was committed.
EnrolledKeepsAccess ==
    \A h \in Hosts, c \in {config, kept} :
        (c[h].managed /\ c[h].peer \notin dropped \cup {NoPeer} /\ c[h].key = vps[h].key)
        => /\ c[h].peer \in vps[h].peers
           /\ \A m \in late : m.cmd = "remove" => m.peer # c[h].peer

\* AnswersAreTrue: a setup that reports success is saved durably and has its
\* peer on the VPS; one that was given a profile and reports a plain failure left
\* neither that peer nor its server (of a profile that gofro-server refused with
\* an error the router knows no peer, and a failed rollback there may leave one);
\* a write that is reported done or committed was executed, and one that the VPS
\* confirmed is never reported as a failure, which would invite a second attempt.
\* (bootstrap, rollback_enrollment, CommittedRefreshFailed)
AnswersAreTrue ==
    [][(op # Idle /\ op' = Idle) =>
         LET mine == vps'[op.host].key = op.key => op.peer \in vps'[op.host].peers
         IN  IF op.kind = "boot"
             THEN /\ result' \in {"ok", "committed"} =>
                        mine /\ Holds(config', op.peer) /\ Holds(kept', op.peer)
                  /\ (result' = "failed" /\ op.peer # NoPeer) =>
                        op.peer \notin vps'[op.host].peers /\ ~Holds(config', op.peer)
             ELSE /\ (result' \in {"ok", "committed"} /\ (op.done \/ Head(op.todo) = "set")) => op.ran
                  /\ (op.kind = "write" /\ op.done) => result' \in {"ok", "committed", "none"}]_vars
=============================================================================
