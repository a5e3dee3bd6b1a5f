-------------------------- MODULE ControllerConfig --------------------------
(***************************************************************************)
(* The controller's desired state (model.rs, ControllerConfig) and the     *)
(* edits that the API may ask for (controller.rs, controller/mode.rs,      *)
(* controller/routing.rs, controller/servers.rs).                          *)
(*                                                                         *)
(* An edit is a pure function of the current configuration.  It yields the *)
(* set of its possible results: empty when the code bails out, otherwise   *)
(* records [change, next] where change is the code's Change enum:          *)
(*   "config"  - only the file has to be written,                          *)
(*   "policy"  - the nftables policy has to be rendered again,             *)
(*   "network" - the tunnel has to be reconfigured as well.                *)
(*                                                                         *)
(* Abstractions: names, icons and SSH details of a server are left out; a  *)
(* client's tunnel address and private key are one value (cred); a routing *)
(* policy is an opaque value; the order of the server list is not kept, so *)
(* the server that replaces a deleted active one is any remaining one.     *)
(***************************************************************************)
EXTENDS FiniteSets, Integers

CONSTANTS
    Keys,           \* WireGuard public keys of servers
    Endpoints,      \* relay endpoints host:port
    Creds,          \* imported client credentials (address and private key)
    Routings,       \* normalised routing configurations that compile
    Macs,           \* LAN devices
    MaxExclusions,  \* most device exclusions a configuration may hold
    NoKey, NoCred, NoServer

ASSUME ExclusionBound == MaxExclusions \in Nat
ASSUME NoKeyIsFresh == NoKey \notin Keys

Cred    == Creds \cup {NoCred}
Profile == [ep : Endpoints, cred : Cred, managed : BOOLEAN]

ASSUME NoServerIsFresh == \A p \in Profile : p # NoServer

Config ==
    [vpn     : BOOLEAN,
     active  : Keys \cup {NoKey},
     servers : [Keys -> {NoServer} \cup Profile],
     routing : Routings,
     excl    : SUBSET Macs,
     auto    : BOOLEAN]

Changes == {"config", "policy", "network"}

Has(c, k)     == k \in Keys /\ c.servers[k] # NoServer
HasActive(c)  == Has(c, c.active)
HasServers(c) == \E k \in Keys : Has(c, k)

Edited(how, c) == {[change |-> how, next |-> c]}

-----------------------------------------------------------------------------
(* The edits.                                                              *)

\* controller/mode.rs set_mode: a repeated mode is still a policy refresh.
SetMode(c, enabled) ==
    IF enabled /\ ~HasActive(c) THEN {}
    ELSE Edited(IF c.vpn = enabled THEN "policy" ELSE "network",
                [c EXCEPT !.vpn = enabled])

UpdateRouting(c, routing) == Edited("policy", [c EXCEPT !.routing = routing])

\* controller.rs update_device_exclusion with config.rs normalize_exclusions.
UpdateDeviceExclusion(c, mac, excluded) ==
    LET excl == IF excluded THEN c.excl \cup {mac} ELSE c.excl \ {mac}
    IN  IF Cardinality(excl) > MaxExclusions THEN {}
        ELSE Edited("policy", [c EXCEPT !.excl = excl])

\* servers.rs insert_server: the first server becomes the active one.
InsertServer(c, key, profile) ==
    IF Has(c, key) THEN {}
    ELSE LET first == c.active = NoKey
         IN  Edited(IF first /\ c.vpn THEN "network" ELSE "config",
                    [c EXCEPT !.active = IF first THEN key ELSE c.active,
                              !.servers[key] = profile])

\* servers.rs replace_imported_server: a managed server keeps its management
\* and its endpoint; only a live active server has to reconnect.
ReplaceImportedServer(c, key, profile) ==
    LET previous == c.servers[key]
        kept == IF previous.managed
                THEN [profile EXCEPT !.managed = TRUE, !.ep = previous.ep]
                ELSE profile
    IN  Edited(IF c.vpn /\ c.active = key THEN "network" ELSE "config",
               [c EXCEPT !.servers[key] = kept])

UpsertServer(c, key, profile) ==
    IF Has(c, key) THEN ReplaceImportedServer(c, key, profile)
                   ELSE InsertServer(c, key, profile)

\* Mutant: a live active server that moved is not reconnected.
UpdateServerQuietly(c, previousKey, key, ep) ==
    LET server  == c.servers[previousKey]
        emptied == [c.servers EXCEPT ![previousKey] = NoServer]
    IN  IF \/ ~Has(c, previousKey)
           \/ server.managed /\ (server.ep # ep \/ previousKey # key)
           \/ key # previousKey /\ Has(c, key)
        THEN {}
        ELSE Edited("config",
                    [c EXCEPT !.active  = IF c.active = previousKey THEN key ELSE c.active,
                              !.servers = [emptied EXCEPT
                                             ![key] = [server EXCEPT !.ep = ep]]])

\* servers.rs update_server: rename a server or change its key or endpoint.
UpdateServer(c, previousKey, key, ep) ==
    LET server    == c.servers[previousKey]
        wasActive == c.active = previousKey
        moved     == server.ep # ep \/ previousKey # key
        emptied   == [c.servers EXCEPT ![previousKey] = NoServer]
    IN  IF \/ ~Has(c, previousKey)
           \/ server.managed /\ moved
           \/ key # previousKey /\ Has(c, key)
        THEN {}
        ELSE Edited(IF wasActive /\ c.vpn /\ moved THEN "network" ELSE "config",
                    [c EXCEPT !.active  = IF wasActive THEN key ELSE c.active,
                              !.servers = [emptied EXCEPT
                                             ![key] = [server EXCEPT !.ep = ep]]])

SelectServer(c, key) ==
    IF ~Has(c, key) THEN {}
    ELSE Edited(IF c.active # key /\ c.vpn THEN "network" ELSE "config",
                [c EXCEPT !.active = key])

\* servers.rs delete_server: the last server cannot go while the VPN is on.
DeleteServer(c, key) ==
    LET rest    == {k \in Keys \ {key} : Has(c, k)}
        servers == [c.servers EXCEPT ![key] = NoServer]
    IN  IF ~Has(c, key) THEN {}
        ELSE IF c.active # key
             THEN Edited("config", [c EXCEPT !.servers = servers])
        ELSE IF rest = {}
             THEN IF c.vpn THEN {}
                  ELSE Edited("config", [c EXCEPT !.servers = servers,
                                                  !.active  = NoKey])
        ELSE {[change |-> IF c.vpn THEN "network" ELSE "config",
               next   |-> [c EXCEPT !.servers = servers, !.active = k]] :
              k \in rest}

\* Every accepted edit of configuration c: the closures given to update_config.
Edits(c) ==
    UNION {
      UNION {SetMode(c, v) : v \in BOOLEAN},
      UNION {UpdateRouting(c, r) : r \in Routings},
      UNION {UpdateDeviceExclusion(c, m, x) : m \in Macs, x \in BOOLEAN},
      UNION {InsertServer(c, k, p) : k \in Keys, p \in Profile},
      UNION {UpsertServer(c, k, p) : k \in Keys, p \in Profile},
      UNION {UpdateServer(c, k, l, e) : k \in Keys, l \in Keys, e \in Endpoints},
      UNION {SelectServer(c, k) : k \in Keys},
      UNION {DeleteServer(c, k) : k \in Keys} }

-----------------------------------------------------------------------------
(* What a configuration asks of the kernel.                                *)

\* dataplane.rs VpnEgress::from_config: only an active managed server with an
\* imported address has a WARP source alias.
WarpSource(c) ==
    IF HasActive(c) /\ c.servers[c.active].managed
    THEN c.servers[c.active].cred ELSE NoCred

\* dataplane.rs render_with_exclusions without the exclusion set.  With the VPN
\* off a WARP rule is a block whatever the alias is.
Render(c) == [vpn     |-> c.vpn,
              warp    |-> IF c.vpn THEN WarpSource(c) ELSE NoCred,
              routing |-> c.routing]

\* controller/mode.rs apply_network: the tunnel the configuration asks for.
Bypass   == [peer |-> NoKey, ep |-> NoServer, cred |-> NoCred]
NetOf(c) == IF c.vpn
            THEN [peer |-> c.active,
                  ep   |-> c.servers[c.active].ep,
                  cred |-> c.servers[c.active].cred]
            ELSE Bypass

\* A configuration the controller can hold and load again: an active server
\* exists whenever there are servers at all, the VPN is on only with an active
\* server, and the exclusions keep to the limit that load enforces.
WellFormed(c) ==
    /\ ~(Cardinality(c.excl) > MaxExclusions)
    /\ c.active = NoKey <=> ~HasServers(c)
    /\ c.active # NoKey => HasActive(c)
    /\ c.vpn => HasActive(c)
=============================================================================
