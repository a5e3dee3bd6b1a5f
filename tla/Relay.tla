-------------------------------- MODULE Relay --------------------------------
(***************************************************************************)
(* gofro-relay: the UDP transport between a router's WireGuard and the VPS  *)
(* (gofro-relay/src/client.rs, server.rs, batch.rs).  The server keeps one  *)
(* session per source address: a socket of its own towards WireGuard and a  *)
(* worker thread that takes WireGuard's packets back.  The main thread      *)
(* creates, uses and expires sessions; worker_alive is all that the two     *)
(* share.  A client is a process that the router restarts when it fails and *)
(* that then has another source address.                                    *)
(*                                                                         *)
(* Time passes in periods of RECEIVE_TIMEOUT and is kept as ages: how many  *)
(* periods ago a source was last seen, up to Idle.  A blocked receive       *)
(* returns within a period, so time does not go on before it does.          *)
(* last_seen is read from the system's clock: that nobody sets this clock   *)
(* while the server runs is assumed here (a step forward by the idle time   *)
(* would expire every session, one back keep them longer).  What the        *)
(* packets hold is left out; a datagram is well encoded or not.             *)
(***************************************************************************)
EXTENDS Naturals, FiniteSets

CONSTANTS
    Clients, Sources, NoSource,
    MaxClients,     \* sessions the server keeps
    Idle,           \* periods without a packet after which a session goes
    MaxWorkers,     \* bound: worker threads (WorkersAreBounded says it is enough)
    MaxFaults       \* bound: stops of WireGuard, failing sends, killed clients

ASSUME SourceAssumption == NoSource \notin Sources
ASSUME BoundAssumption ==
    /\ MaxClients \in Nat \ {0} /\ Idle \in Nat /\ Idle >= 2
    /\ MaxWorkers \in Nat /\ MaxFaults \in Nat

Workers == 1 .. MaxWorkers
NoWorker == 0

VARIABLES
    session,    \* the worker of the session of each source
    age,        \* periods since each session's last_seen
    quiet,      \* periods since remove_idle last ran (last_cleanup), up to 1
    waited,     \* periods that the main thread's receive has been waiting
    worker,     \* the threads: what they do, and their socket's state
    now,        \* what the main thread does
    wireguard,  \* WireGuard listens
    client,     \* the routers' relay processes
    heard,      \* periods since each source's last good packet (history)
    faults

server == <<session, age, quiet, waited, worker, now>>
vars == <<server, wireguard, client, heard, faults>>

\* alive: worker_alive; error: the socket has a pending error; inbox: a packet
\* from WireGuard waits at it; stale: it waits since before its session went.
NoThread == [at |-> "none", src |-> NoSource, alive |-> FALSE, error |-> FALSE,
             inbox |-> FALSE, late |-> FALSE, stale |-> 0]
Thread == [at : {"none", "receive", "check", "send", "failed"}, src : Sources \cup {NoSource},
           alive : BOOLEAN, error : BOOLEAN, inbox : BOOLEAN, late : BOOLEAN, stale : 0 .. 1]

\* The main thread waits, or handles a packet of a source.
Waiting == [at |-> "receive", src |-> NoSource]
Handling == {Waiting} \cup [at : {"lookup", "send"}, src : Sources]

Process == [at : {"connect", "first", "run"}, src : Sources \cup {NoSource}]

NoProcess == [at |-> "connect", src |-> NoSource]

TypeOK ==
    /\ session \in [Sources -> Workers \cup {NoWorker}]
    /\ age \in [Sources -> 0 .. Idle] /\ quiet \in 0 .. 1 /\ waited \in 0 .. 1
    /\ worker \in [Workers -> Thread]
    /\ now \in Handling /\ wireguard \in BOOLEAN
    /\ client \in [Clients -> Process]
    /\ heard \in [Sources -> 0 .. Idle] /\ faults \in Nat

Sessions == {s \in Sources : session[s] # NoWorker}
Running == {w \in Workers : worker[w].at # "none"}
Fault == faults < MaxFaults /\ faults' = faults + 1

-----------------------------------------------------------------------------
(* The server's main thread (serve).                                       *)

\* is_idle, for a clock that is not set.
Expired(s) == session[s] # NoWorker /\ age[s] >= Idle

\* Session::drop tells the worker; its socket stays open until it noticed.
Dropped(t) == IF t.at = "none" THEN t ELSE [t EXCEPT !.alive = FALSE]

\* remove_idle
RemoveIdle ==
    /\ session' = [s \in Sources |-> IF Expired(s) THEN NoWorker ELSE session[s]]
    /\ worker' = [w \in Workers |->
          IF \E s \in Sources : Expired(s) /\ session[s] = w THEN Dropped(worker[w]) ELSE worker[w]]
    /\ quiet' = 0

\* Mutant: only a receive that timed out looks for idle sessions.
CleanUpWhenQuiet == UNCHANGED <<session, worker, quiet>>

\* The check before a received packet is handled: traffic must not keep idle
\* sessions.
CleanUp == IF quiet = 1 THEN RemoveIdle ELSE UNCHANGED <<session, worker, quiet>>

\* recv_from_many times out: nobody sent anything for a period.
ReceiveTimesOut ==
    /\ now = Waiting /\ waited = 1 /\ RemoveIdle /\ waited' = 0
    /\ UNCHANGED <<age, now, wireguard, client, heard, faults>>

\* A datagram that does not decode creates nothing.
ReceiveJunk ==
    /\ now = Waiting /\ (quiet = 1 \/ waited = 1) /\ CleanUp /\ waited' = 0
    /\ UNCHANGED <<age, now, wireguard, client, heard, faults>>

\* A datagram from a client.
Receive(c) ==
    /\ client[c].at = "run" /\ now = Waiting
    /\ CleanUp /\ waited' = 0 /\ now' = [at |-> "lookup", src |-> client[c].src]
    /\ heard' = [heard EXCEPT ![client[c].src] = 0]
    /\ UNCHANGED <<age, wireguard, client, faults>>

\* A session is usable while its worker has not given up.
Usable(s) == session[s] # NoWorker /\ worker[session[s]].alive

NewThread(s) == [NoThread EXCEPT !.at = "receive", !.src = s, !.alive = TRUE]

\* Mutant: the age of a session is the time since it was created.
SeenOnce(s) == IF Usable(s) THEN UNCHANGED age ELSE age' = [age EXCEPT ![s] = 0]

\* last_seen.store
Seen(s) == age' = [age EXCEPT ![s] = 0]

Room(s) == Cardinality(Sessions \ {s}) < MaxClients

\* Identities for a new thread.
Spare(s) == {w \in Workers \ Running : \A r \in Sources \ {s} : session[r] # w}

\* get_or_create_session: a session whose worker failed is replaced; a new one
\* needs room, or the packet is dropped.
LookUp ==
    /\ now.at = "lookup"
    /\ LET s == now.src
       IN  \/ /\ Usable(s) /\ UNCHANGED <<session, worker>>
              /\ Seen(s) /\ now' = [now EXCEPT !.at = "send"]
           \/ /\ ~Usable(s) /\ Room(s)
              /\ Spare(s) # {}
              /\ LET w == CHOOSE v \in Spare(s) : \A u \in Spare(s) : v =< u
                 IN  /\ session' = [session EXCEPT ![s] = w]
                     /\ worker' = [worker EXCEPT ![w] = NewThread(s)]
              /\ Seen(s) /\ now' = [now EXCEPT !.at = "send"]
           \/ /\ ~Usable(s) /\ ~Room(s) /\ UNCHANGED <<session, worker, age>>
              /\ now' = Waiting
    /\ UNCHANGED <<quiet, waited, wireguard, client, heard, faults>>

\* The process ends with its threads and starts again with an empty table.
ServerExits ==
    /\ session' = [s \in Sources |-> NoWorker] /\ worker' = [w \in Workers |-> NoThread]
    /\ age' = [s \in Sources |-> 0] /\ quiet' = 0 /\ waited' = 0 /\ now' = Waiting

\* A client that sends while nobody listens gets an error and ends.
ClientsNotice ==
    \E C \in SUBSET {c \in Clients : client[c].at = "run"} :
        client' = [c \in Clients |-> IF c \in C THEN NoProcess ELSE client[c]]

\* Session::new gets no socket or no thread: the error ends the server.
SessionFails ==
    /\ now.at = "lookup" /\ ~Usable(now.src) /\ Room(now.src)
    /\ Fault /\ ServerExits /\ ClientsNotice
    /\ UNCHANGED <<wireguard, heard>>

\* The decoded packet goes to WireGuard, which may answer.  Nobody listening
\* there is an error of the socket, which the next call on it returns: here it
\* ends the server, in the worker only the session.
Send ==
    /\ now.at = "send"
    /\ LET w == session[now.src]
       IN  IF worker[w].error THEN ServerExits /\ ClientsNotice
           ELSE /\ now' = Waiting /\ UNCHANGED <<session, age, quiet, waited, client>>
                /\ \/ wireguard /\ \E answer \in BOOLEAN :
                        worker' = [worker EXCEPT ![w].inbox = @ \/ (answer /\ worker[w].at # "none")]
                   \/ ~wireguard /\ worker' = [worker EXCEPT ![w].error = worker[w].at # "none"]
    /\ UNCHANGED <<wireguard, heard, faults>>

-----------------------------------------------------------------------------
(* A worker (return_packets).                                              *)

Set(w, t) == worker' = [worker EXCEPT ![w] = t]
WorkerOnly == UNCHANGED <<session, age, quiet, waited, now, wireguard, client, heard>>

\* A packet arrives, the receive fails, or it times out; a worker without a
\* session ends at the first of the last two.
WorkerReceives(w) ==
    LET t == worker[w]
    IN  /\ t.at = "receive"
        /\ \/ t.error /\ Set(w, [t EXCEPT !.at = "failed", !.error = FALSE])
           \/ t.inbox /\ Set(w, [t EXCEPT !.at = "check", !.inbox = FALSE, !.late = ~t.alive])
           \/ ~t.error /\ ~t.inbox /\ ~t.alive /\ Set(w, NoThread)
        /\ WorkerOnly /\ UNCHANGED faults

\* Mutant: a packet in hand is sent whatever became of the session.
WorkerChecksNothing(w) ==
    /\ worker[w].at = "check"
    /\ Set(w, [worker[w] EXCEPT !.at = "send"])
    /\ WorkerOnly /\ UNCHANGED faults

WorkerChecks(w) ==
    /\ worker[w].at = "check"
    /\ Set(w, IF worker[w].alive THEN [worker[w] EXCEPT !.at = "send"] ELSE NoThread)
    /\ WorkerOnly /\ UNCHANGED faults

WorkerSends(w) ==
    /\ worker[w].at = "send"
    /\ \/ Set(w, [worker[w] EXCEPT !.at = "receive"]) /\ UNCHANGED faults
       \/ Fault /\ Set(w, [worker[w] EXCEPT !.at = "failed"])
    /\ WorkerOnly

\* worker_alive.store(false), then the thread ends.
WorkerEnds(w) ==
    /\ worker[w].at = "failed"
    /\ Set(w, NoThread)
    /\ WorkerOnly /\ UNCHANGED faults

Worker(w) == WorkerReceives(w) \/ WorkerChecks(w) \/ WorkerSends(w) \/ WorkerEnds(w)

-----------------------------------------------------------------------------
(* The clients (client.rs): connect, retried while there is no network; the *)
(* first datagram of the local WireGuard; then forwarding both ways.  Any   *)
(* error of a socket ends the process.                                      *)

ServerOnly == UNCHANGED <<server, wireguard, heard>>

Connect(c) ==
    /\ client[c].at = "connect"
    /\ \E s \in Sources : /\ \A d \in Clients \ {c} : client[d].src # s
                          /\ client' = [client EXCEPT ![c] = [at |-> "first", src |-> s]]
    /\ ServerOnly /\ UNCHANGED faults

FirstDatagram(c) ==
    /\ client[c].at = "first"
    /\ client' = [client EXCEPT ![c].at = "run"]
    /\ ServerOnly /\ UNCHANGED faults

ClientFails(c) ==
    /\ client[c].at = "run" /\ Fault
    /\ client' = [client EXCEPT ![c] = NoProcess]
    /\ ServerOnly

-----------------------------------------------------------------------------
(* WireGuard and time.                                                     *)

StopWireGuard == wireguard /\ Fault /\ wireguard' = FALSE /\ UNCHANGED <<server, client, heard>>
StartWireGuard == ~wireguard /\ wireguard' = TRUE /\ UNCHANGED <<server, client, heard, faults>>

Older(n) == IF n < Idle THEN n + 1 ELSE n

\* A period passes.  Within it every thread that can run did, and every receive
\* that waited since the last one returned.
Tick ==
    /\ now = Waiting /\ waited = 0
    /\ \A w \in Running : worker[w].at = "receive" /\ worker[w].stale = 0
    /\ age' = [s \in Sources |-> Older(age[s])] /\ heard' = [s \in Sources |-> Older(heard[s])]
    /\ quiet' = 1 /\ waited' = 1
    /\ worker' = [w \in Workers |->
          IF worker[w].at = "receive" /\ ~worker[w].alive THEN [worker[w] EXCEPT !.stale = 1]
                                                          ELSE worker[w]]
    /\ UNCHANGED <<session, now, wireguard, client, faults>>

Init ==
    /\ session = [s \in Sources |-> NoWorker] /\ age = [s \in Sources |-> 0]
    /\ quiet = 0 /\ waited = 0 /\ worker = [w \in Workers |-> NoThread] /\ now = Waiting
    /\ wireguard = TRUE /\ client = [c \in Clients |-> NoProcess]
    /\ heard = [s \in Sources |-> Idle] /\ faults = 0

Main == ReceiveTimesOut \/ ReceiveJunk \/ LookUp \/ Send

Next ==
    \/ Main \/ SessionFails \/ Tick \/ StopWireGuard \/ StartWireGuard
    \/ \E c \in Clients : Receive(c) \/ Connect(c) \/ FirstDatagram(c) \/ ClientFails(c)
    \/ \E w \in Workers : Worker(w)

Spec == Init /\ [][Next]_vars

\* Threads run, services are started again and time passes; the WireGuard of at
\* least one router goes on sending its keepalives, the others may be switched off.
FairSpec ==
    /\ Spec /\ WF_vars(Main) /\ SF_vars(Tick) /\ WF_vars(StartWireGuard)
    /\ \A w \in Workers : WF_vars(Worker(w))
    /\ \E c \in Clients : WF_vars(Connect(c)) /\ WF_vars(FirstDatagram(c)) /\ SF_vars(Receive(c))

-----------------------------------------------------------------------------
(* Properties.                                                             *)

\* NoDeafSession: a session that get_or_create_session would use has a worker,
\* or one that has failed and is about to say so: no client is left with a
\* session that sends its packets and never returns an answer.
NoDeafSession == \A s \in Sources : Usable(s) => worker[session[s]].at # "none" /\ worker[session[s]].src = s

\* WorkersAreBounded: the table is bounded by MaxClients, the threads, which
\* outlive their sessions by up to a period, by twice as many.
WorkersAreBounded ==
    Cardinality(Sessions) =< MaxClients /\ Cardinality(Running) =< 2 * MaxClients

\* RecentSessionsStay: a session leaves the table only when its source was not
\* heard for the idle time, when its worker failed, or with the whole server, all
\* threads included; as long as the clock is not set.  (remove_idle)
RecentSessionsStay ==
    [][\A s \in Sources : session[s] # NoWorker /\ session'[s] # session[s] =>
            \/ heard[s] >= Idle \/ ~worker[session[s]].alive
            \/ \A w \in Workers : worker'[w] = NoThread]_vars

\* StaleAnswersStop: a packet that reaches a socket after its session went is
\* not sent to the client's address.
StaleAnswersStop == \A w \in Workers : worker[w].at = "send" => ~worker[w].late

Served(c) ==
    /\ client[c].at = "run" /\ Usable(client[c].src)
    /\ worker[session[client[c].src]].at # "none"

\* ServiceGoesOn: again and again some client has a session with a worker, after
\* any failures, restarts and changes of address: a table that is full of old or
\* broken sessions does not stay full.
ServiceGoesOn == []<>(\E c \in Clients : Served(c))

\* SessionsAreSound: every usable session has a worker that answers its source,
\* nobody else gets an answer meant for a session that went, and neither
\* sessions nor threads pile up.  (get_or_create_session, session_worker)
SessionsAreSound == TypeOK /\ NoDeafSession /\ StaleAnswersStop /\ WorkersAreBounded
=============================================================================
