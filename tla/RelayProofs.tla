----------------------------- MODULE RelayProofs -----------------------------
(***************************************************************************)
(* Proofs about Relay for every set of clients and source addresses, every *)
(* size of the table and every idle time.                                  *)
(***************************************************************************)
EXTENDS Relay, FiniteSetTheorems, TLAPS

-----------------------------------------------------------------------------
(* The inductive invariant.                                                *)

\* The threads that outlive their session, those of them that lost it since the
\* last period began, and the threads of the sessions of at least an age.
Orphans == {w \in Workers : worker[w].at # "none" /\ ~worker[w].alive}
NewOrphans == {w \in Orphans : worker[w].stale = 0}
Held == {w \in Workers : \E s \in Sources : session[s] = w}
HeldSince(n) == {w \in Workers : \E s \in Sources : session[s] = w /\ age[s] >= n}

\* A thread that may still answer belongs to a session, and what it is about to
\* send was meant for that session.
ThreadInv ==
    \A w \in Workers :
        /\ worker[w].alive => /\ worker[w].at # "none" /\ worker[w].stale = 0
                              /\ worker[w].src \in Sources /\ session[worker[w].src] = w
        /\ worker[w].at = "send" => ~worker[w].late
        /\ (worker[w].at = "check" /\ worker[w].late) => ~worker[w].alive

\* No two sessions share a thread, and the packet in hand has a session.
SessionInv ==
    /\ \A r, s \in Sources : (session[r] = session[s] /\ session[r] # NoWorker) => r = s
    /\ now.at = "send" => session[now.src] # NoWorker

\* Every period has one clean-up, and before it nothing else is done.
PeriodInv ==
    /\ quiet = waited
    /\ quiet = 1 => now = Waiting /\ NewOrphans = {}

\* A session is no older than the silence of its source, but for the packet in
\* hand.
AgeInv == \A s \in Sources :
    (Usable(s) /\ ~(now.at = "lookup" /\ now.src = s)) => age[s] =< heard[s]

\* The threads without a session, with those that lose theirs at the next
\* clean-up, all had one at the last: there are no more than sessions.
CountInv ==
    /\ Cardinality(Sessions) =< MaxClients
    /\ Cardinality(Orphans) =< MaxClients
    /\ quiet = 0 => Cardinality(NewOrphans \cup HeldSince(1)) =< MaxClients
    /\ quiet = 1 => Cardinality(Orphans \cup HeldSince(Idle)) =< MaxClients

ClientInv == \A c \in Clients : client[c].at \in {"first", "run"} => client[c].src \in Sources

IInv == TypeOK /\ ThreadInv /\ SessionInv /\ PeriodInv /\ AgeInv /\ CountInv /\ ClientInv

-----------------------------------------------------------------------------
(* Counting.                                                               *)

\* Sets of threads are finite, and a part of one is no larger.
LEMMA Fewer == ASSUME NEW S \in SUBSET Workers, NEW T \in SUBSET S
               PROVE  /\ IsFiniteSet(S) /\ IsFiniteSet(T) /\ Cardinality(S) \in Nat
                      /\ Cardinality(T) \in Nat /\ Cardinality(T) =< Cardinality(S)
<1>1. IsFiniteSet(Workers)  BY BoundAssumption, FS_Interval DEF Workers
<1>2. IsFiniteSet(S)  BY <1>1, FS_Subset
<1> QED  BY <1>2, FS_Subset, FS_CardinalityType

\* A part of a bounded set of threads is bounded.
LEMMA StillFewer ==
    ASSUME NEW S \in SUBSET Workers, NEW T \in SUBSET S, Cardinality(S) =< MaxClients
    PROVE  Cardinality(T) =< MaxClients
BY Fewer, BoundAssumption

\* There are as many held threads as sessions.
LEMMA HeldBySessions ==
    ASSUME TypeOK, SessionInv
    PROVE  IsFiniteSet(Sessions) /\ Cardinality(Sessions) \in Nat /\ Cardinality(Held) =< Cardinality(Sessions)
<1> DEFINE f == [s \in Sessions |-> session[s]]
<1>1. Held \in SUBSET Workers  BY DEF Held
<1>2. NoWorker \notin Workers  BY BoundAssumption DEF NoWorker, Workers
<1>3. \A s \in Sessions : session[s] \in Held /\ s \in Sources
  BY DEF TypeOK, Sessions, Held
<1>4. f \in [Sessions -> Held]  BY <1>3
<1>5. f \in Injection(Sessions, Held)
  <2>1. \A r, s \in Sessions : f[r] = f[s] => r = s  BY <1>3 DEF SessionInv, Sessions
  <2> QED  BY <1>4, <2>1 DEF Injection, IsInjective
<1>6. f \in Surjection(Sessions, Held)
  <2>1. \A w \in Held : \E s \in Sessions : f[s] = w  BY <1>2 DEF Held, Sessions
  <2> QED  BY <1>4, <2>1 DEF Surjection
<1> HIDE DEF f
<1>7. IsFiniteSet(Held)  BY <1>1, Fewer
<1>8. IsFiniteSet(Sessions)  BY <1>5, <1>7, FS_Injection
<1>9. Cardinality(Held) =< Cardinality(Sessions)  BY <1>6, <1>8, FS_Surjection
<1> QED  BY <1>8, <1>9, FS_CardinalityType

-----------------------------------------------------------------------------
(* The steps of one thread, and of the main thread at one socket.          *)

\* What the type says of a thread.
LEMMA ThreadFields ==
    ASSUME NEW t \in Thread
    PROVE  /\ t.at \in {"none", "receive", "check", "send", "failed"} /\ t.src \in Sources \cup {NoSource}
           /\ t.alive \in BOOLEAN /\ t.error \in BOOLEAN /\ t.inbox \in BOOLEAN /\ t.late \in BOOLEAN
           /\ t.stale \in {0, 1}
<1>1. 0 .. 1 = {0, 1}  OBVIOUS
<1> QED  BY <1>1 DEF Thread

\* A thread that ended.
LEMMA EndedThread ==
    NoThread \in Thread /\ NoThread.at = "none" /\ NoThread.src = NoSource /\ NoThread.alive = FALSE
      /\ NoThread.error = FALSE /\ NoThread.inbox = FALSE /\ NoThread.late = FALSE /\ NoThread.stale = 0
<1>1. 0 \in 0 .. 1  OBVIOUS
<1> QED  BY <1>1 DEF NoThread, Thread

\* How one thread may go on: it ends, or stays as alive as it was and sends
\* nothing that came too late.
GoesOn(t, u) ==
    \/ u.at = "none" /\ ~u.alive
    \/ /\ u.at # "none" /\ t.at # "none"
       /\ (u.alive <=> t.alive) /\ u.stale = t.stale /\ u.src = t.src
       /\ u.at = "send" => ~u.late
       /\ (u.at = "check" /\ u.late) => ~u.alive

\* One thread goes on.
LEMMA ThreadMoves ==
    ASSUME IInv, NEW w \in Workers, NEW t \in Thread, GoesOn(worker[w], t),
           worker' = [worker EXCEPT ![w] = t],
           now' = now \/ (now.at = "send" /\ now' = Waiting),
           UNCHANGED <<session, age, quiet, waited, wireguard, client, heard>>,
           faults' = faults \/ Fault
    PROVE  IInv'
<1>1. TypeOK /\ ThreadInv /\ SessionInv /\ PeriodInv /\ AgeInv /\ CountInv /\ ClientInv  BY DEF IInv
<1>2. worker'[w] = t /\ \A v \in Workers : v # w => worker'[v] = worker[v]  BY <1>1 DEF TypeOK
<1>3. session' = session /\ age' = age /\ quiet' = quiet /\ waited' = waited /\ heard' = heard
        /\ client' = client /\ wireguard' = wireguard
  OBVIOUS
<1>4. TypeOK'
  <2>1. worker' \in [Workers -> Thread]  BY <1>1 DEF TypeOK
  <2>2. now' \in Handling  BY <1>1 DEF TypeOK, Handling
  <2>3. faults' \in Nat  BY <1>1 DEF TypeOK, Fault
  <2> QED  BY <1>1, <1>3, <2>1, <2>2, <2>3 DEF TypeOK
<1>5. ThreadInv'
  <2>1. ASSUME NEW v \in Workers
        PROVE  /\ worker'[v].alive => /\ worker'[v].at # "none" /\ worker'[v].stale = 0
                              /\ worker'[v].src \in Sources /\ session[worker'[v].src] = v
               /\ worker'[v].at = "send" => ~worker'[v].late
               /\ (worker'[v].at = "check" /\ worker'[v].late) => ~worker'[v].alive
    <3>1. CASE v # w  BY <1>1, <1>2, <3>1 DEF ThreadInv
    <3>2. CASE v = w  BY <1>1, <1>2, <3>2 DEF ThreadInv, GoesOn
    <3> QED  BY <3>1, <3>2
  <2> QED  BY <1>3, <2>1 DEF ThreadInv
<1>6. SessionInv'  BY <1>1, <1>3 DEF SessionInv, Waiting
<1>7. Orphans' \in SUBSET Orphans /\ NewOrphans' \in SUBSET NewOrphans
  <2>1. \A v \in Workers : (worker'[v].at # "none" /\ ~worker'[v].alive) =>
            worker[v].at # "none" /\ ~worker[v].alive /\ worker'[v].stale = worker[v].stale
    BY <1>2 DEF GoesOn
  <2> QED  BY <2>1 DEF Orphans, NewOrphans
<1>8. PeriodInv'
  <2>1. now = Waiting => now' = Waiting  BY DEF Waiting
  <2> QED  BY <1>1, <1>3, <1>7, <2>1 DEF PeriodInv
<1>9. AgeInv'
  <2>1. ASSUME NEW s \in Sources, Usable(s)' PROVE Usable(s)
    <3>1. session[s] \in Workers  BY <1>1, <1>3, <2>1 DEF Usable, TypeOK
    <3> QED  BY <1>2, <1>3, <2>1, <3>1 DEF Usable, GoesOn
  <2>2. \A s \in Sources : (now.at = "lookup" /\ now.src = s) => now' = now  OBVIOUS
  <2> QED  BY <1>1, <1>3, <2>1, <2>2 DEF AgeInv
<1>10. CountInv'
  <2>1. Sessions' = Sessions /\ \A n : HeldSince(n)' = HeldSince(n)  BY <1>3 DEF Sessions, HeldSince
  <2>2. /\ Orphans \in SUBSET Workers /\ NewOrphans \cup HeldSince(1) \in SUBSET Workers
        /\ Orphans \cup HeldSince(Idle) \in SUBSET Workers
    BY DEF Orphans, NewOrphans, HeldSince
  <2>3. Cardinality(Orphans') =< MaxClients  BY <1>1, <1>7, <2>2, StillFewer DEF CountInv
  <2>4. quiet = 0 => Cardinality(NewOrphans' \cup HeldSince(1)) =< MaxClients
    <3>1. NewOrphans' \cup HeldSince(1) \in SUBSET (NewOrphans \cup HeldSince(1))  BY <1>7
    <3> QED  BY <1>1, <2>2, <3>1, StillFewer DEF CountInv
  <2>5. quiet = 1 => Cardinality(Orphans' \cup HeldSince(Idle)) =< MaxClients
    <3>1. Orphans' \cup HeldSince(Idle) \in SUBSET (Orphans \cup HeldSince(Idle))  BY <1>7
    <3> QED  BY <1>1, <2>2, <3>1, StillFewer DEF CountInv
  <2> QED  BY <1>1, <1>3, <2>1, <2>3, <2>4, <2>5 DEF CountInv
<1>11. ClientInv'  BY <1>1, <1>3 DEF ClientInv
<1> QED  BY <1>4, <1>5, <1>6, <1>8, <1>9, <1>10, <1>11 DEF IInv

\* return_packets receives.
LEMMA WorkerReceivesStep == ASSUME IInv, NEW w \in Workers, WorkerReceives(w) PROVE IInv'
<1>1. worker[w] \in Thread /\ worker[w].at = "receive"  BY DEF IInv, TypeOK, WorkerReceives
<1>2. /\ UNCHANGED <<session, age, quiet, waited, now, wireguard, client, heard>> /\ faults' = faults
  BY DEF WorkerReceives, WorkerOnly
<1>3. CASE worker' = [worker EXCEPT ![w] = [worker[w] EXCEPT !.at = "failed", !.error = FALSE]]
  <2> DEFINE t == [worker[w] EXCEPT !.at = "failed", !.error = FALSE]
  <2>1. t \in Thread /\ t.at = "failed" /\ t.alive = worker[w].alive /\ t.stale = worker[w].stale
          /\ t.src = worker[w].src
    BY <1>1 DEF Thread
  <2>2. GoesOn(worker[w], t)  BY <1>1, <2>1 DEF GoesOn
  <2> HIDE DEF t
  <2> QED  BY <1>2, <1>3, <2>1, <2>2, ThreadMoves DEF t
<1>4. CASE worker' = [worker EXCEPT ![w] =
                        [worker[w] EXCEPT !.at = "check", !.inbox = FALSE, !.late = ~worker[w].alive]]
  <2> DEFINE t == [worker[w] EXCEPT !.at = "check", !.inbox = FALSE, !.late = ~worker[w].alive]
  <2>1. t \in Thread /\ t.at = "check" /\ t.alive = worker[w].alive /\ t.stale = worker[w].stale
          /\ t.src = worker[w].src /\ t.late = ~worker[w].alive
    BY <1>1, ThreadFields DEF Thread
  <2>2. GoesOn(worker[w], t)  BY <1>1, <2>1 DEF GoesOn
  <2> HIDE DEF t
  <2> QED  BY <1>2, <1>4, <2>1, <2>2, ThreadMoves DEF t
<1>5. CASE worker' = [worker EXCEPT ![w] = NoThread]
  <2>1. GoesOn(worker[w], NoThread)  BY EndedThread DEF GoesOn
  <2> QED  BY <1>2, <1>5, <2>1, EndedThread, ThreadMoves
<1> QED  BY <1>3, <1>4, <1>5 DEF WorkerReceives, Set

\* return_packets looks at worker_alive before it sends.
LEMMA WorkerChecksStep == ASSUME IInv, NEW w \in Workers, WorkerChecks(w) PROVE IInv'
<1>1. worker[w] \in Thread /\ worker[w].at = "check"  BY DEF IInv, TypeOK, WorkerChecks
<1>2. /\ UNCHANGED <<session, age, quiet, waited, now, wireguard, client, heard>> /\ faults' = faults
  BY DEF WorkerChecks, WorkerOnly
<1>3. CASE worker[w].alive
  <2> DEFINE t == [worker[w] EXCEPT !.at = "send"]
  <2>1. t \in Thread /\ t.at = "send" /\ t.alive = worker[w].alive /\ t.stale = worker[w].stale
          /\ t.src = worker[w].src /\ t.late = worker[w].late
    BY <1>1 DEF Thread
  <2>2. ~worker[w].late  BY <1>1, <1>3 DEF IInv, ThreadInv
  <2>3. GoesOn(worker[w], t)  BY <1>1, <2>1, <2>2 DEF GoesOn
  <2>4. worker' = [worker EXCEPT ![w] = t]  BY <1>3 DEF WorkerChecks, Set
  <2> HIDE DEF t
  <2> QED  BY <1>2, <2>1, <2>3, <2>4, ThreadMoves
<1>4. CASE ~worker[w].alive
  <2>1. GoesOn(worker[w], NoThread)  BY EndedThread DEF GoesOn
  <2>2. worker' = [worker EXCEPT ![w] = NoThread]  BY <1>4 DEF WorkerChecks, Set
  <2> QED  BY <1>2, <2>1, <2>2, EndedThread, ThreadMoves
<1> QED  BY <1>3, <1>4

\* return_packets sends to the client, and may fail.
LEMMA WorkerSendsStep == ASSUME IInv, NEW w \in Workers, WorkerSends(w) PROVE IInv'
<1>1. worker[w] \in Thread /\ worker[w].at = "send"  BY DEF IInv, TypeOK, WorkerSends
<1>2. /\ UNCHANGED <<session, age, quiet, waited, now, wireguard, client, heard>>
      /\ faults' = faults \/ Fault
  BY DEF WorkerSends, WorkerOnly
<1>3. ASSUME NEW a \in {"receive", "failed"}, worker' = [worker EXCEPT ![w] = [worker[w] EXCEPT !.at = a]]
      PROVE  IInv'
  <2> DEFINE t == [worker[w] EXCEPT !.at = a]
  <2>1. t \in Thread /\ t.at = a /\ t.alive = worker[w].alive /\ t.stale = worker[w].stale
          /\ t.src = worker[w].src
    BY <1>1 DEF Thread
  <2>2. GoesOn(worker[w], t)  BY <1>1, <2>1 DEF GoesOn
  <2>3. worker' = [worker EXCEPT ![w] = t]  BY <1>3
  <2> HIDE DEF t
  <2> QED  BY <1>2, <2>1, <2>2, <2>3, ThreadMoves
<1> QED  BY <1>3 DEF WorkerSends, Set

\* A failed worker says so and ends.
LEMMA WorkerEndsStep == ASSUME IInv, NEW w \in Workers, WorkerEnds(w) PROVE IInv'
<1>1. GoesOn(worker[w], NoThread)  BY EndedThread DEF GoesOn
<1> QED  BY <1>1, EndedThread, ThreadMoves DEF WorkerEnds, WorkerOnly, Set

\* A server that starts has no sessions and no threads.
LEMMA EmptyServer ==
    ASSUME /\ session' = [s \in Sources |-> NoWorker] /\ worker' = [w \in Workers |-> NoThread]
           /\ age' = [s \in Sources |-> 0] /\ quiet' = 0 /\ waited' = 0 /\ now' = Waiting
           /\ wireguard' \in BOOLEAN /\ client' \in [Clients -> Process] /\ ClientInv'
           /\ heard' \in [Sources -> 0 .. Idle] /\ faults' \in Nat
    PROVE  IInv'
<1>1. \A w \in Workers : worker'[w].at = "none" /\ ~worker'[w].alive  BY EndedThread
<1>2. TypeOK'
  <2>1. 0 \in 0 .. Idle /\ 0 \in 0 .. 1  BY BoundAssumption
  <2> QED  BY <2>1, EndedThread DEF TypeOK, Handling
<1>3. ThreadInv'  BY <1>1 DEF ThreadInv
<1>4. SessionInv' /\ AgeInv'  BY DEF SessionInv, AgeInv, Waiting, Usable
<1>5. Orphans' = {} /\ NewOrphans' = {}  BY <1>1 DEF Orphans, NewOrphans
<1>6. Sessions' = {} /\ HeldSince(1)' = {}
  <2>1. \A s \in Sources : session'[s] \notin Workers /\ session'[s] = NoWorker
    BY BoundAssumption DEF NoWorker, Workers
  <2> QED  BY <2>1 DEF Sessions, HeldSince
<1>7. PeriodInv'  BY <1>5 DEF PeriodInv
<1>8. CountInv'
  <2>1. (NewOrphans \cup HeldSince(1))' = {}  BY <1>5, <1>6
  <2>2. Cardinality({}) =< MaxClients  BY FS_EmptySet, BoundAssumption
  <2> QED  BY <1>5, <1>6, <2>1, <2>2 DEF CountInv
<1> QED  BY <1>2, <1>3, <1>4, <1>7, <1>8 DEF IInv

\* The server ends and starts again.
LEMMA ServerExitsStep ==
    ASSUME IInv, ServerExits, ClientsNotice, wireguard' = wireguard, heard' = heard, faults' \in Nat
    PROVE  IInv'
<1>1. TypeOK /\ ClientInv  BY DEF IInv
<1>2. PICK C \in SUBSET {c \in Clients : client[c].at = "run"} :
        client' = [c \in Clients |-> IF c \in C THEN NoProcess ELSE client[c]]
  BY DEF ClientsNotice
<1>3. NoProcess \in Process /\ NoProcess.at = "connect"  BY DEF NoProcess, Process
<1>4. client' \in [Clients -> Process] /\ ClientInv'  BY <1>1, <1>2, <1>3 DEF TypeOK, ClientInv
<1> QED  BY <1>1, <1>4, EmptyServer DEF ServerExits, TypeOK

\* No socket or no thread for a new session.
LEMMA SessionFailsStep == ASSUME IInv, SessionFails PROVE IInv'
<1>1. faults' \in Nat  BY DEF SessionFails, Fault, IInv, TypeOK
<1> QED  BY <1>1, ServerExitsStep DEF SessionFails

\* The server takes the packet in hand to WireGuard, or ends.
LEMMA SendStep == ASSUME IInv, Send PROVE IInv'
<1>1. TypeOK /\ ClientInv /\ SessionInv /\ now.at = "send"  BY DEF IInv, Send
<1>2. session[now.src] \in Workers
  <2>1. now.src \in Sources  BY <1>1 DEF TypeOK, Handling, Waiting
  <2> QED  BY <1>1, <2>1 DEF SessionInv, TypeOK
<1> DEFINE w == session[now.src]
<1>3. worker[w] \in Thread  BY <1>1, <1>2 DEF TypeOK
<1>4. CASE worker[w].error
  <2>1. ServerExits /\ ClientsNotice /\ wireguard' = wireguard /\ heard' = heard /\ faults' = faults
    BY <1>4 DEF Send
  <2> QED  BY <1>1, <2>1, ServerExitsStep DEF TypeOK
<1>5. CASE ~worker[w].error
  <2> HIDE DEF w
  <2>1. /\ UNCHANGED <<session, age, quiet, waited, wireguard, client, heard>>
        /\ now' = Waiting /\ faults' = faults
        /\ \/ \E answer \in BOOLEAN :
                worker' = [worker EXCEPT ![w].inbox = worker[w].inbox \/ (answer /\ worker[w].at # "none")]
           \/ worker' = [worker EXCEPT ![w].error = worker[w].at # "none"]
    BY <1>5 DEF Send, w
  <2>2. ASSUME NEW e \in BOOLEAN,
               worker' = [worker EXCEPT ![w].inbox = e] \/ worker' = [worker EXCEPT ![w].error = e]
        PROVE  IInv'
    <3> DEFINE t == worker'[w]
    <3>1. worker' = [worker EXCEPT ![w] = t] /\ t \in Thread /\ t.at = worker[w].at
            /\ t.alive = worker[w].alive /\ t.stale = worker[w].stale
            /\ t.src = worker[w].src /\ t.late = worker[w].late
      <4>1. w \in Workers /\ worker \in [Workers -> Thread]  BY <1>1, <1>2 DEF TypeOK, w
      <4>2. t = [worker[w] EXCEPT !.inbox = e] \/ t = [worker[w] EXCEPT !.error = e]  BY <2>2, <4>1
      <4>3. worker' = [worker EXCEPT ![w] = t]  BY <2>2, <4>1
      <4> QED  BY <1>3, <2>2, <4>2, <4>3 DEF Thread
    <3>2. GoesOn(worker[w], t)
      BY <1>2, <1>3, <3>1 DEF GoesOn, IInv, ThreadInv, w
    <3> HIDE DEF t
    <3> QED  BY <1>1, <1>2, <2>1, <3>1, <3>2, ThreadMoves DEF w
  <2>3. worker[w].inbox \in BOOLEAN  BY <1>3, ThreadFields
  <2> QED  BY <2>1, <2>2, <2>3
<1> QED  BY <1>4, <1>5 DEF Send

-----------------------------------------------------------------------------
(* A receive of the main thread.                                           *)

\* The main thread waits again, or has a packet of a source in hand.
Received ==
    \/ now' = Waiting /\ heard' = heard
    \/ \E s \in Sources : now' = [at |-> "lookup", src |-> s] /\ heard' = [heard EXCEPT ![s] = 0]

\* What the end of a receive leaves alone.
LEMMA ReceivedFacts ==
    ASSUME TypeOK, Received
    PROVE  /\ now' \in Handling /\ now'.at # "send" /\ heard' \in [Sources -> 0 .. Idle]
           /\ \A s \in Sources : ~(now'.at = "lookup" /\ now'.src = s) => heard'[s] = heard[s]
<1>1. CASE now' = Waiting /\ heard' = heard  BY <1>1 DEF TypeOK, Handling, Waiting
<1>2. ASSUME NEW s \in Sources, now' = [at |-> "lookup", src |-> s], heard' = [heard EXCEPT ![s] = 0]
      PROVE  /\ now' \in Handling /\ now'.at # "send" /\ heard' \in [Sources -> 0 .. Idle]
             /\ \A r \in Sources : ~(now'.at = "lookup" /\ now'.src = r) => heard'[r] = heard[r]
  <2>1. 0 \in 0 .. Idle  BY BoundAssumption
  <2> QED  BY <1>2, <2>1 DEF TypeOK, Handling
<1> QED  BY <1>1, <1>2 DEF Received

\* The clean-up of this period was done.
LEMMA LaterReceive ==
    ASSUME IInv, now = Waiting, quiet = 0, UNCHANGED <<session, worker, quiet, age, wireguard, client, faults>>,
           waited' = 0, Received
    PROVE  IInv'
<1>1. TypeOK /\ ThreadInv /\ SessionInv /\ PeriodInv /\ AgeInv /\ CountInv /\ ClientInv  BY DEF IInv
<1>2. TypeOK'  BY <1>1, ReceivedFacts DEF TypeOK
<1>3. ThreadInv' /\ ClientInv'  BY <1>1 DEF ThreadInv, ClientInv
<1>4. SessionInv'  BY <1>1, ReceivedFacts DEF SessionInv
<1>5. PeriodInv'  BY <1>1 DEF PeriodInv
<1>6. AgeInv'
  <2>1. \A s \in Sources : Usable(s)' <=> Usable(s)  BY DEF Usable
  <2>2. \A s \in Sources : Usable(s) => age[s] =< heard[s]  BY <1>1 DEF AgeInv, Waiting
  <2> QED  BY <1>1, <2>1, <2>2, ReceivedFacts DEF AgeInv
<1>7. CountInv'
  <2>1. Sessions' = Sessions /\ Orphans' = Orphans /\ NewOrphans' = NewOrphans /\ HeldSince(1)' = HeldSince(1)
    BY DEF Sessions, Orphans, NewOrphans, HeldSince
  <2>2. quiet' = 0 /\ (NewOrphans \cup HeldSince(1))' = NewOrphans \cup HeldSince(1)  BY <2>1
  <2>3. Cardinality((NewOrphans \cup HeldSince(1))') =< MaxClients  BY <1>1, <2>2 DEF CountInv
  <2> QED  BY <1>1, <2>1, <2>2, <2>3 DEF CountInv
<1> QED  BY <1>2, <1>3, <1>4, <1>5, <1>6, <1>7 DEF IInv

\* What remove_idle does to one thread, and to one session.
LEMMA RemoveIdleFacts ==
    ASSUME TypeOK, ThreadInv, SessionInv, RemoveIdle
    PROVE  /\ \A s \in Sources : session'[s] = IF Expired(s) THEN NoWorker ELSE session[s]
           /\ \A w \in Workers :
                /\ worker'[w] \in Thread /\ worker'[w].at = worker[w].at /\ worker'[w].src = worker[w].src
                /\ worker'[w].late = worker[w].late /\ worker'[w].stale = worker[w].stale
                /\ worker'[w].alive =>
                     worker[w].alive /\ \A s \in Sources : session[s] = w => ~Expired(s)
                /\ (worker[w].alive /\ ~worker'[w].alive) => \E s \in Sources : session[s] = w /\ Expired(s)
<1>1. \A s \in Sources : session'[s] = IF Expired(s) THEN NoWorker ELSE session[s]  BY DEF RemoveIdle
<1>2. ASSUME NEW w \in Workers
      PROVE  /\ worker'[w] \in Thread /\ worker'[w].at = worker[w].at /\ worker'[w].src = worker[w].src
             /\ worker'[w].late = worker[w].late /\ worker'[w].stale = worker[w].stale
             /\ worker'[w].alive =>
                  worker[w].alive /\ \A s \in Sources : session[s] = w => ~Expired(s)
             /\ (worker[w].alive /\ ~worker'[w].alive) => \E s \in Sources : session[s] = w /\ Expired(s)
  <2>1. worker[w] \in Thread  BY DEF TypeOK
  <2>2. worker'[w] = IF \E s \in Sources : Expired(s) /\ session[s] = w THEN Dropped(worker[w]) ELSE worker[w]
    BY DEF RemoveIdle
  <2>3. CASE ~\E s \in Sources : Expired(s) /\ session[s] = w  BY <2>1, <2>2, <2>3
  <2>4. CASE (\E s \in Sources : Expired(s) /\ session[s] = w) /\ worker[w].at # "none"
    <3>1. worker'[w] = [worker[w] EXCEPT !.alive = FALSE]  BY <2>2, <2>4 DEF Dropped
    <3>2. worker'[w] \in Thread /\ worker'[w].alive = FALSE /\ worker'[w].at = worker[w].at
            /\ worker'[w].src = worker[w].src /\ worker'[w].late = worker[w].late
            /\ worker'[w].stale = worker[w].stale
      BY <2>1, <3>1 DEF Thread
    <3> QED  BY <2>4, <3>2
  <2>5. CASE (\E s \in Sources : Expired(s) /\ session[s] = w) /\ worker[w].at = "none"
    <3>1. worker'[w] = worker[w]  BY <2>2, <2>5 DEF Dropped
    <3>2. ~worker[w].alive  BY <2>5 DEF ThreadInv
    <3> QED  BY <2>1, <3>1, <3>2
  <2> QED  BY <2>3, <2>4, <2>5
<1> QED  BY <1>1, <1>2

\* The first receive of a period removes the idle sessions.
LEMMA FirstReceive ==
    ASSUME IInv, now = Waiting, quiet = 1, RemoveIdle, UNCHANGED <<age, wireguard, client, faults>>,
           waited' = 0, Received
    PROVE  IInv'
<1>1. TypeOK /\ ThreadInv /\ SessionInv /\ PeriodInv /\ AgeInv /\ CountInv /\ ClientInv  BY DEF IInv
<1>2. \A s \in Sources : session'[s] = IF Expired(s) THEN NoWorker ELSE session[s]
  BY <1>1, RemoveIdleFacts
<1>3. \A w \in Workers :
         /\ worker'[w] \in Thread /\ worker'[w].at = worker[w].at /\ worker'[w].src = worker[w].src
         /\ worker'[w].late = worker[w].late /\ worker'[w].stale = worker[w].stale
         /\ worker'[w].alive => worker[w].alive /\ \A s \in Sources : session[s] = w => ~Expired(s)
         /\ (worker[w].alive /\ ~worker'[w].alive) => \E s \in Sources : session[s] = w /\ Expired(s)
  BY <1>1, RemoveIdleFacts
<1>4. TypeOK'
  <2>1. session' \in [Sources -> Workers \cup {NoWorker}]  BY <1>1, <1>2 DEF RemoveIdle, TypeOK
  <2>2. worker' \in [Workers -> Thread]  BY <1>3 DEF RemoveIdle
  <2>3. quiet' \in 0 .. 1 /\ waited' \in 0 .. 1  BY DEF RemoveIdle
  <2> QED  BY <1>1, <2>1, <2>2, <2>3, ReceivedFacts DEF TypeOK
<1>5. ThreadInv'
  <2>1. ASSUME NEW w \in Workers
        PROVE  /\ worker'[w].alive => /\ worker'[w].at # "none" /\ worker'[w].stale = 0
                              /\ worker'[w].src \in Sources /\ session'[worker'[w].src] = w
               /\ worker'[w].at = "send" => ~worker'[w].late
               /\ (worker'[w].at = "check" /\ worker'[w].late) => ~worker'[w].alive
    <3>1. /\ worker[w].alive => /\ worker[w].at # "none" /\ worker[w].stale = 0
                                /\ worker[w].src \in Sources /\ session[worker[w].src] = w
          /\ worker[w].at = "send" => ~worker[w].late
          /\ (worker[w].at = "check" /\ worker[w].late) => ~worker[w].alive
      BY <1>1 DEF ThreadInv
    <3>2. worker'[w].alive => session'[worker'[w].src] = w  BY <1>2, <1>3, <3>1
    <3> QED  BY <1>3, <3>1, <3>2
  <2> QED  BY <2>1 DEF ThreadInv
<1>6. SessionInv'  BY <1>1, <1>2, ReceivedFacts DEF SessionInv
<1>7. PeriodInv'  BY DEF PeriodInv, RemoveIdle
<1>8. AgeInv'
  <2>1. ASSUME NEW s \in Sources, Usable(s)' PROVE Usable(s)
    <3>1. session'[s] = session[s] /\ session[s] \in Workers  BY <1>1, <1>2, <2>1 DEF Usable, TypeOK
    <3> QED  BY <1>3, <2>1, <3>1 DEF Usable
  <2>2. \A s \in Sources : Usable(s) => age[s] =< heard[s]  BY <1>1 DEF AgeInv, Waiting
  <2> QED  BY <1>1, <2>1, <2>2, ReceivedFacts DEF AgeInv
<1>9. CountInv'
  <2>1. quiet' = 0  BY DEF RemoveIdle
  <2>2. Sessions' \in SUBSET Sessions  BY <1>2 DEF Sessions
  <2>3. Cardinality(Sessions') =< MaxClients
    <3>1. IsFiniteSet(Sessions) /\ Cardinality(Sessions) \in Nat  BY <1>1, HeldBySessions
    <3>2. Cardinality(Sessions') =< Cardinality(Sessions) /\ Cardinality(Sessions') \in Nat
      BY <2>2, <3>1, FS_Subset, FS_CardinalityType
    <3> QED  BY <1>1, <3>1, <3>2, BoundAssumption DEF CountInv
  <2>4. \A w \in Workers : (worker[w].alive /\ ~worker'[w].alive) => w \in HeldSince(Idle) /\ w \in Held
    BY <1>1, <1>3 DEF Expired, HeldSince, Held
  <2>5. Cardinality(Orphans') =< MaxClients
    <3>1. Orphans' \in SUBSET (Orphans \cup HeldSince(Idle))  BY <1>3, <2>4 DEF Orphans
    <3>2. Orphans \cup HeldSince(Idle) \in SUBSET Workers  BY DEF Orphans, HeldSince
    <3> QED  BY <1>1, <3>1, <3>2, StillFewer DEF CountInv
  <2>6. Cardinality((NewOrphans \cup HeldSince(1))') =< MaxClients
    <3>1. NewOrphans' \in SUBSET Held
      <4>1. \A w \in Orphans : worker[w].stale # 0  BY <1>1 DEF PeriodInv, NewOrphans
      <4> QED  BY <1>3, <2>4, <4>1 DEF Orphans, NewOrphans
    <3>2. HeldSince(1)' \in SUBSET Held
      <4>1. NoWorker \notin Workers  BY BoundAssumption DEF NoWorker, Workers
      <4> QED  BY <1>2, <4>1 DEF HeldSince, Held
    <3>3. Cardinality(Held) =< MaxClients /\ Held \in SUBSET Workers
      <4>1. Held \in SUBSET Workers  BY DEF Held
      <4> QED  BY <1>1, <4>1, HeldBySessions, Fewer, BoundAssumption DEF CountInv
    <3>4. (NewOrphans \cup HeldSince(1))' \in SUBSET Held  BY <3>1, <3>2
    <3> QED  BY <3>3, <3>4, StillFewer
  <2> QED  BY <2>1, <2>3, <2>5, <2>6 DEF CountInv
<1>10. ClientInv'  BY <1>1 DEF ClientInv
<1> QED  BY <1>4, <1>5, <1>6, <1>7, <1>8, <1>9, <1>10 DEF IInv

\* recv_from_many times out.
LEMMA ReceiveTimesOutStep == ASSUME IInv, ReceiveTimesOut PROVE IInv'
<1>1. quiet = 1  BY DEF ReceiveTimesOut, IInv, PeriodInv
<1> QED  BY <1>1, FirstReceive DEF ReceiveTimesOut, Received

\* A datagram that does not decode.
LEMMA ReceiveJunkStep == ASSUME IInv, ReceiveJunk PROVE IInv'
<1>1. quiet = 1  BY DEF ReceiveJunk, IInv, PeriodInv
<1> QED  BY <1>1, FirstReceive DEF ReceiveJunk, CleanUp, Received

\* A datagram from a client.
LEMMA ReceiveStep == ASSUME IInv, NEW c \in Clients, Receive(c) PROVE IInv'
<1>1. client[c].src \in Sources  BY DEF Receive, IInv, ClientInv
<1>2. Received  BY <1>1 DEF Receive, Received
<1>3. quiet \in {0, 1}  BY DEF IInv, TypeOK
<1>4. CASE quiet = 1  BY <1>2, <1>4, FirstReceive DEF Receive, CleanUp
<1>5. CASE quiet = 0  BY <1>2, <1>5, LaterReceive DEF Receive, CleanUp
<1> QED  BY <1>3, <1>4, <1>5

-----------------------------------------------------------------------------
(* The table.                                                              *)

\* The next identity of a thread: spare, so neither running nor held.
LEMMA NextThread ==
    ASSUME NEW s \in Sources, Spare(s) # {}
    PROVE  (CHOOSE v \in Spare(s) : \A u \in Spare(s) : v =< u) \in Spare(s)
<1>1. Spare(s) \in SUBSET Nat  BY BoundAssumption DEF Spare, Workers
<1>2. \E v \in Spare(s) : \A u \in Spare(s) : v =< u
  <2>1. PICK v \in Spare(s) : \A u \in Spare(s) : ~(<<u, v>> \in OpToRel(<, Nat))
    BY <1>1, NatLessThanWellFounded, WFMin
  <2>2. ASSUME NEW u \in Spare(s), u < v PROVE FALSE
    <3>1. <<u, v>> \in Nat \X Nat  BY <1>1
    <3>2. <<u, v>> \in {p \in Nat \X Nat : p[1] < p[2]}  BY <2>2, <3>1
    <3>3. <<u, v>> \in OpToRel(<, Nat)  BY <3>2 DEF OpToRel
    <3> QED  BY <2>1, <3>3
  <2> QED  BY <1>1, <2>2
<1> QED  BY <1>2

\* get_or_create_session finds the session, or has no room for one.
LEMMA LookUpFinds ==
    ASSUME IInv, LookUp, UNCHANGED <<session, worker>>
    PROVE  IInv'
<1>1. TypeOK /\ ThreadInv /\ SessionInv /\ PeriodInv /\ AgeInv /\ CountInv /\ ClientInv  BY DEF IInv
<1>2. now.at = "lookup" /\ now.src \in Sources /\ now # Waiting
  BY <1>1 DEF LookUp, TypeOK, Handling, Waiting
<1>3. /\ UNCHANGED <<quiet, waited, wireguard, client, heard, faults>>
      /\ \/ session[now.src] # NoWorker /\ Seen(now.src) /\ now' = [now EXCEPT !.at = "send"]
         \/ ~Usable(now.src) /\ age' = age /\ now' = Waiting
  <2>1. CASE Usable(now.src)  BY <2>1 DEF LookUp, Usable
  <2>2. CASE ~Usable(now.src) /\ Spare(now.src) # {} /\ session'[now.src] \in Spare(now.src)
    <3>1. session[now.src] # NoWorker
      BY <2>2, BoundAssumption DEF Spare, Workers, NoWorker
    <3> QED  BY <2>2, <3>1 DEF LookUp
  <2>3. CASE ~Usable(now.src) /\ ~(Spare(now.src) # {} /\ session'[now.src] \in Spare(now.src))
    <3>1. ASSUME Spare(now.src) # {}, session' = [session EXCEPT ![now.src] =
                    CHOOSE v \in Spare(now.src) : \A u \in Spare(now.src) : v =< u]
          PROVE  FALSE
      BY <1>1, <1>2, <2>3, <3>1, NextThread DEF TypeOK
    <3> QED  BY <2>3, <3>1 DEF LookUp
  <2> QED  BY <2>1, <2>2, <2>3
<1>4. age' \in [Sources -> 0 .. Idle] /\ \A s \in Sources : age'[s] = age[s] \/ (s = now.src /\ age'[s] = 0)
  <2>1. 0 \in 0 .. Idle  BY BoundAssumption
  <2> QED  BY <1>1, <1>3, <2>1 DEF TypeOK, Seen
<1>5. now' \in Handling /\ now'.at # "lookup" /\ (now'.at = "send" => session[now'.src] # NoWorker)
  <2>1. now \in [at : {"lookup", "send"}, src : Sources]  BY <1>1, <1>2 DEF TypeOK, Handling
  <2>2. [now EXCEPT !.at = "send"] \in [at : {"lookup", "send"}, src : Sources]
          /\ [now EXCEPT !.at = "send"].at = "send" /\ [now EXCEPT !.at = "send"].src = now.src
    BY <2>1
  <2> QED  BY <1>3, <2>2 DEF Handling, Waiting
<1>6. TypeOK'  BY <1>1, <1>3, <1>4, <1>5 DEF TypeOK
<1>7. ThreadInv' /\ ClientInv'  BY <1>1, <1>3 DEF ThreadInv, ClientInv
<1>8. SessionInv'  BY <1>1, <1>5 DEF SessionInv
<1>9. quiet = 0 /\ waited = 0  BY <1>1, <1>2 DEF PeriodInv, TypeOK
<1>10. PeriodInv'  BY <1>3, <1>9 DEF PeriodInv
<1>11. AgeInv'
  <2>1. \A s \in Sources : heard[s] >= 0 /\ heard[s] \in Nat  BY <1>1, BoundAssumption DEF TypeOK
  <2>2. \A s \in Sources : Usable(s)' <=> Usable(s)  BY DEF Usable
  <2>3. ASSUME NEW s \in Sources, Usable(s) PROVE age'[s] =< heard[s]
    <3>1. CASE s = now.src
      <4>1. age'[s] = 0  BY <1>1, <1>3, <2>3, <3>1 DEF Seen, TypeOK
      <4> QED  BY <2>1, <4>1
    <3>2. CASE s # now.src  BY <1>1, <1>4, <2>3, <3>2 DEF AgeInv
    <3> QED  BY <3>1, <3>2
  <2> QED  BY <1>3, <2>2, <2>3 DEF AgeInv
<1>12. CountInv'
  <2>1. Sessions' = Sessions /\ Orphans' = Orphans /\ NewOrphans' = NewOrphans
    BY DEF Sessions, Orphans, NewOrphans
  <2>2. HeldSince(1)' \in SUBSET HeldSince(1)  BY <1>4 DEF HeldSince
  <2>3. NewOrphans \cup HeldSince(1) \in SUBSET Workers  BY DEF Orphans, NewOrphans, HeldSince
  <2>4. (NewOrphans \cup HeldSince(1))' \in SUBSET (NewOrphans \cup HeldSince(1))  BY <2>1, <2>2
  <2>5. Cardinality((NewOrphans \cup HeldSince(1))') =< MaxClients
    BY <1>1, <1>9, <2>3, <2>4, StillFewer DEF CountInv
  <2>6. quiet' = 0  BY <1>3, <1>9
  <2> QED  BY <1>1, <2>1, <2>5, <2>6 DEF CountInv
<1> QED  BY <1>6, <1>7, <1>8, <1>10, <1>11, <1>12 DEF IInv

\* get_or_create_session creates a session, in the place of one whose worker
\* failed or in a free one.
LEMMA LookUpCreates ==
    ASSUME IInv, LookUp, ~Usable(now.src), Room(now.src), NEW w \in Spare(now.src),
           session' = [session EXCEPT ![now.src] = w],
           worker' = [worker EXCEPT ![w] = NewThread(now.src)],
           Seen(now.src), now' = [now EXCEPT !.at = "send"]
    PROVE  IInv'
<1> DEFINE s == now.src
<1>1. TypeOK /\ ThreadInv /\ SessionInv /\ PeriodInv /\ AgeInv /\ CountInv /\ ClientInv  BY DEF IInv
<1>2. now.at = "lookup" /\ s \in Sources /\ now # Waiting /\ now \in [at : {"lookup", "send"}, src : Sources]
  BY <1>1 DEF LookUp, TypeOK, Handling, Waiting
<1>3. UNCHANGED <<quiet, waited, wireguard, client, heard, faults>>  BY DEF LookUp
<1>4. w \in Workers /\ worker[w].at = "none" /\ w # NoWorker /\ \A r \in Sources : r # s => session[r] # w
  BY BoundAssumption DEF Spare, Running, Workers, NoWorker
<1>5. session'[s] = w /\ \A r \in Sources : r # s => session'[r] = session[r]  BY <1>1, <1>2 DEF TypeOK
<1>6. age'[s] = 0 /\ (\A r \in Sources : r # s => age'[r] = age[r]) /\ age' \in [Sources -> 0 .. Idle]
  <2>1. 0 \in 0 .. Idle  BY BoundAssumption
  <2> QED  BY <1>1, <1>2, <2>1 DEF TypeOK, Seen
<1>7. NewThread(s) \in Thread /\ NewThread(s).at = "receive" /\ NewThread(s).src = s
        /\ NewThread(s).alive = TRUE /\ NewThread(s).late = FALSE /\ NewThread(s).stale = 0
  <2>1. 0 \in 0 .. 1  OBVIOUS
  <2> QED  BY <1>2, <2>1 DEF NewThread, NoThread, Thread
<1>8. now'.at = "send" /\ now'.src = s /\ now' \in Handling  BY <1>2 DEF Handling
<1> HIDE DEF s
<1>9. worker'[w] = NewThread(s) /\ \A v \in Workers : v # w => worker'[v] = worker[v]
  BY <1>1, <1>4 DEF TypeOK, s
<1>10. TypeOK'
  <2>1. worker' \in [Workers -> Thread]  BY <1>1, <1>4, <1>7 DEF TypeOK, s
  <2>2. session' \in [Sources -> Workers \cup {NoWorker}]  BY <1>1, <1>4 DEF TypeOK
  <2> QED  BY <1>1, <1>3, <1>6, <1>8, <2>1, <2>2 DEF TypeOK
<1>11. ThreadInv'
  <2>1. ASSUME NEW v \in Workers
        PROVE  /\ worker'[v].alive => /\ worker'[v].at # "none" /\ worker'[v].stale = 0
                              /\ worker'[v].src \in Sources /\ session'[worker'[v].src] = v
               /\ worker'[v].at = "send" => ~worker'[v].late
               /\ (worker'[v].at = "check" /\ worker'[v].late) => ~worker'[v].alive
    <3>1. CASE v = w  BY <1>2, <1>5, <1>7, <1>9, <3>1
    <3>2. CASE v # w
      <4>1. worker'[v] = worker[v]  BY <1>9, <3>2
      <4>2. worker[v].alive => worker[v].src # s
        <5>1. (worker[v].alive /\ worker[v].src = s) => session[s] = v /\ v # NoWorker /\ Usable(s)
          BY <1>1, BoundAssumption DEF ThreadInv, Usable, Workers, NoWorker
        <5> QED  BY <5>1 DEF s
      <4> QED  BY <1>1, <1>5, <4>1, <4>2 DEF ThreadInv
    <3> QED  BY <3>1, <3>2
  <2> QED  BY <2>1 DEF ThreadInv
<1>12. SessionInv'
  <2>1. \A r, q \in Sources : (session'[r] = session'[q] /\ session'[r] # NoWorker) => r = q
    BY <1>1, <1>4, <1>5 DEF SessionInv
  <2> QED  BY <1>4, <1>5, <1>8, <2>1 DEF SessionInv
<1>13. quiet = 0 /\ waited = 0  BY <1>1, <1>2 DEF PeriodInv, TypeOK
<1>14. PeriodInv'  BY <1>3, <1>13 DEF PeriodInv
<1>15. AgeInv'
  <2>1. \A r \in Sources : heard[r] >= 0 /\ heard[r] \in Nat  BY <1>1, BoundAssumption DEF TypeOK
  <2>2. ASSUME NEW r \in Sources, Usable(r)' PROVE age'[r] =< heard[r]
    <3>1. CASE r = s  BY <1>6, <2>1, <3>1
    <3>2. CASE r # s
      <4>1. session'[r] = session[r] /\ session[r] # w /\ session[r] # NoWorker
        BY <1>4, <1>5, <2>2, <3>2 DEF Usable
      <4>2. session[r] \in Workers  BY <1>1, <4>1 DEF TypeOK
      <4>3. Usable(r)  BY <1>9, <2>2, <4>1, <4>2 DEF Usable
      <4> QED  BY <1>1, <1>6, <3>2, <4>3 DEF AgeInv, s
    <3> QED  BY <3>1, <3>2
  <2> QED  BY <1>3, <2>2 DEF AgeInv
<1>16. CountInv'
  <2>1. Cardinality(Sessions') =< MaxClients
    <3>1. Sessions' = (Sessions \ {s}) \cup {s}  BY <1>2, <1>4, <1>5 DEF Sessions, s
    <3>2. IsFiniteSet(Sessions \ {s})  BY <1>1, HeldBySessions, FS_RemoveElement
    <3>3. Cardinality(Sessions') = Cardinality(Sessions \ {s}) + 1  BY <3>1, <3>2, FS_AddElement
    <3>4. Cardinality(Sessions \ {s}) \in Nat  BY <3>2, FS_CardinalityType
    <3> QED  BY <3>3, <3>4, BoundAssumption DEF Room, s
  <2>2. Orphans' = Orphans /\ NewOrphans' = NewOrphans
    <3>1. \A v \in Workers : (worker'[v].at # "none" /\ ~worker'[v].alive) <=>
                             (worker[v].at # "none" /\ ~worker[v].alive)
      BY <1>4, <1>7, <1>9
    <3>2. Orphans' = Orphans  BY <3>1 DEF Orphans
    <3>3. w \notin Orphans  BY <1>4 DEF Orphans
    <3> QED  BY <1>9, <3>2, <3>3 DEF NewOrphans, Orphans
  <2>3. HeldSince(1)' \in SUBSET HeldSince(1)  BY <1>5, <1>6 DEF HeldSince
  <2>4. NewOrphans \cup HeldSince(1) \in SUBSET Workers  BY DEF Orphans, NewOrphans, HeldSince
  <2>5. (NewOrphans \cup HeldSince(1))' \in SUBSET (NewOrphans \cup HeldSince(1))  BY <2>2, <2>3
  <2>6. Cardinality((NewOrphans \cup HeldSince(1))') =< MaxClients
    BY <1>1, <1>13, <2>4, <2>5, StillFewer DEF CountInv
  <2>7. quiet' = 0  BY <1>3, <1>13
  <2> QED  BY <1>1, <2>1, <2>2, <2>6, <2>7 DEF CountInv
<1>17. ClientInv'  BY <1>1, <1>3 DEF ClientInv
<1> QED  BY <1>10, <1>11, <1>12, <1>14, <1>15, <1>16, <1>17 DEF IInv

\* get_or_create_session
LEMMA LookUpStep == ASSUME IInv, LookUp PROVE IInv'
<1>1. now.src \in Sources  BY DEF LookUp, IInv, TypeOK, Handling, Waiting
<1>2. CASE UNCHANGED <<session, worker>>  BY <1>2, LookUpFinds
<1>3. CASE ~UNCHANGED <<session, worker>>
  <2> DEFINE w == CHOOSE v \in Spare(now.src) : \A u \in Spare(now.src) : v =< u
  <2>1. /\ ~Usable(now.src) /\ Room(now.src) /\ Spare(now.src) # {}
        /\ session' = [session EXCEPT ![now.src] = w]
        /\ worker' = [worker EXCEPT ![w] = NewThread(now.src)]
        /\ Seen(now.src) /\ now' = [now EXCEPT !.at = "send"]
    BY <1>3 DEF LookUp
  <2>2. w \in Spare(now.src)  BY <1>1, <2>1, NextThread
  <2> HIDE DEF w
  <2> QED  BY <2>1, <2>2, LookUpCreates
<1> QED  BY <1>2, <1>3

-----------------------------------------------------------------------------
(* Time, WireGuard and the clients.                                        *)

\* Ages stay in their range, and only an age of Idle - 1 or more reaches Idle.
LEMMA Ageing ==
    ASSUME NEW n \in 0 .. Idle
    PROVE  /\ Older(n) \in 0 .. Idle /\ (Older(n) >= Idle => n >= 1)
           /\ \A m \in 0 .. Idle : n =< m => Older(n) =< Older(m)
BY BoundAssumption DEF Older

\* A period passes.
LEMMA TickStep == ASSUME IInv, Tick PROVE IInv'
<1>1. TypeOK /\ ThreadInv /\ SessionInv /\ PeriodInv /\ AgeInv /\ CountInv /\ ClientInv  BY DEF IInv
<1>2. /\ now = Waiting /\ now' = now /\ session' = session /\ wireguard' = wireguard /\ client' = client
      /\ faults' = faults /\ waited = 0 /\ quiet' = 1 /\ waited' = 1
      /\ age' = [s \in Sources |-> Older(age[s])] /\ heard' = [s \in Sources |-> Older(heard[s])]
      /\ \A w \in Running : worker[w].at = "receive" /\ worker[w].stale = 0
  BY DEF Tick
<1>3. ASSUME NEW w \in Workers
      PROVE  /\ worker'[w] \in Thread /\ worker'[w].at = worker[w].at /\ worker'[w].src = worker[w].src
             /\ worker'[w].alive = worker[w].alive /\ worker'[w].late = worker[w].late
             /\ worker'[w].stale = IF worker[w].at = "receive" /\ ~worker[w].alive THEN 1 ELSE worker[w].stale
  <2>1. worker[w] \in Thread  BY <1>1 DEF TypeOK
  <2>2. worker'[w] = IF worker[w].at = "receive" /\ ~worker[w].alive THEN [worker[w] EXCEPT !.stale = 1]
                                                                     ELSE worker[w]
    BY DEF Tick
  <2>3. 1 \in 0 .. 1  OBVIOUS
  <2>4. [worker[w] EXCEPT !.stale = 1] \in Thread /\ [worker[w] EXCEPT !.stale = 1].at = worker[w].at
          /\ [worker[w] EXCEPT !.stale = 1].src = worker[w].src /\ [worker[w] EXCEPT !.stale = 1].stale = 1
          /\ [worker[w] EXCEPT !.stale = 1].alive = worker[w].alive
          /\ [worker[w] EXCEPT !.stale = 1].late = worker[w].late
    BY <2>1, <2>3 DEF Thread
  <2> QED  BY <2>1, <2>2, <2>4
<1>4. TypeOK'
  <2>1. worker' \in [Workers -> Thread]  BY <1>3 DEF Tick
  <2>2. age' \in [Sources -> 0 .. Idle] /\ heard' \in [Sources -> 0 .. Idle]
    BY <1>1, <1>2, Ageing DEF TypeOK
  <2>3. quiet' \in 0 .. 1 /\ waited' \in 0 .. 1  BY <1>2
  <2> QED  BY <1>1, <1>2, <2>1, <2>2, <2>3 DEF TypeOK
<1>5. ThreadInv'
  <2>1. ASSUME NEW w \in Workers
        PROVE  /\ worker'[w].alive => /\ worker'[w].at # "none" /\ worker'[w].stale = 0
                              /\ worker'[w].src \in Sources /\ session[worker'[w].src] = w
               /\ worker'[w].at = "send" => ~worker'[w].late
               /\ (worker'[w].at = "check" /\ worker'[w].late) => ~worker'[w].alive
    BY <1>1, <1>3 DEF ThreadInv
  <2> QED  BY <1>2, <2>1 DEF ThreadInv
<1>6. SessionInv' /\ ClientInv'  BY <1>1, <1>2 DEF SessionInv, ClientInv
<1>7. Orphans' = Orphans  BY <1>3 DEF Orphans
<1>8. \A w \in Orphans : w \in Running /\ w \in NewOrphans  BY <1>2 DEF Orphans, NewOrphans, Running
<1>9. PeriodInv'
  <2>1. \A w \in Orphans : worker'[w].stale = 1  BY <1>2, <1>3, <1>8 DEF Orphans
  <2>2. NewOrphans' = {}  BY <1>7, <2>1 DEF NewOrphans
  <2> QED  BY <1>2, <2>2 DEF PeriodInv
<1>10. AgeInv'
  <2>1. ASSUME NEW s \in Sources, Usable(s)' PROVE age'[s] =< heard'[s]
    <3>1. session[s] \in Workers /\ session[s] # NoWorker  BY <1>1, <1>2, <2>1 DEF Usable, TypeOK
    <3>2. Usable(s)  BY <1>2, <1>3, <2>1, <3>1 DEF Usable
    <3>3. age[s] =< heard[s] /\ age[s] \in 0 .. Idle /\ heard[s] \in 0 .. Idle
      BY <1>1, <1>2, <3>2 DEF AgeInv, Waiting, TypeOK
    <3> QED  BY <1>2, <3>3, Ageing
  <2> QED  BY <2>1 DEF AgeInv
<1>11. CountInv'
  <2>1. quiet = 0  BY <1>1, <1>2 DEF PeriodInv
  <2>2. HeldSince(Idle)' \in SUBSET HeldSince(1)
    <3>1. \A s \in Sources : age'[s] >= Idle => age[s] >= 1  BY <1>1, <1>2, Ageing DEF TypeOK
    <3> QED  BY <1>2, <3>1 DEF HeldSince
  <2>3. (Orphans \cup HeldSince(Idle))' \in SUBSET (NewOrphans \cup HeldSince(1))  BY <1>7, <1>8, <2>2
  <2>4. NewOrphans \cup HeldSince(1) \in SUBSET Workers  BY DEF Orphans, NewOrphans, HeldSince
  <2>5. Cardinality((Orphans \cup HeldSince(Idle))') =< MaxClients
    BY <1>1, <2>1, <2>3, <2>4, StillFewer DEF CountInv
  <2>6. Sessions' = Sessions  BY <1>2 DEF Sessions
  <2> QED  BY <1>1, <1>2, <1>7, <2>5, <2>6 DEF CountInv
<1> QED  BY <1>4, <1>5, <1>6, <1>9, <1>10, <1>11 DEF IInv

\* What the server does not notice leaves its state sound.
LEMMA ServerStays ==
    ASSUME IInv, UNCHANGED <<server, heard>>, wireguard' \in BOOLEAN, client' \in [Clients -> Process],
           ClientInv', faults' = faults \/ Fault
    PROVE  IInv'
<1>1. TypeOK /\ ThreadInv /\ SessionInv /\ PeriodInv /\ AgeInv /\ CountInv  BY DEF IInv
<1>2. session' = session /\ age' = age /\ quiet' = quiet /\ waited' = waited /\ worker' = worker
        /\ now' = now /\ heard' = heard
  BY DEF server
<1>3. TypeOK'
  <2>1. faults' \in Nat  BY <1>1 DEF TypeOK, Fault
  <2> QED  BY <1>1, <1>2, <2>1 DEF TypeOK
<1>4. ThreadInv' /\ SessionInv'  BY <1>1, <1>2 DEF ThreadInv, SessionInv
<1>5. PeriodInv' /\ AgeInv'
  BY <1>1, <1>2 DEF PeriodInv, AgeInv, Usable, NewOrphans, Orphans
<1>6. CountInv'
  <2>1. Sessions' = Sessions /\ Orphans' = Orphans /\ NewOrphans' = NewOrphans
          /\ HeldSince(1)' = HeldSince(1) /\ HeldSince(Idle)' = HeldSince(Idle)
    BY <1>2 DEF Sessions, Orphans, NewOrphans, HeldSince
  <2>2. (Orphans \cup HeldSince(Idle))' = Orphans \cup HeldSince(Idle)
          /\ (NewOrphans \cup HeldSince(1))' = NewOrphans \cup HeldSince(1)
    BY <2>1
  <2> QED  BY <1>1, <1>2, <2>1, <2>2 DEF CountInv
<1> QED  BY <1>3, <1>4, <1>5, <1>6 DEF IInv

\* A client's own steps.
LEMMA ClientStep ==
    ASSUME IInv, NEW c \in Clients, Connect(c) \/ FirstDatagram(c) \/ ClientFails(c)
    PROVE  IInv'
<1>1. TypeOK /\ ClientInv  BY DEF IInv
<1>2. client[c] \in Process  BY <1>1 DEF TypeOK
<1>3. PICK p \in Process : client' = [client EXCEPT ![c] = p] /\ (p.at \in {"first", "run"} => p.src \in Sources)
  <2>1. CASE Connect(c)
    <3>1. PICK s \in Sources : client' = [client EXCEPT ![c] = [at |-> "first", src |-> s]]
      BY <2>1 DEF Connect
    <3>2. [at |-> "first", src |-> s] \in Process /\ [at |-> "first", src |-> s].src = s  BY DEF Process
    <3> QED  BY <3>1, <3>2
  <2>2. CASE ClientFails(c)
    <3>1. NoProcess \in Process /\ NoProcess.at = "connect"  BY DEF NoProcess, Process
    <3> QED  BY <2>2, <3>1 DEF ClientFails
  <2>3. CASE FirstDatagram(c)
    <3> DEFINE p == [client[c] EXCEPT !.at = "run"]
    <3>1. client' = [client EXCEPT ![c] = p]  BY <1>1, <2>3 DEF FirstDatagram, TypeOK
    <3>2. p \in Process /\ p.src = client[c].src  BY <1>2 DEF Process
    <3>3. client[c].src \in Sources  BY <1>1, <2>3 DEF FirstDatagram, ClientInv
    <3> QED  BY <3>1, <3>2, <3>3
  <2> QED  BY <2>1, <2>2, <2>3
<1>4. client' \in [Clients -> Process]  BY <1>1, <1>3 DEF TypeOK
<1>5. ClientInv'  BY <1>1, <1>3 DEF ClientInv, TypeOK
<1>6. UNCHANGED <<server, heard>> /\ wireguard' = wireguard /\ (faults' = faults \/ Fault)
  BY DEF Connect, FirstDatagram, ClientFails, ServerOnly
<1> QED  BY <1>1, <1>4, <1>5, <1>6, ServerStays DEF TypeOK

\* WireGuard stops and starts.
LEMMA WireGuardStep == ASSUME IInv, StopWireGuard \/ StartWireGuard PROVE IInv'
<1>1. UNCHANGED <<server, heard>> /\ client' = client /\ wireguard' \in BOOLEAN /\ (faults' = faults \/ Fault)
  BY DEF StopWireGuard, StartWireGuard
<1>2. ClientInv'  BY <1>1 DEF IInv, ClientInv
<1> QED  BY <1>1, <1>2, ServerStays DEF IInv, TypeOK

-----------------------------------------------------------------------------
(* The theorems.                                                           *)

\* Stuttering.
LEMMA Stutters == ASSUME IInv, UNCHANGED vars PROVE IInv'
<1>1. UNCHANGED <<server, heard>> /\ wireguard' = wireguard /\ client' = client /\ faults' = faults
  BY DEF vars
<1>2. ClientInv'  BY <1>1 DEF IInv, ClientInv
<1> QED  BY <1>1, <1>2, ServerStays DEF IInv, TypeOK

\* The invariant is inductive: the table, the threads and the clock of the relay
\* server stay in step, whatever the order of packets, expiry, failing sends,
\* stops of WireGuard and restarts (serve, session_worker).
THEOREM RelayInvariant == Spec => []IInv
<1>1. Init => IInv
  <2>1. SUFFICES ASSUME Init PROVE IInv
    OBVIOUS
  <2>2. \A w \in Workers : worker[w].at = "none" /\ ~worker[w].alive  BY <2>1, EndedThread DEF Init
  <2>3. TypeOK
    <3>1. 0 \in 0 .. Idle /\ Idle \in 0 .. Idle /\ 0 \in 0 .. 1  BY BoundAssumption
    <3>2. NoProcess \in Process  BY DEF NoProcess, Process
    <3> QED  BY <2>1, <3>1, <3>2, EndedThread DEF Init, TypeOK, Handling
  <2>4. ThreadInv  BY <2>2 DEF ThreadInv
  <2>5. SessionInv /\ AgeInv /\ ClientInv
    BY <2>1 DEF Init, SessionInv, AgeInv, ClientInv, Waiting, Usable, NoProcess
  <2>6. Orphans = {} /\ NewOrphans = {}  BY <2>2 DEF Orphans, NewOrphans
  <2>7. Sessions = {} /\ HeldSince(1) = {}
    <3>1. \A s \in Sources : session[s] \notin Workers /\ session[s] = NoWorker
      BY <2>1, BoundAssumption DEF Init, NoWorker, Workers
    <3> QED  BY <3>1 DEF Sessions, HeldSince
  <2>8. PeriodInv  BY <2>1 DEF Init, PeriodInv
  <2>9. CountInv
    <3>1. NewOrphans \cup HeldSince(1) = {} /\ quiet = 0  BY <2>1, <2>6, <2>7 DEF Init
    <3>2. Cardinality({}) =< MaxClients  BY FS_EmptySet, BoundAssumption
    <3> QED  BY <2>6, <2>7, <3>1, <3>2 DEF CountInv
  <2> QED  BY <2>3, <2>4, <2>5, <2>8, <2>9 DEF IInv
<1>2. IInv /\ [Next]_vars => IInv'
  <2>1. SUFFICES ASSUME IInv, [Next]_vars PROVE IInv'
    OBVIOUS
  <2>2. CASE Main  BY <2>1, <2>2, ReceiveTimesOutStep, ReceiveJunkStep, LookUpStep, SendStep DEF Main
  <2>3. CASE SessionFails \/ Tick \/ StopWireGuard \/ StartWireGuard
    BY <2>1, <2>3, SessionFailsStep, TickStep, WireGuardStep
  <2>4. CASE \E c \in Clients : Receive(c) \/ Connect(c) \/ FirstDatagram(c) \/ ClientFails(c)
    BY <2>1, <2>4, ReceiveStep, ClientStep
  <2>5. CASE \E w \in Workers : Worker(w)
    BY <2>1, <2>5, WorkerReceivesStep, WorkerChecksStep, WorkerSendsStep, WorkerEndsStep DEF Worker
  <2>6. CASE UNCHANGED vars  BY <2>1, <2>6, Stutters
  <2> QED  BY <2>1, <2>2, <2>3, <2>4, <2>5, <2>6 DEF Next
<1> QED  BY <1>1, <1>2, PTL DEF Spec

\* The threads that run are held or orphans, at most MaxClients of each.
LEMMA FewThreads ==
    ASSUME IInv
    PROVE  /\ Running \in SUBSET (Orphans \cup Held) /\ Orphans \in SUBSET Workers /\ Held \in SUBSET Workers
           /\ Cardinality(Orphans) =< MaxClients /\ Cardinality(Held) =< MaxClients
           /\ Cardinality(Running) =< 2 * MaxClients
<1>1. TypeOK /\ ThreadInv /\ SessionInv /\ CountInv  BY DEF IInv
<1>2. Running \in SUBSET (Orphans \cup Held)  BY <1>1 DEF Running, Orphans, Held, ThreadInv
<1>3. Orphans \in SUBSET Workers /\ Held \in SUBSET Workers  BY DEF Orphans, Held
<1>4. Cardinality(Orphans) =< MaxClients  BY <1>1 DEF CountInv
<1>5. Cardinality(Held) =< MaxClients
  BY <1>1, <1>3, HeldBySessions, Fewer, BoundAssumption DEF CountInv
<1>6. /\ IsFiniteSet(Orphans) /\ IsFiniteSet(Held) /\ Cardinality(Orphans) \in Nat
      /\ Cardinality(Held) \in Nat /\ Cardinality(Orphans \cap Held) \in Nat
  <2>1. Orphans \cap Held \in SUBSET Held  OBVIOUS
  <2> QED  BY <1>3, <2>1, Fewer
<1>7. Cardinality(Orphans \cup Held) = Cardinality(Orphans) + Cardinality(Held) - Cardinality(Orphans \cap Held)
  BY <1>6, FS_Union
<1>8. Cardinality(Running) =< Cardinality(Orphans \cup Held) /\ Cardinality(Running) \in Nat
  <2>1. Orphans \cup Held \in SUBSET Workers  BY <1>3
  <2> QED  BY <1>2, <2>1, Fewer
<1> QED  BY <1>2, <1>3, <1>4, <1>5, <1>6, <1>7, <1>8, BoundAssumption

\* Every usable session has a worker that answers its source, no answer reaches
\* the address of a session that went, the table never exceeds MaxClients and the
\* threads never exceed twice that (get_or_create_session, session_worker).
THEOREM Sound == Spec => []SessionsAreSound
<1>1. IInv => SessionsAreSound
  <2>1. SUFFICES ASSUME IInv PROVE SessionsAreSound
    OBVIOUS
  <2>2. TypeOK /\ ThreadInv /\ SessionInv /\ CountInv  BY <2>1 DEF IInv
  <2>3. NoDeafSession
    <3>1. ASSUME NEW s \in Sources, Usable(s)
          PROVE  worker[session[s]].at # "none" /\ worker[session[s]].src = s
      <4>1. session[s] \in Workers /\ worker[session[s]].alive  BY <2>2, <3>1 DEF Usable, TypeOK
      <4> DEFINE t == worker[session[s]]
      <4>2. t.at # "none" /\ t.src \in Sources /\ session[t.src] = session[s]
        BY <2>2, <4>1 DEF ThreadInv
      <4> QED  BY <2>2, <3>1, <4>2 DEF SessionInv, Usable
    <3> QED  BY <3>1 DEF NoDeafSession
  <2>4. StaleAnswersStop  BY <2>2 DEF StaleAnswersStop, ThreadInv
  <2>5. WorkersAreBounded  BY <2>1, <2>2, FewThreads DEF WorkersAreBounded, CountInv
  <2> QED  BY <2>2, <2>3, <2>4, <2>5 DEF SessionsAreSound
<1> QED  BY <1>1, RelayInvariant, PTL

\* A session leaves the table only when its source was not heard for the idle
\* time, when its worker failed, or with the whole server (is_idle, last_seen).
THEOREM Recent == Spec => RecentSessionsStay
<1> DEFINE A == \A s \in Sources : session[s] # NoWorker /\ session'[s] # session[s] =>
                   \/ heard[s] >= Idle \/ ~worker[session[s]].alive
                   \/ \A w \in Workers : worker'[w] = NoThread
<1>1. IInv /\ [Next]_vars => A
  <2>1. SUFFICES ASSUME IInv, [Next]_vars, NEW s \in Sources, session[s] # NoWorker,
                        session'[s] # session[s], ~\A w \in Workers : worker'[w] = NoThread
                 PROVE  heard[s] >= Idle \/ ~worker[session[s]].alive
    OBVIOUS
  <2>2. TypeOK /\ AgeInv  BY <2>1 DEF IInv
  <2>3. CASE RemoveIdle /\ now = Waiting
    <3>1. age[s] >= Idle  BY <2>1, <2>3 DEF RemoveIdle, Expired
    <3>2. Usable(s) => age[s] =< heard[s]  BY <2>2, <2>3 DEF AgeInv, Waiting
    <3>3. age[s] \in Nat /\ heard[s] \in Nat  BY <2>2, BoundAssumption DEF TypeOK
    <3> QED  BY <2>1, <3>1, <3>2, <3>3, BoundAssumption DEF Usable
  <2>4. CASE LookUp
    <3>1. ~Usable(now.src)  BY <2>1, <2>4 DEF LookUp
    <3>2. s = now.src  BY <2>1, <2>2, <2>4 DEF LookUp, TypeOK
    <3> QED  BY <2>1, <3>1, <3>2 DEF Usable
  <2>5. CASE ReceiveTimesOut \/ ReceiveJunk \/ \E c \in Clients : Receive(c)
    BY <2>1, <2>3, <2>5 DEF ReceiveTimesOut, ReceiveJunk, Receive, CleanUp
  <2>6. ~Send /\ ~SessionFails /\ ~Tick /\ ~StopWireGuard /\ ~StartWireGuard /\ ~UNCHANGED vars
    BY <2>1 DEF Send, SessionFails, ServerExits, Tick, StopWireGuard, StartWireGuard, server, vars
  <2>7. ~\E c \in Clients : Connect(c) \/ FirstDatagram(c) \/ ClientFails(c)
    BY <2>1 DEF Connect, FirstDatagram, ClientFails, ServerOnly, server
  <2>8. ~\E w \in Workers : Worker(w)
    BY <2>1 DEF Worker, WorkerReceives, WorkerChecks, WorkerSends, WorkerEnds, WorkerOnly
  <2> QED  BY <2>1, <2>4, <2>5, <2>6, <2>7, <2>8 DEF Next, Main
<1>2. RecentSessionsStay <=> [][A]_vars  BY DEF RecentSessionsStay
<1> HIDE DEF A
<1> QED  BY <1>1, <1>2, RelayInvariant, PTL DEF Spec

\* With 2 * MaxClients identities for threads, the bound of the model never keeps
\* get_or_create_session from creating a session it has room for.
THEOREM ThreadsSuffice ==
    ASSUME MaxWorkers >= 2 * MaxClients
    PROVE  Spec => [](\A s \in Sources : ~Usable(s) /\ Room(s) => Spare(s) # {})
<1>1. ASSUME IInv, NEW s \in Sources, ~Usable(s), Room(s), Spare(s) = {} PROVE FALSE
  <2> DEFINE Others == {w \in Workers : \E r \in Sources \ {s} : session[r] = w}
             Rest == [r \in Sessions \ {s} |-> session[r]]
  <2>1. TypeOK /\ SessionInv /\ ThreadInv  BY <1>1 DEF IInv
  <2>2. IsFiniteSet(Sessions \ {s}) /\ Cardinality(Sessions \ {s}) \in Nat
    BY <2>1, HeldBySessions, FS_RemoveElement, FS_CardinalityType
  <2>3. Cardinality(Others) =< Cardinality(Sessions \ {s})
    <3>1. NoWorker \notin Workers  BY BoundAssumption DEF NoWorker, Workers
    <3>2. Rest \in [Sessions \ {s} -> Others]  BY <2>1 DEF Sessions, TypeOK
    <3>3. \A w \in Others : \E r \in Sessions \ {s} : Rest[r] = w  BY <3>1 DEF Sessions
    <3>4. Rest \in Surjection(Sessions \ {s}, Others)  BY <3>2, <3>3 DEF Surjection
    <3> HIDE DEF Rest, Others
    <3> QED  BY <2>2, <3>4, FS_Surjection
  <2>4. Workers \in SUBSET (Orphans \cup Others)
    <3>1. ASSUME NEW w \in Workers PROVE w \in Orphans \cup Others
      <4>1. w \in Running \/ w \in Others  BY <1>1 DEF Spare
      <4>2. CASE w \in Running /\ worker[w].alive
        <5>1. worker[w].src \in Sources /\ session[worker[w].src] = w  BY <2>1, <4>2 DEF ThreadInv
        <5>2. worker[w].src # s  BY <1>1, <4>2, <5>1, BoundAssumption DEF Usable, Workers, NoWorker
        <5> QED  BY <5>1, <5>2
      <4>3. CASE w \in Running /\ ~worker[w].alive  BY <4>3 DEF Running, Orphans
      <4> QED  BY <4>1, <4>2, <4>3
    <3> QED  BY <3>1
  <2>5. Cardinality(Orphans \cup Others) =< 2 * MaxClients - 1
    <3>1. Orphans \in SUBSET Workers /\ Others \in SUBSET Workers /\ Orphans \cap Others \in SUBSET Others
      BY DEF Orphans
    <3>2. Cardinality(Orphans) =< MaxClients  BY <1>1 DEF IInv, CountInv
    <3> HIDE DEF Others
    <3>3. /\ IsFiniteSet(Orphans) /\ IsFiniteSet(Others) /\ Cardinality(Orphans) \in Nat
          /\ Cardinality(Others) \in Nat /\ Cardinality(Orphans \cap Others) \in Nat
      BY <3>1, Fewer
    <3>4. Cardinality(Orphans \cup Others)
            = Cardinality(Orphans) + Cardinality(Others) - Cardinality(Orphans \cap Others)
      BY <3>3, FS_Union
    <3>5. Cardinality(Sessions \ {s}) < MaxClients  BY <1>1 DEF Room
    <3> QED  BY <2>2, <2>3, <3>2, <3>3, <3>4, <3>5, BoundAssumption
  <2>6. Cardinality(Workers) = MaxWorkers
    BY BoundAssumption, FS_Interval DEF Workers
  <2>7. Cardinality(Workers) =< Cardinality(Orphans \cup Others) /\ Cardinality(Orphans \cup Others) \in Nat
    <3>1. Orphans \cup Others \in SUBSET Workers  BY DEF Orphans
    <3> HIDE DEF Others
    <3> QED  BY <2>4, <3>1, Fewer
  <2> QED  BY <2>5, <2>6, <2>7, BoundAssumption
<1>2. IInv => \A s \in Sources : ~Usable(s) /\ Room(s) => Spare(s) # {}  BY <1>1
<1> QED  BY <1>2, RelayInvariant, PTL
=============================================================================
