---------------------------- MODULE ManagedProofs ----------------------------
(***************************************************************************)
(* Proofs about Managed for every set of hosts, host keys and peers, every *)
(* number of late commands and of faults, and every set of servers that an *)
(* older release may have enrolled.                                        *)
(***************************************************************************)
EXTENDS Managed, TLAPS

-----------------------------------------------------------------------------
(* The inductive invariant.                                                *)

\* The key is on stable storage: a pin that is there before and after a loss of
\* power, or both versions of the configuration.
Durable(h, k) ==
    \/ pins[h].seen = k /\ pins[h].kept = k
    \/ config[h].managed /\ config[h].key = k /\ kept[h].managed /\ kept[h].key = k

Before == {"probe", "pin", "connect"}
Preparing == Before \cup {"script", "capabilities"}

\* Which calls an operation may have left to make, and what it has learnt.
ShapeInv ==
    /\ op.kind = "write" =>
         /\ op.at \in {"call", "wait"} /\ op.todo \in Calls /\ op.peer = NoPeer
         /\ op.at = "wait" => Head(op.todo) = "set" /\ op.key # NoKey
         /\ (op.done \/ (op.at = "wait" /\ op.reply = "ok")) => op.ran
    /\ op.kind = "boot" =>
         /\ \/ op.at \in Preparing /\ op.todo = <<>> /\ op.reply = "none"
            \/ op.at \in {"call", "wait", "save", "check"} /\ op.todo = <<"create">>
            \/ op.at \in {"call", "wait"} /\ op.todo = <<"remove">>
         /\ ~op.done
         /\ op.at # "probe" => op.key # NoKey
         /\ op.peer = NoPeer <=> op.todo # <<"remove">> /\ op.reply # "ok"
         /\ op.at = "call" /\ op.todo = <<"create">> => op.reply = "none"
         /\ op.at \in {"save", "check"} => op.reply = "ok"

\* The host of an enrolment has no server yet; the password was given to the key
\* that is pinned, and to no other.
BootInv ==
    op.kind = "boot" =>
      /\ op.at # "check" /\ op.todo # <<"remove">> => ~config[op.host].managed
      /\ op.at = "connect" => pins[op.host].seen = op.key /\ pins[op.host].kept = op.key
      /\ op.at \notin Before => trusted[op.host] = op.key

\* The peer that an enrolment created is on the VPS, if it is still the same,
\* until the rollback removes it; then no server has it.
PeerInv ==
    op.kind = "boot" =>
      /\ op.todo = <<"create">> /\ op.peer # NoPeer =>
           /\ vps[op.host].key = op.key => op.peer \in vps[op.host].peers
           /\ \A m \in late : m.cmd = "remove" => m.peer # op.peer
      /\ op.todo = <<"remove">> => ~Holds(config, op.peer)
      /\ op.todo = <<"remove">> /\ op.at = "wait" /\ op.reply = "ok" =>
           op.peer \notin vps[op.host].peers

\* A server whose peer the administrator has not given up.
Live(c, h) == c[h].managed /\ c[h].peer \notin dropped \cup {NoPeer}

\* What is stored of such a server is what is in memory; it was given the
\* password under its key, has its peer and keeps it.
ServerInv ==
    \A h \in Hosts :
      /\ Live(kept, h) => kept[h] = config[h]
      /\ Live(config, h) =>
           /\ config[h].key = trusted[h]
           /\ vps[h].key = config[h].key => config[h].peer \in vps[h].peers
           /\ \A m \in late : m.cmd = "remove" => m.peer # config[h].peer

TrustInv == \A h \in Hosts : trusted[h] # NoKey => Durable(h, trusted[h])

IInv ==
    /\ TypeOK /\ TrustInv /\ ServerInv
    /\ op # Idle => ShapeInv /\ BootInv /\ PeerInv

-----------------------------------------------------------------------------
(* Records, sequences and sets.                                            *)

\* The calls of a write: what is first, and what is left.
LEMMA CallFacts ==
    /\ \A todo \in Calls : /\ todo \in Seq(Remote) /\ Head(todo) \in {"status", "set"}
                           /\ Tail(todo) = <<>> \/ Tail(todo) \in Calls
    /\ Head(<<"create">>) = "create" /\ Head(<<"remove">>) = "remove"
    /\ <<>> \in Seq(Remote) /\ <<"create">> \in Seq(Remote) /\ <<"remove">> \in Seq(Remote)
    /\ <<"create">> # <<"remove">> /\ <<"create">> # <<>> /\ <<"remove">> # <<>>
<1>1. /\ <<"set">> \in Seq(Remote) /\ <<"status">> \in Seq(Remote) /\ <<"set", "status">> \in Seq(Remote)
      /\ <<"status", "set", "status">> \in Seq(Remote) /\ <<>> \in Seq(Remote)
      /\ <<"create">> \in Seq(Remote) /\ <<"remove">> \in Seq(Remote)
  BY DEF Remote
<1>2. /\ Head(<<"set">>) = "set" /\ Head(<<"status">>) = "status" /\ Head(<<"set", "status">>) = "set"
      /\ Head(<<"status", "set", "status">>) = "status"
      /\ Head(<<"create">>) = "create" /\ Head(<<"remove">>) = "remove"
  OBVIOUS
<1>3. /\ Tail(<<"set">>) = <<>> /\ Tail(<<"status">>) = <<>> /\ Tail(<<"set", "status">>) = <<"status">>
      /\ Tail(<<"status", "set", "status">>) = <<"set", "status">>
  OBVIOUS
<1>4. <<"create">> # <<"remove">> /\ <<"create">> # <<>> /\ <<"remove">> # <<>>
  OBVIOUS
<1> QED  BY <1>1, <1>2, <1>3, <1>4 DEF Calls

\* An operation under way is a record of these fields.
LEMMA OperationFields ==
    ASSUME TypeOK, op # Idle
    PROVE  /\ op \in Operation /\ op.kind \in {"boot", "write"} /\ op.host \in Hosts /\ op.key \in Keys
           /\ op.peer \in Peers \cup {NoPeer} /\ op.stage \in 0 .. 7 /\ op.marker \in 0 .. 3
           /\ op.want \in {0, 1} /\ op.todo \in Seq(Remote) /\ op.done \in BOOLEAN /\ op.ran \in BOOLEAN
           /\ op.reply \in {"none", "ok", "error"}
BY DEF TypeOK, Operation

\* No operation is the absence of one.
LEMMA OperationIsNotIdle == \A o \in Operation : o # Idle
BY DEF Operation, Idle

\* One pin: a key is never replaced, and success means that it is durable.
LEMMA PinFacts ==
    ASSUME NEW pin \in Pin, NEW k \in Keys, NEW o \in PinOutcomes(pin, k)
    PROVE  /\ o.pin \in Pin /\ o.ok \in BOOLEAN /\ o.bad \in BOOLEAN
           /\ o.ok => o.pin.seen = k /\ o.pin.kept = k
           /\ pin.seen # NoKey /\ pin.kept = pin.seen => o.pin.seen = pin.seen /\ o.pin.kept = pin.seen
           /\ pin.seen # NoKey /\ o.ok => pin.seen = k
<1>1. pin.seen \in Keys /\ pin.kept \in Keys /\ pin.alias \in BOOLEAN  BY DEF Pin
<1> DEFINE to(a, d, l) == [seen |-> a, kept |-> d, alias |-> l]
           published(p, ok, bad) == [pin |-> p, ok |-> ok, bad |-> bad]
<1>2. CASE pin.seen = NoKey
  <2>1. \/ o = published(to(k, k, FALSE), TRUE, FALSE) \/ o = published(pin, FALSE, TRUE)
        \/ o = published(to(k, pin.kept, TRUE), FALSE, TRUE) \/ o = published(to(k, pin.kept, FALSE), FALSE, TRUE)
    BY <1>2 DEF PinOutcomes
  <2>2. CASE o = published(to(k, k, FALSE), TRUE, FALSE)  BY <1>1, <1>2, <2>2 DEF Pin
  <2>3. CASE o = published(pin, FALSE, TRUE)  BY <1>1, <1>2, <2>3
  <2>4. CASE o = published(to(k, pin.kept, TRUE), FALSE, TRUE)  BY <1>1, <1>2, <2>4 DEF Pin
  <2>5. CASE o = published(to(k, pin.kept, FALSE), FALSE, TRUE)  BY <1>1, <1>2, <2>5 DEF Pin
  <2> QED  BY <2>1, <2>2, <2>3, <2>4, <2>5
<1>3. CASE pin.seen # NoKey /\ pin.seen # k
  <2>1. o = published(pin, FALSE, FALSE)  BY <1>3 DEF PinOutcomes
  <2> QED  BY <1>1, <1>3, <2>1
<1>4. CASE pin.seen # NoKey /\ pin.seen = k
  <2>1. \/ o = published(to(k, k, FALSE), TRUE, FALSE) \/ o = published(pin, FALSE, TRUE)
        \/ o = published([pin EXCEPT !.alias = FALSE], FALSE, TRUE)
    BY <1>4 DEF PinOutcomes
  <2>2. CASE o = published(to(k, k, FALSE), TRUE, FALSE)  BY <1>1, <1>4, <2>2 DEF Pin
  <2>3. CASE o = published(pin, FALSE, TRUE)  BY <1>1, <1>4, <2>3
  <2>4. CASE o = published([pin EXCEPT !.alias = FALSE], FALSE, TRUE)
    <3>1. o.pin = [pin EXCEPT !.alias = FALSE] /\ o.ok = FALSE /\ o.bad = TRUE  BY <2>4
    <3>2. o.pin \in Pin /\ o.pin.seen = pin.seen /\ o.pin.kept = pin.kept  BY <3>1 DEF Pin
    <3> QED  BY <1>4, <3>1, <3>2
  <2> QED  BY <2>1, <2>2, <2>3, <2>4
<1> QED  BY <1>2, <1>3, <1>4

\* Pins q that may follow the present ones: what was durable still is.
Follows(q) ==
    /\ q \in [Hosts -> Pin]
    /\ \A h \in Hosts : pins[h].seen # NoKey /\ pins[h].kept = pins[h].seen =>
                          q[h].seen = pins[h].seen /\ q[h].kept = pins[h].seen

\* preserve_host_pins never loses a pin, and when it succeeds every managed
\* server's key is durable.
LEMMA PreserveFacts ==
    ASSUME TypeOK, NEW out \in Preserve
    PROVE  /\ Follows(out.pins) /\ out.ok \in BOOLEAN /\ out.bad \in BOOLEAN
           /\ out.ok => \A h \in Hosts : config[h].managed =>
                          out.pins[h].seen = config[h].key /\ out.pins[h].kept = config[h].key
<1>1. \A h \in Hosts : pins[h] \in Pin /\ config[h].key \in Keys /\ config[h].managed \in BOOLEAN
  BY DEF TypeOK, Server
<1>2. ASSUME NEW D \in SUBSET ManagedHosts, CanPin(D)
      PROVE  /\ Follows(Pinned(D))
             /\ \A h \in D : Pinned(D)[h].seen = config[h].key /\ Pinned(D)[h].kept = config[h].key
  <2>1. D \subseteq Hosts  BY DEF ManagedHosts
  <2>2. ASSUME NEW h \in D
        PROVE  /\ Pinned(D)[h] \in Pin /\ Pinned(D)[h].seen = config[h].key /\ Pinned(D)[h].kept = config[h].key
               /\ pins[h].seen # NoKey => config[h].key = pins[h].seen
    <3> DEFINE o == CHOOSE o \in Outcomes(h) : o.ok
    <3>1. o \in Outcomes(h) /\ o.ok  BY <1>2 DEF CanPin
    <3>2. Pinned(D)[h] = o.pin  BY <2>1 DEF Pinned
    <3> HIDE DEF o
    <3>3. /\ o.pin \in Pin /\ o.pin.seen = config[h].key /\ o.pin.kept = config[h].key
          /\ pins[h].seen # NoKey => pins[h].seen = config[h].key
      BY <1>1, <2>1, <3>1, PinFacts DEF Outcomes
    <3> QED  BY <3>2, <3>3
  <2>3. \A h \in Hosts \ D : Pinned(D)[h] = pins[h]  BY DEF Pinned
  <2>4. Pinned(D) \in [Hosts -> Pin]
    <3> DEFINE val(h) == IF h \in D THEN (CHOOSE o \in Outcomes(h) : o.ok).pin ELSE pins[h]
    <3>1. Pinned(D) = [h \in Hosts |-> val(h)]  BY DEF Pinned
    <3> HIDE DEF val
    <3>2. \A h \in Hosts : val(h) = Pinned(D)[h]  BY <3>1
    <3>3. \A h \in Hosts : val(h) \in Pin  BY <3>2, <2>2, <2>3, <1>1
    <3> QED  BY <3>1, <3>3
  <2> QED  BY <2>2, <2>3, <2>4 DEF Follows
<1>3. CASE out \in {[pins |-> Pinned(D), ok |-> TRUE, bad |-> FALSE] : D \in {D \in {ManagedHosts} : CanPin(D)}}
  <2>1. CanPin(ManagedHosts) /\ out.pins = Pinned(ManagedHosts) /\ out.ok = TRUE /\ out.bad = FALSE
    BY <1>3
  <2>2. /\ Follows(Pinned(ManagedHosts))
        /\ \A h \in ManagedHosts : /\ Pinned(ManagedHosts)[h].seen = config[h].key
                                 /\ Pinned(ManagedHosts)[h].kept = config[h].key
    BY <1>2, <2>1
  <2> QED  BY <2>1, <2>2 DEF ManagedHosts
<1>4. CASE out \notin {[pins |-> Pinned(D), ok |-> TRUE, bad |-> FALSE] : D \in {D \in {ManagedHosts} : CanPin(D)}}
  <2> DEFINE R(h) == [done : {D \in SUBSET (ManagedHosts \ {h}) : CanPin(D)},
                      host : {h}, out : {o \in Outcomes(h) : ~o.ok}]
             To(r) == [pins |-> [Pinned(r.done) EXCEPT ![r.host] = r.out.pin],
                       ok |-> FALSE, bad |-> r.out.bad]
  <2>0. PICK r \in UNION {R(h) : h \in ManagedHosts} : out = To(r)  BY <1>4 DEF Preserve
  <2>1. PICK h \in ManagedHosts : r \in R(h)  BY <2>0
  <2>2. /\ r.done \in SUBSET ManagedHosts /\ CanPin(r.done) /\ h \notin r.done
        /\ r.host = h /\ r.out \in Outcomes(h) /\ h \in Hosts
    BY <2>1 DEF ManagedHosts
  <2>3. Follows(Pinned(r.done))  BY <1>2, <2>2
  <2>4. /\ r.out.pin \in Pin /\ r.out.bad \in BOOLEAN
        /\ pins[h].seen # NoKey /\ pins[h].kept = pins[h].seen =>
             r.out.pin.seen = pins[h].seen /\ r.out.pin.kept = pins[h].seen
    BY <1>1, <2>2, PinFacts DEF Outcomes
  <2>5. out.pins = [Pinned(r.done) EXCEPT ![h] = r.out.pin] /\ out.ok = FALSE /\ out.bad = r.out.bad
    BY <2>0, <2>2
  <2> QED  BY <2>2, <2>3, <2>4, <2>5 DEF Follows
<1> QED  BY <1>3, <1>4

\* What holds of an operation in progress.
OpInv == ShapeInv /\ BootInv /\ PeerInv

\* A step of the operation alone.
LEMMA OperationMoves ==
    ASSUME IInv, UNCHANGED <<local, pins, vps, late, history>>,
           faults' = faults \/ Fault, result' = result \/ result' \in Hows,
           op' = Idle \/ (op' \in Operation /\ OpInv')
    PROVE  IInv'
<1>1. TypeOK /\ TrustInv /\ ServerInv  BY DEF IInv
<1>2. /\ config' = config /\ kept' = kept /\ degraded' = degraded /\ pins' = pins /\ vps' = vps
      /\ late' = late /\ trusted' = trusted /\ dropped' = dropped
  BY DEF local, history
<1>3. faults' \in Nat  BY <1>1 DEF TypeOK, Fault
<1>4. TypeOK'  BY <1>1, <1>2, <1>3 DEF TypeOK
<1>5. TrustInv'  BY <1>1, <1>2 DEF TrustInv, Durable
<1>6. ServerInv'  BY <1>1, <1>2 DEF ServerInv, Live
<1> QED  BY <1>4, <1>5, <1>6 DEF IInv, OpInv

\* The operation ends and nothing else happens.
LEMMA OperationEnds ==
    ASSUME IInv, UNCHANGED <<local, pins, vps, late, history>>,
           faults' = faults \/ Fault, NEW how \in Hows, End(how)
    PROVE  IInv'
BY OperationMoves DEF End

\* A call that fails ends the operation.
LEMMA CallFailsEnds == ASSUME NEW answered \in BOOLEAN, CallFails(answered)
                       PROVE  op' = Idle /\ result' \in Hows
BY DEF CallFails, End, Hows

\* probe: the key of the moment.
LEMMA ProbeHostStep == ASSUME IInv, ProbeHost PROVE IInv'
<1>1. TypeOK /\ OpInv /\ op # Idle /\ op.at = "probe"  BY DEF ProbeHost, At, IInv, OpInv
<1>2. CASE End("failed") /\ Fault  BY <1>2, OperationEnds DEF ProbeHost, Hows
<1>3. CASE op' = [op EXCEPT !.key = vps[op.host].key, !.at = "pin"] /\ UNCHANGED <<result, faults>>
  <2>1. vps[op.host].key \in HostKeys /\ vps[op.host].key # NoKey
    BY <1>1, OperationFields, KeyAssumption DEF TypeOK, Machine
  <2>2. /\ op' \in Operation /\ op'.kind = op.kind /\ op'.host = op.host /\ op'.peer = op.peer
        /\ op'.todo = op.todo /\ op'.done = op.done /\ op'.reply = op.reply /\ op'.at = "pin"
        /\ op'.key # NoKey
    BY <1>1, <1>3, <2>1, OperationFields DEF Operation, Keys
  <2>3. op.kind = "boot" /\ op.todo = <<>>  BY <1>1, OperationFields DEF OpInv, ShapeInv
  <2>4. ShapeInv'  BY <1>1, <2>2, <2>3 DEF OpInv, ShapeInv, Preparing, Before
  <2>5. BootInv' /\ PeerInv'
    BY <1>1, <2>2, <2>3, CallFacts DEF ProbeHost, OpInv, BootInv, PeerInv, Before, local, history
  <2> QED  BY <1>3, <2>2, <2>4, <2>5, OperationMoves DEF ProbeHost, OpInv
<1> QED  BY <1>2, <1>3 DEF ProbeHost

\* The markers only move the displayed stage.
LEMMA MarkerStep == ASSUME IInv, NEW n \in 1 .. 3, Marker(n) PROVE IInv'
<1>1. TypeOK /\ OpInv /\ op # Idle /\ op.at = "script"  BY DEF Marker, At, IInv, OpInv
<1>2. /\ op' \in Operation /\ op'.kind = op.kind /\ op'.host = op.host /\ op'.peer = op.peer
      /\ op'.todo = op.todo /\ op'.done = op.done /\ op'.reply = op.reply /\ op'.at = op.at
      /\ op'.key = op.key /\ op'.ran = op.ran
  <2>1. n \in 0 .. 3 /\ 2 + n \in 0 .. 7  OBVIOUS
  <2>2. op' = [op EXCEPT !.marker = n, !.stage = 2 + n]  BY DEF Marker
  <2> QED  BY <1>1, <2>1, <2>2, OperationFields DEF Operation
<1>3. ShapeInv'  BY <1>1, <1>2 DEF OpInv, ShapeInv
<1>4. BootInv' /\ PeerInv'
  BY <1>1, <1>2, CallFacts DEF Marker, OpInv, BootInv, PeerInv, local, history
<1> QED  BY <1>2, <1>3, <1>4, OperationMoves DEF Marker, OpInv

\* capabilities: a profile is asked for next.
LEMMA CapabilitiesStep == ASSUME IInv, Capabilities PROVE IInv'
<1>1. TypeOK /\ OpInv /\ op # Idle /\ op.at = "capabilities"  BY DEF Capabilities, At, IInv, OpInv
<1>2. CASE End("failed") /\ (faults' = faults \/ Fault)
  BY <1>2, OperationEnds DEF Capabilities, Hows
<1>3. CASE op' = [op EXCEPT !.at = "call", !.stage = 6, !.todo = <<"create">>] /\ UNCHANGED <<result, faults>>
  <2>1. /\ op' \in Operation /\ op'.kind = op.kind /\ op'.host = op.host /\ op'.peer = op.peer
        /\ op'.todo = <<"create">> /\ op'.done = op.done /\ op'.reply = op.reply /\ op'.at = "call"
        /\ op'.key = op.key
    <3>1. <<"create">> \in Seq(Remote) /\ 6 \in 0 .. 7  BY CallFacts
    <3> QED  BY <1>1, <1>3, <3>1, OperationFields DEF Operation
  <2>2. op.kind = "boot" /\ op.todo = <<>> /\ op.reply = "none" /\ op.peer = NoPeer
    BY <1>1, OperationFields, CallFacts DEF OpInv, ShapeInv
  <2>3. ShapeInv'  BY <1>1, <2>1, <2>2, CallFacts DEF OpInv, ShapeInv
  <2>4. BootInv' /\ PeerInv'
    BY <1>1, <2>1, <2>2, CallFacts DEF Capabilities, OpInv, BootInv, PeerInv, Before, local, history
  <2> QED  BY <1>3, <2>1, <2>3, <2>4, OperationMoves DEF Capabilities, OpInv
<1> QED  BY <1>2, <1>3 DEF Capabilities, Reads

\* A command is sent.
LEMMA SendCommandStep == ASSUME IInv, SendCommand PROVE IInv'
<1>1. TypeOK /\ OpInv /\ op # Idle /\ op.at = "call"  BY DEF SendCommand, At, IInv, OpInv
<1>2. /\ op' \in Operation /\ op'.kind = op.kind /\ op'.host = op.host /\ op'.peer = op.peer
      /\ op'.todo = op.todo /\ op'.done = op.done /\ op'.reply = "none" /\ op'.at = "wait"
      /\ op'.key = op.key /\ op'.ran = op.ran
  BY <1>1, OperationFields DEF SendCommand, Operation
<1>3. op.kind = "boot" => op.todo \in {<<"create">>, <<"remove">>}
  BY <1>1 DEF OpInv, ShapeInv, Preparing, Before
<1>4. op.kind = "boot" /\ op.todo = <<"create">> => op.peer = NoPeer
  BY <1>1, CallFacts DEF OpInv, ShapeInv, Preparing, Before
<1>5. op.kind = "write" => Head(op.todo) = "set"
  BY <1>1, CallFacts DEF SendCommand, OpInv, ShapeInv
<1>6. ShapeInv'  BY <1>1, <1>2, <1>3, <1>4, <1>5, CallFacts DEF SendCommand, OpInv, ShapeInv
<1>7. BootInv' /\ PeerInv'
  BY <1>1, <1>2, <1>3, <1>4, CallFacts DEF SendCommand, OpInv, BootInv, PeerInv, Before, local, history
<1> QED  BY <1>2, <1>6, <1>7, OperationMoves DEF SendCommand, OpInv

\* A call of a write returns: the next one, or the end.
LEMMA CallReturnsMoves ==
    ASSUME IInv, op # Idle, op.kind = "write", CallReturns, Head(op.todo) = "set" => op.ran,
           UNCHANGED <<local, pins, vps, late, history, faults>>
    PROVE  IInv'
<1>1. TypeOK /\ OpInv /\ op.todo \in Calls  BY DEF IInv, OpInv, ShapeInv
<1>2. CASE Tail(op.todo) = <<>>  BY <1>2, OperationEnds DEF CallReturns, Hows
<1>3. CASE Tail(op.todo) # <<>>
  <2>1. Tail(op.todo) \in Calls /\ Tail(op.todo) \in Seq(Remote)  BY <1>1, <1>3, CallFacts
  <2>2. op' = [op EXCEPT !.todo = Tail(op.todo), !.at = "call", !.key = NoKey,
                         !.reply = "none", !.done = op.done \/ Head(op.todo) = "set"]
    BY <1>3 DEF CallReturns
  <2>3. (op.done \/ Head(op.todo) = "set") \in BOOLEAN  OBVIOUS
  <2>4. /\ op' \in Operation /\ op'.kind = op.kind /\ op'.peer = op.peer /\ op'.todo = Tail(op.todo)
        /\ op'.done = (op.done \/ Head(op.todo) = "set") /\ op'.reply = "none" /\ op'.at = "call"
        /\ op'.ran = op.ran
    BY <1>1, <2>1, <2>2, <2>3, OperationFields DEF Operation, Keys
  <2>5. ShapeInv'  BY <1>1, <2>1, <2>4 DEF OpInv, ShapeInv
  <2>6. BootInv' /\ PeerInv'  BY <2>4 DEF BootInv, PeerInv
  <2>7. UNCHANGED result  BY <1>3 DEF CallReturns
  <2> QED  BY <2>4, <2>5, <2>6, <2>7, OperationMoves DEF OpInv
<1> QED  BY <1>2, <1>3

\* status_unlocked
LEMMA AskStatusStep == ASSUME IInv, AskStatus PROVE IInv'
<1>1. TypeOK /\ OpInv /\ op # Idle /\ op.at = "call" /\ Head(op.todo) = "status"
  BY DEF AskStatus, At, IInv, OpInv
<1>2. op.kind = "write"
  BY <1>1, OperationFields, CallFacts DEF OpInv, ShapeInv, Preparing, Before
<1>3. CASE CallReturns /\ UNCHANGED faults  BY <1>1, <1>2, <1>3, CallReturnsMoves DEF AskStatus
<1>4. CASE CallFails(TRUE) /\ (faults' = faults \/ Fault)
  BY <1>4, CallFailsEnds, OperationMoves DEF AskStatus
<1> QED  BY <1>3, <1>4 DEF AskStatus, Reads

\* The answer of a command that changed the VPS.
LEMMA ReadAnswerStep == ASSUME IInv, ReadAnswer PROVE IInv'
<1>1. TypeOK /\ OpInv /\ op # Idle /\ op.at = "wait" /\ op.reply \in {"ok", "error"}
  BY OperationFields DEF ReadAnswer, At, IInv, OpInv
<1>2. \/ op.kind = "write" /\ Head(op.todo) = "set"
      \/ op.kind = "boot" /\ op.todo = <<"create">> /\ Head(op.todo) = "create"
      \/ op.kind = "boot" /\ op.todo = <<"remove">> /\ Head(op.todo) = "remove"
  BY <1>1, OperationFields, CallFacts DEF OpInv, ShapeInv, Preparing, Before
<1>3. CASE CallFails(TRUE) /\ UNCHANGED faults
  BY <1>3, CallFailsEnds, OperationMoves DEF ReadAnswer
<1>4. CASE End("unknown") /\ Fault  BY <1>4, OperationEnds DEF ReadAnswer, Hows
<1>5. CASE End("failed") /\ UNCHANGED faults  BY <1>5, OperationEnds DEF ReadAnswer, Hows
<1>6. CASE op.reply = "ok" /\ Head(op.todo) = "set" /\ CallReturns /\ UNCHANGED faults
  BY <1>1, <1>2, <1>6, CallReturnsMoves DEF ReadAnswer, OpInv, ShapeInv
<1>7. CASE /\ op.reply = "ok" /\ Head(op.todo) = "create"
           /\ op' = [op EXCEPT !.at = "save", !.stage = 7] /\ UNCHANGED <<result, faults>>
  <2>1. op.kind = "boot" /\ op.todo = <<"create">>  BY <1>2, <1>7
  <2>2. /\ op' \in Operation /\ op'.kind = op.kind /\ op'.host = op.host /\ op'.peer = op.peer
        /\ op'.todo = op.todo /\ op'.done = op.done /\ op'.reply = op.reply /\ op'.at = "save"
        /\ op'.key = op.key /\ op'.ran = op.ran
    <3>1. 7 \in 0 .. 7  OBVIOUS
    <3> QED  BY <1>1, <1>7, <3>1, OperationFields DEF Operation
  <2>3. ShapeInv'  BY <1>1, <1>7, <2>1, <2>2, CallFacts DEF OpInv, ShapeInv
  <2>4. BootInv' /\ PeerInv'
    BY <1>1, <2>1, <2>2, CallFacts DEF ReadAnswer, OpInv, BootInv, PeerInv, Before, local, history
  <2> QED  BY <1>7, <2>2, <2>3, <2>4, OperationMoves DEF ReadAnswer, OpInv
<1>8. \/ op.reply = "error" /\ CallFails(TRUE) /\ UNCHANGED faults
      \/ /\ op.reply = "ok"
         /\ Head(op.todo) = "create" =>
              \/ op' = [op EXCEPT !.at = "save", !.stage = 7] /\ UNCHANGED <<result, faults>>
              \/ Fault /\ End("unknown")
         /\ Head(op.todo) = "remove" => End("failed") /\ UNCHANGED faults
         /\ Head(op.todo) = "set" => CallReturns /\ UNCHANGED faults
  BY <1>1, <1>2 DEF ReadAnswer
<1> QED  BY <1>2, <1>3, <1>4, <1>5, <1>6, <1>7, <1>8

\* rollback_enrollment: nobody has the peer that will be removed.
LEMMA CheckEnrollmentStep == ASSUME IInv, CheckEnrollment PROVE IInv'
<1>1. TypeOK /\ OpInv /\ op # Idle /\ op.at = "check"  BY DEF CheckEnrollment, At, IInv, OpInv
<1>2. CASE End("retained") /\ (UNCHANGED faults \/ Fault)
  BY <1>2, OperationEnds DEF CheckEnrollment, Hows
<1>3. CASE /\ ~Holds(config, op.peer)
           /\ op' = [op EXCEPT !.at = "call", !.todo = <<"remove">>] /\ UNCHANGED <<result, faults>>
  <2>1. op.kind = "boot"  BY <1>1, OperationFields DEF OpInv, ShapeInv
  <2>2. /\ op' \in Operation /\ op'.kind = op.kind /\ op'.host = op.host /\ op'.peer = op.peer
        /\ op'.todo = <<"remove">> /\ op'.done = op.done /\ op'.at = "call" /\ op'.key = op.key
    <3>1. <<"remove">> \in Seq(Remote)  BY CallFacts
    <3> QED  BY <1>1, <1>3, <3>1, OperationFields DEF Operation
  <2>3. ShapeInv'  BY <1>1, <2>1, <2>2, CallFacts DEF OpInv, ShapeInv
  <2>4. BootInv' /\ PeerInv'
    BY <1>1, <1>3, <2>1, <2>2, CallFacts DEF CheckEnrollment, OpInv, BootInv, PeerInv, Before, Holds, local, history
  <2> QED  BY <1>3, <2>2, <2>3, <2>4, OperationMoves DEF CheckEnrollment, OpInv
<1> QED  BY <1>2, <1>3 DEF CheckEnrollment

\* The fields of a new operation.
LEMMA NewOperationFields ==
    ASSUME NEW kind \in {"boot", "write"}, NEW h \in Hosts, NEW at \in {"probe", "call"},
           NEW todo \in Seq(Remote), NEW want \in {0, 1}, NewOperation(kind, h, NoKey, at, todo, want)
    PROVE  /\ op' \in Operation /\ op'.kind = kind /\ op'.host = h /\ op'.key = NoKey /\ op'.peer = NoPeer
           /\ op'.todo = todo /\ op'.done = FALSE /\ op'.reply = "none" /\ op'.at = at
<1>1. 1 \in 0 .. 7 /\ 0 \in 0 .. 3  OBVIOUS
<1> QED  BY <1>1 DEF NewOperation, Operation, Keys

\* A write starts.
LEMMA StartCommandStep == ASSUME IInv, NEW h \in Hosts, StartCommand(h) PROVE IInv'
<1>1. PICK todo \in Calls, want \in {0, 1} : NewOperation("write", h, NoKey, "call", todo, want)
  BY DEF StartCommand
<1>2. /\ op' \in Operation /\ op'.kind = "write" /\ op'.peer = NoPeer /\ op'.todo = todo
      /\ op'.done = FALSE /\ op'.reply = "none" /\ op'.at = "call"
  <2>1. todo \in Seq(Remote)  BY CallFacts
  <2> QED  BY <1>1, <2>1, NewOperationFields
<1>3. ShapeInv'  BY <1>2 DEF ShapeInv
<1>4. BootInv' /\ PeerInv'  BY <1>2 DEF BootInv, PeerInv
<1> QED  BY <1>2, <1>3, <1>4, OperationMoves DEF StartCommand, OpInv

-----------------------------------------------------------------------------
(* The steps that pin keys and give the password.                          *)

\* A step of the operation that also pins keys.
LEMMA PinsMove ==
    ASSUME IInv, UNCHANGED <<local, vps, late, history>>, Follows(pins'),
           faults' = faults \/ Fault, result' = result \/ result' \in Hows,
           op' = Idle \/ (op' \in Operation /\ OpInv')
    PROVE  IInv'
<1>1. TypeOK /\ TrustInv /\ ServerInv  BY DEF IInv
<1>2. /\ config' = config /\ kept' = kept /\ degraded' = degraded /\ vps' = vps
      /\ late' = late /\ trusted' = trusted /\ dropped' = dropped
  BY DEF local, history
<1>3. faults' \in Nat  BY <1>1 DEF TypeOK, Fault
<1>4. TypeOK'  BY <1>1, <1>2, <1>3 DEF TypeOK, Follows
<1>5. TrustInv'  BY <1>1, <1>2 DEF TrustInv, Durable, Follows
<1>6. ServerInv'  BY <1>1, <1>2 DEF ServerInv, Live
<1> QED  BY <1>4, <1>5, <1>6 DEF IInv, OpInv

\* Enrolment starts.
LEMMA StartBootstrapStep == ASSUME IInv, NEW h \in Hosts, StartBootstrap(h) PROVE IInv'
<1>1. PICK out \in Preserve :
         /\ Preserving(out)
         /\ IF out.ok /\ ~config[h].managed
            THEN NewOperation("boot", h, NoKey, "probe", <<>>, 0) /\ UNCHANGED result
            ELSE End("failed")
  BY DEF StartBootstrap
<1>2. Follows(pins') /\ (faults' = faults \/ Fault)
  BY <1>1, PreserveFacts DEF IInv, Preserving
<1>3. CASE End("failed")  BY <1>2, <1>3, PinsMove DEF StartBootstrap, End, Hows
<1>4. CASE ~config[h].managed /\ NewOperation("boot", h, NoKey, "probe", <<>>, 0) /\ UNCHANGED result
  <2>1. /\ op' \in Operation /\ op'.kind = "boot" /\ op'.host = h /\ op'.peer = NoPeer
        /\ op'.todo = <<>> /\ op'.done = FALSE /\ op'.reply = "none" /\ op'.at = "probe"
    <3>1. <<>> \in Seq(Remote) /\ 0 \in {0, 1}  BY CallFacts
    <3> QED  BY <1>4, <3>1, NewOperationFields
  <2>2. ShapeInv'  BY <2>1, CallFacts DEF ShapeInv, Preparing, Before
  <2>3. config' = config  BY DEF StartBootstrap, local
  <2>4. BootInv' /\ PeerInv'  BY <1>4, <2>1, <2>3, CallFacts DEF BootInv, PeerInv, Before
  <2> QED  BY <1>2, <1>4, <2>1, <2>2, <2>4, PinsMove DEF StartBootstrap, OpInv
<1> QED  BY <1>1, <1>3, <1>4

\* pin_host, after the pins of the managed servers.
LEMMA PinHostStep == ASSUME IInv, PinHost PROVE IInv'
<1>1. TypeOK /\ OpInv /\ op # Idle /\ op.at = "pin"  BY DEF PinHost, At, IInv, OpInv
<1>2. PICK out \in Preserve :
         IF out.ok
         THEN \E o \in PinOutcomes(out.pins[op.host], op.key) :
                /\ pins' = [out.pins EXCEPT ![op.host] = o.pin]
                /\ IF o.bad THEN Fault ELSE UNCHANGED faults
                /\ IF o.ok THEN op' = [op EXCEPT !.at = "connect", !.stage = 2] /\ UNCHANGED result
                           ELSE End("failed")
         ELSE Preserving(out) /\ End("failed")
  BY DEF PinHost
<1>3. Follows(out.pins) /\ op.host \in Hosts /\ op.key \in Keys
  BY <1>1, PreserveFacts, OperationFields
<1>4. CASE Preserving(out) /\ End("failed")
  BY <1>3, <1>4, PinsMove DEF PinHost, Preserving, End, Hows
<1>5. CASE \E o \in PinOutcomes(out.pins[op.host], op.key) :
             /\ pins' = [out.pins EXCEPT ![op.host] = o.pin]
             /\ IF o.bad THEN Fault ELSE UNCHANGED faults
             /\ IF o.ok THEN op' = [op EXCEPT !.at = "connect", !.stage = 2] /\ UNCHANGED result
                        ELSE End("failed")
  <2>1. PICK o \in PinOutcomes(out.pins[op.host], op.key) :
             /\ pins' = [out.pins EXCEPT ![op.host] = o.pin]
             /\ IF o.bad THEN Fault ELSE UNCHANGED faults
             /\ IF o.ok THEN op' = [op EXCEPT !.at = "connect", !.stage = 2] /\ UNCHANGED result
                        ELSE End("failed")
    BY <1>5
  <2>2. out.pins[op.host] \in Pin  BY <1>3 DEF Follows
  <2>3. /\ o.pin \in Pin /\ (o.ok => o.pin.seen = op.key /\ o.pin.kept = op.key)
        /\ out.pins[op.host].seen # NoKey /\ out.pins[op.host].kept = out.pins[op.host].seen =>
             o.pin.seen = out.pins[op.host].seen /\ o.pin.kept = out.pins[op.host].seen
    BY <1>3, <2>2, PinFacts
  <2>4. Follows(pins')  BY <1>3, <2>1, <2>3 DEF Follows
  <2>5. CASE End("failed")  BY <2>1, <2>4, <2>5, PinsMove DEF PinHost, End, Hows
  <2>6. CASE o.ok /\ op' = [op EXCEPT !.at = "connect", !.stage = 2] /\ UNCHANGED result
    <3>1. /\ op' \in Operation /\ op'.kind = op.kind /\ op'.host = op.host /\ op'.peer = op.peer
          /\ op'.todo = op.todo /\ op'.done = op.done /\ op'.reply = op.reply /\ op'.at = "connect"
          /\ op'.key = op.key
      <4>1. 2 \in 0 .. 7  OBVIOUS
      <4> QED  BY <1>1, <2>6, <4>1, OperationFields DEF Operation
    <3>2. op.kind = "boot" /\ op.todo = <<>>  BY <1>1, OperationFields DEF OpInv, ShapeInv
    <3>3. ShapeInv'  BY <1>1, <3>1, <3>2, CallFacts DEF OpInv, ShapeInv, Preparing, Before
    <3>4. pins'[op.host].seen = op.key /\ pins'[op.host].kept = op.key
      BY <1>3, <2>1, <2>3, <2>6 DEF Follows
    <3>5. config' = config  BY DEF PinHost, local
    <3>6. BootInv' /\ PeerInv'
      BY <1>1, <3>1, <3>2, <3>4, <3>5, CallFacts DEF OpInv, BootInv, PeerInv, Before
    <3> QED  BY <2>1, <2>4, <2>6, <3>1, <3>3, <3>6, PinsMove DEF PinHost, OpInv
  <2> QED  BY <2>1, <2>5, <2>6
<1> QED  BY <1>2, <1>4, <1>5

\* A call looks its server up; an enrolment has its key already.
LEMMA LookUpStep == ASSUME IInv, LookUp PROVE IInv'
<1>1. TypeOK /\ OpInv /\ op # Idle /\ op.at = "call" /\ op.key = NoKey
  BY DEF LookUp, At, IInv, OpInv
<1>2. op.kind = "write"  BY <1>1, OperationFields DEF OpInv, ShapeInv
<1>3. CASE CallFails(TRUE) /\ UNCHANGED <<pins, faults>>
  BY <1>3, CallFailsEnds, OperationMoves DEF LookUp
<1>4. CASE \E out \in Preserve :
              /\ Preserving(out)
              /\ IF out.ok THEN op' = [op EXCEPT !.key = config[op.host].key] /\ UNCHANGED result
                           ELSE CallFails(TRUE)
  <2>1. PICK out \in Preserve :
              /\ Preserving(out)
              /\ IF out.ok THEN op' = [op EXCEPT !.key = config[op.host].key] /\ UNCHANGED result
                           ELSE CallFails(TRUE)
    BY <1>4
  <2>2. Follows(pins') /\ (faults' = faults \/ Fault)
    BY <1>1, <2>1, PreserveFacts DEF Preserving
  <2>3. CASE CallFails(TRUE)  BY <2>2, <2>3, CallFailsEnds, PinsMove DEF LookUp
  <2>4. CASE op' = [op EXCEPT !.key = config[op.host].key] /\ UNCHANGED result
    <3>1. config[op.host].key \in Keys  BY <1>1, OperationFields DEF TypeOK, Server
    <3>2. /\ op' \in Operation /\ op'.kind = op.kind /\ op'.peer = op.peer /\ op'.todo = op.todo
          /\ op'.done = op.done /\ op'.reply = op.reply /\ op'.at = op.at /\ op'.ran = op.ran
      BY <1>1, <2>4, <3>1, OperationFields DEF Operation
    <3>3. ShapeInv'  BY <1>1, <1>2, <3>2 DEF OpInv, ShapeInv
    <3>4. BootInv' /\ PeerInv'  BY <1>2, <3>2 DEF BootInv, PeerInv
    <3> QED  BY <2>2, <2>4, <3>2, <3>3, <3>4, PinsMove DEF LookUp, OpInv
  <2> QED  BY <2>1, <2>3, <2>4
<1> QED  BY <1>3, <1>4 DEF LookUp

\* The password goes to the key that is durably pinned.
LEMMA SendPasswordStep == ASSUME IInv, SendPassword PROVE IInv'
<1>1. TypeOK /\ OpInv /\ TrustInv /\ ServerInv /\ op # Idle /\ op.at = "connect"
  BY DEF SendPassword, At, IInv, OpInv
<1>2. CASE End("failed") /\ UNCHANGED trusted
  BY <1>2, OperationEnds DEF SendPassword, Hows, history
<1>3. CASE /\ op' = [op EXCEPT !.at = "script"]
           /\ trusted' = [trusted EXCEPT ![op.host] = op.key] /\ UNCHANGED result
  <2>1. /\ config' = config /\ kept' = kept /\ degraded' = degraded /\ pins' = pins /\ vps' = vps
        /\ late' = late /\ dropped' = dropped /\ faults' = faults /\ result' = result
    BY <1>3 DEF SendPassword, local
  <2>2. op.host \in Hosts /\ op.key \in Keys /\ op.kind = "boot" /\ op.todo = <<>> /\ op.key # NoKey
    BY <1>1, OperationFields DEF OpInv, ShapeInv
  <2>3. /\ op' \in Operation /\ op'.kind = op.kind /\ op'.host = op.host /\ op'.peer = op.peer
        /\ op'.todo = op.todo /\ op'.done = op.done /\ op'.reply = op.reply /\ op'.at = "script"
        /\ op'.key = op.key
    BY <1>1, <1>3, OperationFields DEF Operation
  <2>4. /\ ~config[op.host].managed
        /\ pins[op.host].seen = op.key /\ pins[op.host].kept = op.key
    BY <1>1, <2>2, CallFacts DEF OpInv, BootInv
  <2>5. /\ trusted' \in [Hosts -> Keys] /\ trusted'[op.host] = op.key
        /\ \A h \in Hosts \ {op.host} : trusted'[h] = trusted[h]
    BY <1>1, <1>3, <2>2 DEF TypeOK
  <2>6. TypeOK'  BY <1>1, <2>1, <2>3, <2>5 DEF TypeOK
  <2>7. TrustInv'  BY <1>1, <2>1, <2>4, <2>5 DEF TrustInv, Durable
  <2>8. ServerInv'
    <3>1. ASSUME NEW h \in Hosts, Live(config, h) PROVE h # op.host  BY <2>4, <3>1 DEF Live
    <3> QED  BY <1>1, <2>1, <2>5, <3>1 DEF ServerInv, Live
  <2>9. ShapeInv'  BY <1>1, <2>2, <2>3, CallFacts DEF OpInv, ShapeInv, Preparing, Before
  <2>10. BootInv' /\ PeerInv'
    BY <1>1, <2>1, <2>2, <2>3, <2>4, <2>5, CallFacts DEF OpInv, BootInv, PeerInv, Before
  <2> QED  BY <2>6, <2>7, <2>8, <2>9, <2>10 DEF IInv
<1> QED  BY <1>2, <1>3 DEF SendPassword

-----------------------------------------------------------------------------
(* The steps on the VPS.                                                   *)

\* A step that changes servers but not their keys, and takes away no peer that
\* a live server has.
LEMMA MachinesMove ==
    ASSUME IInv, UNCHANGED <<local, pins, history>>, late' \subseteq late,
           vps' \in [Hosts -> Machine], \A h \in Hosts : vps'[h].key = vps[h].key,
           \A h \in Hosts, q \in Peers :
              q \in vps[h].peers => q \in vps'[h].peers \/ \A g \in Hosts : Live(config, g) => config[g].peer # q,
           faults' = faults \/ Fault, result' = result \/ result' \in Hows,
           op' = Idle \/ (op' \in Operation /\ OpInv')
    PROVE  IInv'
<1>1. TypeOK /\ TrustInv /\ ServerInv  BY DEF IInv
<1>2. /\ config' = config /\ kept' = kept /\ degraded' = degraded /\ pins' = pins
      /\ trusted' = trusted /\ dropped' = dropped
  BY DEF local, history
<1>3. faults' \in Nat  BY <1>1 DEF TypeOK, Fault
<1>4. TypeOK'  BY <1>1, <1>2, <1>3 DEF TypeOK
<1>5. TrustInv'  BY <1>1, <1>2 DEF TrustInv, Durable
<1>6. ServerInv'
  <2>1. ASSUME NEW h \in Hosts, Live(config, h), vps[h].key = config[h].key
        PROVE  config[h].peer \in vps'[h].peers
    <3>1. config[h].peer \in Peers  BY <1>1, <2>1 DEF TypeOK, Server, Live
    <3>2. config[h].peer \in vps[h].peers  BY <1>1, <2>1 DEF ServerInv
    <3> QED  BY <2>1, <3>1, <3>2
  <2> QED  BY <1>1, <1>2, <2>1 DEF ServerInv, Live
<1> QED  BY <1>4, <1>5, <1>6 DEF IInv, OpInv

\* The installation changes neither keys nor peers.
LEMMA ReadyFacts ==
    ASSUME TypeOK, NEW h \in Hosts, NEW ready \in BOOLEAN, vps' = [vps EXCEPT ![h].ready = ready]
    PROVE  /\ vps' \in [Hosts -> Machine]
           /\ \A g \in Hosts : vps'[g].key = vps[g].key /\ vps'[g].peers = vps[g].peers
<1>1. \A g \in Hosts : vps[g] \in Machine  BY DEF TypeOK
<1>2. /\ vps'[h] = [vps[h] EXCEPT !.ready = ready] /\ \A g \in Hosts \ {h} : vps'[g] = vps[g]
      /\ DOMAIN vps' = Hosts /\ vps' = [g \in Hosts |-> vps'[g]]
  BY DEF TypeOK
<1>3. vps'[h] \in Machine /\ vps'[h].key = vps[h].key /\ vps'[h].peers = vps[h].peers
  BY <1>1, <1>2 DEF Machine
<1> QED  BY <1>1, <1>2, <1>3

\* The bootstrap script ends.
LEMMA ScriptEndsStep == ASSUME IInv, ScriptEnds PROVE IInv'
<1>1. TypeOK /\ OpInv /\ op # Idle /\ op.at = "script" /\ op.host \in Hosts
  BY OperationFields DEF ScriptEnds, At, IInv, OpInv
<1>2. CASE ScriptFails
  <2>1. PICK ready \in {TRUE, vps[op.host].ready} : vps' = [vps EXCEPT ![op.host].ready = ready]
    BY <1>2 DEF ScriptFails
  <2>2. ready \in BOOLEAN  BY <1>1 DEF TypeOK, Machine
  <2>3. /\ vps' \in [Hosts -> Machine]
        /\ \A g \in Hosts : vps'[g].key = vps[g].key /\ vps'[g].peers = vps[g].peers
    BY <1>1, <2>1, <2>2, ReadyFacts
  <2> QED  BY <1>2, <2>3, MachinesMove DEF ScriptEnds, ScriptFails, End, Hows
<1>3. CASE /\ vps' = [vps EXCEPT ![op.host].ready = TRUE]
           /\ op' = [op EXCEPT !.at = "capabilities"] /\ UNCHANGED <<result, faults>>
  <2>1. /\ vps' \in [Hosts -> Machine]
        /\ \A g \in Hosts : vps'[g].key = vps[g].key /\ vps'[g].peers = vps[g].peers
    BY <1>1, <1>3, ReadyFacts
  <2>2. op.kind = "boot" /\ op.todo = <<>>  BY <1>1, OperationFields DEF OpInv, ShapeInv
  <2>3. /\ op' \in Operation /\ op'.kind = op.kind /\ op'.host = op.host /\ op'.peer = op.peer
        /\ op'.todo = op.todo /\ op'.done = op.done /\ op'.reply = op.reply
        /\ op'.at = "capabilities" /\ op'.key = op.key
    BY <1>1, <1>3, OperationFields DEF Operation
  <2>4. ShapeInv'  BY <1>1, <2>2, <2>3, CallFacts DEF OpInv, ShapeInv, Preparing, Before
  <2>5. BootInv' /\ PeerInv'
    BY <1>1, <2>2, <2>3, CallFacts DEF ScriptEnds, OpInv, BootInv, PeerInv, Before, local, history
  <2> QED  BY <1>3, <2>1, <2>3, <2>4, <2>5, MachinesMove DEF ScriptEnds, OpInv
<1> QED  BY <1>2, <1>3 DEF ScriptEnds

\* What a command does to the peers of a VPS.
LEMMA ExecutesFacts ==
    ASSUME TypeOK, NEW m, m.host \in Hosts, m.cmd \in {"create", "remove", "set"}, m.want \in {0, 1},
           NEW p \in Peers \cup {NoPeer}, Executes(m, p)
    PROVE  /\ vps' \in [Hosts -> Machine] /\ \A h \in Hosts : vps'[h].key = vps[h].key
           /\ \A h \in Hosts \ {m.host} : vps'[h].peers = vps[h].peers
           /\ m.cmd = "create" => p # NoPeer /\ Fresh(p) /\ vps'[m.host].peers = vps[m.host].peers \cup {p}
           /\ m.cmd = "remove" => p = NoPeer /\ vps'[m.host].peers = vps[m.host].peers \ {m.peer}
           /\ m.cmd = "set" => p = NoPeer /\ vps'[m.host].peers = vps[m.host].peers
<1>1. vps[m.host] \in Machine /\ vps[m.host].peers \in SUBSET Peers  BY DEF TypeOK, Machine
<1>2. (m.cmd = "create" <=> p # NoPeer) /\ (m.cmd = "create" => Fresh(p))  BY DEF Executes
<1>3. CASE m.cmd = "create"
  <2>1. vps' = [vps EXCEPT ![m.host].peers = vps[m.host].peers \cup {p}]  BY <1>3 DEF Executes
  <2>2. vps[m.host].peers \cup {p} \in SUBSET Peers  BY <1>1, <1>2, <1>3
  <2> QED  BY <1>1, <1>2, <1>3, <2>1, <2>2 DEF TypeOK, Machine
<1>4. CASE m.cmd = "remove"
  <2>1. vps' = [vps EXCEPT ![m.host].peers = vps[m.host].peers \ {m.peer}]  BY <1>4 DEF Executes
  <2>2. vps[m.host].peers \ {m.peer} \in SUBSET Peers  BY <1>1
  <2> QED  BY <1>1, <1>2, <1>4, <2>1, <2>2 DEF TypeOK, Machine
<1>5. CASE m.cmd = "set"
  <2>1. vps' = [vps EXCEPT ![m.host].setting = m.want]  BY <1>5 DEF Executes
  <2> QED  BY <1>1, <1>2, <1>5, <2>1 DEF TypeOK, Machine
<1> QED  BY <1>3, <1>4, <1>5

\* At a command that was sent, the operation is one of three.
LEMMA Waiting ==
    ASSUME TypeOK, OpInv, op # Idle, op.at = "wait"
    PROVE  /\ op.key \in HostKeys
           /\ \/ op.kind = "write" /\ Head(op.todo) = "set" /\ op.peer = NoPeer
              \/ op.kind = "boot" /\ op.todo = <<"create">> /\ Head(op.todo) = "create"
              \/ op.kind = "boot" /\ op.todo = <<"remove">> /\ Head(op.todo) = "remove"
<1>1. op.key \in Keys /\ op.key # NoKey  BY OperationFields DEF OpInv, ShapeInv
<1>2. \/ op.kind = "write" /\ Head(op.todo) = "set" /\ op.peer = NoPeer
      \/ op.kind = "boot" /\ op.todo \in {<<"create">>, <<"remove">>}
  BY OperationFields DEF OpInv, ShapeInv, Preparing, Before
<1> QED  BY <1>1, <1>2, CallFacts DEF Keys

\* The VPS executes the command that the agent waits for.
LEMMA CommandRunsStep == ASSUME IInv, CommandRuns PROVE IInv'
<1>1. TypeOK /\ OpInv /\ op # Idle /\ op.at = "wait" /\ op.reply = "none" /\ op.host \in Hosts
  BY OperationFields DEF CommandRuns, At, IInv, OpInv
<1>2. PICK p \in Peers \cup {NoPeer} :
         /\ Executes(Sent, p)
         /\ op' = [op EXCEPT !.reply = "ok", !.ran = TRUE, !.peer = IF p = NoPeer THEN op.peer ELSE p]
  BY DEF CommandRuns
<1> DEFINE peer == IF p = NoPeer THEN op.peer ELSE p
<1>3. /\ op' \in Operation /\ op'.kind = op.kind /\ op'.host = op.host /\ op'.peer = peer
      /\ op'.todo = op.todo /\ op'.done = op.done /\ op'.reply = "ok" /\ op'.at = op.at
      /\ op'.key = op.key /\ op'.ran = TRUE
  <2>1. peer \in Peers \cup {NoPeer}  BY <1>1, OperationFields
  <2>2. op' = [op EXCEPT !.reply = "ok", !.ran = TRUE, !.peer = peer]  BY <1>2
  <2> HIDE DEF peer
  <2> QED  BY <1>1, <2>1, <2>2, OperationFields DEF Operation
<1>4. Sent.host = op.host /\ Sent.cmd = Head(op.todo) /\ Sent.peer = op.peer /\ Sent.want \in {0, 1}
  BY <1>1, OperationFields DEF Sent
<1>5. Head(op.todo) \in {"create", "remove", "set"}  BY <1>1, Waiting
<1>6. /\ vps' \in [Hosts -> Machine] /\ \A h \in Hosts : vps'[h].key = vps[h].key
      /\ \A h \in Hosts \ {op.host} : vps'[h].peers = vps[h].peers
      /\ Head(op.todo) = "create" => p # NoPeer /\ Fresh(p) /\ vps'[op.host].peers = vps[op.host].peers \cup {p}
      /\ Head(op.todo) = "remove" => p = NoPeer /\ vps'[op.host].peers = vps[op.host].peers \ {op.peer}
      /\ Head(op.todo) = "set" => p = NoPeer /\ vps'[op.host].peers = vps[op.host].peers
  BY <1>1, <1>2, <1>4, <1>5, ExecutesFacts
<1>7. /\ config' = config /\ kept' = kept /\ pins' = pins /\ late' = late /\ trusted' = trusted
      /\ dropped' = dropped /\ UNCHANGED <<local, pins, history, result, faults>>
  BY DEF CommandRuns, local, history
<1>8. CASE op.kind = "write" /\ Head(op.todo) = "set" /\ op.peer = NoPeer
  <2>1. OpInv'
    BY <1>1, <1>3, <1>6, <1>8 DEF OpInv, ShapeInv, BootInv, PeerInv
  <2> QED  BY <1>3, <1>6, <1>7, <1>8, <2>1, MachinesMove
<1>9. CASE op.kind = "boot" /\ op.todo = <<"create">> /\ Head(op.todo) = "create"
  <2>1. p # NoPeer /\ op'.peer = p /\ p \in vps'[op.host].peers /\ \A m \in late : m.peer # p
    BY <1>3, <1>6, <1>9 DEF Fresh
  <2>2. ShapeInv'  BY <1>1, <1>3, <1>9, <2>1, CallFacts DEF OpInv, ShapeInv
  <2>3. BootInv' /\ PeerInv'
    BY <1>1, <1>3, <1>7, <1>9, <2>1, CallFacts DEF OpInv, BootInv, PeerInv
  <2> QED  BY <1>3, <1>6, <1>7, <1>9, <2>2, <2>3, MachinesMove DEF OpInv
<1>10. CASE op.kind = "boot" /\ op.todo = <<"remove">> /\ Head(op.todo) = "remove"
  <2>1. p = NoPeer /\ op'.peer = op.peer /\ ~Holds(config, op.peer) /\ op.peer \notin vps'[op.host].peers
    BY <1>1, <1>3, <1>6, <1>10 DEF OpInv, PeerInv
  <2>2. ShapeInv'  BY <1>1, <1>3, <1>10, CallFacts DEF OpInv, ShapeInv
  <2>3. BootInv' /\ PeerInv'
    BY <1>1, <1>3, <1>7, <1>10, <2>1, CallFacts DEF OpInv, BootInv, PeerInv, Holds
  <2>4. ASSUME NEW h \in Hosts, NEW q \in Peers, q \in vps[h].peers
        PROVE  q \in vps'[h].peers \/ \A g \in Hosts : Live(config, g) => config[g].peer # q
    BY <1>6, <1>10, <2>1, <2>4 DEF Holds
  <2> QED  BY <1>3, <1>6, <1>7, <2>2, <2>3, <2>4, MachinesMove DEF OpInv
<1> QED  BY <1>1, <1>8, <1>9, <1>10, Waiting

\* The VPS answers a command with an error, and may have executed it.
LEMMA CommandRefusedStep == ASSUME IInv, CommandRefused PROVE IInv'
<1>1. TypeOK /\ OpInv /\ op # Idle /\ op.at = "wait" /\ op.reply = "none" /\ op.host \in Hosts
  BY OperationFields DEF CommandRefused, At, IInv, OpInv
<1>2. /\ op' \in Operation /\ op'.kind = op.kind /\ op'.host = op.host /\ op'.peer = op.peer
      /\ op'.todo = op.todo /\ op'.done = op.done /\ op'.reply = "error" /\ op'.at = op.at
      /\ op'.key = op.key /\ op'.ran = op.ran
  BY <1>1, OperationFields DEF CommandRefused, Operation
<1>3. /\ config' = config /\ pins' = pins /\ late' = late /\ trusted' = trusted /\ result' = result
      /\ (faults' = faults \/ Fault) /\ UNCHANGED <<local, pins, history>>
  BY DEF CommandRefused, local, history
<1>4. ShapeInv'  BY <1>1, <1>2 DEF OpInv, ShapeInv, Preparing, Before
<1>5. op.kind = "boot" /\ op.todo = <<"create">> => op.peer = NoPeer
  BY <1>1, CallFacts DEF OpInv, ShapeInv
<1>6. BootInv' /\ PeerInv'
  BY <1>1, <1>2, <1>3, <1>5 DEF OpInv, BootInv, PeerInv, Holds
<1>7. CASE vps' = vps
  BY <1>2, <1>3, <1>4, <1>6, <1>7, OperationMoves DEF OpInv
<1>8. CASE \E p \in Peers \cup {NoPeer} : Executes(Sent, p)
  <2>1. PICK p \in Peers \cup {NoPeer} : Executes(Sent, p)  BY <1>8
  <2>2. Sent.host = op.host /\ Sent.cmd = Head(op.todo) /\ Sent.peer = op.peer /\ Sent.want \in {0, 1}
    BY <1>1, OperationFields DEF Sent
  <2>3. Head(op.todo) \in {"create", "remove", "set"}  BY <1>1, Waiting
  <2>4. /\ vps' \in [Hosts -> Machine] /\ \A h \in Hosts : vps'[h].key = vps[h].key
        /\ \A h \in Hosts \ {op.host} : vps'[h].peers = vps[h].peers
        /\ Head(op.todo) = "create" => vps'[op.host].peers = vps[op.host].peers \cup {p}
        /\ Head(op.todo) = "remove" => vps'[op.host].peers = vps[op.host].peers \ {op.peer}
        /\ Head(op.todo) = "set" => vps'[op.host].peers = vps[op.host].peers
    BY <1>1, <2>1, <2>2, <2>3, ExecutesFacts
  <2>5. Head(op.todo) = "remove" => ~Holds(config, op.peer)
    BY <1>1, Waiting DEF OpInv, PeerInv
  <2>6. ASSUME NEW h \in Hosts, NEW q \in Peers, q \in vps[h].peers
        PROVE  q \in vps'[h].peers \/ \A g \in Hosts : Live(config, g) => config[g].peer # q
    BY <2>3, <2>4, <2>5, <2>6 DEF Holds
  <2> QED  BY <1>2, <1>3, <1>4, <1>6, <2>4, <2>6, MachinesMove DEF OpInv
<1> QED  BY <1>7, <1>8 DEF CommandRefused

\* The operation under way is as good with other servers and a command less.
LEMMA LateCommandStep == ASSUME IInv, NEW m \in late, LateCommand(m) PROVE IInv'
<1>1. TypeOK /\ ServerInv /\ (op # Idle => OpInv)  BY DEF IInv, OpInv
<1>2. m \in Message  BY <1>1 DEF TypeOK
<1>3. m.host \in Hosts /\ m.cmd \in {"create", "remove", "set"} /\ m.want \in {0, 1}
  BY <1>2 DEF Message
<1>4. PICK p \in Peers \cup {NoPeer} : Executes(m, p)  BY DEF LateCommand
<1>5. /\ vps' \in [Hosts -> Machine] /\ \A h \in Hosts : vps'[h].key = vps[h].key
      /\ \A h \in Hosts \ {m.host} : vps'[h].peers = vps[h].peers
      /\ m.cmd = "create" => p # NoPeer /\ Fresh(p) /\ vps'[m.host].peers = vps[m.host].peers \cup {p}
      /\ m.cmd = "remove" => vps'[m.host].peers = vps[m.host].peers \ {m.peer}
      /\ m.cmd = "set" => vps'[m.host].peers = vps[m.host].peers
  BY <1>1, <1>3, <1>4, ExecutesFacts
<1>6. /\ config' = config /\ pins' = pins /\ trusted' = trusted /\ late' = late \ {m} /\ op' = op
      /\ UNCHANGED <<local, pins, history, result, faults>>
  BY DEF LateCommand, local, history
<1>7. ASSUME NEW h \in Hosts, NEW q \in Peers, q \in vps[h].peers
      PROVE  q \in vps'[h].peers \/ \A g \in Hosts : Live(config, g) => config[g].peer # q
  <2>1. CASE m.cmd = "remove"  BY <1>1, <1>5, <1>7, <2>1 DEF ServerInv
  <2>2. CASE m.cmd # "remove"  BY <1>3, <1>5, <1>7, <2>2
  <2> QED  BY <2>1, <2>2
<1>8. CASE op # Idle
  <2>1. op' \in Operation /\ op.host \in Hosts /\ op.kind \in {"boot", "write"}
    BY <1>1, <1>6, <1>8, OperationFields
  <2>2. ShapeInv' /\ BootInv'  BY <1>1, <1>6, <1>8 DEF OpInv, ShapeInv, BootInv
  <2>3. ASSUME op.kind = "boot", op.todo = <<"create">>, op.peer # NoPeer
        PROVE  /\ vps'[op.host].key = op.key => op.peer \in vps'[op.host].peers
               /\ \A n \in late' : n.cmd = "remove" => n.peer # op.peer
    <3>1. /\ vps[op.host].key = op.key => op.peer \in vps[op.host].peers
          /\ \A n \in late : n.cmd = "remove" => n.peer # op.peer
      BY <1>1, <1>8, <2>3 DEF OpInv, PeerInv
    <3> QED  BY <1>3, <1>5, <1>6, <2>1, <3>1
  <2>4. ASSUME op.kind = "boot", op.todo = <<"remove">>, op.at = "wait", op.reply = "ok"
        PROVE  op.peer \notin vps'[op.host].peers
    <3>1. op.peer \notin vps[op.host].peers  BY <1>1, <1>8, <2>4 DEF OpInv, PeerInv
    <3>2. m.cmd = "create" => op.peer # p  BY <1>5, <1>8 DEF Fresh
    <3> QED  BY <1>3, <1>5, <2>1, <3>1, <3>2
  <2>5. PeerInv'  BY <1>1, <1>6, <1>8, <2>3, <2>4 DEF OpInv, PeerInv, Holds
  <2> QED  BY <1>5, <1>6, <1>7, <2>1, <2>2, <2>5, MachinesMove DEF OpInv
<1>9. CASE op = Idle  BY <1>5, <1>6, <1>7, <1>9, MachinesMove
<1> QED  BY <1>8, <1>9

\* What is left of a command that nobody waits for takes no peer from a server.
LEMMA AbandonFacts ==
    ASSUME IInv, Abandon
    PROVE  /\ late' \in SUBSET Message
           /\ \A m \in late' : m.cmd = "remove" =>
                 \A h \in Hosts : Live(config, h) => m.peer # config[h].peer
<1>1. TypeOK /\ ServerInv  BY DEF IInv
<1>2. CASE late' = late  BY <1>1, <1>2 DEF TypeOK, ServerInv
<1>3. CASE At("wait") /\ late' = late \cup {Sent}
  <2>1. OpInv /\ op # Idle /\ op.at = "wait"  BY <1>3 DEF At, IInv, OpInv
  <2>2. op.key \in HostKeys /\ Head(op.todo) \in {"create", "remove", "set"}  BY <1>1, <2>1, Waiting
  <2>3. Sent \in Message /\ Sent.cmd = Head(op.todo) /\ Sent.peer = op.peer
    BY <1>1, <2>1, <2>2, OperationFields DEF Sent, Message
  <2>4. Head(op.todo) = "remove" => ~Holds(config, op.peer)
    BY <1>1, <2>1, Waiting, CallFacts DEF OpInv, PeerInv
  <2>5. late \in SUBSET Message  BY <1>1 DEF TypeOK
  <2> QED  BY <1>1, <1>3, <2>3, <2>4, <2>5 DEF ServerInv, Holds
<1> QED  BY <1>2, <1>3 DEF Abandon

\* The agent gives up.
LEMMA GiveUpStep == ASSUME IInv, GiveUp PROVE IInv'
<1>1. TypeOK /\ TrustInv /\ ServerInv  BY DEF IInv
<1>2. /\ config' = config /\ kept' = kept /\ degraded' = degraded /\ pins' = pins /\ vps' = vps
      /\ trusted' = trusted /\ dropped' = dropped /\ faults' = faults
  BY DEF GiveUp, local, history
<1>3. op' = Idle /\ result' \in Hows  BY CallFailsEnds DEF GiveUp
<1>4. /\ late' \in SUBSET Message
      /\ \A m \in late' : m.cmd = "remove" => \A h \in Hosts : Live(config, h) => m.peer # config[h].peer
  BY AbandonFacts DEF GiveUp
<1>5. TypeOK'  BY <1>1, <1>2, <1>3, <1>4 DEF TypeOK
<1>6. TrustInv'  BY <1>1, <1>2 DEF TrustInv, Durable
<1>7. ServerInv'  BY <1>1, <1>2, <1>4 DEF ServerInv, Live
<1> QED  BY <1>3, <1>5, <1>6, <1>7 DEF IInv

\* A reinstalled VPS has a key that nobody trusted yet.
LEMMA ReinstallStep == ASSUME IInv, NEW h \in Hosts, Reinstall(h) PROVE IInv'
<1>1. TypeOK /\ TrustInv /\ ServerInv /\ (op # Idle => OpInv)  BY DEF IInv, OpInv
<1>2. /\ config' = config /\ kept' = kept /\ degraded' = degraded /\ pins' = pins /\ late' = late
      /\ trusted' = trusted /\ dropped' = dropped /\ op' = op /\ result' = result
  BY DEF Reinstall, local, history
<1>3. PICK k \in HostKeys \ {vps[h].key, trusted[h], pins[h].seen, pins[h].kept} :
         vps' = [vps EXCEPT ![h] = [key |-> k, ready |-> FALSE, peers |-> {}, setting |-> 0]]
  BY DEF Reinstall
<1>4. /\ vps' \in [Hosts -> Machine] /\ vps'[h].key = k /\ vps'[h].peers = {} /\ k # trusted[h]
      /\ \A g \in Hosts \ {h} : vps'[g] = vps[g]
  BY <1>1, <1>3 DEF TypeOK, Machine
<1>5. faults' \in Nat  BY <1>1 DEF Reinstall, Fault, TypeOK
<1>6. TypeOK'  BY <1>1, <1>2, <1>4, <1>5 DEF TypeOK
<1>7. TrustInv'  BY <1>1, <1>2 DEF TrustInv, Durable
<1>8. ServerInv'  BY <1>1, <1>2, <1>4 DEF ServerInv, Live
<1>9. CASE op # Idle
  <2>1. op.host \in Hosts  BY <1>1, <1>9, OperationFields
  <2>2. ShapeInv' /\ BootInv'  BY <1>1, <1>2, <1>9 DEF OpInv, ShapeInv, BootInv
  <2>3. op.kind = "boot" /\ op.todo = <<"create">> => trusted[op.host] = op.key
    BY <1>1, <1>9, CallFacts DEF OpInv, BootInv, ShapeInv, Preparing, Before
  <2>4. PeerInv'  BY <1>1, <1>2, <1>4, <1>9, <2>1, <2>3 DEF OpInv, PeerInv, Holds
  <2> QED  BY <1>6, <1>7, <1>8, <2>2, <2>4 DEF IInv
<1>10. CASE op = Idle  BY <1>2, <1>6, <1>7, <1>8, <1>10 DEF IInv
<1> QED  BY <1>9, <1>10

-----------------------------------------------------------------------------
(* The steps that change the configuration.                                *)

\* What is asked of the new configuration `next' at a host it changes: trust
\* stays durable, the peer of the old server is given up, and a new one has
\* what a live server needs.
Replaceable(next, g) ==
    /\ trusted[g] # NoKey =>
         \/ pins'[g].seen = trusted[g] /\ pins'[g].kept = trusted[g]
         \/ next[g].managed = config[g].managed /\ next[g].key = config[g].key
    /\ ~config[g].managed \/ config[g].peer \in dropped' \cup {NoPeer}
    /\ next[g].managed /\ next[g].peer # NoPeer =>
         /\ next[g].key = trusted[g]
         /\ vps[g].key = next[g].key => next[g].peer \in vps[g].peers
         /\ \A m \in late : m.cmd = "remove" => m.peer # next[g].peer

\* An update of the configuration, whether it fails or not.
LEMMA ConfigMoves ==
    ASSUME IInv, UNCHANGED <<vps, late, trusted>>, Follows(pins'),
           NEW next \in [Hosts -> Server], dropped' \in SUBSET Peers, dropped \subseteq dropped',
           \/ config' = config /\ kept' = kept
           \/ config' = next /\ kept' \in {kept, next},
           config' = next => \A g \in Hosts : next[g] = config[g] \/ Replaceable(next, g)
    PROVE  TrustInv' /\ ServerInv'
<1>1. TypeOK /\ TrustInv /\ ServerInv  BY DEF IInv
<1>2. vps' = vps /\ late' = late /\ trusted' = trusted  OBVIOUS
<1>3. ASSUME NEW h \in Hosts, trusted[h] # NoKey PROVE Durable(h, trusted[h])'
  <2>1. Durable(h, trusted[h])  BY <1>1, <1>3 DEF TrustInv
  <2>2. CASE pins[h].seen = trusted[h] /\ pins[h].kept = trusted[h]
    BY <1>2, <1>3, <2>2 DEF Durable, Follows
  <2>3. CASE config[h].managed /\ config[h].key = trusted[h] /\ kept[h].managed /\ kept[h].key = trusted[h]
    BY <1>2, <1>3, <2>3 DEF Durable, Replaceable
  <2> QED  BY <2>1, <2>2, <2>3 DEF Durable
<1>4. ASSUME NEW h \in Hosts, NEW c, c[h].managed, c[h].peer \notin dropped' \cup {NoPeer} PROVE Live(c, h)
  BY <1>4 DEF Live
<1>5. ASSUME NEW h \in Hosts, kept'[h].managed, kept'[h].peer \notin dropped' \cup {NoPeer}
      PROVE  kept'[h] = config'[h]
  <2>1. CASE kept' = kept
    <3>1. kept[h] = config[h]  BY <1>1, <1>4, <1>5, <2>1 DEF ServerInv
    <3> QED  BY <1>5, <2>1, <3>1 DEF Replaceable
  <2>2. CASE kept' # kept  BY <2>2
  <2> QED  BY <2>1, <2>2
<1>6. ASSUME NEW h \in Hosts, config'[h].managed, config'[h].peer \notin dropped' \cup {NoPeer}
      PROVE  /\ config'[h].key = trusted[h]
             /\ vps[h].key = config'[h].key => config'[h].peer \in vps[h].peers
             /\ \A m \in late : m.cmd = "remove" => m.peer # config'[h].peer
  <2>1. CASE config'[h] = config[h]
    <3>1. Live(config, h)  BY <1>4, <1>6, <2>1
    <3> QED  BY <1>1, <2>1, <3>1 DEF ServerInv
  <2>2. CASE config'[h] # config[h]  BY <1>6, <2>2 DEF Replaceable
  <2> QED  BY <2>1, <2>2
<1> QED  BY <1>2, <1>3, <1>5, <1>6 DEF TrustInv, ServerInv, Live

\* update_config: which versions may result.
LEMMA SaveFacts ==
    ASSUME NEW next, NEW o \in SaveOutcomes(next), TypeOK
    PROVE  /\ \/ o.c = next /\ o.k = next
              \/ o.c = config /\ o.k = kept /\ ~o.ok
              \/ o.c = next /\ o.k = kept /\ ~o.ok
           /\ o.d \in BOOLEAN
<1>1. degraded \in BOOLEAN  BY DEF TypeOK
<1>2. CASE o = [c |-> next, k |-> next, d |-> FALSE, ok |-> TRUE]  BY <1>2
<1>3. CASE o = [c |-> config, k |-> kept, d |-> degraded, ok |-> FALSE]  BY <1>1, <1>3
<1>4. CASE o = [c |-> next, k |-> kept, d |-> TRUE, ok |-> FALSE]  BY <1>4
<1>5. CASE o = [c |-> next, k |-> next, d |-> TRUE, ok |-> FALSE]  BY <1>5
<1>6. CASE o = [c |-> config, k |-> kept, d |-> TRUE, ok |-> FALSE]  BY <1>6
<1> QED  BY <1>2, <1>3, <1>4, <1>5, <1>6 DEF SaveOutcomes

\* The operation under way does not notice changes of other servers.
LEMMA OperationStays ==
    ASSUME IInv, op # Idle, UNCHANGED <<vps, late, trusted, op>>, Follows(pins'),
           \A h \in Hosts : config'[h].managed => config[h].managed,
           \A h \in Hosts : config'[h].peer \in {config[h].peer, NoPeer}
    PROVE  OpInv'
<1>1. TypeOK /\ OpInv /\ op.host \in Hosts  BY OperationFields DEF IInv, OpInv
<1>2. ShapeInv'  BY <1>1 DEF OpInv, ShapeInv
<1>3. BootInv'
  <2>1. op.kind = "boot" /\ op.at = "connect" => op.key # NoKey  BY <1>1 DEF OpInv, ShapeInv
  <2> QED  BY <1>1, <2>1 DEF OpInv, BootInv, Follows
<1>4. op.kind = "boot" /\ op.todo = <<"remove">> => op.peer # NoPeer  BY <1>1 DEF OpInv, ShapeInv
<1>5. PeerInv'  BY <1>1, <1>4 DEF OpInv, PeerInv, Holds
<1> QED  BY <1>2, <1>3, <1>5 DEF OpInv

\* Nothing happens to the pins.
LEMMA SamePinsFollow == ASSUME TypeOK, pins' = pins PROVE Follows(pins')
BY DEF TypeOK, Follows

\* add_server
LEMMA SaveServerStep == ASSUME IInv, SaveServer PROVE IInv'
<1>1. TypeOK /\ OpInv /\ op # Idle /\ op.at = "save" /\ op.host \in Hosts
  BY OperationFields DEF SaveServer, At, IInv, OpInv
<1>2. /\ op.kind = "boot" /\ op.todo = <<"create">> /\ ~config[op.host].managed /\ trusted[op.host] = op.key
      /\ op.peer # NoPeer /\ op.reply = "ok"
      /\ vps[op.host].key = op.key => op.peer \in vps[op.host].peers
      /\ \A m \in late : m.cmd = "remove" => m.peer # op.peer
  BY <1>1, OperationFields, CallFacts DEF OpInv, ShapeInv, BootInv, PeerInv, Preparing, Before
<1>3. /\ pins' = pins /\ vps' = vps /\ late' = late /\ trusted' = trusted /\ dropped' = dropped
  BY DEF SaveServer, history
<1>4. ASSUME op' = [op EXCEPT !.at = "check"]
      PROVE  op' \in Operation /\ OpInv'
  <2>1. /\ op' \in Operation /\ op'.kind = op.kind /\ op'.host = op.host /\ op'.peer = op.peer
        /\ op'.todo = op.todo /\ op'.done = op.done /\ op'.reply = op.reply /\ op'.at = "check"
        /\ op'.key = op.key
    BY <1>1, <1>4, OperationFields DEF Operation
  <2>2. ShapeInv'  BY <1>1, <1>2, <2>1, CallFacts DEF OpInv, ShapeInv
  <2>3. BootInv' /\ PeerInv'
    BY <1>1, <1>2, <1>3, <2>1, CallFacts DEF OpInv, BootInv, PeerInv, Before
  <2> QED  BY <2>1, <2>2, <2>3 DEF OpInv
<1>5. CASE op' = [op EXCEPT !.at = "check"] /\ UNCHANGED <<local, result, faults>>
  BY <1>3, <1>4, <1>5, OperationMoves DEF history
<1> DEFINE new == [known |-> TRUE, managed |-> TRUE, key |-> op.key, peer |-> op.peer]
           next == [config EXCEPT ![op.host] = new]
<1>6. CASE UpdateConfig(next, \E how \in {"ok", "committed"} : End(how),
                        op' = [op EXCEPT !.at = "check"] /\ UNCHANGED result)
  <2>1. PICK o \in SaveOutcomes(next) :
          /\ config' = o.c /\ kept' = o.k /\ degraded' = o.d
          /\ IF o.ok THEN (\E how \in {"ok", "committed"} : End(how)) /\ UNCHANGED faults
                     ELSE Fault /\ op' = [op EXCEPT !.at = "check"] /\ UNCHANGED result
    BY <1>6 DEF UpdateConfig
  <2>2. new \in Server /\ new.managed = TRUE /\ new.key = op.key /\ new.peer = op.peer
    BY <1>1, OperationFields DEF Server
  <2> HIDE DEF new
  <2>3. next \in [Hosts -> Server] /\ next[op.host] = new /\ \A g \in Hosts \ {op.host} : next[g] = config[g]
    BY <1>1, <2>2 DEF TypeOK
  <2> HIDE DEF next
  <2>4. Follows(pins')  BY <1>1, <1>3, SamePinsFollow
  <2>5. /\ \/ config' = config /\ kept' = kept
           \/ config' = next /\ kept' \in {kept, next}
        /\ degraded' \in BOOLEAN
    BY <1>1, <2>1, SaveFacts
  <2>6. Replaceable(next, op.host)
    <3>1. trusted[op.host] # NoKey => pins[op.host].seen = trusted[op.host] /\ pins[op.host].kept = trusted[op.host]
      BY <1>1, <1>2 DEF IInv, TrustInv, Durable
    <3> QED  BY <1>2, <1>3, <2>2, <2>3, <3>1 DEF Replaceable
  <2>7. TrustInv' /\ ServerInv'
    <3>1. dropped' \in SUBSET Peers /\ dropped \subseteq dropped'  BY <1>1, <1>3 DEF TypeOK
    <3>2. \A g \in Hosts : next[g] = config[g] \/ Replaceable(next, g)  BY <2>3, <2>6
    <3> QED  BY <1>3, <2>3, <2>4, <2>5, <3>1, <3>2, ConfigMoves
  <2>8. (op' = Idle \/ (op' \in Operation /\ OpInv')) /\ result' \in Hows /\ faults' \in Nat
    BY <1>1, <1>4, <2>1 DEF End, Hows, Fault, TypeOK
  <2>9. TypeOK'  BY <1>1, <1>3, <2>3, <2>5, <2>8 DEF TypeOK
  <2> QED  BY <2>7, <2>8, <2>9 DEF IInv, OpInv
<1> QED  BY <1>5, <1>6 DEF SaveServer

\* import_server
LEMMA ImportServerStep == ASSUME IInv, NEW h \in Hosts, ImportServer(h) PROVE IInv'
<1> DEFINE next == [config EXCEPT ![h].known = TRUE, ![h].peer = NoPeer]
<1>1. TypeOK  BY DEF IInv
<1>2. PICK o \in SaveOutcomes(next) :
          config' = o.c /\ kept' = o.k /\ degraded' = o.d /\ (UNCHANGED faults \/ Fault)
  BY DEF ImportServer, UpdateConfig
<1>3. /\ next \in [Hosts -> Server] /\ \A g \in Hosts \ {h} : next[g] = config[g]
      /\ next[h].managed = config[h].managed /\ next[h].key = config[h].key /\ next[h].peer = NoPeer
  BY <1>1 DEF TypeOK, Server
<1> HIDE DEF next
<1>4. /\ pins' = pins /\ vps' = vps /\ late' = late /\ op' = op /\ result' = result /\ trusted' = trusted
      /\ dropped' = dropped \cup ({config[h].peer} \ {NoPeer, config'[h].peer})
  BY DEF ImportServer
<1>5. /\ \/ config' = config /\ kept' = kept
         \/ config' = next /\ kept' \in {kept, next}
      /\ degraded' \in BOOLEAN
  BY <1>1, <1>2, SaveFacts
<1>6. dropped' \in SUBSET Peers /\ dropped \subseteq dropped'  BY <1>1, <1>4 DEF TypeOK, Server
<1>7. Follows(pins')  BY <1>1, <1>4, SamePinsFollow
<1>8. config' = next => \A g \in Hosts : next[g] = config[g] \/ Replaceable(next, g)
  BY <1>3, <1>4 DEF Replaceable
<1>9. TrustInv' /\ ServerInv'  BY <1>3, <1>4, <1>5, <1>6, <1>7, <1>8, ConfigMoves
<1>10. TypeOK'  BY <1>1, <1>2, <1>3, <1>4, <1>5, <1>6 DEF TypeOK, Fault
<1>11. /\ \A g \in Hosts : config'[g].managed => config[g].managed
       /\ \A g \in Hosts : config'[g].peer \in {config[g].peer, NoPeer}
  BY <1>3, <1>5
<1>12. op # Idle => OpInv'  BY <1>4, <1>7, <1>11, OperationStays
<1> QED  BY <1>4, <1>9, <1>10, <1>12 DEF IInv, OpInv

\* delete_server
LEMMA DeleteServerStep == ASSUME IInv, NEW h \in Hosts, DeleteServer(h) PROVE IInv'
<1> DEFINE next == [config EXCEPT ![h] = NoServer]
<1>1. TypeOK /\ TrustInv  BY DEF IInv
<1>2. PICK out \in Preserve :
         IF out.ok
         THEN /\ pins' = out.pins
              /\ UpdateConfig(next, TRUE, TRUE)
              /\ dropped' = dropped \cup ({config[h].peer} \ {NoPeer, config'[h].peer})
         ELSE Preserving(out) /\ UNCHANGED <<local, dropped>>
  BY DEF DeleteServer
<1>3. vps' = vps /\ late' = late /\ op' = op /\ result' = result /\ trusted' = trusted
  BY DEF DeleteServer
<1>4. Follows(pins')  BY <1>1, <1>2, PreserveFacts DEF Preserving
<1>5. CASE Preserving(out) /\ UNCHANGED <<local, dropped>>
  <2>1. config' = config /\ dropped' = dropped  BY <1>5 DEF local
  <2>2. op # Idle => OpInv'  BY <1>3, <1>4, <2>1, OperationStays
  <2>3. op' = Idle \/ (op' \in Operation /\ OpInv')  BY <1>1, <1>3, <2>2 DEF TypeOK
  <2>4. (faults' = faults \/ Fault) /\ result' = result /\ UNCHANGED <<local, vps, late, history>>
    BY <1>3, <1>5, <2>1 DEF Preserving, history
  <2> QED  BY <1>4, <2>3, <2>4, PinsMove
<1>6. CASE out.ok /\ pins' = out.pins /\ UpdateConfig(next, TRUE, TRUE)
           /\ dropped' = dropped \cup ({config[h].peer} \ {NoPeer, config'[h].peer})
  <2>1. PICK o \in SaveOutcomes(next) :
          config' = o.c /\ kept' = o.k /\ degraded' = o.d /\ (UNCHANGED faults \/ Fault)
    BY <1>6 DEF UpdateConfig
  <2>2. NoServer \in Server /\ ~NoServer.managed /\ NoServer.peer = NoPeer
    BY DEF NoServer, Server, Keys
  <2>3. next \in [Hosts -> Server] /\ next[h] = NoServer /\ \A g \in Hosts \ {h} : next[g] = config[g]
    BY <1>1, <2>2 DEF TypeOK
  <2> HIDE DEF next
  <2>4. /\ \/ config' = config /\ kept' = kept
           \/ config' = next /\ kept' \in {kept, next}
        /\ degraded' \in BOOLEAN
    BY <1>1, <2>1, SaveFacts
  <2>5. dropped' \in SUBSET Peers /\ dropped \subseteq dropped'  BY <1>1, <1>6 DEF TypeOK, Server
  <2>6. trusted[h] # NoKey => pins'[h].seen = trusted[h] /\ pins'[h].kept = trusted[h]
    <3>1. config[h].managed => pins'[h].seen = config[h].key /\ pins'[h].kept = config[h].key
      BY <1>1, <1>6, PreserveFacts
    <3>2. trusted[h] # NoKey => Durable(h, trusted[h])  BY <1>1 DEF TrustInv
    <3> QED  BY <1>4, <3>1, <3>2 DEF Durable, Follows
  <2>7. config' = next => \A g \in Hosts : next[g] = config[g] \/ Replaceable(next, g)
    BY <1>6, <2>2, <2>3, <2>6 DEF Replaceable
  <2>8. TrustInv' /\ ServerInv'  BY <1>3, <1>4, <2>3, <2>4, <2>5, <2>7, ConfigMoves
  <2>9. TypeOK'  BY <1>1, <1>3, <1>4, <2>1, <2>3, <2>4, <2>5 DEF TypeOK, Fault, Follows
  <2>10. /\ \A g \in Hosts : config'[g].managed => config[g].managed
         /\ \A g \in Hosts : config'[g].peer \in {config[g].peer, NoPeer}
    BY <2>2, <2>3, <2>4
  <2>11. op # Idle => OpInv'  BY <1>3, <1>4, <2>10, OperationStays
  <2> QED  BY <1>3, <2>8, <2>9, <2>11 DEF IInv, OpInv
<1> QED  BY <1>2, <1>5, <1>6

\* The stored version becomes the one in memory, or the other way round.
LEMMA VersionsMeet ==
    ASSUME IInv, UNCHANGED <<vps, trusted, dropped>>, Follows(pins'),
           \/ config' = config /\ kept' \in {kept, config}
           \/ config' \in {config, kept} /\ kept' = config',
           \A m \in late' : m.cmd = "remove" =>
               \A h \in Hosts : Live(config, h) => m.peer # config[h].peer
    PROVE  TrustInv' /\ ServerInv'
<1>1. TrustInv /\ ServerInv  BY DEF IInv
<1>2. vps' = vps /\ trusted' = trusted /\ dropped' = dropped  OBVIOUS
<1>3. TrustInv'  BY <1>1, <1>2 DEF TrustInv, Durable, Follows
<1>4. \A h \in Hosts : Live(kept, h) => Live(config, h) /\ kept[h] = config[h]  BY <1>1 DEF ServerInv, Live
<1>5. ServerInv'  BY <1>1, <1>2, <1>4 DEF ServerInv, Live
<1> QED  BY <1>3, <1>5

\* reconcile_locked retries the sync.
LEMMA ReconcileStep == ASSUME IInv, Reconcile PROVE IInv'
<1>1. TypeOK /\ ServerInv  BY DEF IInv
<1>2. /\ config' = config /\ pins' = pins /\ vps' = vps /\ late' = late /\ op' = op /\ result' = result
      /\ trusted' = trusted /\ dropped' = dropped /\ kept' \in {kept, config}
      /\ degraded' \in {degraded, FALSE} /\ faults' \in {faults, faults + 1}
  BY DEF Reconcile, history, Fault
<1>3. Follows(pins')  BY <1>1, <1>2, SamePinsFollow
<1>4. \A m \in late' : m.cmd = "remove" => \A h \in Hosts : Live(config, h) => m.peer # config[h].peer
  BY <1>1, <1>2 DEF ServerInv
<1>5. TrustInv' /\ ServerInv'  BY <1>2, <1>3, <1>4, VersionsMeet
<1>6. faults' \in Nat  BY <1>1, <1>2 DEF TypeOK
<1>7. degraded' \in BOOLEAN
  <2>1. CASE degraded' = degraded  BY <1>1, <2>1 DEF TypeOK
  <2>2. CASE degraded' = FALSE  BY <2>2
  <2> QED  BY <1>2, <2>1, <2>2
<1>8. TypeOK'  BY <1>1, <1>2, <1>6, <1>7 DEF TypeOK
<1>9. op # Idle => OpInv'  BY <1>2, <1>3, OperationStays
<1> QED  BY <1>2, <1>5, <1>8, <1>9 DEF IInv, OpInv

\* reset_host_pin: only for a host without a server, which no live server is.
LEMMA ResetHostPinStep == ASSUME IInv, NEW h \in Hosts, ResetHostPin(h) PROVE IInv'
<1>1. TypeOK /\ TrustInv /\ ServerInv  BY DEF IInv
<1>2. PICK out \in Preserve :
         IF out.ok /\ ~config[h].managed /\ out.pins[h].seen # NoKey /\ ~out.pins[h].alias
         THEN \/ /\ pins' = [out.pins EXCEPT ![h].seen = NoKey, ![h].kept = NoKey]
                 /\ trusted' = [trusted EXCEPT ![h] = NoKey] /\ End("ok") /\ UNCHANGED faults
              \/ /\ Fault /\ pins' = out.pins /\ End("failed") /\ UNCHANGED trusted
              \/ /\ Fault /\ pins' = [out.pins EXCEPT ![h].seen = NoKey]
                 /\ trusted' = [trusted EXCEPT ![h] = NoKey] /\ End("failed")
         ELSE /\ Preserving(out) /\ UNCHANGED trusted
              /\ End(IF ~out.ok \/ config[h].managed THEN "failed"
                     ELSE IF out.pins[h].seen = NoKey THEN "ok" ELSE "unsafe")
  BY DEF ResetHostPin
<1>3. /\ config' = config /\ kept' = kept /\ degraded' = degraded /\ vps' = vps /\ late' = late
      /\ dropped' = dropped /\ UNCHANGED local
  BY DEF ResetHostPin, local
<1>4. Follows(out.pins)  BY <1>1, PreserveFacts
<1>5. op' = Idle /\ result' \in Hows /\ (faults' = faults \/ Fault)
  BY <1>2 DEF End, Hows, Preserving
<1>6. CASE pins' = out.pins /\ UNCHANGED trusted
  BY <1>3, <1>4, <1>5, <1>6, PinsMove DEF history
<1>7. CASE /\ ~config[h].managed /\ trusted' = [trusted EXCEPT ![h] = NoKey]
           /\ \/ pins' = [out.pins EXCEPT ![h].seen = NoKey, ![h].kept = NoKey]
              \/ pins' = [out.pins EXCEPT ![h].seen = NoKey]
  <2>1. /\ trusted' \in [Hosts -> Keys] /\ trusted'[h] = NoKey
        /\ \A g \in Hosts \ {h} : trusted'[g] = trusted[g]
    BY <1>1, <1>7 DEF TypeOK, Keys
  <2>2. pins' \in [Hosts -> Pin] /\ \A g \in Hosts \ {h} : pins'[g] = out.pins[g]
    BY <1>4, <1>7 DEF Follows, Pin, Keys
  <2>3. faults' \in Nat  BY <1>1, <1>5 DEF TypeOK, Fault
  <2>4. TypeOK'  BY <1>1, <1>3, <1>5, <2>1, <2>2, <2>3 DEF TypeOK
  <2>5. TrustInv'  BY <1>1, <1>3, <1>4, <2>1, <2>2 DEF TrustInv, Durable, Follows
  <2>6. ServerInv'
    <3>1. \A g \in Hosts : Live(config, g) => g # h  BY <1>7 DEF Live
    <3> QED  BY <1>1, <1>3, <2>1, <3>1 DEF ServerInv, Live
  <2> QED  BY <1>5, <2>4, <2>5, <2>6 DEF IInv
<1> QED  BY <1>2, <1>6, <1>7 DEF Preserving

\* The agent restarts.
LEMMA RestartStep == ASSUME IInv, Restart PROVE IInv'
<1>1. TypeOK /\ ServerInv  BY DEF IInv
<1>2. /\ config' = config /\ kept' = config /\ degraded' = TRUE /\ pins' = pins /\ vps' = vps
      /\ op' = Idle /\ result' = "none" /\ trusted' = trusted /\ dropped' = dropped /\ faults' \in Nat
  BY <1>1 DEF Restart, history, TypeOK, Fault
<1>3. Follows(pins')  BY <1>1, <1>2, SamePinsFollow
<1>4. /\ late' \in SUBSET Message
      /\ \A m \in late' : m.cmd = "remove" => \A h \in Hosts : Live(config, h) => m.peer # config[h].peer
  BY AbandonFacts DEF Restart
<1>5. TrustInv' /\ ServerInv'  BY <1>2, <1>3, <1>4, VersionsMeet
<1>6. TypeOK'  BY <1>1, <1>2, <1>4 DEF TypeOK, Hows
<1> QED  BY <1>2, <1>5, <1>6 DEF IInv

\* The router loses power: a durable pin survives.
LEMMA PowerLossStep == ASSUME IInv, PowerLoss PROVE IInv'
<1>1. TypeOK /\ ServerInv  BY DEF IInv
<1>2. /\ config' \in {config, kept} /\ kept' = config' /\ degraded' = TRUE /\ vps' = vps
      /\ op' = Idle /\ result' = "none" /\ trusted' = trusted /\ dropped' = dropped /\ faults' \in Nat
  BY <1>1 DEF PowerLoss, history, TypeOK, Fault
<1>3. PICK f \in [Hosts -> Keys] :
         /\ \A h \in Hosts : f[h] \in IF pins[h].seen = pins[h].kept THEN {pins[h].seen}
                                      ELSE {pins[h].seen, pins[h].kept, NoKey}
         /\ pins' = [h \in Hosts |-> [seen |-> f[h], kept |-> f[h],
                                      alias |-> pins[h].alias /\ f[h] = pins[h].seen]]
  BY DEF PowerLoss
<1>4. Follows(pins')
  <2>1. \A h \in Hosts : (pins[h].alias /\ f[h] = pins[h].seen) \in BOOLEAN  OBVIOUS
  <2>2. \A h \in Hosts : pins'[h] \in Pin /\ pins'[h].seen = f[h] /\ pins'[h].kept = f[h]
    BY <1>3, <2>1 DEF Pin
  <2>3. pins' = [h \in Hosts |-> pins'[h]]  BY <1>3
  <2>4. pins' \in [Hosts -> Pin]  BY <2>2, <2>3
  <2> QED  BY <1>3, <2>2, <2>4 DEF Follows
<1>5. /\ late' \in SUBSET Message
      /\ \A m \in late' : m.cmd = "remove" => \A h \in Hosts : Live(config, h) => m.peer # config[h].peer
  BY AbandonFacts DEF PowerLoss
<1>6. TrustInv' /\ ServerInv'  BY <1>2, <1>4, <1>5, VersionsMeet
<1>7. TypeOK'  BY <1>1, <1>2, <1>4, <1>5 DEF TypeOK, Hows, Follows
<1> QED  BY <1>2, <1>6, <1>7 DEF IInv

-----------------------------------------------------------------------------
(* The theorems.                                                           *)

\* A fresh router, or one that an older release has set up.
LEMMA InitInv == ASSUME Init PROVE IInv
<1>1. PICK old \in SUBSET Legacy, k \in HostKeys, p \in [Hosts -> Peers] :
         /\ \A g, h \in old : g # h => p[g] # p[h]
         /\ config = [h \in Hosts |->
                IF h \in old THEN [known |-> TRUE, managed |-> TRUE, key |-> k, peer |-> p[h]]
                             ELSE NoServer]
         /\ vps = [h \in Hosts |-> [key |-> k, ready |-> h \in old,
                      peers |-> IF h \in old THEN {p[h]} ELSE {}, setting |-> 0]]
         /\ trusted = [h \in Hosts |-> IF h \in old THEN k ELSE NoKey]
  BY DEF Init
<1>2. /\ kept = config /\ degraded = FALSE /\ late = {} /\ op = Idle /\ result = "none"
      /\ dropped = {} /\ faults = 0
      /\ pins = [h \in Hosts |-> [seen |-> NoKey, kept |-> NoKey, alias |-> FALSE]]
  BY DEF Init
<1>3. NoServer \in Server /\ NoServer.managed = FALSE  BY DEF NoServer, Server, Keys
<1>4. ASSUME NEW h \in Hosts
      PROVE  /\ config[h] \in Server /\ vps[h] \in Machine /\ trusted[h] \in Keys
             /\ h \in old => /\ config[h].managed /\ config[h].key = k /\ trusted[h] = k
                             /\ config[h].peer \in vps[h].peers
             /\ h \notin old => ~config[h].managed /\ trusted[h] = NoKey
  <2>1. CASE h \in old
    <3>1. config[h] = [known |-> TRUE, managed |-> TRUE, key |-> k, peer |-> p[h]]  BY <1>1, <2>1
    <3>2. vps[h] = [key |-> k, ready |-> h \in old, peers |-> {p[h]}, setting |-> 0] /\ trusted[h] = k
      BY <1>1, <2>1
    <3> QED  BY <2>1, <3>1, <3>2 DEF Server, Machine, Keys
  <2>2. CASE h \notin old
    <3>1. config[h] = NoServer /\ trusted[h] = NoKey  BY <1>1, <2>2
    <3>2. vps[h] = [key |-> k, ready |-> h \in old, peers |-> {}, setting |-> 0]  BY <1>1, <2>2
    <3> QED  BY <1>3, <2>2, <3>1, <3>2 DEF Machine, Keys
  <2> QED  BY <2>1, <2>2
<1>5. config \in [Hosts -> Server] /\ vps \in [Hosts -> Machine] /\ trusted \in [Hosts -> Keys]
  <2>1. config = [h \in Hosts |-> config[h]] /\ vps = [h \in Hosts |-> vps[h]] /\ trusted = [h \in Hosts |-> trusted[h]]
    BY <1>1
  <2> QED  BY <1>4, <2>1
<1>6. TypeOK  BY <1>2, <1>5 DEF TypeOK, Hows, Pin, Keys
<1>7. TrustInv  BY <1>2, <1>4 DEF TrustInv, Durable
<1>8. ServerInv  BY <1>2, <1>4 DEF ServerInv, Live
<1> QED  BY <1>2, <1>6, <1>7, <1>8 DEF IInv

\* Nothing happens.
LEMMA StutterInv == ASSUME IInv, UNCHANGED vars PROVE IInv'
<1>1. /\ config' = config /\ kept' = kept /\ degraded' = degraded /\ pins' = pins /\ vps' = vps /\ late' = late
      /\ op' = op /\ result' = result /\ trusted' = trusted /\ dropped' = dropped /\ faults' = faults
  BY DEF vars, local, history
<1>2. TypeOK' /\ TrustInv' /\ ServerInv'  BY <1>1 DEF IInv, TypeOK, TrustInv, Durable, ServerInv, Live
<1>3. op # Idle => ShapeInv' /\ BootInv' /\ PeerInv'
  BY <1>1 DEF IInv, ShapeInv, BootInv, PeerInv, Holds
<1> QED  BY <1>1, <1>2, <1>3 DEF IInv

\* Every step keeps the invariant.
LEMMA NextInv == ASSUME IInv, [Next]_vars PROVE IInv'
<1>1. CASE Step
  BY <1>1, ProbeHostStep, PinHostStep, SendPasswordStep, ScriptEndsStep, CapabilitiesStep, LookUpStep,
     AskStatusStep, SendCommandStep, ReadAnswerStep, GiveUpStep, SaveServerStep, CheckEnrollmentStep DEF Step
<1>2. ASSUME NEW h \in Hosts,
             \/ StartBootstrap(h) \/ StartCommand(h) \/ ResetHostPin(h)
             \/ ImportServer(h) \/ DeleteServer(h) \/ Reinstall(h)
      PROVE  IInv'
  BY <1>2, StartBootstrapStep, StartCommandStep, ResetHostPinStep, ImportServerStep, DeleteServerStep,
     ReinstallStep
<1>3. CASE CommandRuns \/ CommandRefused \/ Reconcile \/ Restart \/ PowerLoss
  BY <1>3, CommandRunsStep, CommandRefusedStep, ReconcileStep, RestartStep, PowerLossStep
<1>4. ASSUME NEW n \in 1 .. 3, Marker(n) PROVE IInv'  BY <1>4, MarkerStep
<1>5. ASSUME NEW m \in late, LateCommand(m) PROVE IInv'  BY <1>5, LateCommandStep
<1> QED  BY <1>1, <1>2, <1>3, <1>4, <1>5, StutterInv DEF Next

\* The inductive invariant holds in every state of Managed.
THEOREM ManagedInvariant == Spec => []IInv
<1>1. IInv /\ [Next]_vars => IInv'  BY NextInv
<1> QED  BY <1>1, InitInv, PTL DEF Spec

\* No crash or loss of power makes the router forget the key of a host that it
\* gave the password (pin_host before password_ssh, preserve_host_pins before
\* delete_server).
THEOREM Trust == Spec => []TrustIsDurable
<1>1. IInv => TrustIsDurable  BY DEF IInv, TrustInv, Durable, TrustIsDurable
<1> QED  BY <1>1, ManagedInvariant, PTL

\* No rollback, late command or restart revokes the peer of a server that the
\* router has saved (rollback_enrollment).
THEOREM Access == Spec => []EnrolledKeepsAccess
<1>1. ASSUME IInv PROVE EnrolledKeepsAccess
  <2>1. ASSUME NEW h \in Hosts, NEW c \in {config, kept}, c[h].managed,
               c[h].peer \notin dropped \cup {NoPeer}, c[h].key = vps[h].key
        PROVE  /\ c[h].peer \in vps[h].peers
               /\ \A m \in late : m.cmd = "remove" => m.peer # c[h].peer
    <3>1. c[h] = config[h]  BY <1>1, <2>1 DEF IInv, ServerInv, Live
    <3>2. Live(config, h)  BY <2>1, <3>1 DEF Live
    <3> QED  BY <1>1, <2>1, <3>1, <3>2 DEF IInv, ServerInv
  <2> QED  BY <2>1 DEF EnrolledKeepsAccess
<1> QED  BY <1>1, ManagedInvariant, PTL

\* The password goes to a second key only after a reset of the pin.
LEMMA KeyStays ==
    ASSUME IInv, [Next]_vars, NEW h \in Hosts, trusted[h] # NoKey
    PROVE  trusted'[h] \in {trusted[h], NoKey}
<1>1. TypeOK /\ TrustInv  BY DEF IInv
<1>2. CASE SendPassword
  <2>1. OpInv /\ op # Idle /\ op.at = "connect"  BY <1>2 DEF SendPassword, At, IInv, OpInv
  <2>2. op.kind = "boot" /\ op.todo = <<>> /\ op.host \in Hosts
    BY <1>1, <2>1, OperationFields DEF OpInv, ShapeInv
  <2>3. pins[op.host].seen = op.key /\ ~config[op.host].managed
    BY <2>1, <2>2, CallFacts DEF OpInv, BootInv
  <2>4. h = op.host => trusted[h] = op.key  BY <1>1, <2>3 DEF TrustInv, Durable
  <2> QED  BY <1>1, <1>2, <2>2, <2>4 DEF SendPassword, TypeOK
<1>3. CASE \E g \in Hosts : ResetHostPin(g)
  BY <1>1, <1>3 DEF ResetHostPin, TypeOK
<1>4. CASE UNCHANGED trusted  BY <1>4
<1>5. SendPassword \/ (\E g \in Hosts : ResetHostPin(g)) \/ UNCHANGED trusted
  BY DEF Next, Step, StartBootstrap, StartCommand, ImportServer, DeleteServer, Reinstall, ProbeHost, PinHost,
         ScriptEnds, Capabilities, LookUp, AskStatus, SendCommand, ReadAnswer, GiveUp, SaveServer,
         CheckEnrollment, Marker, CommandRuns, CommandRefused, LateCommand, Reconcile, Restart, PowerLoss,
         history, vars
<1> QED  BY <1>2, <1>3, <1>4, <1>5

\* The root password of a host is given to one key, whatever is deleted, added
\* again, interrupted or lost (pin_host never replaces a key).
THEOREM FirstKey == Spec => FirstKeyStays
<1> DEFINE Stays == \A h \in Hosts : trusted[h] # NoKey => trusted'[h] \in {trusted[h], NoKey}
<1>1. IInv /\ [Next]_vars => Stays  BY KeyStays
<1>2. FirstKeyStays <=> [][Stays]_vars  BY DEF FirstKeyStays
<1> HIDE DEF Stays
<1> QED  BY <1>1, <1>2, ManagedInvariant, PTL DEF Spec

-----------------------------------------------------------------------------
(* The answers.                                                            *)

\* What the end of an enrolment, and of a write, may report.
BootAnswer ==
    /\ result' \in {"ok", "committed"} =>
         /\ vps'[op.host].key = op.key => op.peer \in vps'[op.host].peers
         /\ Holds(config', op.peer) /\ Holds(kept', op.peer)
    /\ (result' = "failed" /\ op.peer # NoPeer) =>
         op.peer \notin vps'[op.host].peers /\ ~Holds(config', op.peer)
WriteAnswer ==
    /\ (result' \in {"ok", "committed"} /\ (op.done \/ Head(op.todo) = "set")) => op.ran
    /\ op.done => result' \in {"ok", "committed", "none"}
Answer == (op.kind = "boot" => BootAnswer) /\ (op.kind = "write" => WriteAnswer)

\* Before anything is created a failure is plain.
LEMMA PreparingAnswers ==
    ASSUME IInv, op # Idle, op' = Idle,
           ProbeHost \/ PinHost \/ SendPassword \/ ScriptEnds \/ Capabilities
    PROVE  Answer
<1>1. TypeOK /\ OpInv /\ op.at \in Preparing
  BY DEF IInv, OpInv, ProbeHost, PinHost, SendPassword, ScriptEnds, Capabilities, At, Preparing, Before
<1>2. op.kind = "boot" /\ op.peer = NoPeer
  BY <1>1, OperationFields, CallFacts DEF OpInv, ShapeInv, Preparing, Before
<1>3. \A s \in {"pin", "connect", "script", "capabilities", "call"} :
        \A o : o.at = s => o # Idle
  BY DEF Idle
<1>4. result' = "failed"
  <2>1. CASE ProbeHost
    <3>1. [op EXCEPT !.key = vps[op.host].key, !.at = "pin"].at = "pin"  BY <1>1, OperationFields DEF Operation
    <3> QED  BY <1>3, <2>1, <3>1 DEF ProbeHost, End
  <2>2. CASE PinHost
    <3>1. [op EXCEPT !.at = "connect", !.stage = 2].at = "connect"  BY <1>1, OperationFields DEF Operation
    <3> QED  BY <1>3, <2>2, <3>1 DEF PinHost, End
  <2>3. CASE SendPassword
    <3>1. [op EXCEPT !.at = "script"].at = "script"  BY <1>1, OperationFields DEF Operation
    <3> QED  BY <1>3, <2>3, <3>1 DEF SendPassword, End
  <2>4. CASE ScriptEnds
    <3>1. [op EXCEPT !.at = "capabilities"].at = "capabilities"  BY <1>1, OperationFields DEF Operation
    <3> QED  BY <1>3, <2>4, <3>1 DEF ScriptEnds, ScriptFails, End
  <2>5. CASE Capabilities
    <3>1. [op EXCEPT !.at = "call", !.stage = 6, !.todo = <<"create">>].at = "call"
      BY <1>1, OperationFields DEF Operation
    <3> QED  BY <1>3, <2>5, <3>1 DEF Capabilities, Reads, End
  <2> QED  BY <2>1, <2>2, <2>3, <2>4, <2>5
<1> QED  BY <1>2, <1>4 DEF Answer, BootAnswer

\* A call of a write that fails.
LEMMA FailedCallAnswers ==
    ASSUME IInv, op # Idle, op.kind = "write", NEW answered \in BOOLEAN, CallFails(answered)
    PROVE  Answer
<1>1. TypeOK /\ OpInv  BY DEF IInv, OpInv
<1>2. op.done => op.ran  BY <1>1 DEF OpInv, ShapeInv
<1>3. op.done => result' = "committed"  BY DEF CallFails, End
<1>4. ~op.done => result' \in {"stuck", "failed", "unknown"}  BY DEF CallFails, End
<1> QED  BY <1>2, <1>3, <1>4 DEF Answer, WriteAnswer

\* A call of a write that succeeds and was the last.
LEMMA LastCallAnswers ==
    ASSUME IInv, op # Idle, op.kind = "write", CallReturns, op' = Idle, Head(op.todo) = "set" => op.ran
    PROVE  Answer
<1>1. TypeOK /\ OpInv  BY DEF IInv, OpInv
<1>2. op.done => op.ran  BY <1>1 DEF OpInv, ShapeInv
<1>3. result' = "ok"
  <2>1. [op EXCEPT !.todo = Tail(op.todo), !.at = "call", !.key = NoKey,
                   !.reply = "none", !.done = op.done \/ Head(op.todo) = "set"].at = "call"
    BY <1>1, OperationFields DEF Operation
  <2> QED  BY <2>1 DEF CallReturns, End, Idle
<1> QED  BY <1>2, <1>3 DEF Answer, WriteAnswer

\* The remote calls.
LEMMA CallAnswers ==
    ASSUME IInv, op # Idle, op' = Idle, LookUp \/ AskStatus \/ ReadAnswer \/ GiveUp
    PROVE  Answer
<1>1. TypeOK /\ OpInv  BY DEF IInv, OpInv
<1>2. CASE LookUp
  <2>1. op.key = NoKey /\ op.at = "call"  BY <1>2 DEF LookUp, At
  <2>2. op.kind = "write"  BY <1>1, <2>1, OperationFields DEF OpInv, ShapeInv
  <2>3. [op EXCEPT !.key = config[op.host].key].at = "call"  BY <1>1, <2>1, OperationFields DEF Operation
  <2>4. CallFails(TRUE)  BY <1>2, <2>3 DEF LookUp, Idle
  <2> QED  BY <2>2, <2>4, FailedCallAnswers
<1>3. CASE AskStatus
  <2>1. op.at = "call" /\ Head(op.todo) = "status"  BY <1>3 DEF AskStatus, At
  <2>2. op.kind = "write"
    BY <1>1, <2>1, OperationFields, CallFacts DEF OpInv, ShapeInv, Preparing, Before
  <2>3. CallReturns \/ CallFails(TRUE)  BY <1>3 DEF AskStatus, Reads
  <2> QED  BY <2>1, <2>2, <2>3, FailedCallAnswers, LastCallAnswers
<1>4. CASE GiveUp
  <2>1. op.at = "wait" /\ CallFails(FALSE)  BY <1>4 DEF GiveUp, At
  <2>2. CASE op.kind = "write"  BY <2>1, <2>2, FailedCallAnswers
  <2>3. CASE op.kind = "boot"
    <3>1. ~op.done  BY <1>1, <2>3 DEF OpInv, ShapeInv
    <3>2. result' \in {"stuck", "unknown"}  BY <2>1, <3>1 DEF CallFails, End
    <3> QED  BY <2>3, <3>2 DEF Answer, BootAnswer
  <2> QED  BY <1>1, <2>2, <2>3, OperationFields
<1>5. CASE ReadAnswer
  <2>1. op.at = "wait" /\ op.reply \in {"ok", "error"} /\ vps' = vps /\ config' = config
    BY <1>1, <1>5, OperationFields DEF ReadAnswer, At, local
  <2>2. CASE op.kind = "write" /\ Head(op.todo) = "set"
    <3>1. CallFails(TRUE) \/ (op.reply = "ok" /\ CallReturns)  BY <1>5, <2>1, <2>2 DEF ReadAnswer
    <3>2. op.reply = "ok" => op.ran  BY <1>1, <2>1, <2>2 DEF OpInv, ShapeInv
    <3> QED  BY <2>2, <3>1, <3>2, FailedCallAnswers, LastCallAnswers
  <2>3. CASE op.kind = "boot" /\ op.todo = <<"create">> /\ Head(op.todo) = "create"
    <3>1. CASE op.reply = "ok"
      <4>1. [op EXCEPT !.at = "save", !.stage = 7].at = "save"  BY <1>1, OperationFields DEF Operation
      <4>2. result' = "unknown"  BY <1>5, <2>3, <3>1, <4>1 DEF ReadAnswer, End, Idle
      <4> QED  BY <2>3, <4>2 DEF Answer, BootAnswer
    <3>2. CASE op.reply = "error"
      <4>1. op.peer = NoPeer /\ ~op.done  BY <1>1, <2>3, <3>2, CallFacts DEF OpInv, ShapeInv
      <4>2. CallFails(TRUE)  BY <1>5, <3>2 DEF ReadAnswer
      <4>3. result' = "failed"  BY <2>3, <4>1, <4>2 DEF CallFails, End
      <4> QED  BY <2>3, <4>1, <4>3 DEF Answer, BootAnswer
    <3> QED  BY <2>1, <3>1, <3>2
  <2>4. CASE op.kind = "boot" /\ op.todo = <<"remove">> /\ Head(op.todo) = "remove"
    <3>1. CASE op.reply = "ok"
      <4>1. op.peer \notin vps[op.host].peers /\ ~Holds(config, op.peer)
        BY <1>1, <2>1, <2>4, <3>1 DEF OpInv, PeerInv
      <4>2. result' = "failed"  BY <1>5, <2>4, <3>1 DEF ReadAnswer, End
      <4> QED  BY <2>1, <2>4, <4>1, <4>2 DEF Answer, BootAnswer
    <3>2. CASE op.reply = "error"
      <4>1. ~op.done  BY <1>1, <2>4 DEF OpInv, ShapeInv
      <4>2. CallFails(TRUE)  BY <1>5, <3>2 DEF ReadAnswer
      <4>3. result' = "stuck"  BY <2>4, <4>1, <4>2 DEF CallFails, End
      <4> QED  BY <2>4, <4>3 DEF Answer, BootAnswer
    <3> QED  BY <2>1, <3>1, <3>2
  <2> QED  BY <1>1, <2>1, <2>2, <2>3, <2>4, Waiting
<1> QED  BY <1>2, <1>3, <1>4, <1>5

\* The server is saved, or the rollback leaves it.
LEMMA SaveAnswers ==
    ASSUME IInv, op # Idle, op' = Idle, SaveServer \/ CheckEnrollment
    PROVE  Answer
<1>1. TypeOK /\ OpInv /\ op \in Operation /\ op.host \in Hosts  BY OperationFields DEF IInv, OpInv
<1>2. [op EXCEPT !.at = "check"].at = "check" /\ [op EXCEPT !.at = "call", !.todo = <<"remove">>].at = "call"
  BY <1>1 DEF Operation
<1>3. op.kind = "boot"
  BY <1>1, OperationFields DEF SaveServer, CheckEnrollment, At, OpInv, ShapeInv
<1>4. CASE CheckEnrollment
  <2>1. result' = "retained"  BY <1>2, <1>4 DEF CheckEnrollment, End, Idle
  <2> QED  BY <1>3, <2>1 DEF Answer, BootAnswer
<1>5. CASE SaveServer
  <2> DEFINE new == [known |-> TRUE, managed |-> TRUE, key |-> op.key, peer |-> op.peer]
             next == [config EXCEPT ![op.host] = new]
  <2>1. op' # [op EXCEPT !.at = "check"]  BY <1>2 DEF Idle
  <2>2. PICK o \in SaveOutcomes(next) :
          config' = o.c /\ kept' = o.k /\ o.ok /\ \E how \in {"ok", "committed"} : End(how)
    BY <1>5, <2>1 DEF SaveServer, UpdateConfig
  <2>3. next[op.host].peer = op.peer  BY <1>1 DEF TypeOK
  <2> HIDE DEF next
  <2>4. config' = next /\ kept' = next /\ result' \in {"ok", "committed"}
    BY <1>1, <2>2, SaveFacts DEF End
  <2>5. vps' = vps /\ op.at = "save"  BY <1>5 DEF SaveServer, At
  <2>6. op.todo = <<"create">> /\ op.peer # NoPeer
    BY <1>1, <1>3, <2>5 DEF OpInv, ShapeInv, Preparing, Before
  <2>7. vps[op.host].key = op.key => op.peer \in vps[op.host].peers
    BY <1>1, <1>3, <2>6 DEF OpInv, PeerInv
  <2> QED  BY <1>1, <1>3, <2>3, <2>4, <2>5, <2>7 DEF Answer, BootAnswer, Holds
<1> QED  BY <1>4, <1>5

\* Every operation that ends has said what is true.
LEMMA EveryAnswer == ASSUME IInv, [Next]_vars, op # Idle, op' = Idle PROVE Answer
<1>1. TypeOK /\ op \in Operation  BY OperationFields DEF IInv
<1>2. CASE Restart \/ PowerLoss  BY <1>2 DEF Restart, PowerLoss, Answer, BootAnswer, WriteAnswer
<1>3. ~SendCommand /\ ~CommandRefused /\ ~CommandRuns /\ ~\E n \in 1 .. 3 : Marker(n)
  <2>1. op.at # Idle.at /\ op'.at = Idle.at /\ Idle.at # "wait"  BY <1>1 DEF Operation, Idle
  <2>2. ~SendCommand
    <3>1. [op EXCEPT !.at = "wait", !.reply = "none"].at = "wait"  BY <1>1 DEF Operation
    <3> QED  BY <2>1, <3>1 DEF SendCommand
  <2>3. ~CommandRefused
    <3>1. [op EXCEPT !.reply = "error"].at = op.at  BY <1>1 DEF Operation
    <3> QED  BY <2>1, <3>1 DEF CommandRefused
  <2>4. ASSUME CommandRuns PROVE FALSE
    <3>1. PICK p \in Peers \cup {NoPeer} :
            op' = [op EXCEPT !.reply = "ok", !.ran = TRUE, !.peer = IF p = NoPeer THEN op.peer ELSE p]
      BY <2>4 DEF CommandRuns
    <3>2. op'.at = op.at  BY <1>1, <3>1 DEF Operation
    <3> QED  BY <2>1, <3>2
  <2>5. ASSUME NEW n \in 1 .. 3, Marker(n) PROVE FALSE
    <3>1. op' = [op EXCEPT !.marker = n, !.stage = 2 + n]  BY <2>5 DEF Marker
    <3>2. op'.at = op.at  BY <1>1, <3>1 DEF Operation
    <3> QED  BY <2>1, <3>2
  <2> QED  BY <2>2, <2>3, <2>4, <2>5
<1>4. ~\E h \in Hosts : StartBootstrap(h) \/ StartCommand(h) \/ ResetHostPin(h)
                          \/ ImportServer(h) \/ DeleteServer(h) \/ Reinstall(h)
  BY DEF StartBootstrap, StartCommand, ResetHostPin, ImportServer, DeleteServer, Reinstall
<1>5. ~Reconcile /\ ~(\E m \in late : LateCommand(m)) /\ ~UNCHANGED vars
  BY DEF Reconcile, LateCommand, vars
<1>6. CASE Step  BY <1>3, <1>6, PreparingAnswers, CallAnswers, SaveAnswers DEF Step
<1> QED  BY <1>2, <1>3, <1>4, <1>5, <1>6 DEF Next

\* What the panel is told of an enrolment or a write is true: success is saved
\* durably and works, a plain failure after a profile was received left neither
\* its peer nor its server, and what the VPS confirmed is never reported as a
\* failure (bootstrap, rollback_enrollment, CommittedRefreshFailed).
THEOREM Answers == Spec => AnswersAreTrue
<1> DEFINE A == (op # Idle /\ op' = Idle) =>
         LET mine == vps'[op.host].key = op.key => op.peer \in vps'[op.host].peers
         IN  IF op.kind = "boot"
             THEN /\ result' \in {"ok", "committed"} =>
                        mine /\ Holds(config', op.peer) /\ Holds(kept', op.peer)
                  /\ (result' = "failed" /\ op.peer # NoPeer) =>
                        op.peer \notin vps'[op.host].peers /\ ~Holds(config', op.peer)
             ELSE /\ (result' \in {"ok", "committed"} /\ (op.done \/ Head(op.todo) = "set")) => op.ran
                  /\ (op.kind = "write" /\ op.done) => result' \in {"ok", "committed", "none"}
<1>1. IInv /\ [Next]_vars => A
  <2>1. SUFFICES ASSUME IInv, [Next]_vars, op # Idle, op' = Idle PROVE A
    OBVIOUS
  <2>2. Answer /\ op.kind \in {"boot", "write"}  BY <2>1, EveryAnswer, OperationFields DEF IInv
  <2> QED  BY <2>2 DEF Answer, BootAnswer, WriteAnswer
<1>2. AnswersAreTrue <=> [][A]_vars  BY DEF AnswersAreTrue
<1> HIDE DEF A
<1> QED  BY <1>1, <1>2, ManagedInvariant, PTL DEF Spec

=============================================================================
