----------------------------- MODULE AuthProofs -----------------------------
(***************************************************************************)
(* Proofs about Auth for every number of clients, passwords and sessions   *)
(* and any number of faults.                                               *)
(***************************************************************************)
EXTENDS Auth, SequenceTheorems, TLAPS

-----------------------------------------------------------------------------
(* The inductive invariant.                                                *)

\* c has a request past the point where it needs the permit.
Busy(c) == req[c] # Idle /\ req[c].at \notin {"cpermit", "completesync"}

\* The permit is with the one busy request, the mutex with the change that writes.
LockInv ==
    /\ \A c \in Clients : Busy(c) <=> permit = c
    /\ \A c \in Clients : req[c].at \in ChangeWrites <=> inner = c

\* The password that a set-up writes or a login presents.
Presented(c) == IF req[c].new = NoPassword THEN req[c].guess ELSE req[c].new

\* No power loss makes the router one to be set up again.
Claimed ==
    /\ NoPassword \notin maybe.record
    /\ "admin" \notin maybe.marker
    /\ maybe.code = {FALSE}

\* A set-up writes where no record was, and while nobody is logged in.
SetupInv(c) ==
    /\ req[c].at \in {"check"} \cup SetupWrites => req[c].new \in Passwords
    /\ req[c].at = "write" => disk.record = NoPassword
    /\ req[c].at = "sync"  => disk.record = req[c].new /\ sessions = <<>>

\* complete_admin runs under the password on the disk, one durable file after the
\* other: the marker, then the code.
AdminInv(c) ==
    /\ req[c].at \in AdminWrites \cup {"issue"} =>
          disk.record = Presented(c) /\ disk.record \in Passwords
    /\ req[c].at = "markersync" => disk.marker # "admin"
    /\ req[c].at \in {"code", "codesync"} => "admin" \notin maybe.marker /\ NoPassword \notin maybe.record
    /\ req[c].at = "codesync" => ~disk.code
    /\ req[c].at = "issue" => Claimed

\* A login past the throttle saw no failure in this second, and the permit it holds
\* keeps others from adding one.
LoginInv(c) ==
    /\ req[c].at \in {"throttle", "verify", "wrong"} => req[c].guess \in Passwords /\ req[c].new = NoPassword
    /\ req[c].at \in {"verify", "wrong"} \cup ChangeWrites => ~failed

\* A change holds the password it presented until its own record is out.
ChangeInv(c) ==
    /\ req[c].at \in {"cpermit", "clock"} \cup ChangeWrites => req[c].guess \in Passwords /\ req[c].new \in Passwords
    /\ req[c].at \in ChangeWrites => Claimed
    /\ req[c].at = "cwrite" => disk.record = req[c].guess
    /\ req[c].at = "csync"  => disk.record = req[c].new

\* Whoever logged in, or finished onboarding, did so on a claimed router; outside
\* the one step of a change between record and sync, sessions follow the record.
SessionInv ==
    /\ "none" \in maybe.marker \/ sessions # <<>> => Claimed
    /\ (\A c \in Clients : req[c].at # "csync") => \A i \in DOMAIN sessions : sessions[i].under = disk.record
    /\ told = 0 \/ (told = 1 /\ failed)

\* The inductive invariant.
IInv ==
    /\ TypeOK /\ LockInv /\ SessionInv
    /\ \A c \in Clients : SetupInv(c) /\ AdminInv(c) /\ LoginInv(c) /\ ChangeInv(c)

-----------------------------------------------------------------------------
(* What the helpers do to the variables.                                   *)

\* The request of c goes on to a.
Moved(c, a) ==
    /\ req' \in [Clients -> {Idle} \cup Request]
    /\ req'[c] # Idle /\ req'[c].at = a
    /\ req'[c].guess = req[c].guess /\ req'[c].new = req[c].new
    /\ \A d \in Clients \ {c} : req'[d] = req[d]

\* The request of c is over.
Ended(c) ==
    /\ req' \in [Clients -> {Idle} \cup Request] /\ req'[c] = Idle
    /\ \A d \in Clients \ {c} : req'[d] = req[d]
    /\ answer' \in [to : Clients \cup {Nobody}, text : Texts]

\* No request is at the step "idle".
LEMMA IdleIsNoRequest == Idle.at = "idle" /\ Idle \notin Request
BY DEF Idle, Request, Blocking, Handler, SetupWrites, AdminWrites, ChangeWrites

\* Go moves one request and keeps what it asked for.
LEMMA GoStep ==
    ASSUME TypeOK, NEW c \in Clients, req[c] # Idle, NEW a \in Blocking \cup Handler, Go(c, a)
    PROVE  Moved(c, a)
BY IdleIsNoRequest DEF TypeOK, Go, Request, Moved

\* Begin puts a new request in the place of none.
LEMMA BeginStep ==
    ASSUME TypeOK, NEW c \in Clients, NEW a \in Blocking \cup Handler,
           NEW p \in Records, NEW q \in Records, Begin(c, a, p, q)
    PROVE  /\ req' \in [Clients -> {Idle} \cup Request]
           /\ req'[c] # Idle /\ req'[c].at = a /\ req'[c].guess = p /\ req'[c].new = q
           /\ \A d \in Clients \ {c} : req'[d] = req[d]
<1> DEFINE r == [at |-> a, guess |-> p, new |-> q, gone |-> FALSE]
<1>1. r \in Request  BY DEF Request
<1>2. r # Idle  BY <1>1, IdleIsNoRequest
<1>3. r.at = a /\ r.guess = p /\ r.new = q  OBVIOUS
<1>4. req' = [req EXCEPT ![c] = r]  BY DEF Begin
<1> HIDE DEF r
<1> QED  BY <1>1, <1>2, <1>3, <1>4 DEF TypeOK

\* Reply ends a request, whether or not the client hears of it.
LEMMA ReplyStep ==
    ASSUME TypeOK, NEW c \in Clients, NEW a \in Texts, Reply(c, a)
    PROVE  Ended(c)
<1>1. [to |-> c, text |-> a] \in [to : Clients \cup {Nobody}, text : Texts]
  OBVIOUS
<1> QED  BY <1>1 DEF TypeOK, Reply, Ended

\* Finish gives the permit back as well.
LEMMA FinishStep ==
    ASSUME TypeOK, NEW c \in Clients, NEW a \in Texts, Finish(c, a)
    PROVE  Ended(c) /\ permit' = Nobody
BY ReplyStep DEF Finish

\* The types of the files one by one.
LEMMA DiskTypes ==
    ASSUME TypeOK
    PROVE  /\ disk.record \in Records /\ disk.marker \in Markers /\ disk.code \in BOOLEAN
           /\ disk.record \in maybe.record /\ disk.marker \in maybe.marker /\ disk.code \in maybe.code
BY DEF TypeOK, Disks, Files

\* Renaming a file into place changes that file only.
LEMMA PutStep ==
    ASSUME TypeOK, NEW f \in Files, NEW v, Put(f, v),
           f = "record" => v \in Records, f = "marker" => v \in Markers, f = "code" => v \in BOOLEAN
    PROVE  /\ disk' \in Disks /\ DOMAIN maybe' = Files
           /\ disk'.record = (IF f = "record" THEN v ELSE disk.record)
           /\ disk'.marker = (IF f = "marker" THEN v ELSE disk.marker)
           /\ disk'.code   = (IF f = "code"   THEN v ELSE disk.code)
           /\ maybe'.record = (IF f = "record" THEN maybe.record \cup {v} ELSE maybe.record)
           /\ maybe'.marker = (IF f = "marker" THEN maybe.marker \cup {v} ELSE maybe.marker)
           /\ maybe'.code   = (IF f = "code"   THEN maybe.code \cup {v} ELSE maybe.code)
           /\ \A g \in Files : disk'[g] \in maybe'[g]
<1>1. CASE f = "record"  BY <1>1 DEF TypeOK, Put, Disks, Files
<1>2. CASE f = "marker"  BY <1>2 DEF TypeOK, Put, Disks, Files
<1>3. CASE f = "code"    BY <1>3 DEF TypeOK, Put, Disks, Files
<1> QED  BY <1>1, <1>2, <1>3 DEF Files

\* Syncing the directory leaves one version of each file.
LEMMA SyncStep ==
    ASSUME TypeOK, SyncDir
    PROVE  /\ disk' = disk /\ DOMAIN maybe' = Files
           /\ maybe'.record = {disk.record} /\ maybe'.marker = {disk.marker} /\ maybe'.code = {disk.code}
           /\ \A f \in Files : disk'[f] \in maybe'[f]
BY DEF TypeOK, SyncDir, Disks, Files

\* Auth::issue keeps the bound, and the sessions it keeps have the password they had.
LEMMA IssueStep ==
    ASSUME TypeOK, NEW c \in Clients, req[c] \in Request, NEW p \in Passwords, IssueSession(c, p)
    PROVE  /\ sessions' \in Seq(Session) /\ Len(sessions') =< MaxSessions
           /\ \A i \in DOMAIN sessions' :
                 sessions'[i].under = p \/ \E j \in DOMAIN sessions : sessions'[i].under = sessions[j].under
<1> DEFINE first == IF Len(sessions) >= MaxSessions THEN Len(sessions) - MaxSessions + 2 ELSE 1
           kept  == SubSeq(sessions, first, Len(sessions))
           older == [i \in DOMAIN kept |-> Disown(c, kept[i])]
           new   == NewSession(c, p)
<1>1. sessions' = Append(older, new)
  BY DEF IssueSession
<1>2. /\ sessions \in Seq(Session) /\ Len(sessions) \in Nat /\ Len(sessions) =< MaxSessions
      /\ MaxSessions \in Nat \ {0} /\ DOMAIN sessions = 1 .. Len(sessions)
  BY SessionsAssumption DEF TypeOK
<1>3. first \in 1 .. Len(sessions) + 1 /\ Len(sessions) - first + 1 =< MaxSessions - 1
  BY <1>2
<1>4. /\ kept \in Seq(Session) /\ Len(kept) = Len(sessions) - first + 1
      /\ \A i \in 1 .. Len(kept) : first + i - 1 \in DOMAIN sessions /\ kept[i] = sessions[first + i - 1]
  <2> HIDE DEF first
  <2> QED  BY <1>2, <1>3
<1> HIDE DEF first, kept
<1>5. \A s \in Session : Disown(c, s) \in Session /\ Disown(c, s).under = s.under
  BY DEF Disown, Session
<1>6. /\ older \in Seq(Session) /\ Len(older) = Len(kept)
      /\ \A i \in 1 .. Len(older) : older[i].under = kept[i].under
  <2>1. \A i \in 1 .. Len(kept) : Disown(c, kept[i]) \in Session
    BY <1>4, <1>5
  <2>2. DOMAIN kept = 1 .. Len(kept) /\ Len(kept) \in Nat
    BY <1>4
  <2>3. older \in Seq(Session)
    BY <2>1, <2>2, IsASeq
  <2> QED  BY <1>4, <1>5, <2>1, <2>2, <2>3
<1>7. new \in Session /\ new.under = p
  BY DEF NewSession, Session, Request
<1> HIDE DEF older, new
<1>8. /\ sessions' \in Seq(Session) /\ Len(sessions') = Len(older) + 1
      /\ \A i \in 1 .. Len(older) : sessions'[i] = older[i]
      /\ sessions'[Len(older) + 1] = new
  BY <1>1, <1>6, <1>7, AppendProperties
<1>9. ASSUME NEW i \in DOMAIN sessions'
      PROVE  sessions'[i].under = p \/ \E j \in DOMAIN sessions : sessions'[i].under = sessions[j].under
  <2>1. i \in 1 .. Len(older) \/ i = Len(older) + 1
    BY <1>8, <1>6
  <2> QED  BY <2>1, <1>4, <1>6, <1>7, <1>8
<1> QED  BY <1>2, <1>3, <1>4, <1>6, <1>8, <1>9

\* Taking a session out leaves the others.
LEMMA WithoutStep ==
    ASSUME TypeOK, NEW i \in DOMAIN sessions, sessions' = Without(sessions, i)
    PROVE  /\ sessions' \in Seq(Session) /\ Len(sessions') =< MaxSessions
           /\ sessions' # <<>> => sessions # <<>>
           /\ \A k \in DOMAIN sessions' : \E j \in DOMAIN sessions : sessions'[k].under = sessions[j].under
<1> DEFINE a == SubSeq(sessions, 1, i - 1)
           b == SubSeq(sessions, i + 1, Len(sessions))
<1>1. sessions \in Seq(Session) /\ Len(sessions) =< MaxSessions /\ Len(sessions) \in Nat
      /\ i \in 1 .. Len(sessions) /\ MaxSessions \in Nat
  BY SessionsAssumption DEF TypeOK
<1>2. /\ a \in Seq(Session) /\ Len(a) = i - 1
      /\ \A k \in 1 .. Len(a) : k \in DOMAIN sessions /\ a[k] = sessions[k]
  BY <1>1
<1>3. /\ b \in Seq(Session) /\ Len(b) = Len(sessions) - i
      /\ \A k \in 1 .. Len(b) : i + k \in DOMAIN sessions /\ b[k] = sessions[i + k]
  BY <1>1
<1>4. sessions' = a \o b
  BY DEF Without
<1> HIDE DEF a, b
<1>5. /\ sessions' \in Seq(Session) /\ Len(sessions') = Len(a) + Len(b)
      /\ \A k \in 1 .. Len(a) : sessions'[k] = a[k]
      /\ \A k \in Len(a) + 1 .. Len(a) + Len(b) : sessions'[k] = b[k - Len(a)]
  <2>1. a \in Seq(Session) /\ b \in Seq(Session) /\ Len(a) \in Nat /\ Len(b) \in Nat
    BY <1>2, <1>3
  <2> DEFINE ab == a \o b
  <2>2. /\ ab \in Seq(Session) /\ Len(ab) = Len(a) + Len(b)
        /\ \A k \in 1 .. Len(a) + Len(b) : ab[k] = IF k =< Len(a) THEN a[k] ELSE b[k - Len(a)]
    BY <2>1, ConcatProperties, Zenon
  <2>3. sessions' = ab  BY <1>4
  <2> HIDE DEF ab
  <2> QED  BY <2>1, <2>2, <2>3
<1>6. ASSUME NEW k \in DOMAIN sessions'
      PROVE  \E j \in DOMAIN sessions : sessions'[k].under = sessions[j].under
  <2>1. k \in 1 .. Len(a) \/ (k \in Len(a) + 1 .. Len(a) + Len(b) /\ k - Len(a) \in 1 .. Len(b))
    BY <1>2, <1>3, <1>5
  <2> QED  BY <2>1, <1>2, <1>3, <1>5
<1> QED  BY <1>1, <1>2, <1>3, <1>5, <1>6

\* So does the expiry of the oldest.
LEMMA ExpireStep ==
    ASSUME TypeOK, sessions # <<>>, sessions' = Tail(sessions)
    PROVE  /\ sessions' \in Seq(Session) /\ Len(sessions') =< MaxSessions
           /\ \A k \in DOMAIN sessions' : \E j \in DOMAIN sessions : sessions'[k].under = sessions[j].under
<1>1. /\ sessions \in Seq(Session) /\ Len(sessions) =< MaxSessions /\ Len(sessions) \in Nat
      /\ MaxSessions \in Nat
  BY SessionsAssumption DEF TypeOK
<1>2. /\ sessions' \in Seq(Session) /\ Len(sessions') = Len(sessions) - 1
      /\ \A k \in 1 .. Len(sessions') : sessions'[k] = sessions[k + 1]
  BY <1>1, HeadTailProperties
<1> QED  BY <1>1, <1>2


-----------------------------------------------------------------------------
(* The locks.                                                              *)

\* Beside the holder of the permit there are only requests that need none.
LEMMA IdleOthers ==
    ASSUME IInv, NEW c \in Clients, permit = c
    PROVE  \A d \in Clients \ {c} : req[d].at \in {"idle", "cpermit", "completesync"} /\ inner # d
BY IdleIsNoRequest DEF IInv, LockInv, Busy, ChangeWrites, TypeOK

\* A request past the permit has the permit.
LEMMA HolderIsBusy ==
    ASSUME IInv, NEW c \in Clients, req[c] # Idle, req[c].at \notin {"cpermit", "completesync"}
    PROVE  permit = c /\ req[c] \in Request
BY DEF IInv, LockInv, Busy, TypeOK

\* The holder's step leaves the others at points of which the invariant says little.
LEMMA OthersInv ==
    ASSUME IInv, NEW c \in Clients, permit = c, NEW d \in Clients \ {c}, req'[d] = req[d]
    PROVE  (SetupInv(d) /\ AdminInv(d) /\ LoginInv(d) /\ ChangeInv(d))'
<1>1. req[d].at \in {"idle", "cpermit", "completesync"}  BY IdleOthers
<1> QED  BY <1>1 DEF IInv, SetupInv, AdminInv, LoginInv, ChangeInv, SetupWrites, AdminWrites, ChangeWrites

\* The locks when the holder goes on.
LEMMA HolderMoves ==
    ASSUME IInv, NEW c \in Clients, permit = c, NEW a, Moved(c, a), permit' = c,
           a \notin {"cpermit", "completesync"},
           inner' = IF a \in ChangeWrites THEN c ELSE Nobody
    PROVE  LockInv'
<1>1. \A d \in Clients \ {c} : req[d].at \in {"idle", "cpermit", "completesync"}  BY IdleOthers
<1> QED  BY <1>1, ClientsAssumption, IdleIsNoRequest DEF IInv, LockInv, Busy, Moved, ChangeWrites

\* The locks when the holder's request ends: both are free.
LEMMA HolderEnds ==
    ASSUME IInv, NEW c \in Clients, permit = c, Ended(c), permit' = Nobody, inner' = Nobody
    PROVE  LockInv'
<1>1. \A d \in Clients \ {c} : req[d].at \in {"idle", "cpermit", "completesync"}  BY IdleOthers
<1> QED  BY <1>1, ClientsAssumption, IdleIsNoRequest DEF IInv, LockInv, Busy, Ended, ChangeWrites

\* Without a change under way the mutex is free when the holder is elsewhere.
LEMMA InnerIsFree ==
    ASSUME IInv, NEW c \in Clients, permit = c, req[c].at \notin ChangeWrites
    PROVE  inner = Nobody
BY IdleOthers DEF IInv, LockInv, TypeOK

\* The holder's step has to keep the types, the sessions and its own part.
LEMMA HolderSteps ==
    ASSUME IInv, NEW c \in Clients, permit = c, TypeOK', LockInv', SessionInv',
           \A d \in Clients \ {c} : req'[d] = req[d],
           (SetupInv(c) /\ AdminInv(c) /\ LoginInv(c) /\ ChangeInv(c))'
    PROVE  IInv'
BY OthersInv DEF IInv

\* A client without a request meets its part of the invariant.
LEMMA IdleInv ==
    ASSUME NEW c \in Clients, req'[c] = Idle
    PROVE  (SetupInv(c) /\ AdminInv(c) /\ LoginInv(c) /\ ChangeInv(c))'
BY IdleIsNoRequest DEF SetupInv, AdminInv, LoginInv, ChangeInv, SetupWrites, AdminWrites, ChangeWrites

-----------------------------------------------------------------------------
(* The steps of a set-up.                                                  *)

\* A set-up that goes on to write has seen that there is no password.
LEMMA SetupCheckStep ==
    ASSUME IInv, NEW c \in Clients, SetupCheck(c) PROVE IInv'
<1>1. permit = c /\ inner = Nobody
  BY HolderIsBusy, InnerIsFree DEF SetupCheck, ChangeWrites
<1>2. UNCHANGED <<disk, maybe, window, sessions, failed, told, inner, faults>>
  BY DEF SetupCheck, diskVars, memVars
<1>3. CASE ~Configured /\ Go(c, "write") /\ UNCHANGED <<permit, answer>>
  <2>1. Moved(c, "write")
    BY <1>3, GoStep DEF IInv, SetupCheck, Blocking, SetupWrites
  <2>2. TypeOK' /\ LockInv'
    BY <1>1, <1>2, <1>3, <2>1, HolderMoves DEF IInv, TypeOK, Moved, ChangeWrites
  <2>3. SessionInv'
    BY <1>2, <2>1, IdleOthers, <1>1 DEF IInv, SessionInv, Claimed, Moved, SetupCheck
  <2>4. (SetupInv(c) /\ AdminInv(c) /\ LoginInv(c) /\ ChangeInv(c))'
    BY <1>2, <1>3, <2>1 DEF IInv, SetupInv, AdminInv, LoginInv, ChangeInv, Moved, SetupCheck, Configured,
       SetupWrites, AdminWrites, ChangeWrites
  <2> QED  BY <1>1, <2>1, <2>2, <2>3, <2>4, HolderSteps DEF Moved
<1>4. CASE Ended(c) /\ permit' = Nobody
  <2>2. TypeOK' /\ LockInv'
    BY <1>1, <1>2, <1>4, HolderEnds DEF IInv, TypeOK, Ended
  <2>3. SessionInv'
    BY <1>1, <1>2, <1>4, IdleIsNoRequest DEF IInv, SessionInv, Claimed, Ended, SetupCheck
  <2> QED  BY <1>1, <1>4, <2>2, <2>3, HolderSteps, IdleInv DEF Ended
<1>5. TypeOK  BY DEF IInv
<1>6. \/ ~Configured /\ Go(c, "write") /\ UNCHANGED <<permit, answer>>
      \/ Ended(c) /\ permit' = Nobody
  BY <1>5, FinishStep DEF SetupCheck, Texts
<1> QED  BY <1>3, <1>4, <1>6

\* The first record is written when nobody can be logged in.
LEMMA WriteRecordStep ==
    ASSUME IInv, NEW c \in Clients, WriteRecord(c) PROVE IInv'
<1>1. /\ permit = c /\ inner = Nobody
      /\ req[c].new \in Passwords /\ disk.record = NoPassword
  BY HolderIsBusy, InnerIsFree DEF IInv, WriteRecord, SetupInv, SetupWrites, ChangeWrites
<1>2. sessions = <<>> /\ "none" \notin maybe.marker
  BY <1>1, DiskTypes DEF IInv, SessionInv, Claimed
<1>3. UNCHANGED <<window, sessions, failed, told, inner, permit, answer, faults>>
  BY DEF WriteRecord, memVars
<1>4. Moved(c, "sync")
  BY GoStep DEF IInv, WriteRecord, Blocking, SetupWrites
<1>5. /\ disk' \in Disks /\ DOMAIN maybe' = Files /\ \A g \in Files : disk'[g] \in maybe'[g]
      /\ disk'.record = req[c].new
      /\ maybe'.record = maybe.record \cup {req[c].new} /\ maybe'.marker = maybe.marker
      /\ maybe'.code = maybe.code
  BY <1>1, PutStep DEF IInv, WriteRecord, Files, Records
<1>6. TypeOK' /\ LockInv'
  <2>1. TypeOK'  BY <1>1, <1>3, <1>4, <1>5 DEF IInv, TypeOK, Moved, Records
  <2>2. LockInv'  BY <1>1, <1>3, <1>4, HolderMoves DEF ChangeWrites
  <2> QED  BY <2>1, <2>2
<1>7. SessionInv'
  <2>1. \A i \in DOMAIN sessions' : sessions'[i].under = disk'.record  BY <1>2, <1>3
  <2> QED  BY <1>2, <1>3, <1>5, <2>1 DEF IInv, SessionInv
<1>8. (SetupInv(c) /\ AdminInv(c) /\ LoginInv(c) /\ ChangeInv(c))'
  BY <1>1, <1>2, <1>3, <1>4, <1>5 DEF SetupInv, AdminInv, LoginInv, ChangeInv, Moved,
     SetupWrites, AdminWrites, ChangeWrites
<1> QED  BY <1>1, <1>4, <1>6, <1>7, <1>8, HolderSteps DEF Moved

\* The sync makes it last before the marker is touched.
LEMMA SyncRecordStep ==
    ASSUME IInv, NEW c \in Clients, SyncRecord(c) PROVE IInv'
<1>1. /\ permit = c /\ inner = Nobody
      /\ req[c].new \in Passwords /\ disk.record = req[c].new /\ sessions = <<>>
  BY HolderIsBusy, InnerIsFree DEF IInv, SyncRecord, SetupInv, SetupWrites, ChangeWrites
<1>2. UNCHANGED <<window, sessions, failed, told, inner, permit, answer, faults>>
  BY DEF SyncRecord, memVars
<1>3. Moved(c, "marker")
  BY GoStep DEF IInv, SyncRecord, Blocking, AdminWrites
<1>4. /\ disk' = disk /\ DOMAIN maybe' = Files /\ \A g \in Files : disk'[g] \in maybe'[g]
      /\ maybe'.record = {disk.record} /\ maybe'.marker = {disk.marker} /\ maybe'.code = {disk.code}
  BY SyncStep DEF IInv, SyncRecord
<1>5. TypeOK' /\ LockInv'
  BY <1>1, <1>2, <1>3, <1>4, DiskTypes, HolderMoves DEF IInv, TypeOK, Moved, ChangeWrites
<1>6. SessionInv'
  <2>1. "none" = disk.marker => Claimed'
    BY <1>4, DiskTypes DEF IInv, SessionInv, Claimed
  <2> QED  BY <1>1, <1>2, <1>4, <2>1 DEF IInv, SessionInv
<1>7. (SetupInv(c) /\ AdminInv(c) /\ LoginInv(c) /\ ChangeInv(c))'
  BY <1>1, <1>2, <1>3, <1>4, PasswordAssumption DEF SetupInv, AdminInv, LoginInv, ChangeInv, Moved, Presented,
     SetupWrites, AdminWrites, ChangeWrites
<1> QED  BY <1>1, <1>3, <1>5, <1>6, <1>7, HolderSteps DEF Moved

\* A claim that is on the disk stays there when the directory is synced.
LEMMA SyncKeepsClaim ==
    ASSUME TypeOK, SyncDir, Claimed
    PROVE  Claimed'
BY SyncStep, DiskTypes DEF Claimed

\* A step of the holder from one point of its task to the next, outside a
\* password change: it may touch the marker and the code, not the record.
LEMMA HolderWorks ==
    ASSUME IInv, NEW c \in Clients, permit = c, inner = Nobody,
           NEW a, Moved(c, a), a \notin ChangeWrites \cup {"cpermit", "completesync"},
           UNCHANGED <<window, sessions, failed, told, inner, permit, answer>>, faults' \in Nat,
           disk' \in Disks, DOMAIN maybe' = Files, \A f \in Files : disk'[f] \in maybe'[f],
           maybe'.record \in SUBSET Records, maybe'.marker \in SUBSET Markers, maybe'.code \in SUBSET BOOLEAN,
           disk'.record = disk.record, Claimed => Claimed',
           "none" \in maybe'.marker => "none" \in maybe.marker,
           (SetupInv(c) /\ AdminInv(c) /\ LoginInv(c) /\ ChangeInv(c))'
    PROVE  IInv'
<1>1. TypeOK'  BY DEF IInv, TypeOK, Moved
<1>2. LockInv'  BY HolderMoves
<1>3. \A d \in Clients : req[d].at # "csync"
  BY ClientsAssumption DEF IInv, LockInv, ChangeWrites
<1>4. SessionInv'
  BY <1>3 DEF IInv, SessionInv
<1> QED  BY <1>1, <1>2, <1>4, HolderSteps DEF Moved

\* The holder's request ends outside a write of the record: the files stay.
LEMMA HolderQuits ==
    ASSUME IInv, NEW c \in Clients, permit = c, inner' = Nobody, req[c].at # "csync",
           Ended(c), permit' = Nobody, UNCHANGED <<disk, maybe, window, sessions>>,
           faults' \in Nat, failed' \in BOOLEAN, told' \in Nat, told' = 0 \/ (told' = 1 /\ failed')
    PROVE  IInv'
<1>1. TypeOK'  BY DEF IInv, TypeOK, Ended
<1>2. LockInv'  BY HolderEnds
<1>3. \A d \in Clients : req[d].at # "csync"
  BY IdleOthers
<1>4. SessionInv'
  BY <1>3 DEF IInv, SessionInv, Claimed
<1> QED  BY <1>1, <1>2, <1>4, HolderSteps, IdleInv DEF Ended

-----------------------------------------------------------------------------
(* The steps of onboarding::complete_admin.                                *)

\* A password is on the disk when the marker is written.
LEMMA CompleteMarkerStep ==
    ASSUME IInv, NEW c \in Clients, CompleteMarker(c) PROVE IInv'
<1>1. /\ permit = c /\ inner = Nobody /\ TypeOK /\ req[c] # Idle
      /\ disk.record = Presented(c) /\ disk.record \in Passwords
  BY HolderIsBusy, InnerIsFree DEF IInv, CompleteMarker, AdminInv, AdminWrites, ChangeWrites
<1>2. UNCHANGED <<window, sessions, failed, told, inner, permit, answer, faults>>
  BY DEF CompleteMarker, memVars
<1>3. CASE disk.marker = "admin" /\ Put("marker", "server") /\ Go(c, "markersync")
  <2>1. Moved(c, "markersync")  BY <1>1, <1>3, GoStep DEF Blocking, AdminWrites
  <2>2. /\ disk' \in Disks /\ DOMAIN maybe' = Files /\ \A g \in Files : disk'[g] \in maybe'[g]
        /\ disk'.record = disk.record /\ disk'.marker = "server"
        /\ maybe'.record = maybe.record /\ maybe'.marker = maybe.marker \cup {"server"}
        /\ maybe'.code = maybe.code
    BY <1>1, <1>3, PutStep DEF Files, Markers
  <2>3. ~Claimed  BY <1>1, <1>3, DiskTypes DEF Claimed
  <2>4. (SetupInv(c) /\ AdminInv(c) /\ LoginInv(c) /\ ChangeInv(c))'
    BY <1>1, <2>1, <2>2 DEF SetupInv, AdminInv, LoginInv, ChangeInv, Moved, Presented,
       SetupWrites, AdminWrites, ChangeWrites
  <2>5. faults' \in Nat /\ maybe'.record \in SUBSET Records /\ maybe'.marker \in SUBSET Markers /\ maybe'.code \in SUBSET BOOLEAN
    BY <1>1, <1>2, <2>2 DEF TypeOK, Markers
  <2> QED  BY <1>1, <1>2, <2>1, <2>2, <2>3, <2>4, <2>5, HolderWorks DEF ChangeWrites
<1>4. CASE disk.marker = "server" /\ Go(c, "markersync") /\ UNCHANGED diskVars
  <2>1. Moved(c, "markersync")  BY <1>1, <1>4, GoStep DEF Blocking, AdminWrites
  <2>2. disk' = disk /\ maybe' = maybe  BY <1>4 DEF diskVars
  <2>4. (SetupInv(c) /\ AdminInv(c) /\ LoginInv(c) /\ ChangeInv(c))'
    BY <1>1, <1>4, <2>1, <2>2 DEF SetupInv, AdminInv, LoginInv, ChangeInv, Moved, Presented,
       SetupWrites, AdminWrites, ChangeWrites
  <2> QED  BY <1>1, <1>2, <2>1, <2>2, <2>4, HolderWorks DEF ChangeWrites, TypeOK, Claimed
<1>5. CASE disk.marker = "none" /\ Go(c, "issue") /\ UNCHANGED diskVars
  <2>1. Moved(c, "issue")  BY <1>1, <1>5, GoStep DEF Handler
  <2>2. disk' = disk /\ maybe' = maybe  BY <1>5 DEF diskVars
  <2>3. Claimed  BY <1>1, <1>5, DiskTypes DEF IInv, SessionInv
  <2>4. (SetupInv(c) /\ AdminInv(c) /\ LoginInv(c) /\ ChangeInv(c))'
    BY <1>1, <2>1, <2>2, <2>3 DEF SetupInv, AdminInv, LoginInv, ChangeInv, Moved, Presented, Claimed,
       SetupWrites, AdminWrites, ChangeWrites
  <2> QED  BY <1>1, <1>2, <2>1, <2>2, <2>4, HolderWorks DEF ChangeWrites, TypeOK, Claimed
<1> QED  BY <1>3, <1>4, <1>5 DEF CompleteMarker

\* The sync makes the marker and the record before it last.
LEMMA SyncMarkerStep ==
    ASSUME IInv, NEW c \in Clients, SyncMarker(c) PROVE IInv'
<1>1. /\ permit = c /\ inner = Nobody /\ TypeOK /\ req[c] # Idle
      /\ disk.record = Presented(c) /\ disk.record \in Passwords /\ disk.marker # "admin"
  BY HolderIsBusy, InnerIsFree DEF IInv, SyncMarker, AdminInv, AdminWrites, ChangeWrites
<1>2. UNCHANGED <<window, sessions, failed, told, inner, permit, answer, faults>>
  BY DEF SyncMarker, memVars
<1>3. Moved(c, "code")  BY <1>1, GoStep DEF SyncMarker, Blocking, AdminWrites
<1>4. /\ disk' = disk /\ DOMAIN maybe' = Files /\ \A f \in Files : disk'[f] \in maybe'[f]
      /\ maybe'.record = {disk.record} /\ maybe'.marker = {disk.marker} /\ maybe'.code = {disk.code}
  BY <1>1, SyncStep DEF SyncMarker
<1>5. (SetupInv(c) /\ AdminInv(c) /\ LoginInv(c) /\ ChangeInv(c))'
  BY <1>1, <1>3, <1>4, PasswordAssumption DEF SetupInv, AdminInv, LoginInv, ChangeInv, Moved, Presented,
     SetupWrites, AdminWrites, ChangeWrites
<1>6. Claimed => Claimed'  BY <1>1, SyncKeepsClaim DEF SyncMarker
<1>7. /\ maybe'.record \in SUBSET Records /\ maybe'.marker \in SUBSET Markers /\ maybe'.code \in SUBSET BOOLEAN
      /\ "none" \in maybe'.marker => "none" \in maybe.marker
      /\ disk' \in Disks /\ faults' \in Nat
  BY <1>1, <1>2, <1>4, DiskTypes DEF TypeOK
<1> QED  BY <1>1, <1>2, <1>3, <1>4, <1>5, <1>6, <1>7, HolderWorks DEF ChangeWrites

\* The code goes when marker and record cannot come back.
LEMMA RemoveCodeStep ==
    ASSUME IInv, NEW c \in Clients, RemoveCode(c) PROVE IInv'
<1>1. /\ permit = c /\ inner = Nobody /\ TypeOK /\ req[c] # Idle
      /\ disk.record = Presented(c) /\ disk.record \in Passwords
      /\ "admin" \notin maybe.marker /\ NoPassword \notin maybe.record
  BY HolderIsBusy, InnerIsFree DEF IInv, RemoveCode, AdminInv, AdminWrites, ChangeWrites
<1>2. UNCHANGED <<window, sessions, failed, told, inner, permit, answer, faults>>
  BY DEF RemoveCode, memVars
<1>3. Moved(c, "codesync")  BY <1>1, GoStep DEF RemoveCode, Blocking, AdminWrites
<1>4. /\ disk' \in Disks /\ DOMAIN maybe' = Files /\ \A g \in Files : disk'[g] \in maybe'[g]
      /\ disk'.record = disk.record /\ disk'.marker = disk.marker /\ disk'.code = FALSE
      /\ maybe'.record = maybe.record /\ maybe'.marker = maybe.marker
      /\ maybe'.code = maybe.code \cup {FALSE}
  BY <1>1, PutStep DEF RemoveCode, Files
<1>5. (SetupInv(c) /\ AdminInv(c) /\ LoginInv(c) /\ ChangeInv(c))'
  BY <1>1, <1>3, <1>4 DEF SetupInv, AdminInv, LoginInv, ChangeInv, Moved, Presented,
     SetupWrites, AdminWrites, ChangeWrites
<1>6. Claimed => Claimed'  BY <1>4 DEF Claimed
<1>7. faults' \in Nat /\ maybe'.record \in SUBSET Records /\ maybe'.marker \in SUBSET Markers /\ maybe'.code \in SUBSET BOOLEAN
  BY <1>1, <1>2, <1>4 DEF TypeOK
<1> QED  BY <1>1, <1>2, <1>3, <1>4, <1>5, <1>6, <1>7, HolderWorks DEF ChangeWrites

\* With the code gone for good the router is claimed.
LEMMA SyncCodeStep ==
    ASSUME IInv, NEW c \in Clients, SyncCode(c) PROVE IInv'
<1>1. /\ permit = c /\ inner = Nobody /\ TypeOK /\ req[c] # Idle
      /\ disk.record = Presented(c) /\ disk.record \in Passwords
      /\ "admin" \notin maybe.marker /\ NoPassword \notin maybe.record /\ disk.code = FALSE
  BY HolderIsBusy, InnerIsFree DEF IInv, TypeOK, Disks, SyncCode, AdminInv, AdminWrites, ChangeWrites
<1>2. UNCHANGED <<window, sessions, failed, told, inner, permit, answer, faults>>
  BY DEF SyncCode, memVars
<1>3. Moved(c, "issue")  BY <1>1, GoStep DEF SyncCode, Handler
<1>4. /\ disk' = disk /\ DOMAIN maybe' = Files /\ \A f \in Files : disk'[f] \in maybe'[f]
      /\ maybe'.record = {disk.record} /\ maybe'.marker = {disk.marker} /\ maybe'.code = {disk.code}
  BY <1>1, SyncStep DEF SyncCode
<1>5. Claimed'  BY <1>1, <1>4, DiskTypes DEF Claimed
<1>6. (SetupInv(c) /\ AdminInv(c) /\ LoginInv(c) /\ ChangeInv(c))'
  BY <1>1, <1>3, <1>4, <1>5 DEF SetupInv, AdminInv, LoginInv, ChangeInv, Moved, Presented,
     SetupWrites, AdminWrites, ChangeWrites
<1>7. /\ maybe'.record \in SUBSET Records /\ maybe'.marker \in SUBSET Markers /\ maybe'.code \in SUBSET BOOLEAN
      /\ "none" \in maybe'.marker => "none" \in maybe.marker
      /\ disk' \in Disks /\ faults' \in Nat
  BY <1>1, <1>2, <1>4, DiskTypes DEF TypeOK
<1> QED  BY <1>1, <1>2, <1>3, <1>4, <1>5, <1>6, <1>7, HolderWorks DEF ChangeWrites

\* A failing call ends the request and leaves the files as they are.
LEMMA TaskFailsStep ==
    ASSUME IInv, NEW c \in Clients, TaskFails(c) PROVE IInv'
<1>1. permit = c /\ inner = Nobody /\ TypeOK /\ req[c].at # "csync"
  BY HolderIsBusy, InnerIsFree DEF IInv, TaskFails, SetupWrites, AdminWrites, ChangeWrites
<1>2. Ended(c) /\ permit' = Nobody
  BY <1>1, FinishStep DEF TaskFails, Texts
<1>3. UNCHANGED <<disk, maybe, window, sessions, failed, told, inner>> /\ faults' \in Nat
  BY <1>1 DEF TaskFails, Fault, diskVars, memVars, TypeOK
<1> QED  BY <1>1, <1>2, <1>3, HolderQuits DEF IInv, SessionInv, TypeOK

\* A session is issued under the password on the disk, and after the claim.
LEMMA IssueActionStep ==
    ASSUME IInv, NEW c \in Clients, Issue(c) PROVE IInv'
<1>1. /\ permit = c /\ inner = Nobody /\ TypeOK /\ req[c] \in Request /\ req[c].at = "issue"
      /\ disk.record = Presented(c) /\ disk.record \in Passwords /\ Claimed
  BY HolderIsBusy, InnerIsFree DEF IInv, Issue, AdminInv, ChangeWrites
<1>2. UNCHANGED <<disk, maybe, window, failed, told, inner, faults>>
  BY DEF Issue, diskVars
<1>3. CASE Ended(c) /\ permit' = Nobody /\ sessions' = sessions
  BY <1>1, <1>2, <1>3, HolderQuits DEF IInv, SessionInv, TypeOK
<1>4. CASE Ended(c) /\ permit' = Nobody /\ IssueSession(c, Presented(c))
  <2>1. /\ sessions' \in Seq(Session) /\ Len(sessions') =< MaxSessions
        /\ \A i \in DOMAIN sessions' :
              sessions'[i].under = disk.record \/ \E j \in DOMAIN sessions : sessions'[i].under = sessions[j].under
    BY <1>1, <1>4, IssueStep
  <2>2. \A d \in Clients : req[d].at # "csync"
    BY <1>1, IdleOthers
  <2>3. SessionInv'
    BY <1>1, <1>2, <2>1, <2>2 DEF IInv, SessionInv, Claimed
  <2>4. TypeOK'  BY <1>1, <1>2, <1>4, <2>1 DEF TypeOK, Ended
  <2>5. LockInv'  BY <1>1, <1>2, <1>4, HolderEnds
  <2> QED  BY <1>1, <1>4, <2>3, <2>4, <2>5, HolderSteps, IdleInv DEF Ended
<1> QED  BY <1>1, <1>3, <1>4, FinishStep DEF Issue, Presented, Texts

-----------------------------------------------------------------------------
(* The steps of a login.                                                   *)

\* Only a login outside the second after a failure goes on to verify.
LEMMA LoginThrottleStep ==
    ASSUME IInv, NEW c \in Clients, LoginThrottle(c) PROVE IInv'
<1>1. /\ permit = c /\ inner = Nobody /\ TypeOK /\ req[c] # Idle /\ req[c].at = "throttle"
      /\ req[c].guess \in Passwords /\ req[c].new = NoPassword
  BY HolderIsBusy DEF IInv, LoginThrottle, LoginInv
<1>2. UNCHANGED <<disk, maybe, window, sessions, failed, told, inner, faults>>
  BY DEF LoginThrottle, diskVars, memVars
<1>3. CASE ~failed /\ Go(c, "verify") /\ UNCHANGED <<permit, answer>>
  <2>1. Moved(c, "verify")  BY <1>1, <1>3, GoStep DEF Blocking
  <2>2. (SetupInv(c) /\ AdminInv(c) /\ LoginInv(c) /\ ChangeInv(c))'
    BY <1>1, <1>2, <1>3, <2>1 DEF SetupInv, AdminInv, LoginInv, ChangeInv, Moved,
       SetupWrites, AdminWrites, ChangeWrites
  <2> QED  BY <1>1, <1>2, <1>3, <2>1, <2>2, HolderWorks DEF ChangeWrites, TypeOK, Claimed
<1>4. CASE Ended(c) /\ permit' = Nobody
  BY <1>1, <1>2, <1>4, HolderQuits DEF IInv, SessionInv, TypeOK
<1> QED  BY <1>1, <1>3, <1>4, FinishStep DEF LoginThrottle, Texts

\* A login that goes on to the marker has presented the password on the disk.
LEMMA LoginVerifyStep ==
    ASSUME IInv, NEW c \in Clients, LoginVerify(c) PROVE IInv'
<1>1. /\ permit = c /\ inner = Nobody /\ TypeOK /\ req[c] # Idle /\ ~failed
      /\ req[c].guess \in Passwords /\ req[c].new = NoPassword
  BY HolderIsBusy, InnerIsFree DEF IInv, LoginVerify, LoginInv, ChangeWrites
<1>2. UNCHANGED <<disk, maybe, window, sessions, failed, told, inner, permit, answer>> /\ faults' \in Nat
  BY <1>1 DEF LoginVerify, diskVars, memVars, Fault, TypeOK
<1>3. CASE req[c].guess = disk.record /\ Go(c, "marker")
  <2>1. Moved(c, "marker")  BY <1>1, <1>3, GoStep DEF Blocking, AdminWrites
  <2>2. (SetupInv(c) /\ AdminInv(c) /\ LoginInv(c) /\ ChangeInv(c))'
    BY <1>1, <1>2, <1>3, <2>1 DEF SetupInv, AdminInv, LoginInv, ChangeInv, Moved, Presented,
       SetupWrites, AdminWrites, ChangeWrites
  <2> QED  BY <1>1, <1>2, <2>1, <2>2, HolderWorks DEF ChangeWrites, TypeOK, Claimed
<1>4. CASE Go(c, "wrong")
  <2>1. Moved(c, "wrong")  BY <1>1, <1>4, GoStep DEF Handler
  <2>2. (SetupInv(c) /\ AdminInv(c) /\ LoginInv(c) /\ ChangeInv(c))'
    BY <1>1, <1>2, <2>1 DEF SetupInv, AdminInv, LoginInv, ChangeInv, Moved,
       SetupWrites, AdminWrites, ChangeWrites
  <2> QED  BY <1>1, <1>2, <2>1, <2>2, HolderWorks DEF ChangeWrites, TypeOK, Claimed
<1> QED  BY <1>3, <1>4 DEF LoginVerify

\* A wrong password starts the second, and only when none is running.
LEMMA LoginWrongStep ==
    ASSUME IInv, NEW c \in Clients, LoginWrong(c) PROVE IInv'
<1>1. permit = c /\ inner = Nobody /\ TypeOK /\ req[c].at = "wrong" /\ ~failed /\ told = 0
  BY HolderIsBusy, InnerIsFree DEF IInv, LoginWrong, LoginInv, ChangeWrites, SessionInv
<1>2. Ended(c) /\ permit' = Nobody
  BY <1>1, FinishStep DEF LoginWrong, Texts
<1>3. UNCHANGED <<disk, maybe, window, sessions, inner, faults>>
  BY DEF LoginWrong, diskVars
<1>4. (failed' = failed /\ told' = told) \/ (failed' = TRUE /\ told' = told + 1)
  BY DEF LoginWrong
<1>5. faults' \in Nat /\ failed' \in BOOLEAN /\ told' \in Nat /\ (told' = 0 \/ (told' = 1 /\ failed'))
  <2>1. faults' \in Nat  BY <1>1, <1>3 DEF TypeOK
  <2>2. CASE failed' = failed /\ told' = told  BY <1>1, <2>1, <2>2 DEF TypeOK
  <2>3. CASE failed' = TRUE /\ told' = told + 1  BY <1>1, <2>1, <2>3
  <2> QED  BY <1>4, <2>2, <2>3
<1> QED  BY <1>1, <1>2, <1>3, <1>5, HolderQuits

-----------------------------------------------------------------------------
(* The steps of a password change behind its permit.                       *)

\* A change that goes on to write has presented the password on the disk in a
\* live session, so the router is claimed.
LEMMA ChangeLockStep ==
    ASSUME IInv, NEW c \in Clients, ChangeLock(c) PROVE IInv'
<1>1. /\ permit = c /\ inner = Nobody /\ TypeOK /\ req[c] # Idle /\ req[c].at = "clock"
      /\ req[c].guess \in Passwords /\ req[c].new \in Passwords
  BY HolderIsBusy DEF IInv, ChangeLock, ChangeInv
<1>2. UNCHANGED <<disk, maybe, window, sessions>> /\ faults' \in Nat
  BY <1>1 DEF ChangeLock, diskVars, Fault, TypeOK
<1>3. CASE /\ Live(c) /\ ~failed /\ req[c].guess = disk.record /\ Go(c, "cwrite") /\ inner' = c
           /\ UNCHANGED <<failed, told, permit, answer>>
  <2>1. Moved(c, "cwrite")  BY <1>1, <1>3, GoStep DEF Blocking, ChangeWrites
  <2>2. sessions # <<>>  BY <1>3 DEF Live
  <2>3. Claimed  BY <2>2 DEF IInv, SessionInv
  <2>4. \A d \in Clients : req[d].at # "csync"  BY <1>1, IdleOthers
  <2>5. SessionInv'  BY <1>2, <1>3, <2>4 DEF IInv, SessionInv, Claimed
  <2>6. TypeOK'  BY <1>1, <1>2, <1>3, <2>1 DEF TypeOK, Moved
  <2>7. LockInv'  BY <1>1, <1>3, <2>1, HolderMoves DEF ChangeWrites
  <2>8. (SetupInv(c) /\ AdminInv(c) /\ LoginInv(c) /\ ChangeInv(c))'
    BY <1>1, <1>2, <1>3, <2>1, <2>3 DEF SetupInv, AdminInv, LoginInv, ChangeInv, Moved, Claimed,
       SetupWrites, AdminWrites, ChangeWrites
  <2> QED  BY <1>1, <2>1, <2>5, <2>6, <2>7, <2>8, HolderSteps DEF Moved
<1>4. CASE Ended(c) /\ permit' = Nobody /\ inner' = inner /\ UNCHANGED <<failed, told>>
  BY <1>1, <1>2, <1>4, HolderQuits DEF IInv, SessionInv, TypeOK
<1>5. CASE Ended(c) /\ permit' = Nobody /\ inner' = inner /\ ~failed /\ failed' = TRUE /\ told' = told + 1
  BY <1>1, <1>2, <1>5, HolderQuits DEF IInv, SessionInv, TypeOK
<1> QED  BY <1>1, <1>3, <1>4, <1>5, FinishStep DEF ChangeLock, Texts

\* The claim stands when a password takes the place of another.
LEMMA ChangeWriteStep ==
    ASSUME IInv, NEW c \in Clients, ChangeWrite(c) PROVE IInv'
<1>1. /\ permit = c /\ inner = c /\ TypeOK /\ req[c] # Idle /\ ~failed /\ Claimed
      /\ req[c].guess \in Passwords /\ req[c].new \in Passwords
  BY HolderIsBusy DEF IInv, ChangeWrite, ChangeInv, LoginInv, ChangeWrites, LockInv
<1>2. UNCHANGED <<window, sessions, failed, told, inner, permit, answer, faults>>
  BY DEF ChangeWrite, memVars
<1>3. Moved(c, "csync")  BY <1>1, GoStep DEF ChangeWrite, Blocking, ChangeWrites
<1>4. /\ disk' \in Disks /\ DOMAIN maybe' = Files /\ \A g \in Files : disk'[g] \in maybe'[g]
      /\ disk'.record = req[c].new
      /\ maybe'.record = maybe.record \cup {req[c].new} /\ maybe'.marker = maybe.marker
      /\ maybe'.code = maybe.code
  BY <1>1, PutStep DEF ChangeWrite, Files, Records
<1>5. Claimed'  BY <1>1, <1>4, PasswordAssumption DEF Claimed
<1>6. TypeOK'  BY <1>1, <1>2, <1>3, <1>4 DEF TypeOK, Moved, Records
<1>7. LockInv'  BY <1>1, <1>2, <1>3, HolderMoves DEF ChangeWrites
<1>8. SessionInv'  BY <1>2, <1>3, <1>5 DEF IInv, SessionInv, Moved
<1>9. (SetupInv(c) /\ AdminInv(c) /\ LoginInv(c) /\ ChangeInv(c))'
  BY <1>1, <1>2, <1>3, <1>4, <1>5 DEF SetupInv, AdminInv, LoginInv, ChangeInv, Moved,
     SetupWrites, AdminWrites, ChangeWrites
<1> QED  BY <1>1, <1>3, <1>6, <1>7, <1>8, <1>9, HolderSteps DEF Moved

\* A record that could not be renamed into place is the old one.
LEMMA ChangeWriteFailsStep ==
    ASSUME IInv, NEW c \in Clients, ChangeWriteFails(c) PROVE IInv'
<1>1. permit = c /\ TypeOK /\ req[c].at # "csync"
  BY HolderIsBusy DEF IInv, ChangeWriteFails
<1>2. Ended(c) /\ permit' = Nobody
  BY <1>1, FinishStep DEF ChangeWriteFails, Texts
<1>3. UNCHANGED <<disk, maybe, window, sessions, failed, told>> /\ inner' = Nobody /\ faults' \in Nat
  BY <1>1 DEF ChangeWriteFails, Fault, diskVars, TypeOK
<1> QED  BY <1>1, <1>2, <1>3, HolderQuits DEF IInv, SessionInv, TypeOK

\* The end of a change whose record is out: the sessions are new or none.
LEMMA ChangeEnds ==
    ASSUME IInv, NEW c \in Clients, permit = c, Claimed', disk' \in Disks, DOMAIN maybe' = Files,
           \A f \in Files : disk'[f] \in maybe'[f],
           maybe'.record \in SUBSET Records, maybe'.marker \in SUBSET Markers, maybe'.code \in SUBSET BOOLEAN,
           Ended(c), permit' = Nobody, inner' = Nobody, window' = window, faults' \in Nat,
           sessions' \in Seq(Session), Len(sessions') =< MaxSessions,
           \A i \in DOMAIN sessions' : sessions'[i].under = disk'.record,
           ~failed, failed' = FALSE, told' = told
    PROVE  IInv'
<1>1. TypeOK'  BY DEF IInv, TypeOK, Ended
<1>2. LockInv'  BY HolderEnds
<1>3. SessionInv'  BY DEF IInv, SessionInv
<1> QED  BY <1>1, <1>2, <1>3, HolderSteps, IdleInv DEF Ended

\* After the sync the one session left is under the new password.
LEMMA ChangeSyncStep ==
    ASSUME IInv, NEW c \in Clients, ChangeSync(c) PROVE IInv'
<1>1. /\ permit = c /\ TypeOK /\ req[c] \in Request /\ Claimed /\ ~failed
      /\ req[c].new \in Passwords /\ disk.record = req[c].new
  BY HolderIsBusy DEF IInv, ChangeSync, ChangeInv, LoginInv, ChangeWrites
<1>2. Ended(c) /\ permit' = Nobody
  BY <1>1, FinishStep DEF ChangeSync, Texts
<1>3. /\ disk' = disk /\ DOMAIN maybe' = Files /\ \A f \in Files : disk'[f] \in maybe'[f]
      /\ maybe'.record = {disk.record} /\ maybe'.marker = {disk.marker} /\ maybe'.code = {disk.code}
  BY <1>1, SyncStep DEF ChangeSync
<1>4. Claimed'  BY <1>1, SyncKeepsClaim DEF ChangeSync
<1>5. /\ sessions' \in Seq(Session) /\ Len(sessions') = 1
      /\ \A i \in DOMAIN sessions' : sessions'[i].under = disk'.record
  <2> DEFINE s == NewSession(c, req[c].new)
  <2>1. s \in Session /\ s.under = req[c].new  BY <1>1 DEF NewSession, Session, Request
  <2>2. sessions' = <<s>>  BY DEF ChangeSync
  <2> HIDE DEF s
  <2> QED  BY <1>1, <1>3, <2>1, <2>2
<1>6. /\ maybe'.record \in SUBSET Records /\ maybe'.marker \in SUBSET Markers /\ maybe'.code \in SUBSET BOOLEAN
      /\ disk' \in Disks /\ window' = window /\ faults' \in Nat /\ 1 =< MaxSessions
      /\ failed' = FALSE /\ told' = told /\ inner' = Nobody
  BY <1>1, <1>3, DiskTypes, SessionsAssumption DEF ChangeSync, TypeOK
<1> QED  BY <1>1, <1>2, <1>3, <1>4, <1>5, <1>6, ChangeEnds

\* When the sync fails nobody stays logged in.
LEMMA ChangeSyncFailsStep ==
    ASSUME IInv, NEW c \in Clients, ChangeSyncFails(c) PROVE IInv'
<1>1. permit = c /\ TypeOK /\ Claimed /\ ~failed
  BY HolderIsBusy DEF IInv, ChangeSyncFails, ChangeInv, LoginInv, ChangeWrites
<1>2. Ended(c) /\ permit' = Nobody
  BY <1>1, FinishStep DEF ChangeSyncFails, Texts
<1>3. /\ UNCHANGED <<disk, maybe, window, failed, told>> /\ inner' = Nobody /\ faults' \in Nat
      /\ sessions' = <<>>
  BY <1>1 DEF ChangeSyncFails, Fault, diskVars, TypeOK
<1>4. Claimed' /\ failed' = FALSE  BY <1>1, <1>3 DEF Claimed, TypeOK
<1>5. sessions' \in Seq(Session) /\ Len(sessions') =< MaxSessions
      /\ \A i \in DOMAIN sessions' : sessions'[i].under = disk'.record
  BY <1>3, SessionsAssumption
<1>6. /\ disk' \in Disks /\ DOMAIN maybe' = Files /\ \A f \in Files : disk'[f] \in maybe'[f]
      /\ maybe'.record \in SUBSET Records /\ maybe'.marker \in SUBSET Markers /\ maybe'.code \in SUBSET BOOLEAN
  BY <1>1, <1>3 DEF TypeOK
<1> QED  BY <1>1, <1>2, <1>3, <1>4, <1>5, <1>6, ChangeEnds

-----------------------------------------------------------------------------
(* Steps that hold no permit.                                              *)

\* What a step without the permit may do to the request of d.
Harmless(d) ==
    \/ req'[d] = req[d]
    \/ /\ req[d] # Idle /\ req'[d] # Idle
       /\ req'[d].at = req[d].at /\ req'[d].guess = req[d].guess /\ req'[d].new = req[d].new
    \/ req[d].at \in {"idle", "cpermit", "completesync"} /\ req'[d] = Idle
    \/ /\ req[d] = Idle /\ req'[d] # Idle /\ req'[d].at \in {"cpermit", "completesync"}
       /\ req'[d].at = "cpermit" => req'[d].guess \in Passwords /\ req'[d].new \in Passwords

\* What it may do to the files: the end of onboarding and a sync.
FilesKept ==
    /\ disk'.record = disk.record /\ disk'.code = disk.code
    /\ disk.marker # "admin" => disk'.marker # "admin"
    /\ "admin" \notin maybe.marker => "admin" \notin maybe'.marker
    /\ NoPassword \notin maybe.record => NoPassword \notin maybe'.record
    /\ Claimed => Claimed'
    /\ "none" \in maybe'.marker => Claimed'

\* What it may do to the memory: sessions and the mark of a failure may go.
MemoryKept ==
    /\ sessions = <<>> => sessions' = <<>>
    /\ \A k \in DOMAIN sessions' : \E j \in DOMAIN sessions : sessions'[k].under = sessions[j].under
    /\ failed' => failed
    /\ told' = 0 \/ (told' = 1 /\ failed')

\* The request of one client ends or begins outside the locks.
LEMMA QuietStep ==
    ASSUME IInv, TypeOK', \A d \in Clients : Harmless(d), FilesKept, MemoryKept, UNCHANGED <<permit, inner>>
    PROVE  IInv'
<1>1. LockInv'
  <2>1. ASSUME NEW d \in Clients
        PROVE  (Busy(d) <=> Busy(d)') /\ (req[d].at \in ChangeWrites <=> req'[d].at \in ChangeWrites)
    <3>1. Harmless(d) /\ (req[d] = Idle <=> req[d].at = "idle")
      BY IdleIsNoRequest DEF IInv, TypeOK, Request, Blocking, Handler, SetupWrites, AdminWrites, ChangeWrites
    <3> QED  BY <3>1, IdleIsNoRequest DEF Busy, Harmless, ChangeWrites
  <2> QED  BY <2>1 DEF IInv, LockInv
<1>2. SessionInv'
  <2>1. ASSUME \A c \in Clients : req'[c].at # "csync" PROVE \A c \in Clients : req[c].at # "csync"
    BY <2>1, IdleIsNoRequest DEF Harmless
  <2> QED  BY <2>1 DEF IInv, SessionInv, FilesKept, MemoryKept
<1>3. ASSUME NEW d \in Clients PROVE SetupInv(d)' /\ AdminInv(d)'
  <2>1. Harmless(d) /\ SetupInv(d) /\ AdminInv(d)  BY DEF IInv
  <2> QED  BY <2>1, IdleIsNoRequest
           DEF Harmless, FilesKept, MemoryKept, SetupInv, AdminInv, Presented, SetupWrites, AdminWrites
<1>4. ASSUME NEW d \in Clients PROVE LoginInv(d)' /\ ChangeInv(d)'
  <2>1. Harmless(d) /\ LoginInv(d) /\ ChangeInv(d)  BY DEF IInv
  <2> QED  BY <2>1, IdleIsNoRequest
           DEF Harmless, FilesKept, MemoryKept, LoginInv, ChangeInv, ChangeWrites
<1> QED  BY <1>1, <1>2, <1>3, <1>4 DEF IInv

\* Files that no step touches are kept, and so is the memory.
LEMMA SameFiles ==
    ASSUME IInv, UNCHANGED <<disk, maybe>>
    PROVE  FilesKept
BY DEF IInv, SessionInv, FilesKept, Claimed

\* The same for the memory.
LEMMA SameMemory ==
    ASSUME IInv, UNCHANGED <<sessions, failed, told>>
    PROVE  MemoryKept
BY DEF IInv, SessionInv, MemoryKept

\* A request without the permit is answered and nothing else happens.
LEMMA QuietReply ==
    ASSUME IInv, NEW c \in Clients, req[c].at \in {"idle", "cpermit", "completesync"}, Ended(c),
           UNCHANGED <<disk, maybe, window, sessions, failed, told, permit, inner>>, faults' \in Nat
    PROVE  IInv'
<1>1. TypeOK'  BY DEF IInv, TypeOK, Ended
<1>2. \A d \in Clients : Harmless(d)  BY DEF Ended, Harmless
<1> QED  BY <1>1, <1>2, QuietStep, SameFiles, SameMemory

\* The texts with which the middleware refuses a request.
LEMMA RefusalText ==
    ASSUME NEW c \in Clients PROVE Refusal(c) \in Texts
BY DEF Refusal, Texts

\* A set-up or a login takes the permit that nobody has.
LEMMA PermitTaken ==
    ASSUME IInv, NEW c \in Clients, permit = Nobody, permit' = c, TypeOK',
           UNCHANGED <<disk, maybe, sessions, failed, told, inner>>,
           req'[c] # Idle, req'[c].at \in {"check", "throttle", "clock"},
           req'[c].at \in {"check", "clock"} => req'[c].new \in Passwords,
           req'[c].at \in {"throttle", "clock"} => req'[c].guess \in Passwords,
           req'[c].at = "throttle" => req'[c].new = NoPassword,
           \A d \in Clients \ {c} : req'[d] = req[d]
    PROVE  IInv'
<1>1. \A d \in Clients : req[d].at \in {"idle", "cpermit", "completesync"}
  BY ClientsAssumption, IdleIsNoRequest DEF IInv, LockInv, Busy
<1>2. inner = Nobody
  BY <1>1 DEF IInv, TypeOK, LockInv, ChangeWrites
<1>3. LockInv'
  <2>1. ASSUME NEW d \in Clients
        PROVE  (Busy(d)' <=> d = c) /\ req'[d].at \notin ChangeWrites
    <3>1. ~Busy(d) /\ req[d].at \notin ChangeWrites
      BY <1>1, ClientsAssumption DEF IInv, LockInv, ChangeWrites
    <3> QED  BY <3>1 DEF Busy, ChangeWrites
  <2> QED  BY <1>2, <2>1, ClientsAssumption DEF LockInv
<1>4. SessionInv'
  BY <1>1 DEF IInv, SessionInv, Claimed
<1>5. (SetupInv(c) /\ AdminInv(c) /\ LoginInv(c) /\ ChangeInv(c))'
  BY DEF SetupInv, AdminInv, LoginInv, ChangeInv, SetupWrites, AdminWrites, ChangeWrites
<1>6. ASSUME NEW d \in Clients \ {c} PROVE (SetupInv(d) /\ AdminInv(d) /\ LoginInv(d) /\ ChangeInv(d))'
  BY <1>1 DEF IInv, SetupInv, AdminInv, LoginInv, ChangeInv, SetupWrites, AdminWrites, ChangeWrites
<1> QED  BY <1>3, <1>4, <1>5, <1>6 DEF IInv

\* A set-up begins.
LEMMA SetupStep ==
    ASSUME IInv, NEW c \in Clients, Setup(c) PROVE IInv'
<1>1. TypeOK /\ req[c] = Idle /\ req[c].at = "idle"  BY IdleIsNoRequest DEF IInv, Setup
<1>2. UNCHANGED <<disk, maybe, window, sessions, failed, told, inner, faults>>
  BY DEF Setup, diskVars, memVars
<1>3. ASSUME NEW p \in Passwords, Begin(c, "check", NoPassword, p), permit = Nobody, permit' = c, answer' = answer
      PROVE  IInv'
  <2>1. /\ req' \in [Clients -> {Idle} \cup Request]
        /\ req'[c] # Idle /\ req'[c].at = "check" /\ req'[c].new = p
        /\ \A d \in Clients \ {c} : req'[d] = req[d]
    BY <1>1, <1>3, BeginStep DEF Handler, Records
  <2>2. TypeOK'  BY <1>1, <1>2, <1>3, <2>1 DEF TypeOK
  <2> QED  BY <1>2, <1>3, <2>1, <2>2, PermitTaken
<1>4. CASE Reply(c, "auth_busy") /\ permit' = permit
  <2>1. Ended(c)  BY <1>1, <1>4, ReplyStep DEF Texts
  <2> QED  BY <1>1, <1>2, <1>4, <2>1, QuietReply DEF TypeOK
<1> QED  BY <1>3, <1>4 DEF Setup

\* A login begins.
LEMMA LoginStep ==
    ASSUME IInv, NEW c \in Clients, Login(c) PROVE IInv'
<1>1. TypeOK /\ req[c] = Idle /\ req[c].at = "idle"  BY IdleIsNoRequest DEF IInv, Login
<1>2. UNCHANGED <<disk, maybe, window, sessions, failed, told, inner, faults>>
  BY DEF Login, diskVars, memVars
<1>3. ASSUME NEW p \in Passwords, Begin(c, "throttle", p, NoPassword), permit = Nobody, permit' = c, answer' = answer
      PROVE  IInv'
  <2>1. /\ req' \in [Clients -> {Idle} \cup Request]
        /\ req'[c] # Idle /\ req'[c].at = "throttle" /\ req'[c].guess = p /\ req'[c].new = NoPassword
        /\ \A d \in Clients \ {c} : req'[d] = req[d]
    BY <1>1, <1>3, BeginStep DEF Handler, Records
  <2>2. TypeOK'  BY <1>1, <1>2, <1>3, <2>1 DEF TypeOK
  <2> QED  BY <1>2, <1>3, <2>1, <2>2, PermitTaken
<1>4. CASE Ended(c) /\ permit' = permit
  BY <1>1, <1>2, <1>4, QuietReply DEF TypeOK
<1> QED  BY <1>1, <1>3, <1>4, ReplyStep DEF Login, Texts

\* A password change is let in without the permit.
LEMMA ChangePasswordStep ==
    ASSUME IInv, NEW c \in Clients, ChangePassword(c) PROVE IInv'
<1>1. TypeOK /\ req[c] = Idle /\ req[c].at = "idle"  BY IdleIsNoRequest DEF IInv, ChangePassword
<1>2. UNCHANGED <<disk, maybe, window, sessions, failed, told, inner, permit, faults>>
  BY DEF ChangePassword, diskVars, memVars
<1>3. ASSUME NEW p \in Passwords, NEW q \in Passwords, Begin(c, "cpermit", p, q), answer' = answer
      PROVE  IInv'
  <2>1. /\ req' \in [Clients -> {Idle} \cup Request]
        /\ req'[c] # Idle /\ req'[c].at = "cpermit" /\ req'[c].guess = p /\ req'[c].new = q
        /\ \A d \in Clients \ {c} : req'[d] = req[d]
    BY <1>1, <1>3, BeginStep DEF Handler, Records
  <2>2. TypeOK'  BY <1>1, <1>2, <1>3, <2>1 DEF TypeOK
  <2>3. \A d \in Clients : Harmless(d)  BY <1>1, <2>1 DEF Harmless
  <2> QED  BY <1>2, <2>2, <2>3, QuietStep, SameFiles, SameMemory
<1>4. CASE Ended(c)
  BY <1>1, <1>2, <1>4, QuietReply DEF TypeOK
<1>5. Reply(c, Refusal(c)) => Ended(c)
  BY <1>1, RefusalText, ReplyStep
<1> QED  BY <1>3, <1>4, <1>5 DEF ChangePassword

\* A password change takes the permit or is refused.
LEMMA ChangePermitStep ==
    ASSUME IInv, NEW c \in Clients, ChangePermit(c) PROVE IInv'
<1>1. /\ TypeOK /\ req[c] # Idle /\ req[c].at = "cpermit"
      /\ req[c].guess \in Passwords /\ req[c].new \in Passwords
  BY DEF IInv, ChangePermit, ChangeInv
<1>2. UNCHANGED <<disk, maybe, window, sessions, failed, told, inner, faults>>
  BY DEF ChangePermit, diskVars, memVars
<1>3. CASE permit = Nobody /\ permit' = c /\ Go(c, "clock") /\ answer' = answer
  <2>1. Moved(c, "clock")  BY <1>1, <1>3, GoStep DEF Blocking
  <2>2. TypeOK'  BY <1>1, <1>2, <1>3, <2>1 DEF TypeOK, Moved
  <2> QED  BY <1>1, <1>2, <1>3, <2>1, <2>2, PermitTaken DEF Moved
<1>4. CASE Ended(c) /\ permit' = permit
  BY <1>1, <1>2, <1>4, QuietReply DEF TypeOK
<1> QED  BY <1>1, <1>3, <1>4, ReplyStep DEF ChangePermit, Texts

\* A request refused at the door changes nothing.
LEMMA RejectStep ==
    ASSUME IInv, NEW c \in Clients, Reject(c) PROVE IInv'
<1>1. TypeOK /\ req[c].at = "idle"  BY IdleIsNoRequest DEF IInv, Reject
<1>2. Ended(c)  BY <1>1, ReplyStep DEF Reject, Texts
<1>3. UNCHANGED <<disk, maybe, window, sessions, failed, told, inner, permit, faults>>
  BY DEF Reject, diskVars, memVars
<1> QED  BY <1>1, <1>2, <1>3, QuietReply DEF TypeOK

\* Neither does a question for the status.
LEMMA StatusStep ==
    ASSUME IInv, NEW c \in Clients, Status(c) PROVE IInv'
<1>1. TypeOK /\ req[c].at = "idle"  BY IdleIsNoRequest DEF IInv, Status
<1> DEFINE a == IF ~Configured THEN "setup" ELSE IF Live(c) THEN "authenticated" ELSE "login"
<1>2. a \in Texts  BY DEF Texts
<1>3. Reply(c, a)  BY DEF Status
<1> HIDE DEF a
<1>4. Ended(c)  BY <1>1, <1>2, <1>3, ReplyStep
<1>5. UNCHANGED <<disk, maybe, window, sessions, failed, told, inner, permit, faults>>
  BY DEF Status, diskVars, memVars
<1> QED  BY <1>1, <1>4, <1>5, QuietReply DEF TypeOK

\* A logout takes one session away.
LEMMA LogoutStep ==
    ASSUME IInv, NEW c \in Clients, Logout(c) PROVE IInv'
<1>1. TypeOK /\ req[c].at = "idle"  BY IdleIsNoRequest DEF IInv, Logout
<1>2. UNCHANGED <<disk, maybe, window, failed, told, inner, permit, faults>>
  BY DEF Logout, diskVars
<1>3. Ended(c)  BY <1>1, ReplyStep DEF Logout, Texts
<1>4. CASE sessions' = sessions
  BY <1>1, <1>2, <1>3, <1>4, QuietReply DEF TypeOK
<1>5. ASSUME NEW i \in DOMAIN sessions, sessions' = Without(sessions, i) PROVE IInv'
  <2>1. /\ sessions' \in Seq(Session) /\ Len(sessions') =< MaxSessions
        /\ sessions' # <<>> => sessions # <<>>
        /\ \A k \in DOMAIN sessions' : \E j \in DOMAIN sessions : sessions'[k].under = sessions[j].under
    BY <1>1, <1>5, WithoutStep
  <2>2. MemoryKept  BY <1>2, <2>1 DEF IInv, SessionInv, MemoryKept
  <2>3. TypeOK'  BY <1>1, <1>2, <1>3, <2>1 DEF TypeOK, Ended
  <2>4. \A d \in Clients : Harmless(d)  BY <1>1, <1>3 DEF Ended, Harmless
  <2> QED  BY <1>2, <2>2, <2>3, <2>4, QuietStep, SameFiles
<1> QED  BY <1>4, <1>5 DEF Logout

\* Onboarding is completed from a session, so on a claimed router.
LEMMA CompleteStep ==
    ASSUME IInv, NEW c \in Clients, Complete(c) PROVE IInv'
<1>1. TypeOK /\ req[c] = Idle /\ req[c].at = "idle"  BY IdleIsNoRequest DEF IInv, Complete
<1>2. UNCHANGED <<window, sessions, failed, told, inner, permit, faults>>
  BY DEF Complete, memVars
<1>3. CASE Ended(c) /\ UNCHANGED <<disk, maybe>>
  BY <1>1, <1>2, <1>3, QuietReply DEF TypeOK
<1>4. CASE /\ Refusal(c) = "none" /\ Put("marker", "none") /\ answer' = answer
           /\ Begin(c, "completesync", NoPassword, NoPassword)
  <2>1. sessions # <<>>  BY <1>4 DEF Refusal, Live
  <2>2. Claimed  BY <2>1 DEF IInv, SessionInv
  <2>3. /\ disk' \in Disks /\ DOMAIN maybe' = Files /\ \A g \in Files : disk'[g] \in maybe'[g]
        /\ disk'.record = disk.record /\ disk'.marker = "none" /\ disk'.code = disk.code
        /\ maybe'.record = maybe.record /\ maybe'.marker = maybe.marker \cup {"none"}
        /\ maybe'.code = maybe.code
    BY <1>1, <1>4, PutStep DEF Files, Markers
  <2>4. FilesKept  BY <2>2, <2>3 DEF FilesKept, Claimed
  <2>5. /\ req' \in [Clients -> {Idle} \cup Request]
        /\ req'[c] # Idle /\ req'[c].at = "completesync"
        /\ \A d \in Clients \ {c} : req'[d] = req[d]
    BY <1>1, <1>4, BeginStep DEF Handler, Records
  <2>6. \A d \in Clients : Harmless(d)  BY <1>1, <2>5 DEF Harmless
  <2>7. TypeOK'  BY <1>1, <1>2, <1>4, <2>3, <2>5 DEF TypeOK, Markers
  <2> QED  BY <1>2, <2>4, <2>6, <2>7, QuietStep, SameMemory
<1>5. Reply(c, Refusal(c)) => Ended(c)
  BY <1>1, RefusalText, ReplyStep
<1>6. Reply(c, "completion_rejected") => Ended(c)
  BY <1>1, ReplyStep DEF Texts
<1> QED  BY <1>3, <1>4, <1>5, <1>6 DEF Complete, diskVars

\* The sync after it may come at any point of another request.
LEMMA CompleteSyncStep ==
    ASSUME IInv, NEW c \in Clients, CompleteSync(c) PROVE IInv'
<1>1. TypeOK /\ req[c].at = "completesync"  BY DEF IInv, CompleteSync
<1>2. UNCHANGED <<window, sessions, failed, told, inner, permit>>
  BY DEF CompleteSync, memVars
<1>3. Ended(c)  BY <1>1, ReplyStep DEF CompleteSync, Texts
<1>4. CASE SyncDir /\ faults' = faults
  <2>1. /\ disk' = disk /\ DOMAIN maybe' = Files /\ \A f \in Files : disk'[f] \in maybe'[f]
        /\ maybe'.record = {disk.record} /\ maybe'.marker = {disk.marker} /\ maybe'.code = {disk.code}
    BY <1>1, <1>4, SyncStep
  <2>2. Claimed => Claimed'  BY <1>1, <1>4, SyncKeepsClaim
  <2>3. disk.record \in maybe.record /\ disk.marker \in maybe.marker  BY <1>1, DiskTypes
  <2>4. FilesKept  BY <2>1, <2>2, <2>3 DEF IInv, SessionInv, FilesKept
  <2>5. TypeOK'  BY <1>1, <1>2, <1>3, <1>4, <2>1, DiskTypes DEF TypeOK, Ended
  <2>6. \A d \in Clients : Harmless(d)  BY <1>1, <1>3 DEF Ended, Harmless
  <2> QED  BY <1>2, <2>4, <2>5, <2>6, QuietStep, SameMemory
<1>5. CASE Fault /\ UNCHANGED diskVars
  BY <1>1, <1>2, <1>3, <1>5, QuietReply DEF TypeOK, Fault, diskVars
<1> QED  BY <1>4, <1>5 DEF CompleteSync

\* A client that goes away leaves its task at work.
LEMMA DisconnectStep ==
    ASSUME IInv, NEW c \in Clients, Disconnect(c) PROVE IInv'
<1>1. TypeOK /\ req[c] \in Request  BY DEF IInv, Disconnect, TypeOK
<1>2. UNCHANGED <<disk, maybe, window, sessions, failed, told, inner, permit, answer, faults>>
  BY DEF Disconnect, diskVars, memVars
<1>3. /\ req'[c] \in Request /\ req'[c].at = req[c].at
      /\ req'[c].guess = req[c].guess /\ req'[c].new = req[c].new
      /\ req' \in [Clients -> {Idle} \cup Request]
      /\ \A d \in Clients \ {c} : req'[d] = req[d]
  BY <1>1 DEF Disconnect, TypeOK, Request
<1>4. TypeOK'  BY <1>1, <1>2, <1>3 DEF TypeOK
<1>5. \A d \in Clients : Harmless(d)  BY <1>1, <1>3, IdleIsNoRequest DEF Harmless
<1> QED  BY <1>2, <1>4, <1>5, QuietStep, SameFiles, SameMemory

-----------------------------------------------------------------------------
(* Around the agent.                                                       *)

\* With the memory gone only the files matter.
LEMMA MemoryGone ==
    ASSUME IInv, LoseMemory, disk' \in Disks, DOMAIN maybe' = Files, \A f \in Files : disk'[f] \in maybe'[f],
           maybe'.record \in SUBSET Records, maybe'.marker \in SUBSET Markers, maybe'.code \in SUBSET BOOLEAN,
           "none" \in maybe'.marker => Claimed',
           window' \in BOOLEAN, answer' = answer, faults' \in Nat
    PROVE  IInv'
<1>1. req' \in [Clients -> {Idle} \cup Request] /\ \A d \in Clients : req'[d] = Idle
  BY DEF LoseMemory
<1>2. sessions' = <<>> /\ failed' = FALSE /\ told' = 0 /\ inner' = Nobody /\ permit' = Nobody
  BY DEF LoseMemory
<1>3. sessions' \in Seq(Session) /\ Len(sessions') =< MaxSessions
      /\ \A i \in DOMAIN sessions' : sessions'[i].under = disk'.record
  BY <1>2, SessionsAssumption
<1>4. TypeOK'  BY <1>1, <1>2, <1>3 DEF IInv, TypeOK
<1>5. LockInv'  BY <1>1, <1>2, ClientsAssumption, IdleIsNoRequest DEF LockInv, Busy, ChangeWrites
<1>6. SessionInv'  BY <1>2, <1>3 DEF SessionInv
<1> QED  BY <1>1, <1>4, <1>5, <1>6, IdleInv DEF IInv

\* The set-up script, a restart and a power loss.
LEMMA CrashStep ==
    ASSUME IInv, SetupScript \/ Restart \/ PowerLoss PROVE IInv'
<1>1. TypeOK /\ LoseMemory /\ answer' = answer
  BY DEF IInv, SetupScript, Restart, PowerLoss
<1>2. faults' \in Nat /\ window' \in BOOLEAN
  <2>1. faults' \in Nat  BY <1>1 DEF SetupScript, Restart, PowerLoss, Fault, TypeOK
  <2>2. window' = TRUE \/ window' = window \/ window' = FALSE
    BY DEF SetupScript, Restart, PowerLoss
  <2>3. window' \in BOOLEAN  BY <1>1, <2>2 DEF TypeOK
  <2> QED  BY <2>1, <2>3
<1>3. CASE SetupScript
  <2>1. disk' \in Disks /\ disk'.marker = "admin"
    BY <1>1, <1>3 DEF SetupScript, TypeOK, Disks, Markers
  <2>2. maybe' = [f \in Files |-> {disk'[f]}]  BY <1>3 DEF SetupScript
  <2>3. /\ DOMAIN maybe' = Files /\ \A f \in Files : disk'[f] \in maybe'[f]
        /\ maybe'.record = {disk'.record} /\ maybe'.marker = {disk'.marker} /\ maybe'.code = {disk'.code}
    BY <2>2 DEF Files
  <2>4. maybe'.record \in SUBSET Records /\ maybe'.marker \in SUBSET Markers /\ maybe'.code \in SUBSET BOOLEAN
    BY <2>1, <2>3 DEF Disks
  <2> QED  BY <1>1, <1>2, <2>1, <2>3, <2>4, MemoryGone
<1>4. CASE Restart
  <2>1. disk' = disk /\ maybe' = maybe  BY <1>4 DEF Restart, diskVars
  <2> QED  BY <1>1, <1>2, <2>1, MemoryGone DEF IInv, SessionInv, Claimed, TypeOK
<1>5. CASE PowerLoss
  <2>1. PICK r \in maybe.record, k \in maybe.marker, b \in maybe.code :
             disk' = [record |-> r, marker |-> k, code |-> b]
    BY <1>5 DEF PowerLoss
  <2>2. r \in Records /\ k \in Markers /\ b \in BOOLEAN
    BY <1>1 DEF TypeOK
  <2>3. disk' \in Disks /\ disk'.record = r /\ disk'.marker = k /\ disk'.code = b
    BY <2>1, <2>2 DEF Disks
  <2>4. maybe' = [f \in Files |-> {disk'[f]}]  BY <1>5 DEF PowerLoss
  <2>5. /\ DOMAIN maybe' = Files /\ \A f \in Files : disk'[f] \in maybe'[f]
        /\ maybe'.record = {r} /\ maybe'.marker = {k} /\ maybe'.code = {b}
    BY <2>3, <2>4 DEF Files
  <2>6. "none" \in maybe'.marker => Claimed'
    BY <2>5 DEF IInv, SessionInv, Claimed
  <2>7. maybe'.record \in SUBSET Records /\ maybe'.marker \in SUBSET Markers /\ maybe'.code \in SUBSET BOOLEAN
    BY <2>2, <2>5
  <2> QED  BY <1>1, <1>2, <2>3, <2>5, <2>6, <2>7, MemoryGone
<1> QED  BY <1>3, <1>4, <1>5

\* The window closes, a second goes by, a session expires.
LEMMA TimeStep ==
    ASSUME IInv, WindowCloses \/ Elapse \/ Expire PROVE IInv'
<1>1. TypeOK /\ UNCHANGED <<disk, maybe, inner, permit, req, answer, faults>>
  BY DEF IInv, WindowCloses, Elapse, Expire, diskVars, memVars
<1>2. \A d \in Clients : Harmless(d)  BY <1>1 DEF Harmless
<1>3. CASE WindowCloses
  <2>1. UNCHANGED <<sessions, failed, told>> /\ window' = FALSE  BY <1>3 DEF WindowCloses, memVars
  <2>2. TypeOK'  BY <1>1, <2>1 DEF TypeOK
  <2> QED  BY <1>1, <1>2, <2>1, <2>2, QuietStep, SameFiles, SameMemory
<1>4. CASE Elapse
  <2>1. UNCHANGED <<sessions, window>> /\ failed' = FALSE /\ told' = 0  BY <1>4 DEF Elapse
  <2>2. TypeOK'  BY <1>1, <2>1 DEF TypeOK
  <2>3. MemoryKept  BY <2>1 DEF MemoryKept
  <2> QED  BY <1>1, <1>2, <2>2, <2>3, QuietStep, SameFiles
<1>5. CASE Expire
  <2>1. UNCHANGED <<window, failed, told>> /\ sessions # <<>> /\ sessions' = Tail(sessions)
    BY <1>5 DEF Expire
  <2>2. /\ sessions' \in Seq(Session) /\ Len(sessions') =< MaxSessions
        /\ \A k \in DOMAIN sessions' : \E j \in DOMAIN sessions : sessions'[k].under = sessions[j].under
    BY <1>1, <2>1, ExpireStep
  <2>3. TypeOK'  BY <1>1, <2>1, <2>2 DEF TypeOK
  <2>4. MemoryKept  BY <2>1, <2>2 DEF IInv, SessionInv, MemoryKept
  <2> QED  BY <1>1, <1>2, <2>3, <2>4, QuietStep, SameFiles
<1> QED  BY <1>3, <1>4, <1>5

-----------------------------------------------------------------------------
(* The theorems.                                                           *)

\* The freshly installed router.
LEMMA InitInv == Init => IInv
<1> SUFFICES ASSUME Init PROVE IInv  OBVIOUS
<1>1. req \in [Clients -> {Idle} \cup Request] /\ \A c \in Clients : req[c] = Idle
  BY DEF Init
<1>2. sessions = <<>> /\ failed = FALSE /\ told = 0 /\ permit = Nobody /\ inner = Nobody
  BY DEF Init
<1>3. sessions \in Seq(Session) /\ Len(sessions) =< MaxSessions
      /\ \A i \in DOMAIN sessions : sessions[i].under = disk.record
  BY <1>2, SessionsAssumption
<1>4. /\ disk \in Disks /\ DOMAIN maybe = Files /\ \A f \in Files : disk[f] \in maybe[f]
      /\ maybe.record = {NoPassword} /\ maybe.marker = {"admin"} /\ maybe.code = {TRUE}
  BY DEF Init, Disks, Files, Records, Markers
<1>5. window \in BOOLEAN /\ faults \in Nat /\ answer \in [to : Clients \cup {Nobody}, text : Texts]
  BY DEF Init, Texts
<1>6. TypeOK
  BY <1>1, <1>2, <1>3, <1>4, <1>5 DEF TypeOK, Records, Markers
<1>7. LockInv  BY <1>1, <1>2, ClientsAssumption, IdleIsNoRequest DEF LockInv, Busy, ChangeWrites
<1>8. SessionInv  BY <1>2, <1>3, <1>4 DEF SessionInv
<1>9. \A c \in Clients : SetupInv(c) /\ AdminInv(c) /\ LoginInv(c) /\ ChangeInv(c)
  BY <1>1, IdleIsNoRequest DEF SetupInv, AdminInv, LoginInv, ChangeInv, SetupWrites, AdminWrites, ChangeWrites
<1> QED  BY <1>6, <1>7, <1>8, <1>9 DEF IInv

\* Every step keeps the invariant.
LEMMA NextInv == IInv /\ [Next]_vars => IInv'
<1> SUFFICES ASSUME IInv, [Next]_vars PROVE IInv'  OBVIOUS
<1>1. CASE UNCHANGED vars
  <2>1. UNCHANGED <<disk, maybe, window, sessions, failed, told, inner, permit, req, answer, faults>>
    BY <1>1 DEF vars, diskVars, memVars
  <2>2. TypeOK'  BY <2>1 DEF IInv, TypeOK
  <2>3. \A d \in Clients : Harmless(d)  BY <2>1 DEF Harmless
  <2> QED  BY <2>1, <2>2, <2>3, QuietStep, SameFiles, SameMemory
<1>2. CASE Environment
  BY <1>2, CrashStep, TimeStep DEF Environment
<1>3. ASSUME NEW c \in Clients, Arrive(c) PROVE IInv'
  BY <1>3, SetupStep, LoginStep, ChangePasswordStep, LogoutStep, StatusStep, CompleteStep, RejectStep DEF Arrive
<1>4. ASSUME NEW c \in Clients, Proceed(c) PROVE IInv'
  BY <1>4, SetupCheckStep, WriteRecordStep, SyncRecordStep, CompleteMarkerStep, SyncMarkerStep, RemoveCodeStep,
     SyncCodeStep, TaskFailsStep, IssueActionStep, LoginThrottleStep, LoginVerifyStep, LoginWrongStep,
     ChangePermitStep, ChangeLockStep, ChangeWriteStep, ChangeWriteFailsStep, ChangeSyncStep,
     ChangeSyncFailsStep, CompleteSyncStep DEF Proceed
<1>5. ASSUME NEW c \in Clients, Disconnect(c) PROVE IInv'
  BY <1>5, DisconnectStep
<1> QED  BY <1>1, <1>2, <1>3, <1>4, <1>5 DEF Next

\* The inductive invariant holds in every state of Auth.
THEOREM AuthInvariant == Spec => []IInv
BY InitInv, NextInv, PTL DEF Spec

\* The permit and the mutex are always with a request that will give them back:
\* no disconnect, failing call or restart in the middle of a request leaves
\* Auth.hashing or Auth.inner taken.
THEOREM Locks == Spec => []LocksAreInUse
<1>1. IInv => LocksAreInUse
  <2> SUFFICES ASSUME IInv PROVE LocksAreInUse  OBVIOUS
  <2>1. TypeOK /\ LockInv  BY DEF IInv
  <2>2. ASSUME permit # Nobody PROVE req[permit] # Idle /\ req[permit].at \notin {"cpermit", "completesync"}
    BY <2>1, <2>2 DEF TypeOK, LockInv, Busy
  <2>3. ASSUME inner # Nobody PROVE inner = permit /\ req[inner].at \in ChangeWrites
    BY <2>1, <2>3, IdleIsNoRequest DEF TypeOK, LockInv, Busy, ChangeWrites
  <2> QED  BY <2>1, <2>2, <2>3 DEF LocksAreInUse
<1> QED  BY <1>1, AuthInvariant, PTL

\* Every session was issued under the password now on the router, whatever
\* logins and password changes race.
THEOREM Sessions == Spec => []SessionsFollowPassword
<1>1. IInv => SessionsFollowPassword
  BY ClientsAssumption DEF IInv, LockInv, SessionInv, SessionsFollowPassword, ChangeWrites
<1> QED  BY <1>1, AuthInvariant, PTL

\* No power loss undoes the claim of a router on which somebody is logged in.
THEOREM Claim == Spec => []ClaimOutlivesPowerLoss
<1>1. IInv => ClaimOutlivesPowerLoss
  BY DEF IInv, SessionInv, Claimed, ClaimOutlivesPowerLoss
<1> QED  BY <1>1, AuthInvariant, PTL

\* One wrong password a second, over all clients and both handlers.
THEOREM Throttle == Spec => []WrongPasswordsAreThrottled
<1>1. IInv => WrongPasswordsAreThrottled
  BY DEF IInv, SessionInv, WrongPasswordsAreThrottled
<1> QED  BY <1>1, AuthInvariant, PTL

-----------------------------------------------------------------------------
(* Who replaces the password, and what a change is told.                   *)

\* A request is moved by its own steps only.
LEMMA OwnRequest ==
    ASSUME TypeOK, NEW d \in Clients, Arrive(d) \/ Proceed(d) \/ Disconnect(d), NEW c \in Clients \ {d}
    PROVE  req'[c] = req[c]
<1>2. CASE \E a : Go(d, a) \/ Reply(d, a) \/ Finish(d, a)
  BY <1>2 DEF TypeOK, Go, Reply, Finish
<1>3. CASE \E a, p, q : Begin(d, a, p, q)
  BY <1>3 DEF TypeOK, Begin
<1>4. CASE Disconnect(d)
  BY <1>4 DEF TypeOK, Disconnect
<1>5. CASE Arrive(d)
  <2>1. (\E a : Reply(d, a)) \/ (\E a, p, q : Begin(d, a, p, q))
    BY <1>5 DEF Arrive, Setup, Login, ChangePassword, Logout, Status, Complete, Reject
  <2> QED  BY <1>2, <1>3, <2>1
<1>6. CASE Proceed(d)
  <2>1. \E a : Go(d, a) \/ Reply(d, a) \/ Finish(d, a)
    BY <1>6 DEF Proceed, SetupCheck, WriteRecord, SyncRecord, CompleteMarker, SyncMarker, RemoveCode, SyncCode,
       TaskFails, Issue, LoginThrottle, LoginVerify, LoginWrong, ChangePermit, ChangeLock, ChangeWrite,
       ChangeWriteFails, ChangeSync, ChangeSyncFails, CompleteSync
  <2> QED  BY <1>2, <2>1
<1> QED  BY <1>4, <1>5, <1>6

\* Only these steps replace the password record.
LEMMA RecordWriters ==
    ASSUME IInv, [Next]_vars, disk'.record # disk.record
    PROVE  PowerLoss \/ \E c \in Clients : WriteRecord(c) \/ ChangeWrite(c)
<1>1. TypeOK  BY DEF IInv
<1>2. disk' # disk  OBVIOUS
<1>3. ~SyncDir  BY <1>2 DEF SyncDir
<1>4. ASSUME Put("marker", "server") \/ Put("marker", "none") \/ Put("code", FALSE) PROVE FALSE
  BY <1>1, <1>4 DEF Put, TypeOK, Disks
<1>5. ~UNCHANGED vars  BY <1>2 DEF vars, diskVars
<1>6. CASE Environment
  <2>1. ~SetupScript  BY <1>1 DEF SetupScript, TypeOK, Disks
  <2> QED  BY <1>2, <1>6, <2>1 DEF Environment, Restart, WindowCloses, Elapse, Expire, diskVars
<1>7. ASSUME NEW c \in Clients, Arrive(c) PROVE FALSE
  BY <1>2, <1>4, <1>7 DEF Arrive, Setup, Login, ChangePassword, Logout, Status, Complete, Reject, diskVars
<1>8. ASSUME NEW c \in Clients, Proceed(c) PROVE WriteRecord(c) \/ ChangeWrite(c)
  BY <1>2, <1>3, <1>4, <1>8 DEF Proceed, SetupCheck, SyncRecord, CompleteMarker, SyncMarker, RemoveCode,
     SyncCode, TaskFails, Issue, LoginThrottle, LoginVerify, LoginWrong, ChangePermit, ChangeLock,
     ChangeWriteFails, ChangeSync, ChangeSyncFails, CompleteSync, diskVars
<1>9. ASSUME NEW c \in Clients, Disconnect(c) PROVE FALSE
  BY <1>2, <1>9 DEF Disconnect, diskVars
<1> QED  BY <1>5, <1>6, <1>7, <1>8, <1>9 DEF Next

\* A password is replaced by a request that presented it, or by a power loss
\* that brings an earlier one back; no second set-up gets that far.
THEOREM Replacement == Spec => PasswordReplacedByItsHolder
<1>1. ASSUME IInv, [Next]_vars, disk.record # NoPassword, disk'.record # disk.record
      PROVE  faults' > faults \/ \E c \in Clients : req[c] # Idle /\ req[c].guess = disk.record
  <2>1. CASE PowerLoss
    BY <1>1, <2>1 DEF PowerLoss, Fault, IInv, TypeOK
  <2>2. ASSUME NEW c \in Clients, WriteRecord(c) PROVE FALSE
    BY <1>1, <2>2 DEF WriteRecord, IInv, SetupInv
  <2>3. ASSUME NEW c \in Clients, ChangeWrite(c) PROVE req[c] # Idle /\ req[c].guess = disk.record
    BY <1>1, <2>3 DEF ChangeWrite, IInv, ChangeInv
  <2> QED  BY <1>1, <2>1, <2>2, <2>3, RecordWriters
<1> QED  BY <1>1, AuthInvariant, PTL DEF Spec, PasswordReplacedByItsHolder

\* What the three ends of a password change tell the client.
LEMMA ChangeEndsTruly ==
    ASSUME IInv, [Next]_vars, NEW c \in Clients, req[c] # Idle, req[c].at \in ChangeWrites,
           req'[c] = Idle, answer' # answer
    PROVE  \/ answer'.text = "authenticated" /\ maybe'.record = {req[c].new}
           \/ answer'.text = "password_change_uncertain" /\ disk'.record = req[c].new /\ sessions' = <<>>
           \/ answer'.text = "internal_error" /\ disk'.record = req[c].guess
<1>1. TypeOK  BY DEF IInv
<1>2. ~Environment /\ ~UNCHANGED vars
  BY DEF Environment, SetupScript, Restart, PowerLoss, WindowCloses, Elapse, Expire, vars
<1>3. Arrive(c) \/ Proceed(c) \/ Disconnect(c)
  BY <1>1, <1>2, OwnRequest DEF Next
<1>4. ~Arrive(c)
  BY DEF Arrive, Setup, Login, ChangePassword, Logout, Status, Complete, Reject
<1>5. ~Disconnect(c)
  BY DEF Disconnect
<1>6. ChangeWriteFails(c) \/ ChangeSync(c) \/ ChangeSyncFails(c)
  <2>1. ChangeWrite(c) \/ ChangeWriteFails(c) \/ ChangeSync(c) \/ ChangeSyncFails(c)
    BY <1>3, <1>4, <1>5 DEF Proceed, SetupCheck, WriteRecord, SyncRecord, CompleteMarker, SyncMarker, RemoveCode,
       SyncCode, TaskFails, Issue, LoginThrottle, LoginVerify, LoginWrong, ChangePermit, ChangeLock,
       CompleteSync, ChangeWrites, SetupWrites, AdminWrites
  <2> QED  BY <2>1 DEF ChangeWrite
<1>7. CASE ChangeWriteFails(c)
  <2>1. answer'.text = "internal_error"  BY <1>7 DEF ChangeWriteFails, Finish, Reply
  <2>2. disk'.record = req[c].guess  BY <1>7 DEF ChangeWriteFails, diskVars, IInv, ChangeInv
  <2> QED  BY <2>1, <2>2
<1>8. CASE ChangeSync(c)
  <2>1. answer'.text = "authenticated"  BY <1>8 DEF ChangeSync, Finish, Reply
  <2>2. maybe'.record = {req[c].new}  BY <1>1, <1>8, SyncStep DEF ChangeSync, IInv, ChangeInv
  <2> QED  BY <2>1, <2>2
<1>9. CASE ChangeSyncFails(c)
  <2>1. answer'.text = "password_change_uncertain"  BY <1>9 DEF ChangeSyncFails, Finish, Reply
  <2>2. disk'.record = req[c].new /\ sessions' = <<>>
    BY <1>9 DEF ChangeSyncFails, diskVars, IInv, ChangeInv
  <2> QED  BY <2>1, <2>2
<1> QED  BY <1>6, <1>7, <1>8, <1>9

\* A password change is told the truth about the record, on every way it ends.
THEOREM ChangeAnswers == Spec => ChangeAnswersAreTrue
<1> DEFINE Told == \A c \in Clients :
          req[c] # Idle /\ req[c].at \in ChangeWrites /\ req'[c] = Idle /\ answer' # answer =>
             \/ answer'.text = "authenticated" /\ maybe'.record = {req[c].new}
             \/ /\ answer'.text = "password_change_uncertain"
                /\ disk'.record = req[c].new /\ sessions' = <<>>
             \/ answer'.text = "internal_error" /\ disk'.record = req[c].guess
<1>1. IInv /\ [Next]_vars => Told
  BY ChangeEndsTruly
<1>2. ChangeAnswersAreTrue <=> [][Told]_vars
  BY DEF ChangeAnswersAreTrue
<1> HIDE DEF Told
<1> QED  BY <1>1, <1>2, AuthInvariant, PTL DEF Spec
=============================================================================
