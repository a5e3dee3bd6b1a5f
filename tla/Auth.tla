-------------------------------- MODULE Auth --------------------------------
(***************************************************************************)
(* The administrator's password, the sessions and the onboarding marker     *)
(* (auth.rs, onboarding.rs).  Three files of /etc/gofro have to move         *)
(* together: the password record, the marker onboarding-state and the       *)
(* one-time setup-code; the sessions live in memory.                        *)
(*                                                                         *)
(* Set-up, login and password change each hold the one hashing permit; a    *)
(* password change holds the mutex of the sessions as well.  A file is       *)
(* replaced by rename, and until the directory is synced a power loss may   *)
(* leave any version since the last sync.  Every call on the disk is a step *)
(* that may fail; a client may go away while its blocking task runs on; the *)
(* agent may restart between any two steps.                                *)
(*                                                                         *)
(* A password stands for its record (the salted hash is cryptography), and  *)
(* a session also carries the password it was issued under.                *)
(***************************************************************************)
EXTENDS Integers, Sequences, FiniteSets

CONSTANTS
    Clients, Passwords, NoPassword, Nobody,
    MaxSessions,     \* 32
    MaxFaults        \* bound: failing calls, restarts and power losses

ASSUME ClientsAssumption == Nobody \notin Clients /\ IsFiniteSet(Clients)
ASSUME PasswordAssumption == NoPassword \notin Passwords
ASSUME SessionsAssumption == MaxSessions \in Nat \ {0} /\ MaxFaults \in Nat

VARIABLES
    disk,       \* the three files as the programs see them
    maybe,      \* per file, the versions a power loss may leave
    window,     \* onboarding-window names this boot and has not run out
    sessions,   \* Inner.sessions, oldest first
    failed,     \* Inner.failed lies less than a second back
    told,       \* wrong passwords answered since then (history)
    permit,     \* who holds Auth.hashing
    inner,      \* the password change that holds the mutex Auth.inner
    req,        \* the request of each client
    answer,     \* the last answer given
    faults

diskVars == <<disk, maybe>>
memVars  == <<sessions, failed, told, inner>>
vars == <<diskVars, window, memVars, permit, req, answer, faults>>

Records == Passwords \cup {NoPassword}
Markers == {"admin", "server", "none"}
Disks   == [record : Records, marker : Markers, code : BOOLEAN]
Files   == {"record", "marker", "code"}
\* A session stands for its random token: its holder is the client with the
\* token in its cookie, if any still has it.
Session == [holder : Clients \cup {Nobody}, under : Passwords]

Idle == [at |-> "idle"]

\* The steps of a blocking task; the other steps belong to the handler.
SetupWrites  == {"write", "sync"}
AdminWrites  == {"marker", "markersync", "code", "codesync"}
ChangeWrites == {"cwrite", "csync"}
Blocking     == SetupWrites \cup AdminWrites \cup ChangeWrites \cup {"verify", "clock"}
Handler      == {"check", "throttle", "wrong", "issue", "cpermit", "completesync"}

Request == [at : Blocking \cup Handler, guess : Records, new : Records, gone : BOOLEAN]

Texts == {"none", "request_rejected", "auth_busy", "internal_error", "authenticated",
          "setup", "login", "complete", "session_expired", "forbidden", "onboarding_required",
          "setup_completed", "setup_closed", "setup_unavailable", "invalid_setup_code",
          "setup_required", "login_throttled", "invalid_password", "invalid_current_password",
          "password_change_uncertain", "completion_rejected"}

TypeOK ==
    /\ disk \in Disks
    /\ DOMAIN maybe = Files
    /\ maybe.record \in SUBSET Records /\ maybe.marker \in SUBSET Markers
    /\ maybe.code \in SUBSET BOOLEAN /\ \A f \in Files : disk[f] \in maybe[f]
    /\ window \in BOOLEAN 
    /\ sessions \in Seq(Session) /\ Len(sessions) <= MaxSessions
    /\ failed \in BOOLEAN /\ told \in Nat
    /\ permit \in Clients \cup {Nobody} /\ inner \in Clients \cup {Nobody}
    /\ req \in [Clients -> {Idle} \cup Request]
    /\ answer \in [to : Clients \cup {Nobody}, text : Texts]
    /\ faults \in Nat

-----------------------------------------------------------------------------
(* The directory.                                                          *)

Put(f, v) ==
    /\ disk'  = [disk EXCEPT ![f] = v]
    /\ maybe' = [maybe EXCEPT ![f] = @ \cup {v}]

\* File::open(dir).sync_all()
SyncDir ==
    /\ maybe' = [f \in Files |-> {disk[f]}]
    /\ UNCHANGED disk

Fault == faults < MaxFaults /\ faults' = faults + 1

Configured == disk.record # NoPassword

\* onboarding::step; "bad" when the marker does not match the credentials.
Step ==
    CASE disk.marker = "none"                   -> "complete"
      [] disk.marker = "admin" /\ ~Configured   -> "admin"
      [] disk.marker = "server" /\ Configured   -> "server"
      [] OTHER                                  -> "bad"

-----------------------------------------------------------------------------
(* Requests.                                                               *)

Go(c, at) == req' = [req EXCEPT ![c].at = at]

Begin(c, at, guess, new) ==
    req' = [req EXCEPT ![c] = [at |-> at, guess |-> guess, new |-> new, gone |-> FALSE]]

\* The answer reaches the client unless it has gone.
Reply(c, a) ==
    /\ req' = [req EXCEPT ![c] = Idle]
    /\ answer' = IF req[c] # Idle /\ req[c].gone THEN answer ELSE [to |-> c, text |-> a]

\* The permit is dropped with the answer.
Finish(c, a) == Reply(c, a) /\ permit' = Nobody

Live(c) == \E i \in DOMAIN sessions : sessions[i].holder = c

\* A client that gets a new cookie has the old one no more.
Disown(c, s) == IF s.holder = c THEN [s EXCEPT !.holder = Nobody] ELSE s

\* The new session of c, who may have gone before its cookie could reach it.
NewSession(c, p) == [holder |-> IF req[c].gone THEN Nobody ELSE c, under |-> p]

\* Auth::issue: the oldest sessions make room.
IssueSession(c, p) ==
    LET first == IF Len(sessions) >= MaxSessions THEN Len(sessions) - MaxSessions + 2 ELSE 1
        kept  == SubSeq(sessions, first, Len(sessions))
    IN  sessions' = Append([i \in DOMAIN kept |-> Disown(c, kept[i])], NewSession(c, p))

\* require_auth, for the requests that are refused during the first step.
Refusal(c) ==
    CASE ~Live(c)        -> "session_expired"
      [] Step = "bad"    -> "forbidden"
      [] Step = "admin"  -> "onboarding_required"
      [] OTHER           -> "none"

-----------------------------------------------------------------------------
(* Set-up.                                                                 *)

Setup(c) ==
    /\ req[c] = Idle
    /\ \/ /\ permit = Nobody /\ permit' = c
          /\ \E p \in Passwords : Begin(c, "check", NoPassword, p)
          /\ UNCHANGED answer
       \/ /\ permit # Nobody /\ Reply(c, "auth_busy")
          /\ UNCHANGED permit
    /\ UNCHANGED <<diskVars, window, memVars, faults>>

\* Mutant: the code and the window are taken to mean that there is no record.
SetupCheckWithoutRecord(c) ==
    /\ req[c] # Idle /\ req[c].at = "check"
    /\ window /\ disk.code /\ Go(c, "write")
    /\ UNCHANGED <<diskVars, window, memVars, permit, answer, faults>>

\* Behind the permit: nobody else can be writing a record now.
SetupCheck(c) ==
    /\ req[c] # Idle /\ req[c].at = "check"
    /\ \/ /\ ~Configured /\ window /\ disk.code
          /\ Go(c, "write")
          /\ UNCHANGED <<permit, answer>>
       \/ Configured /\ Finish(c, "setup_completed")
       \/ ~Configured /\ ~window /\ Finish(c, "setup_closed")
       \/ ~Configured /\ window /\ ~disk.code /\ Finish(c, "setup_unavailable")
       \/ ~Configured /\ window /\ disk.code /\ Finish(c, "invalid_setup_code")
    /\ UNCHANGED <<diskVars, window, memVars, faults>>

\* write_record up to its rename.
WriteRecord(c) ==
    /\ req[c] # Idle /\ req[c].at = "write"
    /\ Put("record", req[c].new)
    /\ Go(c, "sync")
    /\ UNCHANGED <<window, memVars, permit, answer, faults>>

SyncRecord(c) ==
    /\ req[c] # Idle /\ req[c].at = "sync"
    /\ SyncDir /\ Go(c, "marker")
    /\ UNCHANGED <<window, memVars, permit, answer, faults>>

-----------------------------------------------------------------------------
(* onboarding::complete_admin, in the task of a set-up or a login.          *)

\* Mutant: a marker that is already "server" is taken for a finished claim.
CompleteMarkerWithoutRetry(c) ==
    /\ req[c] # Idle /\ req[c].at = "marker"
    /\ IF disk.marker = "admin" THEN Put("marker", "server") /\ Go(c, "markersync")
                                ELSE Go(c, "issue") /\ UNCHANGED diskVars
    /\ UNCHANGED <<window, memVars, permit, answer, faults>>

CompleteMarker(c) ==
    /\ req[c] # Idle /\ req[c].at = "marker"
    /\ \/ disk.marker = "admin" /\ Put("marker", "server") /\ Go(c, "markersync")
       \/ disk.marker = "server" /\ Go(c, "markersync") /\ UNCHANGED diskVars
       \/ disk.marker = "none" /\ Go(c, "issue") /\ UNCHANGED diskVars
    /\ UNCHANGED <<window, memVars, permit, answer, faults>>

SyncMarker(c) ==
    /\ req[c] # Idle /\ req[c].at = "markersync"
    /\ SyncDir /\ Go(c, "code")
    /\ UNCHANGED <<window, memVars, permit, answer, faults>>

RemoveCode(c) ==
    /\ req[c] # Idle /\ req[c].at = "code"
    /\ Put("code", FALSE) /\ Go(c, "codesync")
    /\ UNCHANGED <<window, memVars, permit, answer, faults>>

SyncCode(c) ==
    /\ req[c] # Idle /\ req[c].at = "codesync"
    /\ SyncDir /\ Go(c, "issue")
    /\ UNCHANGED <<window, memVars, permit, answer, faults>>

\* Any of these calls fails: the files stay as they are.
TaskFails(c) ==
    /\ req[c] # Idle /\ req[c].at \in SetupWrites \cup AdminWrites
    /\ Fault /\ Finish(c, "internal_error")
    /\ UNCHANGED <<diskVars, window, memVars>>

\* Mutant: the permit comes back only with an answer.
IssueKeepsPermit(c) ==
    /\ req[c] # Idle /\ req[c].at = "issue"
    /\ \/ req[c].gone /\ Reply(c, "none") /\ UNCHANGED <<sessions, permit>>
       \/ /\ ~req[c].gone /\ inner = Nobody
          /\ IssueSession(c, disk.record) /\ Finish(c, "authenticated")
    /\ UNCHANGED <<diskVars, window, failed, told, inner, faults>>

\* The handler of a set-up or a login gets its session; without the handler the
\* result of the task is dropped, and the permit in it.
Issue(c) ==
    /\ req[c] # Idle /\ req[c].at = "issue"
    /\ \/ req[c].gone /\ Finish(c, "none") /\ UNCHANGED <<sessions>>
       \/ /\ ~req[c].gone /\ inner = Nobody
          /\ IssueSession(c, IF req[c].new = NoPassword THEN req[c].guess ELSE req[c].new)
          /\ Finish(c, "authenticated")
    /\ UNCHANGED <<diskVars, window, failed, told, inner, faults>>

-----------------------------------------------------------------------------
(* Login.                                                                  *)

Login(c) ==
    /\ req[c] = Idle
    /\ \/ ~Configured /\ Reply(c, "setup_required") /\ UNCHANGED permit
       \/ Configured /\ permit # Nobody /\ Reply(c, "auth_busy") /\ UNCHANGED permit
       \/ /\ Configured /\ permit = Nobody /\ permit' = c
          /\ \E p \in Passwords : Begin(c, "throttle", p, NoPassword)
          /\ UNCHANGED answer
    /\ UNCHANGED <<diskVars, window, memVars, faults>>

\* Mutant: a login right after a failure is let through.
LoginWithoutThrottle(c) ==
    /\ req[c] # Idle /\ req[c].at = "throttle" /\ inner = Nobody
    /\ Go(c, "verify") /\ UNCHANGED <<permit, answer>>
    /\ UNCHANGED <<diskVars, window, memVars, faults>>

LoginThrottle(c) ==
    /\ req[c] # Idle /\ req[c].at = "throttle" /\ inner = Nobody
    /\ \/ failed /\ Finish(c, "login_throttled")
       \/ ~failed /\ Go(c, "verify") /\ UNCHANGED <<permit, answer>>
    /\ UNCHANGED <<diskVars, window, memVars, faults>>

\* Mutant: the permit covers the verification only.
LoginVerifyEndsPermit(c) ==
    /\ req[c] # Idle /\ req[c].at = "verify" /\ req[c].guess = disk.record
    /\ Go(c, "issue") /\ permit' = Nobody
    /\ UNCHANGED <<diskVars, window, memVars, answer, faults>>

\* A record that cannot be read counts as a wrong password.
LoginVerify(c) ==
    /\ req[c] # Idle /\ req[c].at = "verify"
    /\ \/ req[c].guess = disk.record /\ Go(c, "marker") /\ UNCHANGED faults
       \/ req[c].guess # disk.record /\ Go(c, "wrong") /\ UNCHANGED faults
       \/ Fault /\ Go(c, "wrong")
    /\ UNCHANGED <<diskVars, window, memVars, permit, answer>>

LoginWrong(c) ==
    /\ req[c] # Idle /\ req[c].at = "wrong"
    /\ \/ req[c].gone /\ UNCHANGED <<failed, told>>
       \/ ~req[c].gone /\ inner = Nobody /\ failed' = TRUE /\ told' = told + 1
    /\ Finish(c, "invalid_password")
    /\ UNCHANGED <<diskVars, window, sessions, inner, faults>>

-----------------------------------------------------------------------------
(* Password change.                                                        *)

\* The middleware lets the request in; other requests may run before the handler.
ChangePassword(c) ==
    /\ req[c] = Idle
    /\ \/ Refusal(c) # "none" /\ Reply(c, Refusal(c))
       \/ /\ Refusal(c) = "none" /\ UNCHANGED answer
          /\ \E p, q \in Passwords : Begin(c, "cpermit", p, q)
    /\ UNCHANGED <<diskVars, window, memVars, permit, faults>>

ChangePermit(c) ==
    /\ req[c] # Idle /\ req[c].at = "cpermit"
    /\ \/ permit # Nobody /\ Reply(c, "auth_busy") /\ UNCHANGED permit
       \/ permit = Nobody /\ permit' = c /\ Go(c, "clock") /\ UNCHANGED answer
    /\ UNCHANGED <<diskVars, window, memVars, faults>>

\* change_password_record up to persist: the mutex is held from here to the end.
\* The record may be unreadable, and so may the random source of the tokens.
ChangeLock(c) ==
    /\ req[c] # Idle /\ req[c].at = "clock" /\ inner = Nobody
    /\ \/ ~Live(c) /\ Finish(c, "session_expired") /\ UNCHANGED <<failed, told, inner, faults>>
       \/ Live(c) /\ failed /\ Finish(c, "login_throttled") /\ UNCHANGED <<failed, told, inner, faults>>
       \/ Live(c) /\ ~failed /\ Fault /\ Finish(c, "internal_error") /\ UNCHANGED <<failed, told, inner>>
       \/ /\ Live(c) /\ ~failed /\ req[c].guess # disk.record
          /\ Finish(c, "invalid_current_password")
          /\ failed' = TRUE /\ told' = told + 1 /\ UNCHANGED <<inner, faults>>
       \/ /\ Live(c) /\ ~failed /\ req[c].guess = disk.record
          /\ Go(c, "cwrite") /\ inner' = c
          /\ UNCHANGED <<failed, told, permit, answer, faults>>
    /\ UNCHANGED <<diskVars, window, sessions>>

ChangeWrite(c) ==
    /\ req[c] # Idle /\ req[c].at = "cwrite"
    /\ Put("record", req[c].new) /\ Go(c, "csync")
    /\ UNCHANGED <<window, memVars, permit, answer, faults>>

ChangeWriteFails(c) ==
    /\ req[c] # Idle /\ req[c].at = "cwrite" /\ Fault
    /\ Finish(c, "internal_error") /\ inner' = Nobody
    /\ UNCHANGED <<diskVars, window, sessions, failed, told>>

ChangeSync(c) ==
    /\ req[c] # Idle /\ req[c].at = "csync"
    /\ SyncDir
    /\ sessions' = <<NewSession(c, req[c].new)>> /\ failed' = FALSE
    /\ Finish(c, "authenticated") /\ inner' = Nobody
    /\ UNCHANGED <<window, told, faults>>

\* Mutant: a change whose record is out but not synced counts as failed.
ChangeSyncFailsAsWrite(c) ==
    /\ req[c] # Idle /\ req[c].at = "csync" /\ Fault
    /\ Finish(c, "internal_error") /\ inner' = Nobody
    /\ UNCHANGED <<diskVars, window, sessions, failed, told>>

\* RecordPublished: the new record is out but perhaps not on the disk.
ChangeSyncFails(c) ==
    /\ req[c] # Idle /\ req[c].at = "csync" /\ Fault
    /\ sessions' = <<>>
    /\ Finish(c, "password_change_uncertain") /\ inner' = Nobody
    /\ UNCHANGED <<diskVars, window, failed, told>>

-----------------------------------------------------------------------------
(* Other requests.                                                         *)

\* Host, origin, CSRF token or password length are refused before anything else.
Reject(c) ==
    /\ req[c] = Idle /\ Reply(c, "request_rejected")
    /\ UNCHANGED <<diskVars, window, memVars, permit, faults>>

Without(s, i) == SubSeq(s, 1, i - 1) \o SubSeq(s, i + 1, Len(s))

\* Logout is allowed at every step but a bad one; a token is in one session only.
Logout(c) ==
    /\ req[c] = Idle /\ inner = Nobody
    /\ \/ Live(c) /\ Step # "bad" /\ Reply(c, "login")
          /\ \E i \in DOMAIN sessions :
                sessions[i].holder = c /\ sessions' = Without(sessions, i)
       \/ ~Live(c) /\ Reply(c, "session_expired") /\ UNCHANGED <<sessions>>
       \/ Live(c) /\ Step = "bad" /\ Reply(c, "forbidden") /\ UNCHANGED <<sessions>>
    /\ UNCHANGED <<diskVars, window, failed, told, inner, permit, faults>>

\* GET /api/auth/status
Status(c) ==
    /\ req[c] = Idle /\ inner = Nobody
    /\ Reply(c, IF ~Configured THEN "setup" ELSE IF Live(c) THEN "authenticated" ELSE "login")
    /\ UNCHANGED <<diskVars, window, memVars, permit, faults>>

\* onboarding::complete behind the middleware: the marker goes.
Complete(c) ==
    /\ req[c] = Idle /\ inner = Nobody
    /\ \/ Refusal(c) # "none" /\ Reply(c, Refusal(c)) /\ UNCHANGED diskVars
       \/ /\ Refusal(c) = "none" /\ Step # "server"
          /\ Reply(c, "completion_rejected") /\ UNCHANGED diskVars
       \/ /\ Refusal(c) = "none" /\ Step = "server"
          /\ Put("marker", "none") /\ Begin(c, "completesync", NoPassword, NoPassword)
          /\ UNCHANGED answer
    /\ UNCHANGED <<window, memVars, permit, faults>>

CompleteSync(c) ==
    /\ req[c] # Idle /\ req[c].at = "completesync"
    /\ \/ SyncDir /\ Reply(c, "complete") /\ UNCHANGED faults
       \/ Fault /\ Reply(c, "completion_rejected") /\ UNCHANGED diskVars
    /\ UNCHANGED <<window, memVars, permit>>

\* The handler's future is dropped; its blocking task runs on.
Disconnect(c) ==
    /\ req[c] # Idle /\ req[c].at \in Blocking \cup {"issue", "wrong"} /\ ~req[c].gone
    /\ req' = [req EXCEPT ![c].gone = TRUE]
    /\ UNCHANGED <<diskVars, window, memVars, permit, answer, faults>>

-----------------------------------------------------------------------------
(* Around the agent.                                                       *)

LoseMemory ==
    /\ sessions' = <<>> /\ failed' = FALSE /\ told' = 0
    /\ inner' = Nobody /\ permit' = Nobody
    /\ req' = [c \in Clients |-> Idle]

\* gofro-setup, run by root while nobody uses the panel, so in one step: it makes
\* a code if there is none, opens the window, syncs and restarts the agent.
SetupScript ==
    /\ ~Configured /\ disk.marker \in {"admin", "none"} /\ permit = Nobody
    /\ disk'  = [disk EXCEPT !.marker = "admin", !.code = TRUE]
    /\ maybe' = [f \in Files |-> {disk'[f]}]
    /\ window' = TRUE /\ LoseMemory
    /\ UNCHANGED <<answer, faults>>

\* procd restarts an agent that died.
Restart ==
    /\ Fault /\ LoseMemory
    /\ UNCHANGED <<diskVars, window, answer>>

\* The window names the boot it was opened in.
PowerLoss ==
    /\ Fault /\ LoseMemory
    /\ \E r \in maybe.record, k \in maybe.marker, b \in maybe.code :
          disk' = [record |-> r, marker |-> k, code |-> b]
    /\ maybe' = [f \in Files |-> {disk'[f]}]
    /\ window' = FALSE
    /\ UNCHANGED <<answer>>

WindowCloses ==
    /\ window /\ window' = FALSE
    /\ UNCHANGED <<diskVars, memVars, permit, req, answer, faults>>

\* A second goes by.
Elapse ==
    /\ failed /\ failed' = FALSE /\ told' = 0
    /\ UNCHANGED <<diskVars, window, sessions, inner, permit, req, answer, faults>>

\* All sessions live TTL: the oldest expires first.
Expire ==
    /\ sessions # <<>> /\ sessions' = Tail(sessions)
    /\ UNCHANGED <<diskVars, window, failed, told, inner, permit, req, answer, faults>>

-----------------------------------------------------------------------------
Init ==
    /\ disk = [record |-> NoPassword, marker |-> "admin", code |-> TRUE]
    /\ maybe = [f \in Files |-> {disk[f]}]
    /\ window = TRUE
    /\ sessions = <<>> /\ failed = FALSE /\ told = 0
    /\ permit = Nobody /\ inner = Nobody
    /\ req = [c \in Clients |-> Idle]
    /\ answer = [to |-> Nobody, text |-> "none"]
    /\ faults = 0

\* What a request in hand does next; each of them ends.
Proceed(c) ==
    \/ SetupCheck(c) \/ WriteRecord(c) \/ SyncRecord(c)
    \/ CompleteMarker(c) \/ SyncMarker(c) \/ RemoveCode(c) \/ SyncCode(c)
    \/ TaskFails(c) \/ Issue(c)
    \/ LoginThrottle(c) \/ LoginVerify(c) \/ LoginWrong(c)
    \/ ChangePermit(c) \/ ChangeLock(c) \/ ChangeWrite(c) \/ ChangeWriteFails(c)
    \/ ChangeSync(c) \/ ChangeSyncFails(c) \/ CompleteSync(c)

Arrive(c) ==
    \/ Setup(c) \/ Login(c) \/ ChangePassword(c) \/ Logout(c) \/ Status(c) \/ Complete(c) \/ Reject(c)

Environment ==
    \/ SetupScript \/ Restart \/ PowerLoss \/ WindowCloses \/ Elapse \/ Expire

Next == Environment \/ \E c \in Clients : Arrive(c) \/ Proceed(c) \/ Disconnect(c)

Spec == Init /\ [][Next]_vars

-----------------------------------------------------------------------------
(* Properties.                                                             *)

\* Unless a password change is under way, every session was given to someone
\* who knew the password now on the router: a change leaves no older session,
\* and no login slips in beside it.
SessionsFollowPassword ==
    inner = Nobody => \A i \in DOMAIN sessions : sessions[i].under = disk.record

\* A password on the router is replaced only by a request that presented it,
\* never by a second set-up (a power loss may bring back an earlier one).
PasswordReplacedByItsHolder ==
    [][disk.record # NoPassword /\ disk'.record # disk.record =>
          \/ faults' > faults
          \/ \E c \in Clients : req[c] # Idle /\ req[c].guess = disk.record]_vars

\* Whoever is logged in is past the claim of the router, and no power loss takes
\* it back: the record is there, the marker is not "admin", the setup code is
\* gone.
ClaimOutlivesPowerLoss ==
    sessions # <<>> =>
        /\ NoPassword \notin maybe.record
        /\ "admin" \notin maybe.marker
        /\ maybe.code = {FALSE}

\* What a password change is told is true: after "authenticated" the new password
\* survives a power loss, after "password_change_uncertain" it is the one that
\* counts now and nobody is logged in, after any other answer the record is as
\* it was.
ChangeAnswersAreTrue ==
    [][\A c \in Clients :
          req[c] # Idle /\ req[c].at \in ChangeWrites /\ req'[c] = Idle /\ answer' # answer =>
             \/ answer'.text = "authenticated" /\ maybe'.record = {req[c].new}
             \/ /\ answer'.text = "password_change_uncertain"
                /\ disk'.record = req[c].new /\ sessions' = <<>>
             \/ answer'.text = "internal_error" /\ disk'.record = req[c].guess]_vars

\* At most one wrong password is answered between two elapsed seconds, whichever
\* requests race.
WrongPasswordsAreThrottled == told <= 1

\* The permit is held by a request under way and the mutex by the change that
\* also has the permit, at a step that waits for nothing: a client that goes
\* away does not leave every later set-up, login and change waiting or refused.
LocksAreInUse ==
    /\ TypeOK
    /\ permit # Nobody => req[permit] # Idle /\ req[permit].at \notin {"cpermit", "completesync"}
    /\ inner # Nobody => inner = permit /\ req[inner].at \in ChangeWrites
=============================================================================
