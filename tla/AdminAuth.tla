------------------------------ MODULE AdminAuth ------------------------------
(***************************************************************************)
(* The admin account: one credentials file with a password and the fields  *)
(* of two-factor authentication (TOTP), changed by requests to the admin   *)
(* server and by the `admin passwd` and `admin totp disable` commands,     *)
(* which are processes of their own.  Every change reads the whole file,   *)
(* later replaces the whole file, and holds no lock in between.  The       *)
(* server's login sessions are bound to the password by its salt.  The     *)
(* first password comes from the set-up page, from `admin passwd`, or from *)
(* ADMIN_PASSWORD, which the server adopts when it starts.                 *)
(*                                                                         *)
(* An operation runs once.  A password is known by the operation that set  *)
(* it, a TOTP secret by the one that generated it, First standing for the  *)
(* ones the file held before.                                              *)
(***************************************************************************)
EXTENDS Naturals

CONSTANTS
  Op,         \* bound: the requests and commands of a behaviour
  First,      \* the password, the secret and the session of the beginning
  None,       \* no secret, no session
  MaxTime     \* bound: the last 30-second step the clock reaches

ASSUME AuthAssumption ==
  /\ First \notin Op
  /\ None \notin Op
  /\ First # None
  /\ MaxTime \in Nat

\* Requests that a signed-in browser sends; commands of the machine's user, in
\* processes of their own; and what makes a first account.
Requests == {"password", "begin", "confirm", "disable"}
Commands == {"passwd", "recover"}
Firsts == {"setup", "adopt"}
Kinds == {"login"} \cup Requests \cup Commands \cup Firsts

\* The operations that end in write().
Passwords == {"password", "passwd"} \cup Firsts

Salt == Op \cup {First, None}
Secret == Op \cup {First, None}
Token == Op \cup {First}
Credentials == [salt : Salt, secret : Secret, totp : {"on", "off"}]

\* What the Store has when there is no file, or none it can use.
NoAccount == [salt |-> None, secret |-> None, totp |-> "off"]

PC == {"idle", "second", "secret", "consume", "start", "read", "persist",
       "revoke", "end"}

VARIABLES
  file,       \* what the credentials file holds
  damaged,    \* there is a file that cannot be used
  kind,       \* kind[o]: what o is, once it has begun
  pc,         \* pc[o]: the next step of o
  copy,       \* copy[o]: the credentials o has read, then those it will write
  session,    \* session[k]: the salt that session k is bound to
  now,        \* the current 30-second step
  lastStep,   \* totpLastStep
  \* History:
  knows,      \* knows[k]: the password that the holder of session k presented
  accepted,   \* accepted[n]: codes of step n accepted since the server started
  proven,     \* secrets for which a code has been accepted
  disturbed   \* operations during whose course another one replaced the file

clock == <<now, lastStep>>
history == <<knows, accepted, proven, disturbed>>
vars == <<file, damaged, kind, pc, copy, session, clock, history>>

Step == 0..(MaxTime + 1)

TypeOK ==
  /\ file \in Credentials
  /\ damaged \in BOOLEAN
  /\ kind \in [Op -> Kinds \cup {"none"}]
  /\ pc \in [Op -> PC]
  /\ copy \in [Op -> Credentials]
  /\ session \in [Token -> Salt \cup {None}]
  /\ now \in Nat
  /\ now <= MaxTime
  /\ lastStep \in Nat
  /\ knows \in [Token -> Salt]
  /\ accepted \in [Step -> Nat]
  /\ proven \subseteq Secret
  /\ disturbed \subseteq Op

Init ==
  /\ \/ file = [salt |-> First, secret |-> First, totp |-> "on"]
     \/ file = [salt |-> First, secret |-> None, totp |-> "off"]
     \/ file = NoAccount
  /\ damaged = FALSE
  /\ kind = [o \in Op |-> "none"]
  /\ pc = [o \in Op |-> "idle"]
  /\ copy = [o \in Op |-> file]
  /\ session = [k \in Token |-> IF k = First THEN file.salt ELSE None]
  /\ now = 0
  /\ lastStep = 0
  /\ knows = [k \in Token |-> First]
  /\ accepted = [n \in Step |-> 0]
  /\ proven = {First}
  /\ disturbed = {}

\* State says that there is an account; it says that there is none.
Exists == file.salt # None
Vacant == ~Exists /\ ~damaged

Running(o) == pc[o] \notin {"idle", "end"}

\* The server takes requests once it has adopted what there was to adopt.
Serving == \A o \in Op : kind[o] = "adopt" => ~Running(o)

Goto(o, l) == pc' = [pc EXCEPT ![o] = l]

\* Mutant: a session counts whatever the password is now.
AnyPassword(k) == session[k] # None

\* Sessions.Valid: there is an account and its password has not changed since.
\* A session also ends by its age: SignOut may end any.
Valid(k) == Exists /\ session[k] = file.salt

\* authGate: a request is sent by somebody who is signed in.
SignedIn == \E k \in Token : Valid(k)
-----------------------------------------------------------------------------
(***************************************************************************)
(* handleLogin.                                                            *)
(***************************************************************************)

\* Verify accepts the password that the file holds; a wrong one changes nothing.
Login(o) ==
  /\ pc[o] = "idle" /\ Serving
  /\ Exists
  /\ kind' = [kind EXCEPT ![o] = "login"]
  /\ knows' = [knows EXCEPT ![o] = file.salt]
  /\ Goto(o, "second")
  /\ UNCHANGED <<file, damaged, copy, session, clock, accepted, proven, disturbed>>

\* TOTPEnabled decides whether a code is needed.
SecondFactor(o) ==
  /\ pc[o] = "second"
  /\ Goto(o, IF file.totp = "on" THEN "secret" ELSE "start")
  /\ UNCHANGED <<kind, file, damaged, copy, session, clock, history>>

\* VerifyTOTPCode reads the credentials again.
ReadSecret(o) ==
  /\ pc[o] = "secret"
  /\ copy' = [copy EXCEPT ![o] = file]
  /\ Goto(o, IF file.totp = "on" /\ file.secret # None THEN "consume" ELSE "end")
  /\ UNCHANGED <<kind, file, damaged, session, clock, history>>

\* Mutant: the code that was accepted last is accepted again.
NotOlder(n) == n >= lastStep

\* checkAndConsume under the mutex: a code is good for one use.
Newer(n) == n > lastStep

\* Steps whose code the app shows now, give or take one.
Shown == {n \in Step : n <= now + 1 /\ now <= n + 1}

\* checkAndConsume accepts the code that belongs to the copied secret.
AcceptCode(o, n) ==
  /\ pc[o] = "consume"
  /\ Newer(n)
  /\ lastStep' = n
  /\ accepted' = [accepted EXCEPT ![n] = @ + 1]
  /\ proven' = proven \cup {copy[o].secret}

LoginCode(o) ==
  /\ kind[o] = "login"
  /\ \E n \in Shown : AcceptCode(o, n)
  /\ Goto(o, "start")
  /\ UNCHANGED <<kind, file, damaged, copy, session, now, knows, disturbed>>

\* ConfirmTOTP
Enabled(o) == [copy[o] EXCEPT !.totp = "on"]

ConfirmCode(o) ==
  /\ kind[o] = "confirm"
  /\ \E n \in Shown : AcceptCode(o, n)
  /\ copy' = [copy EXCEPT ![o] = Enabled(o)]
  /\ Goto(o, "persist")
  /\ UNCHANGED <<kind, file, damaged, session, now, knows, disturbed>>

\* A wrong code, or one that has been used or is older than one that has been.
RefuseCode(o) ==
  /\ pc[o] = "consume"
  /\ Goto(o, "end")
  /\ UNCHANGED <<kind, file, damaged, copy, session, clock, history>>

\* Mutant: the fingerprint is the whole record.
WithRecord(o) == [session EXCEPT ![o] = file]

\* Sessions.Create with the fingerprint read now, not the one Verify has seen.
WithSession(o) == [session EXCEPT ![o] = file.salt]

StartSession(o) ==
  /\ pc[o] = "start"
  /\ session' = WithSession(o)
  /\ Goto(o, "end")
  /\ UNCHANGED <<kind, file, damaged, copy, clock, history>>
-----------------------------------------------------------------------------
(***************************************************************************)
(* Changes of the credentials.                                             *)
(***************************************************************************)

Begins(o, k) ==
  /\ pc[o] = "idle"
  /\ kind' = [kind EXCEPT ![o] = k]
  /\ Goto(o, "read")
  /\ UNCHANGED <<file, damaged, copy, session, clock, history>>

\* The request passes authGate and, where asked for, the current password is
\* verified.
Request(o) == Serving /\ SignedIn /\ \E k \in Requests : Begins(o, k)

\* handleSetup, from the machine itself.
Setup(o) == Serving /\ Vacant /\ Begins(o, "setup")

\* runPasswd needs no account, and replaces a damaged one.
RunPasswd(o) == Begins(o, "passwd")

\* runTOTP with "disable".
RunTOTP(o) == Exists /\ file.totp = "on" /\ Begins(o, "recover")

\* Mutant: write() starts from an empty record.
FreshCopy(o) == [salt |-> o, secret |-> None, totp |-> "off"]

\* write(): a new salt, the TOTP fields carried over.
NewPassword(o) == [file EXCEPT !.salt = o]

\* Mutant: a new enrolment leaves the enabled flag as it is.
StillEnabled(o) == [file EXCEPT !.secret = o]

\* BeginTOTPEnrollment: a new secret, pending.
Pending(o) == [file EXCEPT !.secret = o, !.totp = "off"]

\* DisableTOTP
Disabled == [file EXCEPT !.secret = None, !.totp = "off"]

\* The operation reads the file and prepares what it will write.
Read(o) ==
  /\ pc[o] = "read"
  /\ disturbed' = IF kind[o] \in Firsts THEN disturbed ELSE disturbed \ {o}
  /\ \/ /\ kind[o] \in Passwords
        /\ copy' = [copy EXCEPT ![o] = NewPassword(o)]
        /\ Goto(o, "persist")
     \/ /\ kind[o] = "begin" /\ Exists
        /\ copy' = [copy EXCEPT ![o] = Pending(o)]
        /\ Goto(o, "persist")
     \/ /\ kind[o] = "confirm" /\ Exists
        /\ copy' = [copy EXCEPT ![o] = file]
        /\ Goto(o, IF file.secret = None THEN "end" ELSE "consume")
     \/ /\ kind[o] \in {"disable", "recover"} /\ Exists
        /\ copy' = [copy EXCEPT ![o] = Disabled]
        /\ Goto(o, "persist")
     \/ /\ kind[o] \notin Passwords /\ ~Exists
        /\ Goto(o, "end")
        /\ UNCHANGED copy
  /\ UNCHANGED <<kind, file, damaged, session, clock, knows, accepted, proven>>

\* What happens to the file disturbs the operations under way.
Disturbs(others) == disturbed' = disturbed \cup {p \in others : Running(p)}

\* persist(): a rename replaces the file.
Persist(o) ==
  /\ pc[o] = "persist"
  /\ file' = copy[o] /\ damaged' = FALSE
  /\ Disturbs(Op \ {o})
  /\ \/ /\ kind[o] \in {"password", "setup"}
        /\ Goto(o, IF kind[o] = "setup" THEN "start" ELSE "revoke")
        /\ knows' = [knows EXCEPT ![o] = o]
     \/ /\ kind[o] \notin {"password", "setup"}
        /\ Goto(o, "end")
        /\ UNCHANGED knows
  /\ UNCHANGED <<kind, copy, session, clock, accepted, proven>>

\* persist() fails before or at the rename; runPasswd asks again, up to three
\* times, and writes from the file as it is then.
PersistError(o) ==
  /\ pc[o] = "persist"
  /\ Goto(o, "end") \/ (kind[o] = "passwd" /\ Goto(o, "read"))
  /\ UNCHANGED <<kind, file, damaged, copy, session, clock, history>>

\* handleChangePassword, at its end: RevokeAll; a session of its own follows.
Revoke(o) ==
  /\ pc[o] = "revoke"
  /\ session' = [k \in Token |-> None]
  /\ Goto(o, "start")
  /\ UNCHANGED <<kind, file, damaged, copy, clock, history>>
-----------------------------------------------------------------------------
\* handleSignOut
SignOut(k) ==
  /\ session[k] # None
  /\ session' = [session EXCEPT ![k] = None]
  /\ UNCHANGED <<kind, file, damaged, pc, copy, clock, history>>

Tick ==
  /\ now < MaxTime
  /\ now' = now + 1
  /\ UNCHANGED <<kind, file, damaged, pc, copy, session, lastStep, history>>

\* Somebody deletes the file, or it is no longer what the Store has written.
LoseFile ==
  /\ file' = NoAccount
  /\ damaged' \in BOOLEAN
  /\ Disturbs(Op)
  /\ UNCHANGED <<kind, pc, copy, session, clock, knows, accepted, proven>>

\* Bootstrap adopts ADMIN_PASSWORD, if there is one, when there is no account.
Adoptable(o) == pc[o] = "idle" /\ Vacant

\* The server starts over: its requests, its sessions and totpLastStep are gone.
\* One that fails to adopt a password ends and is started over.
Restart ==
  \E o \in Op, adopts \in BOOLEAN :
    /\ adopts => Adoptable(o)
    /\ kind' = IF adopts THEN [kind EXCEPT ![o] = "adopt"] ELSE kind
    /\ pc' = [p \in Op |->
                IF adopts /\ p = o THEN "read"
                ELSE IF kind[p] \notin Commands \cup {"none"} THEN "end" ELSE pc[p]]
    /\ session' = [k \in Token |-> None]
    /\ lastStep' = 0
    /\ accepted' = [n \in Step |-> 0]
    /\ UNCHANGED <<file, damaged, copy, now, knows, proven, disturbed>>

Next ==
  \/ \E o \in Op :
       \/ Login(o) \/ SecondFactor(o) \/ ReadSecret(o)
       \/ LoginCode(o) \/ ConfirmCode(o) \/ RefuseCode(o) \/ StartSession(o)
       \/ Request(o) \/ Setup(o) \/ RunPasswd(o) \/ RunTOTP(o)
       \/ Read(o) \/ Persist(o) \/ PersistError(o) \/ Revoke(o)
  \/ \E k \in Token : SignOut(k)
  \/ Tick \/ LoseFile \/ Restart

Spec == Init /\ [][Next]_vars
-----------------------------------------------------------------------------
(***************************************************************************)
(* Properties.                                                             *)
(***************************************************************************)

\* A code is accepted once, although it is shown for three steps, logins run
\* side by side, and secrets come and go.
CodeOnce == \A n \in Step : accepted[n] <= 1

\* A code is demanded at login only for a secret of which the operator has
\* shown a code: no interleaving of enrolments, confirmations and password
\* changes turns a pending secret into one that locks the owner out.
OnlyProvenSecrets == file.totp = "on" => file.secret \in proven

\* Whoever holds a valid session has presented the password of today, unless
\* the file was replaced while that very login was under way.
SessionsFollowPassword ==
  \A k \in Token : Valid(k) => knows[k] = file.salt \/ k \in disturbed

\* What o does not own stays as it was: a password change leaves the TOTP
\* fields, a TOTP change leaves the password, a first account replaces none.
OwnFieldsOnly(o) ==
  /\ kind[o] \in Passwords => file'.secret = file.secret /\ file'.totp = file.totp
  /\ kind[o] \notin Passwords => file'.salt = file.salt
  /\ kind[o] \in Firsts => Vacant

Writes(o) == pc[o] = "persist" /\ pc'[o] # "persist" /\ file' = copy[o]

\* No operation that runs undisturbed changes a field it does not own, and no
\* set-up or adoption that nobody disturbs takes over an account, or a damaged file
\* in which one may be.
UndisturbedKeepsFields ==
  [][\A o \in Op \ disturbed : Writes(o) => OwnFieldsOnly(o)]_vars

\* adminauth.go:238-239: "changing a password must never silently turn 2FA off",
\* whatever else is going on.
PasswordKeepsTwoFactor ==
  [][\A o \in Op :
       kind[o] \in Passwords /\ Writes(o) /\ file.totp = "on"
       => file'.totp = "on"]_vars
=============================================================================
