------------------------------ MODULE LoginGate ------------------------------
(***************************************************************************)
(* How often somebody may guess at the admin server.  Every handler that   *)
(* takes a password or a code asks the limiter first, verifies for a good  *)
(* part of a second with nothing held, and reports to the limiter last, so *)
(* several guesses of one client may be under way at once, also while a    *)
(* lock falls.                                                             *)
(*                                                                         *)
(* Time passes in units: the lengths below stand for the code's constants. *)
(* What a password or a code is, and the sessions, belong to AdminAuth.    *)
(***************************************************************************)
EXTENDS Integers, FiniteSets

CONSTANTS
  Client,     \* the addresses that guess
  Attempt,    \* bound: requests under way at a time
  None,       \* no entry, nobody
  MaxFails,   \* Limiter.max
  Window,     \* Limiter.window
  Lock,       \* Limiter.lock
  Hour,       \* the longest lock, and the age at which entries may be dropped
  MaxTime     \* bound: the last moment of a behaviour

ASSUME GateAssumption ==
  /\ MaxFails \in Nat \ {0} /\ MaxTime \in Nat
  /\ Window \in Nat /\ Hour \in Nat /\ Window <= Hour
  /\ Lock \in 1 .. Hour
ASSUME AttemptAssumption == IsFiniteSet(Attempt) /\ Attempt # {}

VARIABLES
  now,
  entry,      \* entry[c]: what the limiter knows of c
  stage,      \* stage[a]: what request a has to verify next
  client,     \* client[a]: who has sent it
  \* History:
  guesses,    \* guesses[c][i]: when c made its ith last wrong guess since it was
              \* last locked or forgiven
  through,    \* through[c]: its wrong guesses while the last lock held
  lasted      \* lasted[c]: the length of its last lock, 0 if forgotten since

limiter == <<entry, guesses, through, lasted>>
vars == <<now, limiter, stage, client>>

Never == -1     \* the zero time of the code
Time == 0 .. MaxTime
Many == 2 * MaxFails - 1

Entry == [fails : 0 .. MaxFails - 1, first : Time, until : Nat \cup {Never},
          lockouts : Nat, touched : Time]

ASSUME NoneAssumption == None \notin Client /\ None \notin Entry

TypeOK ==
  /\ now \in Time
  /\ entry \in [Client -> Entry \cup {None}]
  /\ stage \in [Attempt -> {"idle", "login", "code", "inside"}]
  /\ client \in [Attempt -> Client \cup {None}]
  /\ guesses \in [Client -> [1 .. Many -> Time \cup {Never}]]
  /\ through \in [Client -> Nat]
  /\ lasted \in [Client -> 0 .. Hour]

NoGuesses == [i \in 1 .. Many |-> Never]

Init ==
  /\ now = 0
  /\ entry = [c \in Client |-> None]
  /\ stage = [a \in Attempt |-> "idle"]
  /\ client = [a \in Attempt |-> None]
  /\ guesses = [c \in Client |-> NoGuesses]
  /\ through = [c \in Client |-> 0] /\ lasted = through
-----------------------------------------------------------------------------
(***************************************************************************)
(* Limiter.                                                                *)
(***************************************************************************)

\* Mutant: a client is judged by its count, which starts over with every lock.
UnderCount(c) == entry[c] # None => entry[c].fails < MaxFails

Locked(c) == entry[c] # None /\ entry[c].until > now

\* Check
MayTry(c) == ~Locked(c)

\* What Fail may drop first, when other addresses have filled the map.
Stale(e) == now - e.touched > Hour /\ e.until < now

\* The entries that the limiter still has in Fail.
Kept(crowded) ==
  [c \in Client |-> IF entry[c] # None /\ crowded /\ Stale(entry[c]) THEN None ELSE entry[c]]

Blank == [fails |-> 0, first |-> now, until |-> Never, lockouts |-> 0, touched |-> now]

\* Mutant: with the count, the escalation starts over.
Forget(e) ==
  IF now - e.first > Window /\ e.until < now
  THEN [e EXCEPT !.fails = 0, !.first = now, !.lockouts = 0] ELSE e

\* The count starts over when its window has passed and no lock holds.
Restart(e) ==
  IF now - e.first > Window /\ e.until < now
  THEN [e EXCEPT !.fails = 0, !.first = now] ELSE e

\* Mutant: one guess more than allowed.
AboveMax(e) == e.fails + 1 > MaxFails

LastStraw(e) == e.fails + 1 >= MaxFails

\* One round of the loop that makes the lock longer.
Doubling(d) == IF d < Hour THEN 2 * d ELSE d

\* The loop, after n rounds.
Doubled[n \in Nat] == IF n = 0 THEN Lock ELSE Doubling(Doubled[n - 1])

\* The lock doubles with every lock before it, up to an hour.
LockFor(e) == IF Doubled[e.lockouts] > Hour THEN Hour ELSE Doubled[e.lockouts]

\* The entry after one more wrong guess.
Counted(e) ==
  IF LastStraw(e)
  THEN [fails |-> 0, first |-> now, until |-> now + LockFor(e),
        lockouts |-> e.lockouts + 1, touched |-> now]
  ELSE [e EXCEPT !.fails = @ + 1, !.touched = now]

Fail(c) ==
  \E crowded \in BOOLEAN :
    LET kept == Kept(crowded)
        e == Restart(IF kept[c] = None THEN Blank ELSE kept[c])
    IN  /\ entry' = [kept EXCEPT ![c] = Counted(e)]
        /\ guesses' = [guesses EXCEPT ![c] =
             IF LastStraw(e) THEN NoGuesses
             ELSE [i \in 1 .. Many |-> IF i = 1 THEN now ELSE @[i - 1]]]
        /\ through' = [through EXCEPT ![c] = IF Locked(c) THEN @ + 1 ELSE 0]
        /\ lasted' = [d \in Client |->
             IF d = c /\ LastStraw(e) THEN LockFor(e)
             ELSE IF kept[d] = None THEN 0 ELSE lasted[d]]

Success(c) == entry' = [entry EXCEPT ![c] = None]
-----------------------------------------------------------------------------
(***************************************************************************)
(* The handlers.                                                           *)
(***************************************************************************)

Goes(a, next) == stage' = [stage EXCEPT ![a] = next]

Ends(a) == Goes(a, "idle") /\ client' = [client EXCEPT ![a] = None]

\* handleLogin; and, for somebody who is signed in, handleChangePassword,
\* handleTOTPDisable and handleTOTPConfirm.
Begin(a, c) ==
  /\ stage[a] = "idle"
  /\ MayTry(c)
  /\ \E next \in {"login", "inside"} : Goes(a, next)
  /\ client' = [client EXCEPT ![a] = c]
  /\ UNCHANGED <<now, limiter>>

\* A wrong password, or a wrong code: both count.
Wrong(a) ==
  /\ stage[a] # "idle"
  /\ Fail(client[a])
  /\ Ends(a)
  /\ UNCHANGED now

\* Mutant: the limiter is told of a right password before the code is looked at.
ForgiveFirst(a) ==
  /\ stage[a] = "login"
  /\ Success(client[a])
  /\ Goes(a, "code")
  /\ UNCHANGED <<now, guesses, through, lasted, client>>

\* With two-factor login, a right password is not the end of it.
WantCode(a) ==
  /\ stage[a] = "login"
  /\ Goes(a, "code")
  /\ UNCHANGED <<now, limiter, client>>

\* No code came along: the form asks for one and sends everything again.
NoCode(a) ==
  /\ stage[a] = "code"
  /\ Ends(a)
  /\ UNCHANGED <<now, limiter>>

\* All that was asked for is right: a session starts, or the change is made.
Right(a) ==
  /\ stage[a] # "idle"
  /\ Success(client[a])
  /\ guesses' = [guesses EXCEPT ![client[a]] = NoGuesses]
  /\ through' = [through EXCEPT ![client[a]] = 0]
  /\ lasted' = [lasted EXCEPT ![client[a]] = 0]
  /\ Ends(a)
  /\ UNCHANGED now

Tick ==
  /\ now < MaxTime
  /\ now' = now + 1
  /\ UNCHANGED <<limiter, stage, client>>

Next ==
  \/ \E a \in Attempt :
       \/ \E c \in Client : Begin(a, c)
       \/ Wrong(a) \/ WantCode(a) \/ NoCode(a) \/ Right(a)
  \/ Tick

Spec == Init /\ [][Next]_vars
-----------------------------------------------------------------------------
(***************************************************************************)
(* Properties.                                                             *)
(***************************************************************************)

\* Nobody makes 2 * max - 1 wrong guesses, of passwords and of codes together,
\* within one window without being locked, unless a complete login or change
\* came in between: a right password alone forgives nothing, and the limiter
\* forgets nothing that is younger than a window.
GuessesBounded ==
  \A c \in Client :
    guesses[c][Many] # Never => guesses[c][1] - guesses[c][Many] > Window

\* While a client is locked, only those guesses are looked at that were under
\* way when the lock fell, however often they make the lock longer.
LockHolds == \A c \in Client : through[c] < Cardinality(Attempt)

\* Each lock of a client is twice as long as the one before, up to an hour, also
\* when the count has started over in between; only an entry untouched for an hour
\* may have been forgotten.
LocksGrow ==
  [][\A c \in Client :
       /\ lasted[c] # 0 /\ entry[c] # None /\ ~Stale(entry[c])
       /\ entry'[c] # None /\ entry'[c].until # entry[c].until
       => lasted'[c] = IF 2 * lasted[c] <= Hour THEN 2 * lasted[c] ELSE Hour]_vars
=============================================================================
