----------------------------- MODULE ClaudeLogin -----------------------------
(***************************************************************************)
(* Claude sign-in from the admin UI.  Each start forks one                 *)
(* `claude auth login` process (a run); three goroutines of the server     *)
(* serve it: the start request, which polls until the session has a link   *)
(* or 15 seconds are over, a scanner of the process's output, and a waiter *)
(* for its end.  All of them, and the requests to submit a code or to      *)
(* cancel, share one session record under its mutex.  `claude auth status` *)
(* is cached beside it, under a mutex of its own.                          *)
(*                                                                         *)
(* A run is known by its generation number; the code pasted for the link   *)
(* of run r is represented by r.                                           *)
(***************************************************************************)
EXTENDS Naturals

CONSTANT MaxRuns   \* bound: how often a sign-in is started

ASSUME RunsAssumption == MaxRuns \in Nat

Run == 1..MaxRuns
NoRun == 0

VARIABLES
  state,    \* the session's state, "idle" standing for "" too
  url,      \* the run whose link the session shows
  stdin,    \* the run whose stdin the session writes codes to
  cancel,   \* the run that l.cancel stops; never reset
  gen,      \* number of the latest run
  secrets,  \* codes to be redacted from the output of the latest run
  lines,    \* codes that stand in the recorded output in clear
  proc,     \* proc[r]: the process of run r
  stopped,  \* runs whose context is cancelled or has timed out
  fed,      \* fed[r]: codes written to the stdin of r
  waited,   \* runs whose waiter has finished
  poll,     \* poll[r]: the start request of run r
  aborts,   \* history: [by, run] when the start request of `by` cancelled `run`
  account,  \* whether the machine is signed in, as the CLI would report it
  probe,    \* answer of the `claude auth status` under way, if any
  cache     \* the cached answer

session == <<state, url, stdin, cancel>>
output == <<secrets, lines>>
children == <<proc, fed>>
status == <<account, probe, cache>>
vars == <<session, gen, output, children, stopped, waited, poll, aborts, status>>

State == {"idle", "starting", "waiting_code", "verifying", "done", "failed"}
Process == {"none", "alive", "ok", "bad"}
Answer == {"none", "out", "in"}

TypeOK ==
  /\ state \in State
  /\ url \in Run \cup {NoRun}
  /\ stdin \in Run \cup {NoRun}
  /\ cancel \in Run \cup {NoRun}
  /\ gen \in Run \cup {NoRun}
  /\ secrets \subseteq Run
  /\ lines \subseteq Run
  /\ proc \in [Run -> Process]
  /\ stopped \subseteq Run
  /\ fed \in [Run -> SUBSET Run]
  /\ waited \subseteq Run
  /\ poll \in [Run -> {"none", "looking", "late"}]
  /\ aborts \subseteq [by : Run, run : Run]
  /\ account \in {"out", "in"}
  /\ probe \in Answer
  /\ cache \in Answer

Init ==
  /\ state = "idle"
  /\ url = NoRun
  /\ stdin = NoRun
  /\ cancel = NoRun
  /\ gen = NoRun
  /\ secrets = {}
  /\ lines = {}
  /\ proc = [r \in Run |-> "none"]
  /\ stopped = {}
  /\ fed = [r \in Run |-> {}]
  /\ waited = {}
  /\ poll = [r \in Run |-> "none"]
  /\ aborts = {}
  /\ account \in {"out", "in"}
  /\ probe = "none"
  /\ cache = "none"

\* activeLocked
Active == state \in {"starting", "waiting_code", "verifying"}

\* Mutant: addLine and the waiter do not look at the generation.
Whichever(r) == TRUE

\* The gen check of addLine and of the waiter.
Current(r) == gen = r
-----------------------------------------------------------------------------
(***************************************************************************)
(* The requests.                                                           *)
(***************************************************************************)

\* startLogin up to its poll loop; while a session is active it only returns
\* the session's snapshot.
Start ==
  /\ ~Active
  /\ gen < MaxRuns
  /\ LET r == gen + 1 IN
       /\ gen' = r
       /\ proc' = [proc EXCEPT ![r] = "alive"]
       /\ poll' = [poll EXCEPT ![r] = "looking"]
       /\ stdin' = r
       /\ cancel' = r
  /\ state' = "starting"
  /\ url' = NoRun
  /\ secrets' = {}
  /\ lines' = {}
  /\ UNCHANGED <<fed, stopped, waited, aborts, status>>

\* The poll loop sees a state it answers with.
Answered(r) ==
  /\ poll[r] = "looking"
  /\ state \in {"waiting_code", "failed", "done"}
  /\ poll' = [poll EXCEPT ![r] = "none"]
  /\ UNCHANGED <<session, gen, output, children, stopped, waited, aborts, status>>

\* The last look before the deadline sees no such state.
LastLook(r) ==
  /\ poll[r] = "looking"
  /\ state \notin {"waiting_code", "failed", "done"}
  /\ poll' = [poll EXCEPT ![r] = "late"]
  /\ UNCHANGED <<session, gen, output, children, stopped, waited, aborts, status>>

\* Mutant: cancelling resets the session but leaves the process alone.
ForgetRun ==
  /\ state' = "idle"
  /\ url' = NoRun
  /\ UNCHANGED <<stopped, stdin, cancel>>

\* cancelLogin, whatever the session's state.
CancelRun ==
  /\ state' = "idle"
  /\ url' = NoRun
  /\ stopped' = stopped \cup {cancel}
  /\ UNCHANGED <<stdin, cancel>>

\* The start request of r gives up: it cancels the session it finds.
GiveUp(r) ==
  /\ poll[r] = "late"
  /\ poll' = [poll EXCEPT ![r] = "none"]
  /\ CancelRun
  /\ aborts' = aborts \cup {[by |-> r, run |-> cancel]}
  /\ UNCHANGED <<gen, output, children, waited, status>>

\* handleLoginCancel
Cancel ==
  /\ cancel # NoRun
  /\ CancelRun
  /\ UNCHANGED <<gen, output, children, waited, poll, aborts, status>>

\* submitLoginCode: the secret is noted, then written to the process, which
\* may have closed its end.
Submit(c) ==
  /\ c <= gen
  /\ state = "waiting_code"
  /\ stdin # NoRun
  /\ secrets' = secrets \cup {c}
  /\ \/ /\ proc[stdin] = "alive"
        /\ fed' = [fed EXCEPT ![stdin] = @ \cup {c}]
        /\ state' = "verifying"
     \/ UNCHANGED <<fed, state>>
  /\ UNCHANGED <<url, stdin, cancel, gen, lines, proc, stopped, waited, poll,
                 aborts, status>>
-----------------------------------------------------------------------------
(***************************************************************************)
(* The goroutines and the process of run r.                                *)
(***************************************************************************)

\* addLine of a line with a link.  The scanner may lag behind the process.
Link(r) ==
  /\ proc[r] # "none"
  /\ Current(r)
  /\ state = "starting"
  /\ url = NoRun
  /\ url' = r
  /\ state' = "waiting_code"
  /\ UNCHANGED <<stdin, cancel, gen, output, children, stopped, waited, poll,
                 aborts, status>>

\* addLine of a line that quotes a code the process was given.
Echo(r) ==
  /\ Current(r)
  /\ \E c \in fed[r] : lines' = lines \cup ({c} \ secrets)
  /\ UNCHANGED <<session, gen, secrets, children, stopped, waited, poll,
                 aborts, status>>

\* `claude auth login` ends; when it succeeded the machine is signed in.
Exit(r) ==
  /\ proc[r] = "alive"
  /\ \/ /\ proc' = [proc EXCEPT ![r] = "ok"]
        /\ account' = "in"
     \/ /\ proc' = [proc EXCEPT ![r] = "bad"]
        /\ UNCHANGED account
  /\ UNCHANGED <<session, gen, output, fed, stopped, waited, poll, aborts,
                 probe, cache>>

\* Mutant: the process is started without a time limit.
Unlimited(r) ==
  /\ r \in stopped
  /\ proc[r] = "alive"
  /\ UNCHANGED vars

\* The context's ten minutes are over.
Expire(r) ==
  /\ proc[r] = "alive"
  /\ r \notin stopped
  /\ stopped' = stopped \cup {r}
  /\ UNCHANGED <<session, gen, output, children, waited, poll, aborts, status>>

\* The runtime kills the process of a context that is done.
Kill(r) ==
  /\ r \in stopped
  /\ proc[r] = "alive"
  /\ proc' = [proc EXCEPT ![r] = "bad"]
  /\ UNCHANGED <<session, gen, output, fed, stopped, waited, poll, aborts, status>>

\* Mutant: a run that was stopped ends in a state no one else knows.
StateOrStopped(r) ==
  IF proc[r] = "ok" THEN "done" ELSE IF r \in stopped THEN "stopped" ELSE "failed"

\* Mutant: a failed run is left as it stands.
StateUnlessOk(r) == IF proc[r] = "ok" THEN "done" ELSE state

\* The waiter's switch.
StateAfter(r) ==
  IF proc[r] = "ok" THEN "done" ELSE IF state = "idle" THEN "idle" ELSE "failed"

\* Mutant: the waiter does not wait for claudeMu.
NoLock == TRUE

\* claudeMu, which claudeInfo keeps while `claude auth status` runs, is free.
CacheFree == probe = "none"

\* The waiter: cmd.Wait has returned.  It drops the cached status when the
\* run succeeded, holding both mutexes.
Reap(r) ==
  /\ proc[r] \in {"ok", "bad"}
  /\ r \notin waited
  /\ waited' = waited \cup {r}
  /\ stopped' = stopped \cup {r}
  /\ \/ /\ ~Current(r)
        /\ UNCHANGED <<session, cache>>
     \/ /\ Current(r)
        /\ stdin' = NoRun
        /\ state' = StateAfter(r)
        /\ IF proc[r] = "ok" THEN CacheFree /\ cache' = "none"
           ELSE UNCHANGED cache
        /\ UNCHANGED <<url, cancel>>
  /\ UNCHANGED <<gen, output, children, poll, aborts, account, probe>>
-----------------------------------------------------------------------------
(***************************************************************************)
(* claudeInfo.                                                             *)
(***************************************************************************)

\* The cache is empty or older than claudeTTL: ask the CLI, keeping claudeMu.
Probe ==
  /\ probe = "none"
  /\ probe' = account
  /\ UNCHANGED <<session, gen, output, children, stopped, waited, poll, aborts,
                 account, cache>>

Store ==
  /\ probe # "none"
  /\ cache' = probe
  /\ probe' = "none"
  /\ UNCHANGED <<session, gen, output, children, stopped, waited, poll, aborts,
                 account>>
-----------------------------------------------------------------------------
Step(r) ==
  \/ Answered(r) \/ LastLook(r) \/ GiveUp(r)
  \/ Link(r) \/ Echo(r) \/ Exit(r) \/ Expire(r) \/ Kill(r) \/ Reap(r)

Next ==
  \/ Start \/ Cancel
  \/ \E r \in Run : Submit(r) \/ Step(r)
  \/ Probe \/ Store

Spec == Init /\ [][Next]_vars

\* Clocks tick, killed processes die, the server's goroutines keep running and
\* `claude auth status` ends (it has a timeout); a Probe does not always win
\* the mutex against a waiter.
FairSpec ==
  /\ Spec
  /\ WF_vars(Store)
  /\ \A r \in Run :
       WF_vars(Expire(r)) /\ WF_vars(Kill(r)) /\ SF_vars(Reap(r))
-----------------------------------------------------------------------------
(***************************************************************************)
(* Properties.                                                             *)
(***************************************************************************)

\* At most one sign-in process runs without having been told to stop, it is
\* that of the latest run, and the session knows of it: whatever order starts,
\* cancellations, time-outs and late exits of earlier processes come in, no
\* process is left behind that nobody can cancel any more.
OneSignIn ==
  \A r \in Run :
    proc[r] = "alive" /\ r \notin stopped => r = gen /\ Active /\ cancel = r

\* While the session claims to be starting, waiting or verifying, the codes go
\* to the latest run, and the waiter that will end this state is still to come;
\* so a session that refuses a new start is never an orphan.
ActiveIsAttended == Active => gen # NoRun /\ stdin = gen /\ gen \notin waited

\* No pasted code stands in clear in the recorded output, although the list of
\* secrets is emptied by every start and an earlier process may still print.
CodesRedacted == lines = {}

\* Once the session says "done", the dashboard does not show a status asked
\* for before the sign-in, even if `claude auth status` was running meanwhile.
DoneIsVisible == state = "done" => cache # "out"

\* Every sign-in ends, so a new one can be started: the ten-minute limit
\* stops a process that waits for a code that never comes.
SignInEnds == Active ~> ~Active

\* claudelogin.go:54: a generation is "bumped per run so a finished old run
\* can't clobber a new one".  No start request cancels a later run than its own.
NewRunUndisturbed == \A a \in aborts : a.by >= a.run
=============================================================================
