-------------------------- MODULE ClaudeLoginProofs --------------------------
(***************************************************************************)
(* Proofs about ClaudeLogin, for any number of runs.  The inductive        *)
(* invariant ties the session record to the latest run: its cancel         *)
(* function is that of run gen, its stdin is that of run gen or closed,    *)
(* and nothing of a run has happened before its number is drawn.           *)
(***************************************************************************)
EXTENDS ClaudeLogin, TLAPS

\* A run that has not been started has left no trace.
FutureRuns ==
  \A r \in Run : r > gen =>
    /\ proc[r] = "none"
    /\ poll[r] = "none"
    /\ fed[r] = {}
    /\ r \notin stopped
    /\ r \notin waited

\* The session points to the latest run and to no other.
PointsToLatest == cancel = gen /\ stdin \in {NoRun, gen}

\* A waiter finishes after its process.
WaitedHasEnded == \A r \in waited : proc[r] \in {"ok", "bad"}

\* The codes the latest run has been given are on the list of secrets.
FedIsSecret == \A r \in Run : r = gen => fed[r] \subseteq secrets

\* A successful run has signed the machine in, and "done" is about one.
SuccessSignsIn ==
  /\ \A r \in Run : proc[r] = "ok" => account = "in"
  /\ state = "done" => account = "in" /\ probe # "out" /\ cache # "out"

\* The session part of the invariant.
SessionInv ==
  /\ TypeOK
  /\ FutureRuns
  /\ PointsToLatest
  /\ WaitedHasEnded
  /\ OneSignIn
  /\ ActiveIsAttended

\* The part about what the session shows.
ShownInv == FedIsSecret /\ CodesRedacted /\ SuccessSignsIn

\* One action per disjunct of the next-state relation.
LEMMA NextCases ==
  ASSUME Next
  PROVE  \/ Start \/ Cancel \/ Probe \/ Store
         \/ \E r \in Run :
              \/ Submit(r) \/ Answered(r) \/ LastLook(r) \/ GiveUp(r)
              \/ Link(r) \/ Echo(r) \/ Exit(r) \/ Expire(r) \/ Kill(r) \/ Reap(r)
  BY DEF Next, Step

LEMMA RunFacts ==
  /\ Run \subseteq Nat
  /\ NoRun \in Nat
  /\ NoRun \notin Run
  BY RunsAssumption DEF Run, NoRun

\* The number the next start draws.
LEMMA NextRun ==
  ASSUME TypeOK, gen < MaxRuns
  PROVE  gen + 1 \in Run /\ gen + 1 > gen /\ gen + 1 # NoRun
  BY RunsAssumption DEF TypeOK, Run, NoRun

LEMMA TypeInit == ASSUME Init PROVE TypeOK
  BY RunFacts DEF Init, TypeOK, State, Process, Answer

\* A request to cancel finds a run to cancel.
LEMMA SomethingToCancel ==
  ASSUME SessionInv, cancel # NoRun \/ \E r \in Run : poll[r] = "late"
  PROVE  cancel \in Run /\ gen = cancel
  <1>1. cancel = gen /\ (gen \in Run \/ gen = NoRun)
    BY DEF SessionInv, TypeOK, PointsToLatest
  <1>2. ASSUME NEW r \in Run, poll[r] = "late" PROVE gen # NoRun
    <2>1. ~(r > gen)
      BY <1>2 DEF SessionInv, FutureRuns
    <2>2. r \in Nat /\ r >= 1
      BY RunsAssumption DEF Run
    <2> QED BY <2>1, <2>2 DEF NoRun
  <1> QED BY <1>1, <1>2

\* Every step keeps the types.
LEMMA TypeStep ==
  ASSUME SessionInv, [Next]_vars
  PROVE  TypeOK'
  <1> USE RunFacts DEF TypeOK, State, Process, Answer
  <1>0. TypeOK /\ account \in {"out", "in"}
    BY DEF SessionInv
  <1>1. CASE Start
    BY <1>0, <1>1, NextRun DEF Start, status
  <1>2. CASE Cancel
    BY <1>0, <1>2, SomethingToCancel DEF Cancel, CancelRun, output, children, status
  <1>3. CASE Probe
    BY <1>0, <1>3 DEF Probe, session, output, children
  <1>4. CASE Store
    BY <1>0, <1>4 DEF Store, session, output, children
  <1>5. ASSUME NEW r \in Run,
               \/ Submit(r) \/ Answered(r) \/ LastLook(r) \/ GiveUp(r)
               \/ Link(r) \/ Echo(r) \/ Exit(r) \/ Expire(r) \/ Kill(r) \/ Reap(r)
        PROVE  TypeOK'
    <2>1. CASE Answered(r)
      BY <1>0, <2>1 DEF Answered, session, output, children, status
    <2>2. CASE LastLook(r)
      BY <1>0, <2>2 DEF LastLook, session, output, children, status
    <2>3. CASE Link(r)
      BY <1>0, <2>3 DEF Link, session, output, children, status
    <2>4. CASE Echo(r)
      BY <1>0, <2>4 DEF Echo, session, output, children, status
    <2>5. CASE Exit(r)
      BY <1>0, <2>5 DEF Exit, session, output, children, status
    <2>6. CASE Expire(r)
      BY <1>0, <2>6 DEF Expire, session, output, children, status
    <2>7. CASE Kill(r)
      BY <1>0, <2>7 DEF Kill, session, output, children, status
    <2>8. CASE Reap(r)
      BY <1>0, <2>8 DEF Reap, Current, StateAfter, session, output, children, status
    <2>9. CASE GiveUp(r)
      BY <1>0, <2>9, SomethingToCancel DEF GiveUp, CancelRun, session, output, children, status
    <2>10. CASE Submit(r)
      BY <1>0, <2>10 DEF Submit, session, output, children, status
    <2> QED BY <1>5, <2>1, <2>2, <2>3, <2>4, <2>5, <2>6, <2>7, <2>8, <2>9, <2>10
  <1>6. CASE UNCHANGED vars
    BY <1>0, <1>6 DEF vars, session, output, children, status
  <1> QED BY NextCases, <1>1, <1>2, <1>3, <1>4, <1>5, <1>6

\* No step touches a run before its start or lets a waiter overtake its process.
LEMMA TracesStep ==
  ASSUME SessionInv, [Next]_vars
  PROVE  (FutureRuns /\ WaitedHasEnded)'
  <1> USE RunFacts DEF TypeOK, FutureRuns, WaitedHasEnded, PointsToLatest, Process
  <1>0. TypeOK /\ FutureRuns /\ PointsToLatest /\ WaitedHasEnded /\ OneSignIn /\ ActiveIsAttended
    BY DEF SessionInv
  <1>1. CASE Start
    BY <1>0, <1>1, NextRun DEF Start, status
  <1>2. CASE Cancel
    BY <1>0, <1>2, SomethingToCancel DEF Cancel, CancelRun, output, children, status
  <1>3. CASE Probe
    BY <1>0, <1>3 DEF Probe, session, output, children
  <1>4. CASE Store
    BY <1>0, <1>4 DEF Store, session, output, children
  <1>5. ASSUME NEW r \in Run,
               \/ Submit(r) \/ Answered(r) \/ LastLook(r) \/ GiveUp(r)
               \/ Link(r) \/ Echo(r) \/ Exit(r) \/ Expire(r) \/ Kill(r) \/ Reap(r)
        PROVE  (FutureRuns /\ WaitedHasEnded)'
    <2>1. CASE Submit(r)
      BY <1>0, <2>1 DEF Submit, session, output, children, status
    <2>2. CASE Answered(r)
      BY <1>0, <2>2 DEF Answered, session, output, children, status
    <2>3. CASE LastLook(r)
      BY <1>0, <2>3 DEF LastLook, session, output, children, status
    <2>4. CASE GiveUp(r)
      BY <1>0, <2>4, SomethingToCancel DEF GiveUp, CancelRun, session, output, children, status
    <2>5. CASE Link(r)
      BY <1>0, <2>5 DEF Link, session, output, children, status
    <2>6. CASE Echo(r)
      BY <1>0, <2>6 DEF Echo, session, output, children, status
    <2>7. CASE Exit(r)
      BY <1>0, <2>7 DEF Exit, session, output, children, status
    <2>8. CASE Expire(r)
      BY <1>0, <2>8 DEF Expire, session, output, children, status
    <2>9. CASE Kill(r)
      BY <1>0, <2>9 DEF Kill, session, output, children, status
    <2>10. CASE Reap(r)
      BY <1>0, <2>10 DEF Reap, Current, StateAfter, session, output, children, status
    <2> QED BY <1>5, <2>1, <2>2, <2>3, <2>4, <2>5, <2>6, <2>7, <2>8, <2>9, <2>10
  <1>6. CASE UNCHANGED vars
    BY <1>0, <1>6 DEF vars, session, output, children, status
  <1> QED BY NextCases, <1>1, <1>2, <1>3, <1>4, <1>5, <1>6

\* Every step keeps the session pointing to the one run that matters.
LEMMA SignInStep ==
  ASSUME SessionInv, [Next]_vars
  PROVE  (PointsToLatest /\ OneSignIn /\ ActiveIsAttended)'
  <1> USE RunFacts DEF TypeOK, FutureRuns, PointsToLatest, WaitedHasEnded, OneSignIn, ActiveIsAttended, Active
  <1>0. TypeOK /\ FutureRuns /\ PointsToLatest /\ WaitedHasEnded /\ OneSignIn /\ ActiveIsAttended
    BY DEF SessionInv
  <1>1. CASE Start
    BY <1>0, <1>1, NextRun DEF Start, status
  <1>2. CASE Cancel
    BY <1>0, <1>2, SomethingToCancel DEF Cancel, CancelRun, output, children, status
  <1>3. CASE Probe
    BY <1>0, <1>3 DEF Probe, session, output, children
  <1>4. CASE Store
    BY <1>0, <1>4 DEF Store, session, output, children
  <1>5. ASSUME NEW r \in Run,
               \/ Submit(r) \/ Answered(r) \/ LastLook(r) \/ GiveUp(r)
               \/ Link(r) \/ Echo(r) \/ Exit(r) \/ Expire(r) \/ Kill(r) \/ Reap(r)
        PROVE  (PointsToLatest /\ OneSignIn /\ ActiveIsAttended)'
    <2>1. CASE Submit(r)
      BY <1>0, <2>1 DEF Submit, session, output, children, status
    <2>2. CASE Answered(r)
      BY <1>0, <2>2 DEF Answered, session, output, children, status
    <2>3. CASE LastLook(r)
      BY <1>0, <2>3 DEF LastLook, session, output, children, status
    <2>4. CASE GiveUp(r)
      BY <1>0, <2>4, SomethingToCancel DEF GiveUp, CancelRun, session, output, children, status
    <2>5. CASE Link(r)
      BY <1>0, <2>5 DEF Link, session, output, children, status
    <2>6. CASE Echo(r)
      BY <1>0, <2>6 DEF Echo, session, output, children, status
    <2>7. CASE Exit(r)
      BY <1>0, <2>7 DEF Exit, session, output, children, status
    <2>8. CASE Expire(r)
      BY <1>0, <2>8 DEF Expire, session, output, children, status
    <2>9. CASE Kill(r)
      BY <1>0, <2>9 DEF Kill, session, output, children, status
    <2>10. CASE Reap(r)
      BY <1>0, <2>10 DEF Reap, Current, StateAfter, session, output, children, status
    <2> QED BY <1>5, <2>1, <2>2, <2>3, <2>4, <2>5, <2>6, <2>7, <2>8, <2>9, <2>10
  <1>6. CASE UNCHANGED vars
    BY <1>0, <1>6 DEF vars, session, output, children, status
  <1> QED BY NextCases, <1>1, <1>2, <1>3, <1>4, <1>5, <1>6

\* Every step keeps codes secret and the shown status current.
LEMMA ShownStep ==
  ASSUME SessionInv, ShownInv, [Next]_vars
  PROVE  (ShownInv)'
  <1> USE RunFacts DEF TypeOK, FutureRuns, PointsToLatest, ShownInv, FedIsSecret, CodesRedacted, SuccessSignsIn, Answer, CacheFree
  <1>0. TypeOK /\ FutureRuns /\ PointsToLatest /\ WaitedHasEnded /\ OneSignIn /\ ActiveIsAttended
    BY DEF SessionInv
  <1>1. CASE Start
    BY <1>0, <1>1, NextRun DEF Start, status
  <1>2. CASE Cancel
    BY <1>0, <1>2, SomethingToCancel DEF Cancel, CancelRun, output, children, status
  <1>3. CASE Probe
    BY <1>0, <1>3 DEF Probe, session, output, children
  <1>4. CASE Store
    BY <1>0, <1>4 DEF Store, session, output, children
  <1>5. ASSUME NEW r \in Run,
               \/ Submit(r) \/ Answered(r) \/ LastLook(r) \/ GiveUp(r)
               \/ Link(r) \/ Echo(r) \/ Exit(r) \/ Expire(r) \/ Kill(r) \/ Reap(r)
        PROVE  (ShownInv)'
    <2>1. CASE Submit(r)
      BY <1>0, <2>1 DEF Submit, session, output, children, status
    <2>2. CASE Answered(r)
      BY <1>0, <2>2 DEF Answered, session, output, children, status
    <2>3. CASE LastLook(r)
      BY <1>0, <2>3 DEF LastLook, session, output, children, status
    <2>4. CASE GiveUp(r)
      BY <1>0, <2>4, SomethingToCancel DEF GiveUp, CancelRun, session, output, children, status
    <2>5. CASE Link(r)
      BY <1>0, <2>5 DEF Link, session, output, children, status
    <2>6. CASE Echo(r)
      <3>1. PICK c \in fed[r] : lines' = lines \cup ({c} \ secrets)
        BY <2>6 DEF Echo
      <3>2. fed[r] \subseteq secrets
        BY <1>0, <2>6 DEF Echo, Current
      <3>3. lines' = {}
        BY <3>1, <3>2
      <3> QED BY <1>0, <2>6, <3>3 DEF Echo, session, children, status
    <2>7. CASE Exit(r)
      BY <1>0, <2>7 DEF Exit, session, output, children, status
    <2>8. CASE Expire(r)
      BY <1>0, <2>8 DEF Expire, session, output, children, status
    <2>9. CASE Kill(r)
      BY <1>0, <2>9 DEF Kill, session, output, children, status
    <2>10. CASE Reap(r)
      BY <1>0, <2>10 DEF Reap, Current, StateAfter, session, output, children, status
    <2> QED BY <1>5, <2>1, <2>2, <2>3, <2>4, <2>5, <2>6, <2>7, <2>8, <2>9, <2>10
  <1>6. CASE UNCHANGED vars
    BY <1>0, <1>6 DEF vars, session, output, children, status
  <1> QED BY NextCases, <1>1, <1>2, <1>3, <1>4, <1>5, <1>6

\* The initial states satisfy both invariants.
LEMMA LoginInit == ASSUME Init PROVE SessionInv /\ ShownInv
  <1>1. TypeOK
    BY TypeInit
  <1> QED
    BY <1>1, RunFacts DEF Init, SessionInv, ShownInv, FutureRuns, PointsToLatest,
      WaitedHasEnded, OneSignIn, ActiveIsAttended, Active, FedIsSecret,
      CodesRedacted, SuccessSignsIn

\* Both invariants hold in every reachable state.
LEMMA LoginInvariant == Spec => [](SessionInv /\ ShownInv)
  <1>1. SessionInv /\ ShownInv /\ [Next]_vars => (SessionInv /\ ShownInv)'
    <2> SUFFICES ASSUME SessionInv, ShownInv, [Next]_vars
                 PROVE  SessionInv' /\ ShownInv'
      OBVIOUS
    <2>1. TypeOK'
      BY TypeStep
    <2>2. (FutureRuns /\ WaitedHasEnded)'
      BY TracesStep
    <2>3. (PointsToLatest /\ OneSignIn /\ ActiveIsAttended)'
      BY SignInStep
    <2>4. ShownInv'
      BY ShownStep
    <2> QED BY <2>1, <2>2, <2>3, <2>4 DEF SessionInv
  <1> QED BY LoginInit, <1>1, PTL DEF Spec

\* The declared types hold for any number of runs.
THEOREM LoginTypes == Spec => []TypeOK
  <1>1. SessionInv => TypeOK
    BY DEF SessionInv
  <1> QED BY LoginInvariant, <1>1, PTL

\* Never two sign-in processes that nobody has told to stop; the one there may
\* be is the one the session can cancel.
THEOREM SingleSignIn == Spec => []OneSignIn
  <1>1. SessionInv => OneSignIn
    BY DEF SessionInv
  <1> QED BY LoginInvariant, <1>1, PTL

\* An active session always has the waiter of the latest run to end it.
THEOREM NoOrphanSession == Spec => []ActiveIsAttended
  <1>1. SessionInv => ActiveIsAttended
    BY DEF SessionInv
  <1> QED BY LoginInvariant, <1>1, PTL

\* A pasted code never reaches the recorded output in clear.
THEOREM Redaction == Spec => []CodesRedacted
  <1>1. ShownInv => CodesRedacted
    BY DEF ShownInv
  <1> QED BY LoginInvariant, <1>1, PTL

\* A finished sign-in is not followed by a status asked for before it.
THEOREM FreshStatus == Spec => []DoneIsVisible
  <1>1. ShownInv => DoneIsVisible
    BY DEF ShownInv, SuccessSignsIn, DoneIsVisible
  <1> QED BY LoginInvariant, <1>1, PTL
-----------------------------------------------------------------------------
(***************************************************************************)
(* Progress: what of SignInEnds is about single steps.  A sign-in under    *)
(* way always has a step ahead that is its own, these steps only count     *)
(* down, and the last of them ends it.  That the steps are taken is the    *)
(* fairness of FairSpec.                                                   *)
(***************************************************************************)

\* A run has a process, and is told to stop before the next one starts.
RunsInTurn ==
  /\ \A r \in Run : r <= gen => proc[r] # "none"
  /\ \A r \in Run : r < gen => r \in stopped
  /\ gen # NoRun /\ ~Active => gen \in stopped

\* The steps run r has left: to be stopped, to die, to be waited for.
StepsLeft(r) ==
  IF proc[r] = "alive" THEN IF r \in stopped THEN 2 ELSE 3
  ELSE IF r \notin waited THEN 1 ELSE 0

\* The guards of Expire, Kill and Reap, but for claudeMu.
ToBeStopped(r) == proc[r] = "alive" /\ r \notin stopped
ToBeKilled(r) == proc[r] = "alive" /\ r \in stopped
ToBeReaped(r) == proc[r] \in {"ok", "bad"} /\ r \notin waited

\* An active session is never left without a next step of its run.
SomethingAhead ==
  Active => /\ gen \in Run
            /\ ToBeStopped(gen) \/ ToBeKilled(gen) \/ ToBeReaped(gen)

\* No step puts a run back, each step of its process or waiter takes it forward.
NeverBack == \A r \in Run : r <= gen => StepsLeft(r)' <= StepsLeft(r)
Forward ==
  \A r \in Run :
    Expire(r) \/ Exit(r) \/ Kill(r) \/ Reap(r) => StepsLeft(r)' < StepsLeft(r)

\* The waiter of the latest run ends the session, and no other run takes it over
\* as long as it is active.
WaiterEnds == \A r \in Run : Reap(r) /\ r = gen => ~Active'
OneRunAtATime == Active => gen' = gen

\* A start request that gives up cancels its own run, or a later one after its
\* own had been stopped.
OldRequest(r) == GiveUp(r) => cancel = r \/ (r < cancel /\ r \in stopped)

LEMMA TurnsInit == ASSUME Init PROVE RunsInTurn
  BY RunsAssumption DEF Init, RunsInTurn, Run, NoRun, Active

\* A run that starts comes after one that has been told to stop.
LEMMA TurnsStep ==
  ASSUME SessionInv, RunsInTurn, [Next]_vars
  PROVE  RunsInTurn'
  <1> USE RunFacts DEF TypeOK, RunsInTurn, PointsToLatest, Active, Process
  <1>0. TypeOK /\ PointsToLatest /\ FutureRuns
    BY DEF SessionInv
  <1>1. CASE Start
    <2>1. gen \in Nat /\ gen' = gen + 1 /\ Run \subseteq Nat /\ stopped' = stopped
      BY <1>0, <1>1 DEF Start, status
    <2>2. \A r \in Run : r <= gen => r \in stopped
      BY <1>0, <1>1, <2>1 DEF Start
    <2>3. \A r \in Run : r <= gen' => proc'[r] # "none"
      BY <1>0, <1>1, <2>1 DEF Start
    <2>4. \A r \in Run : r < gen' => r \in stopped'
      BY <2>1, <2>2
    <2>5. Active'
      BY <1>1 DEF Start
    <2> QED BY <2>3, <2>4, <2>5
  <1>2. CASE Cancel
    BY <1>0, <1>2, SomethingToCancel DEF Cancel, CancelRun, output, children, status
  <1>3. CASE Probe
    BY <1>0, <1>3 DEF Probe, session, output, children
  <1>4. CASE Store
    BY <1>0, <1>4 DEF Store, session, output, children
  <1>5. ASSUME NEW r \in Run,
               \/ Submit(r) \/ Answered(r) \/ LastLook(r) \/ GiveUp(r)
               \/ Link(r) \/ Echo(r) \/ Exit(r) \/ Expire(r) \/ Kill(r) \/ Reap(r)
        PROVE  RunsInTurn'
    <2>1. CASE Submit(r)
      BY <1>0, <2>1 DEF Submit, session, output, children, status
    <2>2. CASE Answered(r)
      BY <1>0, <2>2 DEF Answered, session, output, children, status
    <2>3. CASE LastLook(r)
      BY <1>0, <2>3 DEF LastLook, session, output, children, status
    <2>4. CASE GiveUp(r)
      BY <1>0, <2>4, SomethingToCancel DEF GiveUp, CancelRun, session, output, children, status
    <2>5. CASE Link(r)
      BY <1>0, <2>5 DEF Link, session, output, children, status
    <2>6. CASE Echo(r)
      BY <1>0, <2>6 DEF Echo, session, output, children, status
    <2>7. CASE Exit(r)
      BY <1>0, <2>7 DEF Exit, session, output, children, status
    <2>8. CASE Expire(r)
      BY <1>0, <2>8 DEF Expire, session, output, children, status
    <2>9. CASE Kill(r)
      BY <1>0, <2>9 DEF Kill, session, output, children, status
    <2>10. CASE Reap(r)
      BY <1>0, <2>10 DEF Reap, Current, StateAfter, session, output, children, status
    <2> QED BY <1>5, <2>1, <2>2, <2>3, <2>4, <2>5, <2>6, <2>7, <2>8, <2>9, <2>10
  <1>6. CASE UNCHANGED vars
    BY <1>0, <1>6 DEF vars, session, output, children, status
  <1> QED BY NextCases, <1>1, <1>2, <1>3, <1>4, <1>5, <1>6

LEMMA TurnsInvariant == Spec => [](SessionInv /\ RunsInTurn)
  <1>1. SessionInv /\ ShownInv /\ RunsInTurn /\ [Next]_vars => RunsInTurn'
    BY TurnsStep
  <1> QED BY LoginInvariant, TurnsInit, <1>1, PTL DEF Spec

\* What a step does to one run: a process only ends, a stop and a waiter's end
\* stay.
LEMMA RunsAge ==
  ASSUME SessionInv, RunsInTurn, [Next]_vars, NEW q \in Run, q <= gen
  PROVE  /\ proc[q] # "alive" => proc'[q] # "alive"
         /\ q \in stopped => q \in stopped'
         /\ q \in waited => q \in waited'
  <1> USE RunFacts DEF TypeOK, RunsInTurn, Process
  <1>0. TypeOK
    BY DEF SessionInv
  <1>1. CASE Start
    <2>1. gen \in Nat /\ q \in Nat /\ q # gen + 1
      BY <1>0
    <2> QED BY <1>0, <1>1, <2>1 DEF Start, status
  <1>2. CASE Cancel
    BY <1>0, <1>2 DEF Cancel, CancelRun, output, children, status
  <1>3. CASE Probe
    BY <1>0, <1>3 DEF Probe, session, output, children
  <1>4. CASE Store
    BY <1>0, <1>4 DEF Store, session, output, children
  <1>5. ASSUME NEW r \in Run,
               \/ Submit(r) \/ Answered(r) \/ LastLook(r) \/ GiveUp(r)
               \/ Link(r) \/ Echo(r) \/ Exit(r) \/ Expire(r) \/ Kill(r) \/ Reap(r)
        PROVE  /\ proc[q] # "alive" => proc'[q] # "alive"
               /\ q \in stopped => q \in stopped'
               /\ q \in waited => q \in waited'
    <2>1. CASE Exit(r) \/ Kill(r)
      BY <1>0, <2>1 DEF Exit, Kill, session, output, children, status
    <2>2. CASE ~(Exit(r) \/ Kill(r))
      BY <1>0, <1>5, <2>2 DEF Submit, Answered, LastLook, GiveUp, CancelRun, Link, Echo,
        Expire, Reap, session, output, children, status
    <2> QED BY <2>1, <2>2
  <1>6. CASE UNCHANGED vars
    BY <1>0, <1>6 DEF vars, session, output, children, status
  <1> QED BY NextCases, <1>1, <1>2, <1>3, <1>4, <1>5, <1>6

\* The safety half of SignInEnds.  An active session always has a step of its
\* run ahead; no step of anybody sets the run back, of at most three steps each
\* takes one away, the waiter's ends the session, and until then no other run
\* takes its place.
THEOREM SignInProgress ==
  Spec => /\ []SomethingAhead
          /\ [][NeverBack /\ Forward /\ WaiterEnds /\ OneRunAtATime]_vars
  <1>1. SessionInv /\ RunsInTurn => SomethingAhead
    BY RunFacts DEF SessionInv, TypeOK, RunsInTurn, ActiveIsAttended, SomethingAhead,
      ToBeStopped, ToBeKilled, ToBeReaped, Process
  <1>2. ASSUME SessionInv, RunsInTurn, [Next]_vars
        PROVE  [NeverBack /\ Forward /\ WaiterEnds /\ OneRunAtATime]_vars
    <2>1. NeverBack
      <3> SUFFICES ASSUME NEW q \in Run, q <= gen
                   PROVE  StepsLeft(q)' <= StepsLeft(q)
        BY DEF NeverBack
      <3>1. /\ proc[q] # "alive" => proc'[q] # "alive"
            /\ q \in stopped => q \in stopped'
            /\ q \in waited => q \in waited'
        BY <1>2, RunsAge
      <3> QED BY <3>1 DEF StepsLeft
    <2>2. Forward
      <3> SUFFICES ASSUME NEW q \in Run, Expire(q) \/ Exit(q) \/ Kill(q) \/ Reap(q)
                   PROVE  StepsLeft(q)' < StepsLeft(q)
        BY DEF Forward
      <3>1. TypeOK
        BY <1>2 DEF SessionInv
      <3>2. Expire(q) => StepsLeft(q)' < StepsLeft(q)
        BY <3>1 DEF Expire, StepsLeft, children
      <3>3. Exit(q) \/ Kill(q) => proc[q] = "alive" /\ proc'[q] # "alive"
        BY <3>1 DEF Exit, Kill, TypeOK
      <3>4. Exit(q) \/ Kill(q) => StepsLeft(q)' < StepsLeft(q)
        BY <3>3 DEF StepsLeft
      <3>5. Reap(q) => /\ proc'[q] # "alive" /\ proc[q] # "alive"
                       /\ q \notin waited /\ q \in waited'
        BY <3>1 DEF Reap, children
      <3>6. Reap(q) => StepsLeft(q)' < StepsLeft(q)
        BY <3>5 DEF StepsLeft
      <3> QED BY <3>2, <3>4, <3>6
    <2>3. WaiterEnds
      BY <1>2 DEF WaiterEnds, Reap, Current, StateAfter, Active
    <2>4. OneRunAtATime \/ UNCHANGED vars
      <3> SUFFICES ASSUME Active, Next PROVE gen' = gen
        BY <1>2 DEF OneRunAtATime
      <3> QED
        BY NextCases DEF Start, Cancel, CancelRun, Probe, Store, Submit, Answered, LastLook,
          GiveUp, Link, Echo, Exit, Expire, Kill, Reap
    <2> QED BY <2>1, <2>2, <2>3, <2>4
  <1> QED BY TurnsInvariant, <1>1, <1>2, PTL DEF Spec

\* Why NewRunUndisturbed fails, and that nothing else makes it fail: a start
\* request cancels a run that is not its own only when that run is a later one and its
\* own had been told to stop before.
THEOREM OnlyOldRequestsDisturb == Spec => [][\A r \in Run : OldRequest(r)]_vars
  <1>1. ASSUME SessionInv, RunsInTurn, NEW r \in Run, GiveUp(r)
        PROVE  cancel = r \/ (r < cancel /\ r \in stopped)
    <2>1. cancel = gen /\ gen \in Nat /\ r \in Nat /\ ~(r > gen)
      BY <1>1, RunFacts DEF SessionInv, TypeOK, PointsToLatest, FutureRuns, GiveUp
    <2> QED BY <1>1, <2>1 DEF RunsInTurn
  <1>2. SessionInv /\ RunsInTurn => \A r \in Run : OldRequest(r)
    BY <1>1 DEF OldRequest
  <1> QED BY TurnsInvariant, <1>2, PTL
=============================================================================
