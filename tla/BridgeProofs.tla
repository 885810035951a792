---------------------------- MODULE BridgeProofs ----------------------------
(***************************************************************************)
(* Proofs about Bridge, for all messages, chats, senders and bounds.       *)
(***************************************************************************)
EXTENDS Bridge, FiniteSetTheorems, TLAPS

USE DEF files, policy, sessions

\* A task works on a message, which was sent to a chat by a sender.
LEMMA TaskFields ==
  ASSUME NEW t \in Task
  PROVE  t.msg \in Messages /\ Chat(t) \in Chats /\ SenderOf[t.msg] \in Senders
<1>1. t.msg \in Messages
  <2>1. CASE t \in HookTask
    <3>1. PICK m \in Messages : t \in [msg : {m}, via : {"hook"}, no : 1..MaxTries[m]]
      BY <2>1 DEF HookTask
    <3>. QED  BY <3>1
  <2>2. CASE t \in ReplayTask
    BY <2>2 DEF ReplayTask
  <2>. QED  BY <2>1, <2>2 DEF Task
<1>. QED  BY <1>1, BridgeAssumption DEF Chat

\* The task of a webhook delivery within the bound is a task.
LEMMA HookIsTask ==
  ASSUME TypeOK, NEW m \in Messages, tries[m] < MaxTries[m]
  PROVE  [msg |-> m, via |-> "hook", no |-> tries[m] + 1] \in Task
<1>. DEFINE h == [msg |-> m, via |-> "hook", no |-> tries[m] + 1]
<1>1. tries[m] + 1 \in 1..MaxTries[m]
  BY BridgeAssumption DEF TypeOK
<1>2. h \in [msg : {m}, via : {"hook"}, no : 1..MaxTries[m]]
  BY <1>1
<1>3. h \in HookTask
  BY <1>2 DEF HookTask
<1>. QED  BY <1>3 DEF Task

\* A step that spends a fault keeps the fault counters counting.
LEMMA SpendType ==
  ASSUME spent \in [Fault -> Nat], NEW f \in Fault, Spend(f)
  PROVE  spent' \in [Fault -> Nat]
BY DEF Spend

\* Noting an event of a message keeps the log well-typed.
LEMMA NoteType ==
  ASSUME log \in [Messages -> SUBSET Event], NEW m \in Messages, NEW e \in Event,
         Note(m, e)
  PROVE  log' \in [Messages -> SUBSET Event]
BY DEF Note

\* A delivered text, or a failed one, keeps log and replies well-typed.
LEMMA DeliverType ==
  ASSUME TypeOK, NEW t \in Task, Deliver(t) \/ UNCHANGED <<log, replies>>
  PROVE  log' \in [Messages -> SUBSET Event] /\ replies' \in [Messages -> Nat]
<1>1. CASE UNCHANGED <<log, replies>>
  BY <1>1 DEF TypeOK
<1>2. CASE Deliver(t) /\ ending[t] = "failed"
  <2>1. Note(t.msg, "apologised") /\ UNCHANGED replies
    BY <1>2 DEF Deliver
  <2>. QED  BY <2>1, TaskFields, NoteType DEF TypeOK, Event
<1>3. CASE Deliver(t) /\ ending[t] # "failed"
  <2>1. /\ Note(t.msg, "answered")
        /\ replies' = [replies EXCEPT ![t.msg] = @ + 1]
    BY <1>3 DEF Deliver
  <2>2. log' \in [Messages -> SUBSET Event]
    BY <2>1, TaskFields, NoteType DEF TypeOK, Event
  <2>3. replies' \in [Messages -> Nat]
    BY <2>1, TaskFields DEF TypeOK
  <2>. QED  BY <2>2, <2>3
<1>. QED  BY <1>1, <1>2, <1>3

\* Writing to an open file leaves files of a type.
LEMMA FillType ==
  ASSUME TypeOK, NEW t \in Task, NEW f \in {"whole", "torn", Content(t)}, Fill(t, f)
  PROVE  json' \in [Messages -> File] /\ tmp' \in [Messages -> File]
<1>1. f \in File
  BY TaskFields DEF TypeOK, Content, File
<1>. QED  BY <1>1 DEF TypeOK, Fill

\* Counting a delivery attempt of gowa keeps the counters within their bounds.
LEMMA PostType ==
  ASSUME TypeOK, NEW m \in Messages, Post(m)
  PROVE  /\ tries' \in [Messages -> Nat]
         /\ \A n \in Messages : tries'[n] <= MaxTries[n]
<1>1. tries' = [tries EXCEPT ![m] = tries[m] + 1] /\ tries[m] < MaxTries[m]
  BY DEF Post
<1>2. tries[m] \in Nat /\ MaxTries[m] \in Nat
  BY BridgeAssumption DEF TypeOK
<1>3. tries[m] + 1 <= MaxTries[m]
  BY <1>1, <1>2
<1>. QED  BY <1>1, <1>3 DEF TypeOK

-----------------------------------------------------------------------------
\* Every step keeps the type invariant.
LEMMA TypeStep == TypeOK /\ [Next]_vars => TypeOK'
<1>. SUFFICES ASSUME TypeOK, [Next]_vars
              PROVE  TypeOK'
  OBVIOUS
<1>. USE TaskFields
<1>1. ASSUME NEW m \in Messages, Ignore(m)
      PROVE  TypeOK'
  <2>1. Post(m)
    BY <1>1 DEF Ignore
  <2>. QED  BY <1>1, <2>1, PostType DEF TypeOK, Ignore
<1>2. ASSUME NEW m \in Messages, Accept(m)
      PROVE  TypeOK'
  <2>1. Post(m) /\ Goto([msg |-> m, via |-> "hook", no |-> tries[m] + 1], "open")
    BY <1>2 DEF Accept
  <2>2. [msg |-> m, via |-> "hook", no |-> tries[m] + 1] \in Task
    BY <2>1, HookIsTask DEF Post
  <2>3. pc' \in [Task -> PC]
    BY <2>1, <2>2 DEF Goto, TypeOK, PC
  <2>. QED  BY <1>2, <2>1, <2>3, PostType DEF TypeOK, Accept
<1>3. ASSUME NEW t \in Task, OpenTmp(t)
      PROVE  TypeOK'
  <2>1. pc' \in [Task -> PC]
    BY <1>3 DEF TypeOK, OpenTmp, Goto, PC
  <2>2. tmp' \in [Messages -> File] /\ opened' \in [Task -> Name]
    BY <1>3 DEF TypeOK, OpenTmp, File, Name
  <2>3. log' \in [Messages -> SUBSET Event] /\ spent' \in [Fault -> Nat]
    BY <1>3, NoteType, SpendType DEF TypeOK, OpenTmp, Event, Fault
  <2>. QED  BY <1>3, <2>1, <2>2, <2>3 DEF TypeOK, OpenTmp
<1>22. ASSUME NEW t \in Task, FillTmp(t)
       PROVE  TypeOK'
  <2>1. pc' \in [Task -> PC]
    BY <1>22 DEF TypeOK, FillTmp, Goto, PC
  <2>2. json' \in [Messages -> File] /\ tmp' \in [Messages -> File]
    BY <1>22, FillType DEF FillTmp, File
  <2>3. opened' \in [Task -> Name]
    BY <1>22 DEF TypeOK, FillTmp, Name
  <2>4. log' \in [Messages -> SUBSET Event] /\ spent' \in [Fault -> Nat]
    BY <1>22, NoteType, SpendType DEF TypeOK, FillTmp, Event, Fault
  <2>. QED  BY <1>22, <2>1, <2>2, <2>3, <2>4 DEF TypeOK, FillTmp
<1>4. ASSUME NEW t \in Task, Rename(t)
      PROVE  TypeOK'
  <2>1. pc' \in [Task -> PC]
    BY <1>4 DEF TypeOK, Rename, Goto, PC
  <2>2. json' \in [Messages -> File] /\ tmp' \in [Messages -> File]
    BY <1>4 DEF TypeOK, Rename, File
  <2>3. opened' \in [Task -> Name]
    BY <1>4 DEF TypeOK, Rename, Moved, Name
  <2>4. log' \in [Messages -> SUBSET Event] /\ spent' \in [Fault -> Nat]
    BY <1>4, NoteType, SpendType DEF TypeOK, Rename, Event, Fault
  <2>. QED  BY <1>4, <2>1, <2>2, <2>3, <2>4 DEF TypeOK, Rename
<1>5. ASSUME NEW t \in Task, Ack(t)
      PROVE  TypeOK'
  BY <1>5 DEF TypeOK, Ack, Goto, Note, PC, Event
<1>6. ASSUME NEW t \in Task, Authorize(t)
      PROVE  TypeOK'
  BY <1>6 DEF TypeOK, Authorize, Goto, PC
<1>7. ASSUME NEW t \in Task, Refuse(t)
      PROVE  TypeOK'
  <2>1. pc' \in [Task -> PC] /\ log' \in [Messages -> SUBSET Event]
    BY <1>7 DEF TypeOK, Refuse, Goto, Note, PC, Event
  <2>2. json' \in [Messages -> File] /\ tmp' \in [Messages -> File]
    BY <1>7 DEF TypeOK, Refuse, Forget, File
  <2>3. opened' \in [Task -> Name]
    BY <1>7 DEF TypeOK, Refuse, Forget, Removed, Name
  <2>4. spent' \in [Fault -> Nat]
    BY <1>7, SpendType DEF TypeOK, Refuse, Forget, Fault
  <2>. QED  BY <1>7, <2>1, <2>2, <2>3, <2>4 DEF TypeOK, Refuse
<1>8. ASSUME NEW t \in Task, Acquire(t)
      PROVE  TypeOK'
  BY <1>8 DEF TypeOK, Acquire, Goto, PC
<1>9. ASSUME NEW t \in Task, RunResumed(t)
      PROVE  TypeOK'
  BY <1>9 DEF TypeOK, RunResumed, Resumed, Goto, PC, Ending
<1>10. ASSUME NEW t \in Task, RunFresh(t)
       PROVE  TypeOK'
  BY <1>10 DEF TypeOK, RunFresh, Goto, PC, Ending
<1>11. ASSUME NEW t \in Task, RunFailed(t)
       PROVE  TypeOK'
  BY <1>11 DEF TypeOK, RunFailed, FirstSend, Goto, PC, Ending
<1>12. ASSUME NEW t \in Task, Save(t)
       PROVE  TypeOK'
  BY <1>12, SpendType DEF TypeOK, Save, FirstSend, Goto, PC, Fault
<1>13. ASSUME NEW t \in Task, SendOK(t)
       PROVE  TypeOK'
  BY <1>13, DeliverType DEF TypeOK, SendOK, Goto, PC
<1>14. ASSUME NEW t \in Task, QuoteError(t)
       PROVE  TypeOK'
  BY <1>14, SpendType, DeliverType DEF TypeOK, QuoteError, Goto, PC, Fault
<1>15. ASSUME NEW t \in Task, ReplyError(t)
       PROVE  TypeOK'
  BY <1>15, SpendType, DeliverType DEF TypeOK, ReplyError, Leave, Goto, PC, Ending, Fault
<1>16. ASSUME NEW t \in Task, ApologyError(t)
       PROVE  TypeOK'
  <2>1. log' \in [Messages -> SUBSET Event] /\ spent' \in [Fault -> Nat]
    BY <1>16, NoteType, SpendType DEF TypeOK, ApologyError, Event, Fault
  <2>. QED  BY <1>16, <2>1 DEF TypeOK, ApologyError, Goto, PC
<1>17. ASSUME NEW t \in Task, Finish(t)
       PROVE  TypeOK'
  BY <1>17, SpendType DEF TypeOK, Finish, Forget, Removed, Name, Leave, Goto, PC, File, Ending, Fault
<1>18. CASE Crash
  BY <1>18, SpendType DEF TypeOK, Crash, PC, Ending, Fault, Name
<1>19. CASE Restart
  BY <1>19 DEF TypeOK, Restart, PC
<1>20. CASE ChangePolicy
  BY <1>20, SpendType DEF TypeOK, ChangePolicy, Fault
<1>21. CASE UNCHANGED vars
  BY <1>21 DEF TypeOK, vars
<1>. QED
  BY <1>1, <1>2, <1>3, <1>4, <1>5, <1>6, <1>7, <1>8, <1>9, <1>10, <1>11, <1>12,
     <1>13, <1>14, <1>15, <1>16, <1>17, <1>18, <1>19, <1>20, <1>21, <1>22 DEF Next, Step

\* Type correctness of the bridge: every reachable state has the declared types.
THEOREM TypeCorrect == Spec => []TypeOK
<1>1. Init => TypeOK
  BY BridgeAssumption DEF Init, TypeOK, PC, Ending, File, Name
<1>. QED  BY <1>1, TypeStep, PTL DEF Spec

-----------------------------------------------------------------------------
(***************************************************************************)
(* One Claude run per chat.  A task in its critical part holds its chat's  *)
(* lock; what a step may do to locks and critical parts is one of four     *)
(* moves.                                                                  *)
(***************************************************************************)
LockHeld == \A t \in Task : pc[t] \in Critical => locked[Chat(t)]

\* A step that touches no lock and lets nobody in.
Stays ==
  /\ locked' = locked
  /\ \A u \in Task : pc'[u] \in Critical => pc[u] \in Critical

\* A step after which no task is in its critical part.
AllOut == \A u \in Task : pc'[u] \notin Critical

\* A step by which t takes a free lock.
Enters(t) ==
  /\ ~locked[Chat(t)]
  /\ locked' = [locked EXCEPT ![Chat(t)] = TRUE]
  /\ \A u \in Task : pc'[u] \in Critical => pc[u] \in Critical \/ u = t

\* A step by which t leaves and releases its lock.
Leaves(t) ==
  /\ pc[t] \in Critical
  /\ pc'[t] \notin Critical
  /\ locked' = [locked EXCEPT ![Chat(t)] = FALSE]
  /\ \A u \in Task : pc'[u] \in Critical => pc[u] \in Critical

\* Every step of the bridge is one of the four moves.
LEMMA LockMoves ==
  TypeOK /\ [Next]_vars =>
    Stays \/ AllOut \/ \E t \in Task : Enters(t) \/ Leaves(t)
<1>. SUFFICES ASSUME TypeOK, [Next]_vars
              PROVE  Stays \/ AllOut \/ \E t \in Task : Enters(t) \/ Leaves(t)
  OBVIOUS
<1>. USE DEF Critical
<1>1. ASSUME NEW m \in Messages, Ignore(m) \/ Accept(m)
      PROVE  Stays
  BY <1>1 DEF TypeOK, Ignore, Accept, Goto, Stays
<1>2. ASSUME NEW t \in Task, OpenTmp(t) \/ FillTmp(t) \/ Rename(t) \/ Ack(t) \/ Authorize(t) \/ Refuse(t)
      PROVE  Stays
  BY <1>2 DEF TypeOK, OpenTmp, FillTmp, Rename, Ack, Authorize, Refuse, Goto, Stays
<1>3. ASSUME NEW t \in Task, Acquire(t)
      PROVE  Enters(t)
  BY <1>3 DEF TypeOK, Acquire, LockFree, Goto, Enters
<1>4. ASSUME NEW t \in Task, RunResumed(t) \/ RunFresh(t) \/ RunFailed(t) \/ Save(t)
      PROVE  Stays
  BY <1>4 DEF TypeOK, RunResumed, RunFresh, RunFailed, Save, Goto, Stays
<1>5. ASSUME NEW t \in Task, SendOK(t) \/ QuoteError(t) \/ ApologyError(t)
      PROVE  Stays
  BY <1>5 DEF TypeOK, SendOK, QuoteError, ApologyError, Goto, Stays
<1>6. ASSUME NEW t \in Task, ReplyError(t) \/ Finish(t)
      PROVE  Leaves(t)
  BY <1>6 DEF TypeOK, ReplyError, Finish, Leave, Goto, Leaves
<1>7. CASE Crash \/ Restart
  BY <1>7 DEF Crash, Restart, AllOut
<1>8. CASE ChangePolicy \/ UNCHANGED vars
  BY <1>8 DEF ChangePolicy, vars, Stays
<1>. QED
  BY <1>1, <1>2, <1>3, <1>4, <1>5, <1>6, <1>7, <1>8 DEF Next, Step

\* The four moves keep the lock discipline and mutual exclusion.
LEMMA LockStep ==
  TypeOK /\ LockHeld /\ OneRunPerChat /\ [Next]_vars => LockHeld' /\ OneRunPerChat'
<1>. SUFFICES ASSUME TypeOK, LockHeld, OneRunPerChat, [Next]_vars
              PROVE  LockHeld' /\ OneRunPerChat'
  OBVIOUS
<1>. USE DEF LockHeld, OneRunPerChat, Chat
<1>0. \A t \in Task : Chat(t) \in DOMAIN locked
  BY TaskFields DEF TypeOK
<1>1. CASE Stays
  BY <1>1 DEF Stays
<1>2. CASE AllOut
  BY <1>2 DEF AllOut
<1>3. ASSUME NEW t \in Task, Enters(t)
      PROVE  LockHeld' /\ OneRunPerChat'
  BY <1>3, <1>0 DEF Enters
<1>4. ASSUME NEW t \in Task, Leaves(t)
      PROVE  LockHeld' /\ OneRunPerChat'
  BY <1>4, <1>0 DEF Leaves
<1>. QED  BY <1>1, <1>2, <1>3, <1>4, LockMoves

\* In every reachable state at most one task per chat runs Claude or works on
\* what the run returned: webhooks and replays exclude each other.
THEOREM MutualExclusion == Spec => []OneRunPerChat
<1>1. Init => LockHeld /\ OneRunPerChat
  BY DEF Init, LockHeld, OneRunPerChat, Critical
<1>. QED  BY <1>1, LockStep, TypeCorrect, PTL DEF Spec

-----------------------------------------------------------------------------
(***************************************************************************)
(* Goroutines only move on, and none is there before it is started.        *)
(***************************************************************************)
\* How many steps a goroutine has at most before it from each place.
Left(l) ==
  CASE l = "idle" -> 0 [] l = "done" -> 1 [] l = "plain" -> 2 [] l = "quote" -> 3
    [] l = "save" -> 4 [] l = "run" -> 5 [] l = "wait" -> 6 [] l = "ack" -> 7
    [] l = "authorize" -> 7 [] l = "rename" -> 8 [] l = "write" -> 9 [] l = "open" -> 10

\* A task's own step brings it closer to its end and moves nobody else.
LEMMA StepGoes ==
  ASSUME TypeOK, NEW t \in Task, Step(t)
  PROVE  /\ Left(pc'[t]) < Left(pc[t])
         /\ \A u \in Task \ {t} : pc'[u] = pc[u]
         /\ UNCHANGED <<up, tries>>
<1>1. CASE OpenTmp(t) \/ FillTmp(t) \/ Rename(t) \/ Ack(t) \/ Authorize(t) \/ Refuse(t)
  <2>1. \E l \in PC : Goto(t, l) /\ Left(l) < Left(pc[t])
    BY <1>1 DEF OpenTmp, FillTmp, Rename, Ack, Authorize, Refuse, PC, Left
  <2>2. UNCHANGED <<up, tries>>
    BY <1>1 DEF OpenTmp, FillTmp, Rename, Ack, Authorize, Refuse
  <2>. QED  BY <2>1, <2>2 DEF Goto, TypeOK
<1>2. CASE Acquire(t) \/ RunResumed(t) \/ RunFresh(t) \/ RunFailed(t) \/ Save(t)
  <2>1. \E l \in PC : Goto(t, l) /\ Left(l) < Left(pc[t])
    BY <1>2 DEF Acquire, RunResumed, RunFresh, RunFailed, Save, FirstSend, PC, Left
  <2>2. UNCHANGED <<up, tries>>
    BY <1>2 DEF Acquire, RunResumed, RunFresh, RunFailed, Save
  <2>. QED  BY <2>1, <2>2 DEF Goto, TypeOK
<1>3. CASE SendOK(t) \/ QuoteError(t) \/ ReplyError(t) \/ ApologyError(t) \/ Finish(t)
  <2>0. \/ pc[t] \in {"quote", "plain"} /\ Goto(t, "done")
        \/ pc[t] = "quote" /\ Goto(t, "plain")
        \/ pc[t] \in {"plain", "done"} /\ Goto(t, "idle")
    BY <1>3 DEF SendOK, QuoteError, ReplyError, ApologyError, Finish, Leave
  <2>1. \E l \in PC : Goto(t, l) /\ Left(l) < Left(pc[t])
    BY <2>0 DEF PC, Left
  <2>2. UNCHANGED <<up, tries>>
    BY <1>3 DEF SendOK, QuoteError, ReplyError, ApologyError, Finish
  <2>. QED  BY <2>1, <2>2 DEF Goto, TypeOK
<1>. QED  BY <1>1, <1>2, <1>3 DEF Step

\* The goroutine of a delivery that gowa has not made yet is not there, and none
\* is there while the process is down.
Dormant ==
  \A t \in Task :
    ~up \/ (t \in HookTask /\ t.no > tries[t.msg]) => pc[t] = "idle"

\* The fields of a delivery's goroutine.
LEMMA HookFields ==
  ASSUME NEW t \in HookTask
  PROVE  t.via = "hook" /\ t.no \in Nat /\ t = [msg |-> t.msg, via |-> "hook", no |-> t.no]
BY BridgeAssumption DEF HookTask

\* A step that is no task's own starts tasks of deliveries or of a new process,
\* ends all, or leaves all where they are.
LEMMA Begins ==
  ASSUME TypeOK, [Next]_vars, ~(\E t \in Task : Step(t))
  PROVE  \/ \E m \in Messages : Accept(m)
         \/ Crash \/ Restart
         \/ pc' = pc /\ up' = up /\ \A m \in Messages : tries'[m] >= tries[m]
<1>1. ASSUME NEW m \in Messages, Ignore(m)
      PROVE  pc' = pc /\ up' = up /\ \A n \in Messages : tries'[n] >= tries[n]
  BY <1>1 DEF Ignore, Post, TypeOK
<1>2. CASE ChangePolicy \/ UNCHANGED vars
  BY <1>2 DEF ChangePolicy, vars, TypeOK
<1>. QED  BY <1>1, <1>2 DEF Next

\* The goroutine of the next delivery is the only one that a webhook starts.
LEMMA AcceptBegins ==
  ASSUME TypeOK, NEW m \in Messages, Accept(m)
  PROVE  \E h \in HookTask :
           /\ h.msg = m /\ h.no = tries[m] + 1
           /\ pc' = [pc EXCEPT ![h] = "open"]
           /\ tries' = [tries EXCEPT ![m] = tries[m] + 1] /\ up /\ up' = up
<1>. DEFINE h == [msg |-> m, via |-> "hook", no |-> tries[m] + 1]
<1>1. /\ pc' = [pc EXCEPT ![h] = "open"]
      /\ tries' = [tries EXCEPT ![m] = tries[m] + 1]
      /\ up /\ up' = up
  BY DEF Accept, Post, Goto
<1>2. tries[m] < MaxTries[m] /\ tries[m] \in Nat /\ MaxTries[m] \in Nat
  BY BridgeAssumption DEF Accept, Post, TypeOK
<1>3. h \in [msg : {m}, via : {"hook"}, no : 1..MaxTries[m]]
  BY <1>2
<1>4. h \in HookTask
  BY <1>3 DEF HookTask
<1>5. h.msg = m /\ h.no = tries[m] + 1
  OBVIOUS
<1>. HIDE DEF h
<1>. QED  BY <1>1, <1>4, <1>5

\* Every step leaves alone the goroutines whose time has not come.
LEMMA DormantStep ==
  ASSUME TypeOK, Dormant, [Next]_vars
  PROVE  Dormant'
<1>1. ASSUME NEW t \in Task, Step(t)
      PROVE  Dormant'
  <2>2. TypeOK'
    BY TypeStep
  <2>3. pc'[t] \in PC
    BY <2>2 DEF TypeOK
  <2>4. pc[t] # "idle"
    BY <1>1 DEF Step, OpenTmp, FillTmp, Rename, Ack, Authorize, Refuse, Acquire, RunResumed,
                RunFresh, RunFailed, Save, SendOK, QuoteError, ReplyError, ApologyError, Finish
  <2>1. pc[t] # "idle" /\ pc'[t] \in PC
    BY <2>3, <2>4
  <2>. QED  BY <1>1, <2>1, StepGoes DEF Dormant
<1>2. ASSUME NEW m \in Messages, Accept(m)
      PROVE  Dormant'
  <2>1. PICK h \in HookTask :
          /\ h.msg = m /\ h.no = tries[m] + 1
          /\ pc' = [pc EXCEPT ![h] = "open"]
          /\ tries' = [tries EXCEPT ![m] = tries[m] + 1] /\ up /\ up' = up
    BY <1>2, AcceptBegins
  <2>2. \A t \in HookTask : t \in Task /\ t.no \in Nat
    BY HookFields DEF Task
  <2>3. \A n \in Messages : tries[n] \in Nat /\ tries'[n] >= tries[n]
    BY <2>1 DEF TypeOK
  <2>4. tries'[h.msg] = h.no
    BY <2>1 DEF TypeOK
  <2>. QED  BY <2>1, <2>2, <2>3, <2>4, TaskFields DEF Dormant, TypeOK
<1>3. CASE Crash \/ Restart
  BY <1>3, HookFields DEF Crash, Restart, Dormant, Listed, ReplayTask
<1>4. CASE pc' = pc /\ up' = up /\ \A m \in Messages : tries'[m] >= tries[m]
  <2>1. \A t \in HookTask : t \in Task /\ t.no \in Nat
    BY HookFields DEF Task
  <2>. QED  BY <1>4, <2>1, TaskFields, TypeStep DEF Dormant, TypeOK
<1>. QED  BY <1>1, <1>2, <1>3, <1>4, Begins

\* No goroutine is there before the first webhook.
LEMMA DormantInit == Init => Dormant
BY DEF Init, Dormant

\* A task that ends is refused, could not send its reply, or has finished.
LEMMA Endings ==
  ASSUME TypeOK, Dormant, [Next]_vars, NEW t \in Task, pc[t] # "idle",
         pc'[t] = "idle"
  PROVE  Refuse(t) \/ ReplyError(t) \/ Finish(t) \/ Crash
<1>1. ASSUME NEW u \in Task, Step(u)
      PROVE  u = t
  BY <1>1, StepGoes
<1>2. ASSUME Step(t)
      PROVE  Refuse(t) \/ ReplyError(t) \/ Finish(t)
  <2>1. ASSUME NEW l \in PC \ {"idle"}, Goto(t, l)
        PROVE  FALSE
    BY <2>1 DEF Goto, TypeOK
  <2>. QED
    BY <1>2, <2>1 DEF Step, PC, OpenTmp, FillTmp, Rename, Ack, Authorize, Acquire, RunResumed,
       RunFresh, RunFailed, Save, SendOK, QuoteError, ApologyError, FirstSend
<1>3. ASSUME NEW m \in Messages, Accept(m)
      PROVE  FALSE
  <2>1. PICK h \in HookTask : pc' = [pc EXCEPT ![h] = "open"]
    BY <1>3, AcceptBegins
  <2>. QED  BY <2>1 DEF TypeOK
<1>4. ~Restart
  BY DEF Restart, Dormant
<1>. QED  BY <1>1, <1>2, <1>3, <1>4, Begins

\* A goroutine that is under way is moved by its own steps and by a crash only.
LEMMA StaysPut ==
  ASSUME TypeOK, Dormant, [Next]_vars, NEW t \in Task, pc[t] # "idle", ~Step(t), ~Crash
  PROVE  pc'[t] = pc[t]
<1>1. ASSUME NEW u \in Task, Step(u)
      PROVE  pc'[t] = pc[t]
  BY <1>1, StepGoes
<1>2. ASSUME NEW m \in Messages, Accept(m)
      PROVE  pc'[t] = pc[t]
  <2>1. PICK h \in HookTask : h.msg = m /\ h.no = tries[m] + 1
                              /\ pc' = [pc EXCEPT ![h] = "open"]
    BY <1>2, AcceptBegins
  <2>2. pc[h] = "idle"
    BY <2>1 DEF Dormant, Task, TypeOK
  <2>. QED  BY <2>1, <2>2 DEF TypeOK
<1>3. ~Restart
  BY DEF Restart, Dormant
<1>. QED  BY <1>1, <1>2, <1>3, Begins

\* Faults are counted and never forgotten, whatever their kind.
LEMMA FaultsStay ==
  ASSUME TypeOK, [Next]_vars, NEW f \in Fault
  PROVE  spent[f] \in Nat /\ spent'[f] \in Nat /\ spent'[f] >= spent[f]
<1>1. ASSUME NEW k \in Fault, Spend(k)
      PROVE  spent[f] \in Nat /\ spent'[f] \in Nat /\ spent'[f] >= spent[f]
  BY <1>1 DEF TypeOK, Spend
<1>2. ASSUME NEW t \in Task, Step(t)
      PROVE  UNCHANGED spent \/ \E k \in Fault : Spend(k)
  BY <1>2 DEF Step, OpenTmp, FillTmp, Rename, Ack, Authorize, Refuse, Forget, Acquire, RunResumed,
     RunFresh, RunFailed, Save, SendOK, QuoteError, ReplyError, ApologyError, Finish, Fault
<1>3. ASSUME NEW m \in Messages, Ignore(m) \/ Accept(m)
      PROVE  UNCHANGED spent
  BY <1>3 DEF Ignore, Accept
<1>4. CASE Crash \/ Restart \/ ChangePolicy \/ UNCHANGED vars
  <2>1. UNCHANGED spent \/ \E k \in Fault : Spend(k)
    BY <1>4 DEF Crash, Restart, ChangePolicy, vars, Fault
  <2>. QED  BY <1>1, <2>1 DEF TypeOK
<1>5. CASE UNCHANGED spent
  BY <1>5 DEF TypeOK
<1>. QED  BY <1>1, <1>2, <1>3, <1>4, <1>5 DEF Next

-----------------------------------------------------------------------------
(***************************************************************************)
(* Acknowledged messages are recoverable.  The invariant has to follow the *)
(* steps of pending.Write: a task that is alone at it has an empty         *)
(* temporary open, then a complete one to move; only another delivery of   *)
(* the message can change that, and then the message is contended.         *)
(***************************************************************************)
Covered(m) == json[m] = "whole" \/ Through(m) \/ Contended(m)

Writing(t) == pc[t] \in {"write", "rename"}

\* Where a task is in pending.Write, and what it finds there if it is alone.
OnFile(t) ==
  /\ opened[t] # "none" => pc[t] = "write"
  /\ opened[t] = "json" => Contended(t.msg)
  /\ pc[t] = "write" => Contended(t.msg) \/ (opened[t] = "tmp" /\ tmp[t.msg] = "empty")
  /\ pc[t] = "rename" => Contended(t.msg) \/ tmp[t.msg] = "whole"

Alone ==
  \A t, u \in Task :
    Writing(t) /\ Writing(u) /\ t.msg = u.msg => t = u \/ Contended(t.msg)

Recorded ==
  /\ \A m \in Messages : "acked" \in log[m] => Covered(m)
  /\ \A t \in Task : OnFile(t)
  /\ Alone
  /\ \A t \in Task : pc[t] = "ack" => Covered(t.msg)
  /\ \A t \in Task : pc[t] = "done" => Through(t.msg)

\* What has happened to a message is not forgotten.
LEMMA LogGrows ==
  TypeOK /\ [Next]_vars => \A m \in Messages : log[m] \subseteq log'[m]
<1>. SUFFICES ASSUME TypeOK, [Next]_vars
              PROVE  \A m \in Messages : log[m] \subseteq log'[m]
  OBVIOUS
<1>1. ASSUME NEW m \in Messages, NEW e \in Event, Note(m, e)
      PROVE  \A n \in Messages : log[n] \subseteq log'[n]
  BY <1>1 DEF TypeOK, Note
<1>2. ASSUME NEW t \in Task, Deliver(t)
      PROVE  \A n \in Messages : log[n] \subseteq log'[n]
  BY <1>2, <1>1, TaskFields DEF Deliver, Event
<1>3. CASE UNCHANGED log
  BY <1>3
<1>4. ASSUME NEW m \in Messages, Ignore(m) \/ Accept(m)
      PROVE  UNCHANGED log
  BY <1>4 DEF Ignore, Accept
<1>5. ASSUME NEW t \in Task,
             OpenTmp(t) \/ FillTmp(t) \/ Rename(t) \/ Ack(t) \/ Refuse(t) \/ ApologyError(t)
      PROVE  UNCHANGED log \/ \E e \in Event : Note(t.msg, e)
  BY <1>5 DEF OpenTmp, FillTmp, Rename, Ack, Refuse, ApologyError, Event
<1>6. ASSUME NEW t \in Task,
             \/ Authorize(t) \/ Acquire(t) \/ RunResumed(t) \/ RunFresh(t)
             \/ RunFailed(t) \/ Save(t) \/ Finish(t)
      PROVE  UNCHANGED log
  BY <1>6 DEF Authorize, Acquire, RunResumed, RunFresh, RunFailed, Save, Finish
<1>7. ASSUME NEW t \in Task, SendOK(t) \/ QuoteError(t) \/ ReplyError(t)
      PROVE  Deliver(t) \/ UNCHANGED log
  BY <1>7 DEF SendOK, QuoteError, ReplyError
<1>8. CASE Crash \/ Restart \/ ChangePolicy \/ UNCHANGED vars
  BY <1>8 DEF Crash, Restart, ChangePolicy, vars
<1>. QED
  BY <1>1, <1>2, <1>3, <1>4, <1>5, <1>6, <1>7, <1>8, TaskFields DEF Next, Step

\* The bridge stays through with a message it is through with.
LEMMA ThroughStays ==
  ASSUME TypeOK, [Next]_vars, NEW m \in Messages, Through(m)
  PROVE  Through(m)'
BY LogGrows DEF Through

\* Once two deliveries have written at the same time, that is so for ever.
LEMMA ContendedStays ==
  ASSUME TypeOK, [Next]_vars, NEW m \in Messages, Contended(m)
  PROVE  Contended(m)'
BY LogGrows DEF Contended

\* Only an acknowledgement notes one.
LEMMA AckNotes ==
  ASSUME TypeOK, [Next]_vars, NEW m \in Messages,
         "acked" \in log'[m], "acked" \notin log[m]
  PROVE  \E t \in Task : t.msg = m /\ Ack(t)
<1>1. ASSUME NEW n \in Messages, NEW e \in Event, Note(n, e), e # "acked"
      PROVE  FALSE
  BY <1>1 DEF TypeOK, Note
<1>2. ASSUME NEW t \in Task, Deliver(t)
      PROVE  FALSE
  BY <1>2, <1>1, TaskFields DEF Deliver, Event
<1>3. ASSUME NEW t \in Task, Ack(t)
      PROVE  t.msg = m
  BY <1>3, TaskFields DEF TypeOK, Ack, Note
<1>4. ASSUME NEW n \in Messages, Ignore(n) \/ Accept(n)
      PROVE  UNCHANGED log
  BY <1>4 DEF Ignore, Accept
<1>5. ASSUME NEW t \in Task, OpenTmp(t) \/ FillTmp(t) \/ Rename(t) \/ Refuse(t) \/ ApologyError(t)
      PROVE  UNCHANGED log \/ \E e \in Event \ {"acked"} : Note(t.msg, e)
  BY <1>5 DEF OpenTmp, FillTmp, Rename, Refuse, ApologyError, Event
<1>6. ASSUME NEW t \in Task,
             \/ Authorize(t) \/ Acquire(t) \/ RunResumed(t) \/ RunFresh(t)
             \/ RunFailed(t) \/ Save(t) \/ Finish(t)
      PROVE  UNCHANGED log
  BY <1>6 DEF Authorize, Acquire, RunResumed, RunFresh, RunFailed, Save, Finish
<1>7. ASSUME NEW t \in Task, SendOK(t) \/ QuoteError(t) \/ ReplyError(t)
      PROVE  Deliver(t) \/ UNCHANGED log
  BY <1>7 DEF SendOK, QuoteError, ReplyError
<1>8. CASE Crash \/ Restart \/ ChangePolicy \/ UNCHANGED vars
  BY <1>8 DEF Crash, Restart, ChangePolicy, vars
<1>. QED
  BY <1>1, <1>2, <1>3, <1>4, <1>5, <1>6, <1>7, <1>8, TaskFields DEF Next, Step

\* A task is moved on by its own steps only, but for its start and the crash.
LEMMA PcMoves ==
  ASSUME TypeOK, [Next]_vars, NEW t \in Task,
         pc'[t] # pc[t], pc'[t] \notin {"idle", "authorize", "open"}
  PROVE  Step(t)
<1>1. ASSUME NEW u \in Task, NEW l \in PC, Goto(u, l)
      PROVE  u = t
  BY <1>1 DEF TypeOK, Goto
<1>2. ASSUME NEW u \in Task, Step(u)
      PROVE  \E l \in PC : Goto(u, l)
  BY <1>2 DEF Step, PC, OpenTmp, FillTmp, Rename, Ack, Authorize, Refuse, Acquire, RunResumed,
     RunFresh, RunFailed, Save, SendOK, QuoteError, ReplyError, ApologyError, Finish,
     Leave, FirstSend
<1>3. ASSUME NEW m \in Messages, Ignore(m) \/ Accept(m)
      PROVE  FALSE
  BY <1>3 DEF TypeOK, Ignore, Accept, Goto
<1>4. CASE Crash \/ Restart \/ ChangePolicy \/ UNCHANGED vars
  BY <1>4 DEF TypeOK, Crash, Restart, ChangePolicy, vars
<1>. QED  BY <1>1, <1>2, <1>3, <1>4 DEF Next

\* A failed write is noted, and the note exempts the message.
LEMMA NotedIsThrough ==
  ASSUME TypeOK, NEW m \in Messages, NEW e \in Event \ {"acked", "contended"}, Note(m, e)
  PROVE  Through(m)'
BY DEF TypeOK, Note, Through, Event

\* What a write does: to the file that the task has open, and to no other.
LEMMA FillFacts ==
  ASSUME TypeOK, NEW t \in Task, FillTmp(t)
  PROVE  /\ \A n \in Messages \ {t.msg} : json'[n] = json[n] /\ tmp'[n] = tmp[n]
         /\ \/ json'[t.msg] = json[t.msg]
            \/ opened[t] = "json" /\ json'[t.msg] \in {"whole", "torn"}
         /\ \/ tmp'[t.msg] = tmp[t.msg]
            \/ opened[t] = "tmp" /\ tmp'[t.msg] \in {"whole", "torn"}
         /\ \/ /\ Goto(t, "rename") /\ UNCHANGED <<log, spent>>
               /\ opened[t] = "tmp" /\ tmp[t.msg] = "empty" => tmp'[t.msg] = "whole"
            \/ Goto(t, "ack") /\ Note(t.msg, "unrecorded") /\ Spend("disk")
<1>0. t.msg \in Messages
  BY TaskFields
<1>1. ASSUME NEW f \in {"whole", "torn", Content(t)}, Fill(t, f)
      PROVE  /\ \A n \in Messages \ {t.msg} : json'[n] = json[n] /\ tmp'[n] = tmp[n]
             /\ \/ json'[t.msg] = json[t.msg]
                \/ opened[t] = "json" /\ json'[t.msg] \in {"whole", "torn"}
             /\ \/ tmp'[t.msg] = tmp[t.msg]
                \/ opened[t] = "tmp" /\ tmp'[t.msg] \in {"whole", "torn"}
             /\ opened[t] = "tmp" => tmp'[t.msg] = f
  BY <1>0, <1>1 DEF TypeOK, Fill, Content
<1>2. CASE /\ \E f \in {"whole", "torn"} :
                /\ f = "torn" => Content(t) # "empty"
                /\ Fill(t, f)
           /\ Goto(t, "rename")
           /\ UNCHANGED <<log, spent>>
  BY <1>1, <1>2 DEF Content
<1>3. CASE /\ Spend("disk")
           /\ \E f \in {Content(t), "torn"} : Fill(t, f)
           /\ Note(t.msg, "unrecorded")
           /\ Goto(t, "ack")
  BY <1>1, <1>3
<1>. QED  BY <1>2, <1>3 DEF FillTmp

\* A write that fails does not complete a file.
LEMMA FillFailure ==
  ASSUME TypeOK, NEW t \in Task, FillTmp(t), Note(t.msg, "unrecorded")
  PROVE  json'[t.msg] = json[t.msg] \/ json'[t.msg] # "whole" \/ UNCHANGED log
<1>1. CASE UNCHANGED log
  BY <1>1
<1>2. CASE \E f \in {Content(t), "torn"} : Fill(t, f)
  <2>1. PICK f \in {Content(t), "torn"} : Fill(t, f)
    BY <1>2
  <2>2. f = Content(t) => json'[t.msg] = json[t.msg]
    BY <2>1, TaskFields DEF Fill, Content, TypeOK
  <2>3. f = "torn" => json'[t.msg] = json[t.msg] \/ json'[t.msg] = "torn"
    BY <2>1, TaskFields DEF Fill, TypeOK
  <2>. QED  BY <2>1, <2>2, <2>3
<1>. QED  BY <1>1, <1>2 DEF FillTmp

\* A step that is not one of pending.Write nor a crash leaves the temporaries and
\* those who write alone; it may remove a file that somebody writes to.
Aside ==
  /\ tmp' = tmp
  /\ \A t \in Task :
       /\ opened'[t] = opened[t] \/ (opened[t] = "json" /\ opened'[t] = "none")
       /\ pc'[t] = pc[t] \/ pc[t] \notin {"write", "rename"}
       /\ pc'[t] = pc[t] \/ pc'[t] \notin {"write", "rename"}

LEMMA WriteMoves ==
  ASSUME TypeOK, Dormant, [Next]_vars
  PROVE  Aside \/ Crash \/ \E t \in Task : OpenTmp(t) \/ FillTmp(t) \/ Rename(t)
<1>1. ASSUME NEW t \in Task,
             \/ Ack(t) \/ Authorize(t) \/ Acquire(t) \/ RunResumed(t) \/ RunFresh(t)
             \/ RunFailed(t) \/ Save(t) \/ SendOK(t) \/ QuoteError(t) \/ ReplyError(t)
             \/ ApologyError(t)
      PROVE  Aside
  <2>1. UNCHANGED files
    BY <1>1 DEF Ack, Authorize, Acquire, RunResumed, RunFresh, RunFailed, Save, SendOK,
       QuoteError, ReplyError, ApologyError
  <2>2. pc[t] \notin {"write", "rename"}
    BY <1>1 DEF Ack, Authorize, Acquire, RunResumed, RunFresh, RunFailed, Save, SendOK,
       QuoteError, ReplyError, ApologyError
  <2>3. \E l \in PC \ {"write", "rename"} : Goto(t, l)
    BY <1>1 DEF Ack, Authorize, Acquire, RunResumed, RunFresh, RunFailed, Save, SendOK,
       QuoteError, ReplyError, ApologyError, Leave, FirstSend, PC
  <2>. QED  BY <2>1, <2>2, <2>3 DEF Aside, Goto, TypeOK
<1>2. ASSUME NEW t \in Task, Refuse(t) \/ Finish(t)
      PROVE  Aside
  <2>1. Forget(t.msg) /\ pc[t] \notin {"write", "rename"} /\ Goto(t, "idle")
    BY <1>2 DEF Refuse, Finish, Leave
  <2>2. /\ tmp' = tmp
        /\ \A u \in Task :
             opened'[u] = opened[u] \/ (opened[u] = "json" /\ opened'[u] = "none")
    BY <2>1 DEF Forget, Removed, TypeOK
  <2>. QED  BY <2>1, <2>2 DEF Aside, Goto, TypeOK
<1>3. ASSUME NEW m \in Messages, Accept(m)
      PROVE  Aside
  <2>1. PICK h \in HookTask : /\ h.msg = m /\ h.no = tries[m] + 1
                              /\ pc' = [pc EXCEPT ![h] = "open"]
    BY <1>3, AcceptBegins
  <2>2. pc[h] = "idle" /\ h \in Task
    BY <2>1, HookFields DEF Dormant, Task, TypeOK
  <2>3. UNCHANGED files
    BY <1>3 DEF Accept
  <2>. QED  BY <2>1, <2>2, <2>3 DEF Aside, TypeOK
<1>4. ASSUME NEW m \in Messages, Ignore(m)
      PROVE  Aside
  BY <1>4 DEF Ignore, Aside
<1>5. CASE Restart
  <2>1. \A t \in Task : pc[t] = "idle" /\ pc'[t] \in {"idle", "authorize"}
    BY <1>5 DEF Restart, Dormant
  <2>. QED  BY <1>5, <2>1 DEF Restart, Aside
<1>6. CASE ChangePolicy \/ UNCHANGED vars
  BY <1>6 DEF ChangePolicy, vars, Aside
<1>. QED  BY <1>1, <1>2, <1>3, <1>4, <1>5, <1>6 DEF Next, Step

\* A readable pending file becomes unreadable or goes only when the bridge is
\* through with its message, or the message is contended.
LEMMA CoveredStays ==
  ASSUME TypeOK, Recorded, [Next]_vars, NEW m \in Messages, Covered(m)
  PROVE  Covered(m)'
<1>1. CASE Through(m)
  BY <1>1, ThroughStays DEF Covered
<1>2. CASE Contended(m)
  BY <1>2, ContendedStays DEF Covered
<1>3. ASSUME json[m] = "whole", json'[m] = json[m]
      PROVE  Covered(m)'
  BY <1>3 DEF Covered
<1>4. ASSUME NEW t \in Task, Rename(t), json[m] = "whole", ~Contended(m)
      PROVE  json'[m] = json[m]
  <2>1. t.msg = m => tmp[m] = "whole"
    BY <1>4 DEF Rename, Recorded, OnFile
  <2>. QED  BY <1>4, <2>1, TaskFields DEF Rename, TypeOK
<1>5. ASSUME NEW t \in Task, FillTmp(t), ~Contended(m)
      PROVE  json'[m] = json[m]
  <2>1. t.msg = m => opened[t] # "json"
    BY <1>5 DEF Recorded, OnFile
  <2>. QED  BY <1>5, <2>1, FillFacts
<1>6. ASSUME NEW t \in Task, Refuse(t) \/ Finish(t), t.msg = m
      PROVE  Through(m)'
  <2>1. CASE Refuse(t)
    <3>1. Note(m, "refused")
      BY <1>6, <2>1 DEF Refuse
    <3>. QED  BY <3>1, NotedIsThrough DEF Event
  <2>2. CASE Finish(t)
    <3>1. Through(m)
      BY <1>6, <2>2 DEF Finish, Recorded
    <3>. QED  BY <3>1, ThroughStays
  <2>. QED  BY <1>6, <2>1, <2>2
<1>7. ASSUME NEW t \in Task, Refuse(t) \/ Finish(t), t.msg # m
      PROVE  json'[m] = json[m]
  <2>1. Forget(t.msg)
    BY <1>7 DEF Refuse, Finish
  <2>. QED  BY <1>7, <2>1 DEF Forget, TypeOK
<1>8. ASSUME NEW n \in Messages, Ignore(n) \/ Accept(n)
      PROVE  json' = json
  BY <1>8 DEF Ignore, Accept
<1>9. ASSUME NEW t \in Task,
             \/ OpenTmp(t) \/ Ack(t) \/ Authorize(t) \/ Acquire(t) \/ RunResumed(t)
             \/ RunFresh(t) \/ RunFailed(t) \/ Save(t) \/ SendOK(t) \/ QuoteError(t)
             \/ ReplyError(t) \/ ApologyError(t)
      PROVE  json' = json
  BY <1>9 DEF OpenTmp, Ack, Authorize, Acquire, RunResumed, RunFresh, RunFailed, Save,
     SendOK, QuoteError, ReplyError, ApologyError
<1>10. ASSUME Crash \/ Restart \/ ChangePolicy \/ UNCHANGED vars
       PROVE  json' = json
  BY <1>10 DEF Crash, Restart, ChangePolicy, vars
<1>11. json'[m] = json[m] \/ Through(m)' \/ (Contended(m) \/ json[m] # "whole")
  BY <1>4, <1>5, <1>6, <1>7, <1>8, <1>9, <1>10 DEF Next, Step
<1>. QED  BY <1>1, <1>2, <1>3, <1>11 DEF Covered

\* A task that opens the temporary has it empty, and is alone unless it is noted.
LEMMA OpenOnFile ==
  ASSUME TypeOK, Recorded, [Next]_vars, NEW t \in Task, OpenTmp(t)
  PROVE  (\A u \in Task : OnFile(u)') /\ Alone'
<1>0. \A u \in Task : u.msg \in Messages
  BY TaskFields
<1>1. \A m \in Messages : Contended(m) => Contended(m)'
  BY ContendedStays
<1>2. CASE UNCHANGED <<tmp, opened>> /\ Goto(t, "ack")
  <2>1. opened[t] = "none"
    BY DEF OpenTmp, Recorded, OnFile
  <2>2. \A u \in Task : OnFile(u)'
    BY <1>0, <1>1, <1>2, <2>1 DEF Recorded, OnFile, Goto, TypeOK
  <2>3. Alone'
    BY <1>0, <1>1, <1>2 DEF Recorded, Alone, Writing, Goto, TypeOK
  <2>. QED  BY <2>2, <2>3
<1>3. CASE /\ tmp' = [tmp EXCEPT ![t.msg] = "empty"]
           /\ opened' = [opened EXCEPT ![t] = "tmp"]
           /\ Goto(t, "write")
           /\ (Contends(t) /\ Note(t.msg, "contended")) \/ ~Contends(t)
  <2>1. ASSUME NEW u \in Task \ {t}, u.msg = t.msg, Writing(u)
        PROVE  Contended(t.msg)'
    <3>1. Note(t.msg, "contended")
      BY <1>3, <2>1 DEF Contends, Writing
    <3>. QED  BY <1>0, <3>1 DEF Note, Contended, TypeOK
  <2>2. /\ opened'[t] = "tmp" /\ tmp'[t.msg] = "empty" /\ pc'[t] = "write"
        /\ \A u \in Task \ {t} : opened'[u] = opened[u] /\ pc'[u] = pc[u]
        /\ \A m \in Messages \ {t.msg} : tmp'[m] = tmp[m]
    BY <1>0, <1>3 DEF Goto, TypeOK
  <2>3. OnFile(t)'
    BY <2>2 DEF OnFile
  <2>4. ASSUME NEW u \in Task \ {t}
        PROVE  OnFile(u)'
    <3>1. OnFile(u) /\ u.msg \in Messages
      BY <1>0 DEF Recorded
    <3>2. CASE u.msg = t.msg /\ Writing(u)
      <4>1. Contended(u.msg)'
        BY <2>1, <3>2
      <4>. QED  BY <2>2, <3>1, <4>1 DEF OnFile
    <3>3. CASE u.msg # t.msg \/ ~Writing(u)
      BY <1>1, <2>2, <3>1, <3>3 DEF OnFile, Writing
    <3>. QED  BY <3>2, <3>3
  <2>5. Alone'
    <3>. SUFFICES ASSUME NEW u \in Task, NEW w \in Task, Writing(u)', Writing(w)',
                         u.msg = w.msg, u # w
                  PROVE  Contended(u.msg)'
      BY DEF Alone
    <3>1. CASE u = t
      BY <2>1, <2>2, <3>1 DEF Writing
    <3>2. CASE w = t
      BY <2>1, <2>2, <3>2 DEF Writing
    <3>3. CASE u # t /\ w # t
      BY <1>0, <1>1, <2>2, <3>3 DEF Recorded, Alone, Writing
    <3>. QED  BY <3>1, <3>2, <3>3
  <2>. QED  BY <2>3, <2>4, <2>5
<1>. QED  BY <1>2, <1>3 DEF OpenTmp

\* A task that writes alone leaves a complete temporary.
LEMMA FillOnFile ==
  ASSUME TypeOK, Recorded, [Next]_vars, NEW t \in Task, FillTmp(t)
  PROVE  (\A u \in Task : OnFile(u)') /\ Alone'
<1>0. \A u \in Task : u.msg \in Messages
  BY TaskFields
<1>1. \A m \in Messages : Contended(m) => Contended(m)'
  BY ContendedStays
<1>2. /\ opened'[t] = "none" /\ pc[t] = "write" /\ pc'[t] \in {"rename", "ack"}
      /\ \A u \in Task \ {t} : opened'[u] = opened[u] /\ pc'[u] = pc[u]
  BY DEF FillTmp, Goto, TypeOK
<1>3. OnFile(t)'
  <2>1. pc'[t] = "rename" => Contended(t.msg) \/ tmp'[t.msg] = "whole"
    BY <1>2, FillFacts DEF Recorded, OnFile, Goto, TypeOK
  <2>. QED  BY <1>0, <1>1, <1>2, <2>1 DEF OnFile
<1>4. ASSUME NEW u \in Task \ {t}
      PROVE  OnFile(u)'
  <2>1. OnFile(u) /\ u.msg \in Messages
    BY <1>0 DEF Recorded
  <2>2. CASE u.msg = t.msg /\ Writing(u)
    <3>1. Contended(u.msg)'
      BY <1>1, <1>2, <2>1, <2>2 DEF Recorded, Alone, Writing
    <3>. QED  BY <1>2, <2>1, <3>1 DEF OnFile
  <2>3. CASE u.msg # t.msg \/ ~Writing(u)
    <3>1. u.msg # t.msg => tmp'[u.msg] = tmp[u.msg]
      BY <2>1, FillFacts
    <3>. QED  BY <1>1, <1>2, <2>1, <2>3, <3>1 DEF OnFile, Writing
  <2>. QED  BY <2>2, <2>3
<1>5. Alone'
  BY <1>0, <1>1, <1>2 DEF Recorded, Alone, Writing
<1>. QED  BY <1>3, <1>4, <1>5

\* A task that moves a temporary takes it from those only who are noted.
LEMMA RenameOnFile ==
  ASSUME TypeOK, Recorded, [Next]_vars, NEW t \in Task, Rename(t)
  PROVE  (\A u \in Task : OnFile(u)') /\ Alone'
<1>0. \A u \in Task : u.msg \in Messages
  BY TaskFields
<1>1. \A m \in Messages : Contended(m) => Contended(m)'
  BY ContendedStays
<1>2. /\ pc[t] = "rename" /\ pc'[t] = "ack"
      /\ \A u \in Task \ {t} : pc'[u] = pc[u]
      /\ \A m \in Messages \ {t.msg} : tmp'[m] = tmp[m]
      /\ opened' = opened \/ opened' = Moved(t.msg)
  BY <1>0 DEF Rename, Goto, TypeOK
<1>3. ASSUME NEW u \in Task
      PROVE  /\ u.msg # t.msg => opened'[u] = opened[u]
             /\ opened[u] = "none" => opened'[u] = "none"
  BY <1>2 DEF Moved
<1>4. OnFile(t)'
  <2>1. opened[t] = "none"
    BY <1>2 DEF Recorded, OnFile
  <2>. QED  BY <1>2, <1>3, <2>1 DEF OnFile
<1>5. ASSUME NEW u \in Task \ {t}
      PROVE  OnFile(u)'
  <2>1. OnFile(u) /\ u.msg \in Messages
    BY <1>0 DEF Recorded
  <2>2. CASE u.msg = t.msg /\ Writing(u)
    <3>1. Contended(u.msg)'
      BY <1>1, <1>2, <2>1, <2>2 DEF Recorded, Alone, Writing
    <3>. QED  BY <1>2, <1>3, <2>1, <3>1 DEF OnFile
  <2>3. CASE u.msg = t.msg /\ ~Writing(u)
    BY <1>2, <1>3, <2>1, <2>3 DEF OnFile, Writing
  <2>4. CASE u.msg # t.msg
    BY <1>1, <1>2, <1>3, <2>1, <2>4 DEF OnFile
  <2>. QED  BY <2>2, <2>3, <2>4
<1>6. Alone'
  BY <1>0, <1>1, <1>2 DEF Recorded, Alone, Writing
<1>. QED  BY <1>4, <1>5, <1>6

\* Every other step leaves those who write as they are.
LEMMA OnFileStep ==
  ASSUME TypeOK, Recorded, Dormant, [Next]_vars
  PROVE  (\A u \in Task : OnFile(u)') /\ Alone'
<1>0. \A u \in Task : u.msg \in Messages
  BY TaskFields
<1>1. \A m \in Messages : Contended(m) => Contended(m)'
  BY ContendedStays
<1>2. CASE Aside
  <2>1. ASSUME NEW u \in Task
        PROVE  OnFile(u)'
    <3>1. OnFile(u) /\ u.msg \in Messages
      BY <1>0 DEF Recorded
    <3>. QED  BY <1>1, <1>2, <3>1 DEF Aside, OnFile
  <2>2. Alone'
    BY <1>0, <1>1, <1>2 DEF Aside, Recorded, Alone, Writing
  <2>. QED  BY <2>1, <2>2
<1>3. CASE Crash
  BY <1>3 DEF Crash, OnFile, Alone, Writing
<1>. QED  BY <1>2, <1>3, WriteMoves, OpenOnFile, FillOnFile, RenameOnFile

\* A task about to acknowledge has recorded its message, or failed to, or did so
\* together with another delivery.
LEMMA ReachAck ==
  ASSUME TypeOK, Recorded, [Next]_vars, NEW t \in Task, pc'[t] = "ack"
  PROVE  Covered(t.msg)'
<1>0. t.msg \in Messages
  BY TaskFields
<1>1. CASE pc[t] = "ack"
  BY <1>0, <1>1, CoveredStays DEF Recorded
<1>2. CASE pc[t] # "ack"
  <2>1. OpenTmp(t) \/ FillTmp(t) \/ Rename(t)
    BY <1>2, PcMoves DEF Step, TypeOK, Ack, Authorize, Refuse, Acquire, RunResumed,
       RunFresh, RunFailed, Save, SendOK, QuoteError, ReplyError, ApologyError, Finish,
       Leave, Goto, FirstSend
  <2>2. CASE Note(t.msg, "unrecorded")
    BY <1>0, <2>2, NotedIsThrough DEF Event, Covered
  <2>3. CASE OpenTmp(t) \/ FillTmp(t)
    <3>1. Note(t.msg, "unrecorded")
      BY <2>3 DEF OpenTmp, FillTmp, Goto, TypeOK
    <3>. QED  BY <2>2, <3>1
  <2>4. CASE Rename(t) /\ Contended(t.msg)
    BY <1>0, <2>4, ContendedStays DEF Covered
  <2>5. CASE Rename(t) /\ ~Contended(t.msg) /\ ~Note(t.msg, "unrecorded")
    <3>1. tmp[t.msg] = "whole"
      BY <2>5 DEF Rename, Recorded, OnFile
    <3>2. json'[t.msg] = "whole"
      BY <1>0, <2>5, <3>1 DEF Rename, TypeOK
    <3>. QED  BY <3>2 DEF Covered
  <2>. QED  BY <2>1, <2>2, <2>3, <2>4, <2>5
<1>. QED  BY <1>1, <1>2

\* A task about to remove the pending file has sent a text, or given up on the
\* apology.
LEMMA ReachDone ==
  ASSUME TypeOK, Recorded, [Next]_vars, NEW t \in Task, pc'[t] = "done"
  PROVE  Through(t.msg)'
<1>0. t.msg \in Messages
  BY TaskFields
<1>1. CASE pc[t] = "done"
  BY <1>0, <1>1, ThroughStays DEF Recorded
<1>2. CASE pc[t] # "done"
  <2>1. SendOK(t) \/ ApologyError(t)
    BY <1>2, PcMoves DEF Step, TypeOK, OpenTmp, FillTmp, Rename, Ack, Authorize, Refuse, Acquire,
       RunResumed, RunFresh, RunFailed, Save, SendOK, QuoteError, ReplyError,
       ApologyError, Finish, Leave, Goto, FirstSend
  <2>2. \E e \in Event \ {"acked", "contended"} : Note(t.msg, e)
    BY <2>1 DEF SendOK, ApologyError, Deliver, Event
  <2>. QED  BY <1>0, <2>2, NotedIsThrough
<1>. QED  BY <1>1, <1>2

\* Every step keeps the record of what is on disk and what was promised.
LEMMA RecordedStep == TypeOK /\ Recorded /\ Dormant /\ [Next]_vars => Recorded'
<1>. SUFFICES ASSUME TypeOK, Recorded, Dormant, [Next]_vars
              PROVE  Recorded'
  OBVIOUS
<1>1. ASSUME NEW m \in Messages, "acked" \in log'[m]
      PROVE  Covered(m)'
  <2>1. CASE "acked" \in log[m]
    BY <2>1, CoveredStays DEF Recorded
  <2>2. CASE "acked" \notin log[m]
    <3>1. PICK t \in Task : t.msg = m /\ Ack(t)
      BY <1>1, <2>2, AckNotes
    <3>. QED  BY <3>1, CoveredStays DEF Ack, Recorded
  <2>. QED  BY <2>1, <2>2
<1>2. (\A t \in Task : OnFile(t)') /\ Alone'
  BY OnFileStep
<1>3. ASSUME NEW t \in Task, pc'[t] = "ack"
      PROVE  Covered(t.msg)'
  BY <1>3, ReachAck
<1>4. ASSUME NEW t \in Task, pc'[t] = "done"
      PROVE  Through(t.msg)'
  BY <1>4, ReachDone
<1>. QED  BY <1>1, <1>2, <1>3, <1>4 DEF Recorded

\* At the start nothing is promised and nobody writes.
LEMMA RecordedInit == Init => Recorded
BY DEF Init, Recorded, OnFile, Alone, Writing

\* While nothing has crashed and no send has failed, somebody works on a message
\* that was acknowledged and not yet settled.
Cared ==
  \A m \in Messages :
    /\ "acked" \in log[m] /\ ~Through(m)
    /\ spent["crash"] = 0 /\ spent["send"] = 0
    => ~Unattended(m)

\* Every step without a fault leaves a task to each such message.
LEMMA CaredStep ==
  ASSUME TypeOK, TypeOK', Recorded, Dormant, Cared, [Next]_vars
  PROVE  Cared'
<1>. SUFFICES ASSUME NEW m \in Messages, "acked" \in log'[m], ~Through(m)',
                     spent'["crash"] = 0, spent'["send"] = 0, Unattended(m)'
              PROVE  FALSE
  BY DEF Cared
<1>1. \A f \in Fault : spent[f] \in Nat /\ spent'[f] \in Nat /\ spent'[f] >= spent[f]
  BY FaultsStay
<1>2. spent["crash"] = 0 /\ spent["send"] = 0 /\ ~Spend("crash") /\ ~Spend("send")
  BY <1>1 DEF Fault, Spend, TypeOK
<1>3. ~Through(m)
  BY ThroughStays
<1>4. "acked" \in log[m]
  <2>1. ASSUME NEW t \in Task, t.msg = m, Ack(t)
        PROVE  FALSE
    BY <2>1 DEF Ack, Goto, TypeOK, Unattended
  <2>. QED  BY <2>1, AckNotes
<1>5. PICK t \in Task : t.msg = m /\ pc[t] # "idle"
  BY <1>2, <1>3, <1>4 DEF Cared, Unattended
<1>6. pc'[t] = "idle"
  BY <1>5 DEF Unattended
<1>7. Refuse(t) \/ Finish(t)
  <2>1. Refuse(t) \/ ReplyError(t) \/ Finish(t) \/ Crash
    BY <1>5, <1>6, Endings
  <2>. QED  BY <1>2, <2>1 DEF ReplyError, Crash
<1>8. ~Refuse(t)
  <2>1. Refuse(t) => Note(m, "refused")
    BY <1>5 DEF Refuse
  <2>. QED  BY <2>1, NotedIsThrough DEF Event
<1>. QED  BY <1>3, <1>5, <1>7, <1>8 DEF Finish, Recorded

\* In every reachable state an acknowledged message is in a readable pending
\* file, or the bridge is through with it, or the disk refused to take it, or two
\* deliveries of it wrote at once: then it is lost by a crash or a failing send only.
THEOREM Durability == Spec => []AckedIsRecoverable
<1>1. TypeOK /\ Recorded /\ Cared => AckedIsRecoverable
  <2>. SUFFICES ASSUME TypeOK, Recorded, Cared, NEW m \in Messages, "acked" \in log[m],
                       ~Through(m), json[m] # "whole"
                PROVE  /\ Contended(m)
                       /\ ~Unattended(m) \/ spent["crash"] > 0 \/ spent["send"] > 0
    BY DEF AckedIsRecoverable, Closing, Through
  <2>1. Contended(m)
    BY DEF Recorded, Covered
  <2>2. spent["crash"] \in Nat /\ spent["send"] \in Nat
    BY DEF TypeOK, Fault
  <2>. QED  BY <2>1, <2>2 DEF Cared
<1>2. Init => Cared
  BY DEF Init, Cared
<1>. QED
  BY <1>1, <1>2, CaredStep, RecordedInit, RecordedStep, DormantInit, DormantStep,
     TypeCorrect, TypeStep, PTL DEF Spec

-----------------------------------------------------------------------------
(***************************************************************************)
(* Nobody the policy has denied since the start is served.                 *)
(***************************************************************************)
Vetted ==
  /\ allowed \subseteq granted
  /\ \A t \in Task : pc[t] \notin {"idle", "authorize"} => SenderOf[t.msg] \in granted

\* Within one life of the process, nothing granted is taken back from the
\* history of grants; a restart starts it afresh, with the allowed senders.
LEMMA GrantsGrow ==
  TypeOK /\ Vetted /\ [Next]_vars =>
    /\ allowed' \subseteq granted'
    /\ granted \subseteq granted' \/ Restart
<1>. SUFFICES ASSUME TypeOK, Vetted, [Next]_vars
              PROVE  /\ allowed' \subseteq granted'
                     /\ granted \subseteq granted' \/ Restart
  OBVIOUS
<1>1. ASSUME NEW m \in Messages, Ignore(m) \/ Accept(m)
      PROVE  UNCHANGED policy
  BY <1>1 DEF Ignore, Accept
<1>2. ASSUME NEW t \in Task, Step(t)
      PROVE  UNCHANGED policy
  BY <1>2 DEF Step, OpenTmp, FillTmp, Rename, Ack, Authorize, Refuse, Acquire, RunResumed,
     RunFresh, RunFailed, Save, SendOK, QuoteError, ReplyError, ApologyError, Finish
<1>3. CASE Crash \/ UNCHANGED vars
  BY <1>3 DEF Crash, vars, Vetted
<1>4. CASE Restart \/ ChangePolicy
  BY <1>4 DEF Restart, ChangePolicy, Vetted
<1>. QED  BY <1>1, <1>2, <1>3, <1>4 DEF Next, Vetted

\* A task opens a file only when a delivery is accepted.
LEMMA OnlyAcceptOpens ==
  ASSUME TypeOK, [Next]_vars, NEW t \in Task, pc'[t] # pc[t], pc'[t] = "open"
  PROVE  \E m \in Messages : Accept(m)
<1>1. ASSUME NEW u \in Task, NEW l \in PC \ {"open"}, Goto(u, l)
      PROVE  FALSE
  BY <1>1 DEF TypeOK, Goto
<1>2. ASSUME NEW u \in Task, Step(u)
      PROVE  \E l \in PC \ {"open"} : Goto(u, l)
  BY <1>2 DEF Step, PC, OpenTmp, FillTmp, Rename, Ack, Authorize, Refuse, Acquire, RunResumed,
     RunFresh, RunFailed, Save, SendOK, QuoteError, ReplyError, ApologyError, Finish,
     Leave, FirstSend
<1>3. ASSUME NEW m \in Messages, Ignore(m)
      PROVE  FALSE
  BY <1>3 DEF Ignore
<1>4. CASE Crash \/ Restart \/ ChangePolicy \/ UNCHANGED vars
  BY <1>4 DEF TypeOK, Crash, Restart, ChangePolicy, vars
<1>. QED  BY <1>1, <1>2, <1>3, <1>4 DEF Next

\* Every step keeps the vetting of the tasks at work.
LEMMA VettedStep == TypeOK /\ Vetted /\ [Next]_vars => Vetted'
<1>. SUFFICES ASSUME TypeOK, Vetted, [Next]_vars
              PROVE  Vetted'
  OBVIOUS
<1>1. ASSUME NEW t \in Task, pc'[t] \notin {"idle", "authorize"}
      PROVE  SenderOf[t.msg] \in granted'
  <2>1. granted \subseteq granted'
    <3>1. CASE Restart
      BY <1>1, <3>1 DEF Restart
    <3>. QED  BY <3>1, GrantsGrow
  <2>2. CASE pc'[t] = pc[t]
    BY <1>1, <2>1, <2>2 DEF Vetted
  <2>3. CASE pc'[t] # pc[t] /\ pc'[t] = "open"
    <3>1. PICK m \in Messages : Accept(m)
      BY <2>3, OnlyAcceptOpens
    <3>2. t.msg = m
      BY <2>3, <3>1 DEF Accept, Goto, TypeOK
    <3>. QED  BY <3>1, <3>2, <2>1 DEF Accept, Vetted
  <2>4. CASE pc'[t] # pc[t] /\ pc'[t] # "open"
    <3>1. Step(t)
      BY <1>1, <2>4, PcMoves
    <3>2. CASE Authorize(t)
      BY <3>2, <2>1 DEF Authorize, Permitted, Vetted
    <3>3. CASE ~Authorize(t)
      <4>1. pc[t] \notin {"idle", "authorize"} \/ Refuse(t)
        BY <3>1, <3>3 DEF Step, OpenTmp, FillTmp, Rename, Ack, Acquire, RunResumed, RunFresh,
           RunFailed, Save, SendOK, QuoteError, ReplyError, ApologyError, Finish
      <4>2. ~Refuse(t)
        BY <1>1 DEF Refuse, Goto, TypeOK
      <4>. QED  BY <4>1, <4>2, <2>1 DEF Vetted
    <3>. QED  BY <3>2, <3>3
  <2>. QED  BY <2>2, <2>3, <2>4
<1>. QED  BY <1>1, GrantsGrow DEF Vetted

\* In every reachable state, a task that runs Claude or handles what the run
\* returned works for a sender whom the policy has allowed since the start.
THEOREM Revocation == Spec => []RevokedNeverRuns
<1>1. Init => Vetted
  BY DEF Init, Vetted
<1>2. Vetted => RevokedNeverRuns
  BY DEF Vetted, RevokedNeverRuns, Critical
<1>. QED  BY <1>1, <1>2, VettedStep, TypeCorrect, PTL DEF Spec

-----------------------------------------------------------------------------
(***************************************************************************)
(* Conversations are kept.  Because it holds the chat's lock, a task that  *)
(* has read the session still knows all of it when it saves its own.       *)
(***************************************************************************)
SessionKnown ==
  /\ \A t \in Task : pc[t] = "run" => ctx[t] = conv[Chat(t)]
  /\ \A t \in Task :
       pc[t] = "save" => ending[t] = "fresh" \/ conv[Chat(t)] \subseteq ctx[t]
  /\ saved = conv \/ spent["disk"] > 0

\* Sessions change when a task saves, and when a restart reads the file.
LEMMA ConvMoves ==
  TypeOK /\ [Next]_vars =>
    UNCHANGED sessions \/ Restart \/ \E t \in Task : Save(t)
<1>1. ASSUME NEW t \in Task, Step(t), ~Save(t)
      PROVE  UNCHANGED sessions
  BY <1>1 DEF Step, OpenTmp, FillTmp, Rename, Ack, Authorize, Refuse, Acquire, RunResumed,
     RunFresh, RunFailed, SendOK, QuoteError, ReplyError, ApologyError, Finish
<1>2. ASSUME NEW m \in Messages, Ignore(m) \/ Accept(m)
      PROVE  UNCHANGED sessions
  BY <1>2 DEF Ignore, Accept
<1>3. CASE Crash \/ ChangePolicy \/ UNCHANGED vars
  BY <1>3 DEF Crash, ChangePolicy, vars
<1>. QED  BY <1>1, <1>2, <1>3 DEF Next

\* Faults are counted, never forgotten.
LEMMA SpentGrows ==
  TypeOK /\ [Next]_vars /\ spent["disk"] > 0 => spent'["disk"] > 0
<1>. SUFFICES ASSUME TypeOK, [Next]_vars, spent["disk"] > 0
              PROVE  spent'["disk"] > 0
  OBVIOUS
<1>1. ASSUME NEW f \in Fault, Spend(f)
      PROVE  spent'["disk"] > 0
  BY <1>1 DEF TypeOK, Spend, Fault
<1>2. ASSUME NEW t \in Task, Step(t)
      PROVE  UNCHANGED spent \/ \E f \in Fault : Spend(f)
  BY <1>2 DEF Step, OpenTmp, FillTmp, Rename, Ack, Authorize, Refuse, Forget, Acquire, RunResumed,
     RunFresh, RunFailed, Save, SendOK, QuoteError, ReplyError, ApologyError, Finish, Fault
<1>3. ASSUME NEW m \in Messages, Ignore(m) \/ Accept(m)
      PROVE  UNCHANGED spent
  BY <1>3 DEF Ignore, Accept
<1>4. CASE Crash \/ Restart \/ ChangePolicy \/ UNCHANGED vars
  BY <1>4, <1>1 DEF Crash, Restart, ChangePolicy, vars, Fault
<1>. QED  BY <1>1, <1>2, <1>3, <1>4 DEF Next

\* Another task of the chat is not between its run and its save while one saves.
LEMMA SaveAlone ==
  ASSUME TypeOK, OneRunPerChat, NEW t \in Task, Save(t), NEW u \in Task, u # t,
         pc'[u] \in {"run", "save"}
  PROVE  conv'[Chat(u)] = conv[Chat(u)] /\ ctx'[u] = ctx[u] /\ pc[u] = pc'[u]
         /\ ending'[u] = ending[u]
<1>1. pc[u] = pc'[u] /\ pc[t] = "save"
  BY DEF Save, Goto, TypeOK
<1>2. Chat(u) # Chat(t)
  BY <1>1 DEF OneRunPerChat, Critical
<1>3. Chat(u) \in Chats /\ Chat(t) \in Chats
  BY TaskFields
<1>. QED  BY <1>1, <1>2, <1>3 DEF Save, TypeOK

\* A task that stays where it is, at work, keeps its local variables.
LEMMA LocalsKept ==
  ASSUME TypeOK, [Next]_vars, NEW t \in Task, pc'[t] = pc[t], pc[t] \in {"run", "save"}
  PROVE  ctx'[t] = ctx[t] /\ ending'[t] = ending[t]
<1>1. ASSUME NEW u \in Task, Step(u), u # t
      PROVE  ctx'[t] = ctx[t] /\ ending'[t] = ending[t]
  BY <1>1 DEF TypeOK, Step, OpenTmp, FillTmp, Rename, Ack, Authorize, Refuse, Acquire, RunResumed,
     RunFresh, RunFailed, Save, SendOK, QuoteError, ReplyError, ApologyError, Finish, Leave
<1>2. ~Step(t)
  BY DEF TypeOK, Step, OpenTmp, FillTmp, Rename, Ack, Authorize, Refuse, Acquire, RunResumed,
     RunFresh, RunFailed, Save, SendOK, QuoteError, ReplyError, ApologyError, Finish,
     Leave, Goto, FirstSend
<1>3. ASSUME NEW m \in Messages, Ignore(m) \/ Accept(m)
      PROVE  UNCHANGED <<ctx, ending>>
  BY <1>3 DEF Ignore, Accept
<1>4. CASE Restart \/ ChangePolicy \/ UNCHANGED vars
  BY <1>4 DEF Restart, ChangePolicy, vars
<1>5. ~Crash
  BY DEF Crash, TypeOK
<1>. QED  BY <1>1, <1>2, <1>3, <1>4, <1>5 DEF Next

\* A task in its Claude run has just taken the lock, or was there before.
LEMMA StillRunning ==
  ASSUME TypeOK, [Next]_vars, NEW t \in Task, pc'[t] = "run"
  PROVE  Acquire(t) \/ (pc[t] = "run" /\ ctx'[t] = ctx[t])
<1>1. CASE pc[t] # "run"
  <2>1. Step(t)
    BY <1>1, PcMoves
  <2>. QED
    BY <1>1, <2>1 DEF Step, TypeOK, OpenTmp, FillTmp, Rename, Ack, Authorize, Refuse, RunResumed,
       RunFresh, RunFailed, Save, SendOK, QuoteError, ReplyError, ApologyError, Finish,
       Leave, Goto, FirstSend
<1>2. CASE pc[t] = "run"
  BY <1>2, LocalsKept
<1>. QED  BY <1>1, <1>2

\* A task about to save has just had its run, or was there before.
LEMMA StillSaving ==
  ASSUME TypeOK, [Next]_vars, NEW t \in Task, pc'[t] = "save"
  PROVE  \/ RunResumed(t)
         \/ RunFresh(t)
         \/ pc[t] = "save" /\ ctx'[t] = ctx[t] /\ ending'[t] = ending[t]
<1>1. CASE pc[t] # "save"
  <2>1. Step(t)
    BY <1>1, PcMoves
  <2>. QED
    BY <1>1, <2>1 DEF Step, TypeOK, OpenTmp, FillTmp, Rename, Ack, Authorize, Refuse, Acquire,
       RunFailed, Save, SendOK, QuoteError, ReplyError, ApologyError, Finish,
       Leave, Goto, FirstSend
<1>2. CASE pc[t] = "save"
  BY <1>2, LocalsKept
<1>. QED  BY <1>1, <1>2

\* Every step keeps what the tasks know of their chats' sessions.
LEMMA SessionStep ==
  TypeOK /\ OneRunPerChat /\ SessionKnown /\ [Next]_vars => SessionKnown'
<1>. SUFFICES ASSUME TypeOK, OneRunPerChat, SessionKnown, [Next]_vars
              PROVE  SessionKnown'
  OBVIOUS
<1>1. CASE Restart
  BY <1>1, SpentGrows DEF Restart, SessionKnown
<1>2. ASSUME NEW t \in Task, Save(t)
      PROVE  SessionKnown'
  <2>1. pc'[t] \notin {"run", "save"}
    BY <1>2 DEF Save, Goto, FirstSend, TypeOK
  <2>2. saved' = conv' \/ spent'["disk"] > 0
    BY <1>2 DEF Save, Spend, Fault, TypeOK
  <2>3. ASSUME NEW u \in Task, pc'[u] \in {"run", "save"}
        PROVE  /\ pc'[u] = "run" => ctx'[u] = conv'[Chat(u)]
               /\ pc'[u] = "save" => ending'[u] = "fresh" \/ conv'[Chat(u)] \subseteq ctx'[u]
    <3>1. /\ conv'[Chat(u)] = conv[Chat(u)] /\ ctx'[u] = ctx[u]
          /\ pc[u] = pc'[u] /\ ending'[u] = ending[u]
      BY <1>2, <2>1, <2>3, SaveAlone
    <3>. QED  BY <3>1, <2>3 DEF SessionKnown
  <2>. QED  BY <2>2, <2>3 DEF SessionKnown, Chat
<1>3. CASE UNCHANGED sessions /\ ~Restart
  <2>1. saved' = conv' \/ spent'["disk"] > 0
    BY <1>3, SpentGrows DEF SessionKnown
  <2>2. ASSUME NEW t \in Task, pc'[t] = "run"
        PROVE  ctx'[t] = conv'[Chat(t)]
    <3>1. CASE Acquire(t)
      BY <1>3, <3>1 DEF Acquire, TypeOK
    <3>2. CASE pc[t] = "run" /\ ctx'[t] = ctx[t]
      BY <1>3, <3>2 DEF SessionKnown
    <3>. QED  BY <2>2, <3>1, <3>2, StillRunning
  <2>3. ASSUME NEW t \in Task, pc'[t] = "save"
        PROVE  ending'[t] = "fresh" \/ conv'[Chat(t)] \subseteq ctx'[t]
    <3>1. CASE RunResumed(t)
      BY <1>3, <3>1 DEF RunResumed, Resumed, SessionKnown, TypeOK
    <3>2. CASE RunFresh(t)
      BY <3>2 DEF RunFresh, TypeOK
    <3>3. CASE pc[t] = "save" /\ ctx'[t] = ctx[t] /\ ending'[t] = ending[t]
      BY <1>3, <3>3 DEF SessionKnown
    <3>. QED  BY <2>3, <3>1, <3>2, <3>3, StillSaving
  <2>. QED  BY <2>1, <2>2, <2>3 DEF SessionKnown, Chat
<1>. QED  BY <1>1, <1>2, <1>3, ConvMoves

\* No step but a fresh conversation, or a restart after the session file could
\* not be written, takes an exchange away from a chat's session.
THEOREM Continuity == Spec => ContextKept
<1>. DEFINE Kept ==
       \A c \in Chats :
         \/ conv[c] \subseteq conv'[c]
         \/ \E t \in Task : pc[t] = "save" /\ Chat(t) = c /\ ending[t] = "fresh"
         \/ ~up /\ spent["disk"] > 0
<1>1. Init => SessionKnown
  BY DEF Init, SessionKnown
<1>2. TypeOK /\ SessionKnown /\ [Next]_vars => [Kept]_vars
  <2>. SUFFICES ASSUME TypeOK, SessionKnown, [Next]_vars
                PROVE  Kept
    OBVIOUS
  <2>1. CASE UNCHANGED sessions
    BY <2>1
  <2>2. CASE Restart
    BY <2>2 DEF Restart, SessionKnown
  <2>3. ASSUME NEW t \in Task, Save(t)
        PROVE  Kept
    <3>1. Chat(t) \in Chats
      BY TaskFields
    <3>2. /\ conv' = [conv EXCEPT ![Chat(t)] = ctx[t]]
          /\ pc[t] = "save"
      BY <2>3 DEF Save
    <3>3. ending[t] = "fresh" \/ conv[Chat(t)] \subseteq ctx[t]
      BY <3>2 DEF SessionKnown
    <3>. QED  BY <3>1, <3>2, <3>3 DEF TypeOK
  <2>. QED  BY <2>1, <2>2, <2>3, ConvMoves
<1>. QED
  BY <1>1, <1>2, SessionStep, MutualExclusion, TypeCorrect, PTL DEF Spec, ContextKept

-----------------------------------------------------------------------------
(***************************************************************************)
(* The pipeline implements the acknowledged queue.                         *)
(***************************************************************************)
Owed == {m \in Messages : json[m] = "whole"}
Promised == {m \in Messages : "acked" \in log[m]}
Closed == {m \in Messages : Through(m)}
Risky == {m \in Messages : Contended(m)}

\* Noting an event by which the bridge is through with a message closes it.
LEMMA NoteCloses ==
  ASSUME TypeOK, NEW m \in Messages, NEW e \in Event \ {"acked", "contended"}, Note(m, e)
  PROVE  Promised' = Promised /\ Closed' = Closed \cup {m} /\ Risky' = Risky
<1>1. \A n \in Messages : log'[n] = IF n = m THEN log[n] \cup {e} ELSE log[n]
  BY DEF TypeOK, Note
<1>2. Promised' = Promised /\ Risky' = Risky
  BY <1>1 DEF Promised, Risky, Contended
<1>3. \A n \in Messages : Through(n)' <=> Through(n) \/ n = m
  BY <1>1 DEF Through, Event
<1>4. Closed' = Closed \cup {m}
  BY <1>3 DEF Closed
<1>. QED  BY <1>2, <1>4

\* Noting the acknowledgement promises the message and closes nothing.
LEMMA AckPromises ==
  ASSUME TypeOK, NEW m \in Messages, Note(m, "acked")
  PROVE  Promised' = Promised \cup {m} /\ Closed' = Closed /\ Risky' = Risky
BY DEF TypeOK, Note, Promised, Closed, Through, Risky, Contended

\* Noting that two deliveries write at once makes the message a risky one.
LEMMA ContendedRisks ==
  ASSUME TypeOK, NEW m \in Messages, Note(m, "contended"), json' = json
  PROVE  Queue!Next
<1>1. Promised' = Promised /\ Closed' = Closed /\ Risky' = Risky \cup {m} /\ Owed' = Owed
  BY DEF TypeOK, Note, Promised, Closed, Through, Risky, Contended, Owed
<1>2. Queue!Risk(m)
  BY <1>1 DEF Queue!Risk, Owed, Promised, Closed, Risky
<1>. QED  BY <1>2 DEF Queue!Next

\* Removing a pending file releases its message, failing to remove it does not.
LEMMA ForgetReleases ==
  ASSUME TypeOK, NEW m \in Messages, Forget(m)
  PROVE  Owed' \in {Owed, Owed \ {m}}
BY DEF TypeOK, Forget, Owed

\* An event other than the acknowledgement, the file becoming no more readable
\* than it was, is a Close.
LEMMA NoteIsClose ==
  ASSUME TypeOK, NEW m \in Messages, NEW e \in Event \ {"acked", "contended"}, Note(m, e),
         Owed' \in {Owed, Owed \ {m}}
  PROVE  Queue!Next
<1>1. Queue!Close(m)
  BY NoteCloses DEF Queue!Close, Owed, Promised, Closed, Risky
<1>. QED  BY <1>1 DEF Queue!Next

\* A file that is exchanged while nothing else happens: a record, a loss of a
\* contended message, or nothing.
LEMMA FileIsRecord ==
  ASSUME TypeOK, NEW m \in Messages, UNCHANGED log,
         \A n \in Messages \ {m} : json'[n] = json[n],
         json'[m] = json[m] \/ json'[m] = "whole" \/ Contended(m)
  PROVE  Queue!Next \/ UNCHANGED <<Owed, Promised, Closed, Risky>>
<1>1. UNCHANGED <<Promised, Closed, Risky>>
  BY DEF Promised, Closed, Through, Risky, Contended
<1>2. CASE json'[m] = "whole"
  <2>1. Owed' = Owed \cup {m}
    BY <1>2 DEF Owed
  <2>2. Queue!Record(m)
    BY <1>1, <2>1 DEF Queue!Record, Owed, Promised, Closed, Risky
  <2>. QED  BY <2>2 DEF Queue!Next
<1>3. CASE json'[m] # "whole" /\ Contended(m)
  <2>1. Owed' = Owed \ {m} /\ m \in Risky
    BY <1>3 DEF Owed, Risky
  <2>2. Queue!Lose(m)
    BY <1>1, <2>1 DEF Queue!Lose, Owed, Promised, Closed, Risky
  <2>. QED  BY <2>2 DEF Queue!Next
<1>4. CASE json'[m] = json[m]
  <2>1. Owed' = Owed
    BY <1>4 DEF Owed
  <2>. QED  BY <1>1, <2>1
<1>. QED  BY <1>2, <1>3, <1>4

\* Every step of the pipeline is a step of the queue or leaves it as it is.
LEMMA QueueStep ==
  TypeOK /\ Recorded /\ [Next]_vars => [Queue!Next]_(Queue!vars)
<1>. SUFFICES ASSUME TypeOK, Recorded, [Next]_vars
              PROVE  Queue!Next \/ UNCHANGED <<Owed, Promised, Closed, Risky>>
  BY DEF Queue!vars, Owed, Promised, Closed, Risky
<1>. USE TaskFields
<1>0. ASSUME UNCHANGED log
      PROVE  UNCHANGED <<Promised, Closed, Risky>>
  BY <1>0 DEF Promised, Closed, Through, Risky, Contended
<1>1. ASSUME UNCHANGED <<json, log>>
      PROVE  UNCHANGED <<Owed, Promised, Closed, Risky>>
  BY <1>0, <1>1 DEF Owed
<1>2. ASSUME NEW t \in Task, OpenTmp(t)
      PROVE  Queue!Next \/ UNCHANGED <<Owed, Promised, Closed, Risky>>
  <2>1. /\ json' = json
        /\ \/ Note(t.msg, "contended") \/ UNCHANGED log \/ Note(t.msg, "unrecorded")
    BY <1>2 DEF OpenTmp
  <2>2. Owed' = Owed
    BY <2>1 DEF Owed
  <2>3. CASE Note(t.msg, "unrecorded")
    BY <2>2, <2>3, NoteIsClose DEF Event
  <2>. QED  BY <2>1, <2>3, <1>1, ContendedRisks
<1>11. ASSUME NEW t \in Task, FillTmp(t)
       PROVE  Queue!Next \/ UNCHANGED <<Owed, Promised, Closed, Risky>>
  <2>1. /\ \A n \in Messages \ {t.msg} : json'[n] = json[n]
        /\ json'[t.msg] = json[t.msg] \/ Contended(t.msg)
        /\ UNCHANGED log \/ Note(t.msg, "unrecorded")
    BY <1>11, FillFacts DEF Recorded, OnFile
  <2>2. CASE UNCHANGED log
    BY <2>1, <2>2, FileIsRecord
  <2>3. CASE Note(t.msg, "unrecorded")
    <3>1. CASE json'[t.msg] = json[t.msg] \/ json[t.msg] = "whole" \/ json'[t.msg] # "whole"
      <4>1. Owed' \in {Owed, Owed \ {t.msg}}
        BY <2>1, <3>1 DEF Owed
      <4>. QED  BY <2>3, <4>1, NoteIsClose DEF Event
    <3>2. CASE UNCHANGED log
      BY <2>2, <3>2
    <3>. QED  BY <1>11, <2>3, <3>1, <3>2, FillFailure
  <2>. QED  BY <2>1, <2>2, <2>3
<1>3. ASSUME NEW t \in Task, Rename(t)
      PROVE  Queue!Next \/ UNCHANGED <<Owed, Promised, Closed, Risky>>
  <2>1. CASE UNCHANGED <<json, log>>
    BY <2>1, <1>1
  <2>2. CASE json' = json /\ Note(t.msg, "unrecorded")
    <3>1. Owed' = Owed
      BY <2>2 DEF Owed
    <3>. QED  BY <2>2, <3>1, NoteIsClose DEF Event
  <2>3. CASE json' = [json EXCEPT ![t.msg] = tmp[t.msg]] /\ UNCHANGED log
    <3>1. tmp[t.msg] = "whole" \/ Contended(t.msg)
      BY <1>3 DEF Rename, Recorded, OnFile
    <3>2. json'[t.msg] = "whole" \/ Contended(t.msg)
      BY <2>3, <3>1 DEF TypeOK
    <3>3. \A n \in Messages \ {t.msg} : json'[n] = json[n]
      BY <2>3 DEF TypeOK
    <3>. QED  BY <2>3, <3>2, <3>3, FileIsRecord
  <2>. QED  BY <1>3, <2>1, <2>2, <2>3 DEF Rename
<1>4. ASSUME NEW t \in Task, Ack(t)
      PROVE  Queue!Next
  <2>1. Note(t.msg, "acked") /\ Owed' = Owed /\ Covered(t.msg)
    BY <1>4 DEF Ack, Recorded, Owed
  <2>2. t.msg \in Owed \cup Closed \cup Risky
    BY <2>1 DEF Covered, Owed, Closed, Risky
  <2>3. Queue!Promise(t.msg)
    BY <2>1, <2>2, AckPromises DEF Queue!Promise, Owed, Promised, Closed, Risky
  <2>. QED  BY <2>3 DEF Queue!Next
<1>5. ASSUME NEW t \in Task, Refuse(t)
      PROVE  Queue!Next
  <2>1. Note(t.msg, "refused") /\ Forget(t.msg)
    BY <1>5 DEF Refuse
  <2>. QED  BY <2>1, NoteIsClose, ForgetReleases DEF Event
<1>6. ASSUME NEW t \in Task, SendOK(t) \/ QuoteError(t) \/ ReplyError(t) \/ ApologyError(t)
      PROVE  Queue!Next \/ UNCHANGED <<Owed, Promised, Closed, Risky>>
  <2>1. /\ json' = json
        /\ \/ UNCHANGED log
           \/ \E e \in Event \ {"acked", "contended"} : Note(t.msg, e)
    BY <1>6 DEF SendOK, QuoteError, ReplyError, ApologyError, Deliver, Event
  <2>2. Owed' = Owed
    BY <2>1 DEF Owed
  <2>. QED  BY <2>1, <2>2, <1>1, NoteIsClose
<1>7. ASSUME NEW t \in Task, Finish(t)
      PROVE  Queue!Next
  <2>1. Forget(t.msg) /\ UNCHANGED log /\ t.msg \in Closed
    BY <1>7 DEF Finish, Recorded, Closed
  <2>2. Queue!Close(t.msg)
    BY <2>1, <1>0, ForgetReleases DEF Queue!Close, Owed, Promised, Closed, Risky
  <2>. QED  BY <2>2 DEF Queue!Next
<1>8. ASSUME NEW t \in Task,
             \/ Authorize(t) \/ Acquire(t) \/ RunResumed(t) \/ RunFresh(t)
             \/ RunFailed(t) \/ Save(t)
      PROVE  UNCHANGED <<json, log>>
  BY <1>8 DEF Authorize, Acquire, RunResumed, RunFresh, RunFailed, Save
<1>9. ASSUME NEW m \in Messages, Ignore(m) \/ Accept(m)
      PROVE  UNCHANGED <<json, log>>
  BY <1>9 DEF Ignore, Accept
<1>10. CASE Crash \/ Restart \/ ChangePolicy \/ UNCHANGED vars
  <2>1. UNCHANGED <<json, log>>
    BY <1>10 DEF Crash, Restart, ChangePolicy, vars
  <2>. QED  BY <2>1, <1>1
<1>. QED
  BY <1>1, <1>2, <1>3, <1>4, <1>5, <1>6, <1>7, <1>8, <1>9, <1>10, <1>11 DEF Next, Step

\* The pipeline, with its goroutines, files, crashes and redeliveries, is an
\* implementation of the queue that loses what it promised only when it was
\* recorded twice at once.
THEOREM Refinement == Spec => ImplementsQueue
<1>1. Init => Queue!Init
  BY DEF Init, Queue!Init, Through, Contended
<1>. QED
  BY <1>1, QueueStep, RecordedStep, RecordedInit, DormantInit, DormantStep, TypeCorrect, PTL
  DEF Spec, Queue!Spec, ImplementsQueue

\* The abstract queue loses nothing it has promised but what is risky.
LEMMA QueueKeepsPromises == Queue!Spec => []Queue!NothingLost
<1>1. Queue!Init => Queue!NothingLost
  BY DEF Queue!Init, Queue!NothingLost
<1>2. Queue!NothingLost /\ [Queue!Next]_(Queue!vars) => Queue!NothingLost'
  BY DEF Queue!Next, Queue!Record, Queue!Promise, Queue!Close, Queue!Risk, Queue!Lose,
         Queue!vars, Queue!NothingLost
<1>. QED
  BY <1>1, <1>2, PTL DEF Queue!Spec

\* As the refinement sees it (pending.Store), an acknowledged message is in a
\* readable file or done with, unless two deliveries of it wrote at once.
THEOREM PromisesKept == Spec => []Queue!NothingLost
  BY Refinement, QueueKeepsPromises, PTL DEF ImplementsQueue

-----------------------------------------------------------------------------
(***************************************************************************)
(* Copies of a reply.  A task that has not sent yet may still answer its   *)
(* message, so it counts as a copy already; a bridge that is down may      *)
(* start two more tasks for it.                                            *)
(***************************************************************************)
Working(m) == {t \in Task : t.msg = m /\ pc[t] \notin {"idle", "done"}}

Causes(m) == tries[m] + 2 * spent["crash"] + spent["send"]

Replays == IF up THEN 0 ELSE 2

AccountedFor(m) ==
  /\ IsFiniteSet(Working(m))
  /\ replies[m] + Cardinality(Working(m)) + Replays <= Causes(m)

Accounted == \A m \in Messages : AccountedFor(m)

\* One more element makes a finite set at most one larger.
LEMMA AddOne ==
  ASSUME NEW S, IsFiniteSet(S), Cardinality(S) \in Nat, NEW x
  PROVE  IsFiniteSet(S \cup {x}) /\ Cardinality(S \cup {x}) <= Cardinality(S) + 1
<1>1. /\ IsFiniteSet(S \cup {x})
      /\ Cardinality(S \cup {x}) = IF x \in S THEN Cardinality(S) ELSE Cardinality(S) + 1
  BY FS_AddElement, Zenon
<1>2. CASE x \in S
  <2>1. Cardinality(S \cup {x}) = Cardinality(S)
    BY <1>1, <1>2, Zenon
  <2>. QED  BY <1>1, <2>1
<1>3. CASE x \notin S
  <2>1. Cardinality(S \cup {x}) = Cardinality(S) + 1
    BY <1>1, <1>3, Zenon
  <2>. QED  BY <1>1, <2>1
<1>. QED  BY <1>2, <1>3

\* The counters are numbers.
LEMMA Counters ==
  ASSUME TypeOK, NEW m \in Messages
  PROVE  /\ replies[m] \in Nat /\ tries[m] \in Nat
         /\ spent["crash"] \in Nat /\ spent["send"] \in Nat
         /\ Causes(m) \in Nat
BY DEF TypeOK, Fault, Causes

\* The counters of faults and answers are numbers after every step.
LEMMA NextCounters ==
  ASSUME TypeOK', NEW m \in Messages
  PROVE  replies'[m] \in Nat /\ Causes(m)' \in Nat
BY DEF TypeOK, Fault, Causes

\* A step that starts no task for m and delivers no copy of its reply.
LEMMA Quiet ==
  ASSUME TypeOK, TypeOK', NEW m \in Messages, AccountedFor(m), up' = up,
         Working(m)' \subseteq Working(m), replies'[m] = replies[m],
         Causes(m)' >= Causes(m)
  PROVE  AccountedFor(m)'
<1>1. IsFiniteSet(Working(m)') /\ Cardinality(Working(m)') <= Cardinality(Working(m))
  BY FS_Subset DEF AccountedFor
<1>2. Cardinality(Working(m)) \in Nat /\ Cardinality(Working(m)') \in Nat
  BY <1>1, FS_CardinalityType DEF AccountedFor
<1>3. Replays' = Replays /\ Replays \in Nat
  BY DEF Replays
<1>. QED  BY <1>1, <1>2, <1>3, Counters, NextCounters DEF AccountedFor

\* A step by which a task sends the copy it stood for.
LEMMA Sends ==
  ASSUME TypeOK, TypeOK', NEW m \in Messages, AccountedFor(m), up' = up,
         NEW t \in Working(m), Working(m)' \subseteq Working(m) \ {t},
         replies'[m] <= replies[m] + 1, Causes(m)' >= Causes(m)
  PROVE  AccountedFor(m)'
<1>1. /\ IsFiniteSet(Working(m) \ {t})
      /\ Cardinality(Working(m) \ {t}) = Cardinality(Working(m)) - 1
  BY FS_RemoveElement DEF AccountedFor
<1>2. /\ IsFiniteSet(Working(m)')
      /\ Cardinality(Working(m)') <= Cardinality(Working(m) \ {t})
  BY <1>1, FS_Subset
<1>3. Cardinality(Working(m)) \in Nat /\ Cardinality(Working(m)') \in Nat
  BY <1>2, FS_CardinalityType DEF AccountedFor
<1>4. Replays' = Replays /\ Replays \in Nat
  BY DEF Replays
<1>. QED  BY <1>1, <1>2, <1>3, <1>4, Counters, NextCounters DEF AccountedFor

\* A step that has a cause of its own for one more copy.
LEMMA Caused ==
  ASSUME TypeOK, TypeOK', NEW m \in Messages, AccountedFor(m), up' = up,
         Working(m)' \subseteq Working(m), replies'[m] <= replies[m] + 1,
         Causes(m)' >= Causes(m) + 1
  PROVE  AccountedFor(m)'
<1>1. IsFiniteSet(Working(m)') /\ Cardinality(Working(m)') <= Cardinality(Working(m))
  BY FS_Subset DEF AccountedFor
<1>2. Cardinality(Working(m)) \in Nat /\ Cardinality(Working(m)') \in Nat
  BY <1>1, FS_CardinalityType DEF AccountedFor
<1>3. Replays' = Replays /\ Replays \in Nat
  BY DEF Replays
<1>. QED  BY <1>1, <1>2, <1>3, Counters, NextCounters DEF AccountedFor

\* A webhook that starts one more task for m, which is a try of its own.
LEMMA Joins ==
  ASSUME TypeOK, TypeOK', NEW m \in Messages, AccountedFor(m), up' = up, NEW t,
         Working(m)' \subseteq Working(m) \cup {t}, replies'[m] = replies[m],
         Causes(m)' >= Causes(m) + 1
  PROVE  AccountedFor(m)'
<1>1. /\ IsFiniteSet(Working(m) \cup {t})
      /\ Cardinality(Working(m) \cup {t}) <= Cardinality(Working(m)) + 1
  <2>1. IsFiniteSet(Working(m)) /\ Cardinality(Working(m)) \in Nat
    BY FS_CardinalityType DEF AccountedFor
  <2>. QED  BY <2>1, AddOne
<1>2. /\ IsFiniteSet(Working(m)')
      /\ Cardinality(Working(m)') <= Cardinality(Working(m) \cup {t})
  BY <1>1, FS_Subset
<1>3. /\ Cardinality(Working(m)) \in Nat /\ Cardinality(Working(m)') \in Nat
      /\ Cardinality(Working(m) \cup {t}) \in Nat
  BY <1>1, <1>2, FS_CardinalityType DEF AccountedFor
<1>4. Replays' = Replays /\ Replays \in Nat
  BY DEF Replays
<1>. QED  BY <1>1, <1>2, <1>3, <1>4, Counters, NextCounters DEF AccountedFor

\* A crash ends all tasks and is the cause of up to two replays of m.
LEMMA CrashAccounts ==
  ASSUME TypeOK, TypeOK', NEW m \in Messages, AccountedFor(m), Crash
  PROVE  AccountedFor(m)'
<1>1. Working(m)' = {}
  BY DEF Crash, Working
<1>2. IsFiniteSet(Working(m)') /\ Cardinality(Working(m)') = 0
  BY <1>1, FS_EmptySet
<1>3. /\ replies' = replies /\ tries' = tries /\ up /\ ~up'
      /\ spent'["crash"] = spent["crash"] + 1 /\ spent'["send"] = spent["send"]
  BY DEF Crash, Spend, TypeOK, Fault
<1>4. Cardinality(Working(m)) \in Nat
  BY FS_CardinalityType DEF AccountedFor
<1>5. Replays = 0 /\ Replays' = 2 /\ Causes(m)' = Causes(m) + 2
  BY <1>3, Counters DEF Causes, Replays
<1>. QED  BY <1>2, <1>3, <1>4, <1>5, Counters DEF AccountedFor

\* A restart starts a task for each of the two files of m at most.
LEMMA RestartAccounts ==
  ASSUME TypeOK, TypeOK', NEW m \in Messages, AccountedFor(m), Restart
  PROVE  AccountedFor(m)'
<1>. DEFINE One == {[msg |-> m, via |-> "json", no |-> 0]}
            other == [msg |-> m, via |-> "tmp", no |-> 0]
            Both == One \cup {other}
<1>1. Working(m)' \subseteq Both
  BY DEF Restart, Working, Listed, ReplayTask
<1>2. IsFiniteSet(Both) /\ Cardinality(Both) <= 2
  <2>1. IsFiniteSet(One) /\ Cardinality(One) = 1
    BY FS_Singleton
  <2>2. Cardinality(One) \in Nat
    BY <2>1
  <2>. HIDE DEF One, other
  <2>3. IsFiniteSet(One \cup {other}) /\ Cardinality(One \cup {other}) <= Cardinality(One) + 1
    BY <2>1, <2>2, AddOne, Zenon
  <2>. QED  BY <2>1, <2>3
<1>. HIDE DEF Both
<1>3. IsFiniteSet(Working(m)') /\ Cardinality(Working(m)') <= Cardinality(Both)
  BY <1>1, <1>2, FS_Subset
<1>4. /\ Cardinality(Working(m)) \in Nat /\ Cardinality(Working(m)') \in Nat
      /\ Cardinality(Both) \in Nat
  BY <1>2, <1>3, FS_CardinalityType DEF AccountedFor
<1>5. ~up /\ up' /\ replies' = replies /\ Causes(m)' = Causes(m)
  BY DEF Restart, Causes
<1>. QED  BY <1>2, <1>3, <1>4, <1>5, Counters DEF AccountedFor, Replays

\* What the delivery of a text adds to the copies.
LEMMA DeliverAdds ==
  ASSUME TypeOK, NEW t \in Task, Deliver(t) \/ UNCHANGED <<log, replies>>,
         NEW m \in Messages
  PROVE  replies'[m] <= replies[m] + 1 /\ (m # t.msg => replies'[m] = replies[m])
BY TaskFields, Counters DEF Deliver, TypeOK

\* A task's own step is the only one that moves it.
LEMMA OthersStay ==
  ASSUME TypeOK, NEW t \in Task, NEW l, Goto(t, l), NEW m \in Messages
  PROVE  /\ pc[t] # "idle" => Working(m)' \subseteq Working(m) \cup {t}
         /\ pc[t] \notin {"idle", "done"} \/ l \in {"idle", "done"}
            => Working(m)' \subseteq Working(m)
         /\ l \in {"idle", "done"} => Working(m)' \subseteq Working(m) \ {t}
BY DEF Goto, Working, TypeOK

\* Every step leaves the copies of a reply accounted for.
LEMMA AccountStep ==
  ASSUME TypeOK, TypeOK', [Next]_vars, NEW m \in Messages, AccountedFor(m)
  PROVE  AccountedFor(m)'
<1>. USE Counters
<1>0. ASSUME NEW f \in Fault, UNCHANGED spent \/ Spend(f), tries' = tries
      PROVE  Causes(m)' >= Causes(m) /\ (Spend("send") => Causes(m)' >= Causes(m) + 1)
  BY <1>0 DEF Spend, Causes, TypeOK, Fault
<1>1. ASSUME NEW n \in Messages, Ignore(n)
      PROVE  AccountedFor(m)'
  <2>1. Causes(m)' >= Causes(m)
    BY <1>1 DEF Ignore, Post, Causes, TypeOK
  <2>2. Working(m)' = Working(m) /\ replies' = replies /\ up' = up
    BY <1>1 DEF Ignore, Working
  <2>. QED  BY <2>1, <2>2, Quiet
<1>2. ASSUME NEW n \in Messages, Accept(n)
      PROVE  AccountedFor(m)'
  <2>. DEFINE h == [msg |-> n, via |-> "hook", no |-> tries[n] + 1]
  <2>1. /\ Goto(h, "open") /\ replies' = replies /\ up' = up
        /\ UNCHANGED spent /\ tries' = [tries EXCEPT ![n] = tries[n] + 1]
    BY <1>2 DEF Accept, Post
  <2>2. h \in Task
    BY <1>2, HookIsTask DEF Accept, Post
  <2>3. h.msg = n
    OBVIOUS
  <2>. HIDE DEF h
  <2>4. CASE n = m
    <3>1. Causes(m)' >= Causes(m) + 1
      BY <2>1, <2>4 DEF Causes, TypeOK
    <3>2. Working(m)' \subseteq Working(m) \cup {h}
      BY <2>1, <2>2 DEF Goto, Working, TypeOK
    <3>. QED  BY <2>1, <3>1, <3>2, Joins
  <2>5. CASE n # m
    <3>1. Causes(m)' >= Causes(m)
      BY <2>1, <2>5 DEF Causes, TypeOK
    <3>2. Working(m)' \subseteq Working(m)
      BY <2>1, <2>2, <2>3, <2>5 DEF Goto, Working, TypeOK
    <3>. QED  BY <2>1, <3>1, <3>2, Quiet
  <2>. QED  BY <2>4, <2>5
<1>3. ASSUME NEW t \in Task,
             \/ OpenTmp(t) \/ FillTmp(t) \/ Rename(t) \/ Ack(t) \/ Authorize(t) \/ Refuse(t)
             \/ Acquire(t) \/ RunResumed(t) \/ RunFresh(t) \/ RunFailed(t)
             \/ Save(t) \/ ApologyError(t) \/ Finish(t)
      PROVE  AccountedFor(m)'
  <2>1. up' = up /\ replies' = replies /\ tries' = tries
    BY <1>3 DEF OpenTmp, FillTmp, Rename, Ack, Authorize, Refuse, Acquire, RunResumed,
       RunFresh, RunFailed, Save, ApologyError, Finish
  <2>2. \E l : Goto(t, l) /\ (pc[t] \notin {"idle", "done"} \/ l \in {"idle", "done"})
    BY <1>3 DEF OpenTmp, FillTmp, Rename, Ack, Authorize, Refuse, Acquire, RunResumed,
       RunFresh, RunFailed, Save, ApologyError, Finish, Leave
  <2>3. \E f \in Fault : UNCHANGED spent \/ Spend(f)
    BY <1>3 DEF OpenTmp, FillTmp, Rename, Ack, Authorize, Refuse, Forget, Acquire, RunResumed,
       RunFresh, RunFailed, Save, ApologyError, Finish, Fault
  <2>4. Working(m)' \subseteq Working(m)
    BY <2>2, OthersStay
  <2>5. Causes(m)' >= Causes(m)
    BY <2>1, <2>3, <1>0
  <2>. QED  BY <2>1, <2>4, <2>5, Quiet
<1>4. ASSUME NEW t \in Task, SendOK(t)
      PROVE  AccountedFor(m)'
  <2>1. /\ up' = up /\ tries' = tries /\ UNCHANGED spent
        /\ Goto(t, "done") /\ Deliver(t) /\ pc[t] \in {"quote", "plain"}
    BY <1>4 DEF SendOK
  <2>2. Causes(m)' >= Causes(m)
    BY <2>1 DEF Causes
  <2>3. Working(m)' \subseteq Working(m) \ {t} /\ Working(m)' \subseteq Working(m)
    BY <2>1, OthersStay
  <2>4. CASE t.msg = m
    <3>1. t \in Working(m)
      BY <2>1, <2>4 DEF Working
    <3>. QED  BY <2>1, <2>2, <2>3, <3>1, DeliverAdds, Sends
  <2>5. CASE t.msg # m
    BY <2>1, <2>2, <2>3, <2>5, DeliverAdds, Quiet
  <2>. QED  BY <2>4, <2>5
<1>5. ASSUME NEW t \in Task, QuoteError(t) \/ ReplyError(t)
      PROVE  AccountedFor(m)'
  <2>1. /\ up' = up /\ tries' = tries /\ Spend("send")
        /\ Deliver(t) \/ UNCHANGED <<log, replies>>
        /\ pc[t] \in {"quote", "plain"}
        /\ Goto(t, "plain") \/ Goto(t, "idle")
    BY <1>5 DEF QuoteError, ReplyError, Leave
  <2>2. Causes(m)' >= Causes(m) + 1
    BY <2>1, <1>0 DEF Fault
  <2>3. Working(m)' \subseteq Working(m)
    BY <2>1, OthersStay
  <2>. QED  BY <2>1, <2>2, <2>3, DeliverAdds, Caused
<1>6. CASE Crash
  BY <1>6, CrashAccounts
<1>7. CASE Restart
  BY <1>7, RestartAccounts
<1>8. CASE ChangePolicy \/ UNCHANGED vars
  <2>1. up' = up /\ replies' = replies /\ tries' = tries /\ pc' = pc
        /\ (UNCHANGED spent \/ Spend("policy"))
    BY <1>8 DEF ChangePolicy, vars
  <2>2. Causes(m)' >= Causes(m)
    BY <2>1, <1>0 DEF Fault
  <2>3. Working(m)' \subseteq Working(m)
    BY <2>1 DEF Working
  <2>. QED  BY <2>1, <2>2, <2>3, Quiet
<1>. QED
  BY <1>1, <1>2, <1>3, <1>4, <1>5, <1>6, <1>7, <1>8 DEF Next, Step

\* Nothing has been sent in the beginning and nobody is about to.
LEMMA AccountInit == Init => Accounted
<1>. SUFFICES ASSUME Init, NEW m \in Messages
              PROVE  AccountedFor(m)
  BY DEF Accounted
<1>1. Working(m) = {}
  BY DEF Init, Working
<1>2. IsFiniteSet(Working(m)) /\ Cardinality(Working(m)) = 0
  BY <1>1, FS_EmptySet
<1>. QED  BY <1>2 DEF Init, AccountedFor, Causes, Replays, Fault

\* Whatever webhooks, crashes, replays and failing sends do together, each further
\* copy of a reply has a cause of its own (handleMessage, reply, replayPending).
THEOREM CopiesHaveCauses == Spec => []DuplicatesHaveCauses
<1>1. TypeOK /\ TypeOK' /\ Accounted /\ [Next]_vars => Accounted'
  BY AccountStep DEF Accounted
<1>2. TypeOK /\ Accounted => DuplicatesHaveCauses
  <2>. SUFFICES ASSUME TypeOK, Accounted, NEW m \in Messages
                PROVE  replies[m] <= Causes(m)
    BY DEF DuplicatesHaveCauses, Causes
  <2>1. Cardinality(Working(m)) \in Nat /\ Replays \in Nat
    BY FS_CardinalityType DEF Accounted, AccountedFor, Replays
  <2>. QED  BY <2>1, Counters DEF Accounted, AccountedFor
<1>. QED  BY <1>1, <1>2, AccountInit, TypeCorrect, PTL DEF Spec

-----------------------------------------------------------------------------
(***************************************************************************)
(* Progress.  Which step a fair scheduler takes next is for the liveness   *)
(* run to say; that the steps run out, that nobody waits for nothing and   *)
(* that what rests is settled are safety properties, and proved here.      *)
(***************************************************************************)
\* A webhook's goroutine starts with the delivery it is for, any other with the
\* process.
Starts(t) == ~up \/ (t.no = tries'[t.msg] /\ t.no = tries[t.msg] + 1)

\* A goroutine only moves on, and none starts a second time within one life of
\* the process: work runs out unless gowa posts or the process starts over
\* (ServeHTTP, handleMessage, replayPending).
WorkRunsOut ==
  [][\A t \in Task : pc'[t] # pc[t] =>
       Left(pc'[t]) < Left(pc[t]) \/ (pc[t] = "idle" /\ Starts(t))]_vars

\* A task that waits for its chat's lock gets it at once or waits for a task
\* that works: no way out of handleMessage keeps the lock (chatlock.go).
WaitsForWorker ==
  \A t \in Task : pc[t] = "wait" =>
    LockFree(t) \/ \E u \in Task : Chat(u) = Chat(t) /\ pc[u] \in Critical

\* Whatever happens, the goroutines only move on towards their end; a new one
\* needs a webhook of its own or a new process.
THEOREM BoundedWork == Spec => WorkRunsOut
<1>1. ASSUME TypeOK, Dormant, [Next]_vars, NEW t \in Task, pc'[t] # pc[t]
      PROVE  Left(pc'[t]) < Left(pc[t]) \/ (pc[t] = "idle" /\ Starts(t))
  <2>1. ASSUME NEW u \in Task, Step(u)
        PROVE  Left(pc'[t]) < Left(pc[t])
    BY <1>1, <2>1, StepGoes
  <2>2. ASSUME NEW m \in Messages, Accept(m)
        PROVE  pc[t] = "idle" /\ Starts(t)
    <3>1. PICK h \in HookTask :
            /\ h.msg = m /\ h.no = tries[m] + 1
            /\ pc' = [pc EXCEPT ![h] = "open"]
            /\ tries' = [tries EXCEPT ![m] = tries[m] + 1]
      BY <1>1, <2>2, AcceptBegins
    <3>2. t = h
      BY <1>1, <3>1 DEF TypeOK
    <3>3. tries[m] \in Nat /\ h.no > tries[m] /\ tries'[m] = h.no
      BY <1>1, <3>1 DEF TypeOK
    <3>. QED  BY <1>1, <3>1, <3>2, <3>3 DEF Dormant, Starts
  <2>3. CASE Crash
    <3>1. pc'[t] = "idle" /\ pc[t] \in PC
      BY <1>1, <2>3 DEF Crash, TypeOK
    <3>. QED  BY <1>1, <3>1 DEF PC, Left
  <2>4. CASE Restart
    BY <1>1, <2>4 DEF Restart, Dormant, Starts
  <2>. QED  BY <1>1, <2>1, <2>2, <2>3, <2>4, Begins
<1>2. TypeOK /\ Dormant /\ [Next]_vars =>
        [\A t \in Task : pc'[t] # pc[t] =>
           Left(pc'[t]) < Left(pc[t]) \/ (pc[t] = "idle" /\ Starts(t))]_vars
  BY <1>1
<1>. QED
  BY <1>2, DormantInit, DormantStep, TypeCorrect, PTL DEF Spec, WorkRunsOut

\* A lock that is held is held by a task in its critical part.
LockUsed ==
  \A c \in Chats : locked[c] => \E t \in Task : Chat(t) = c /\ pc[t] \in Critical

\* No step leaves a lock held that nobody works under.
LEMMA LockUsedStep ==
  ASSUME TypeOK, OneRunPerChat, Dormant, LockUsed, [Next]_vars
  PROVE  LockUsed'
<1>. USE DEF Critical
<1>1. ASSUME NEW t \in Task, pc[t] # "idle", \A u \in Task \ {t} : pc'[u] = pc[u],
             pc[t] \in Critical => pc'[t] \in Critical, locked' = locked
      PROVE  LockUsed'
  BY <1>1 DEF LockUsed, Chat
<1>2. ASSUME NEW t \in Task, OpenTmp(t) \/ FillTmp(t) \/ Rename(t) \/ Ack(t) \/ Authorize(t) \/ Refuse(t)
      PROVE  LockUsed'
  <2>1. locked' = locked /\ pc[t] \notin Critical /\ pc[t] # "idle"
    BY <1>2 DEF OpenTmp, FillTmp, Rename, Ack, Authorize, Refuse
  <2>. QED  BY <1>1, <1>2, <2>1, StepGoes DEF Step
<1>3. ASSUME NEW t \in Task, Acquire(t)
      PROVE  LockUsed'
  BY <1>3, TaskFields DEF Acquire, Goto, TypeOK, LockUsed, Chat
<1>4. ASSUME NEW t \in Task, RunResumed(t) \/ RunFresh(t) \/ RunFailed(t) \/ Save(t)
      PROVE  LockUsed'
  <2>1. locked' = locked /\ pc'[t] \in Critical /\ pc[t] # "idle"
    BY <1>4 DEF RunResumed, RunFresh, RunFailed, Save, Goto, FirstSend, TypeOK
  <2>. QED  BY <1>1, <1>4, <2>1, StepGoes DEF Step
<1>5. ASSUME NEW t \in Task, SendOK(t) \/ QuoteError(t) \/ ApologyError(t)
      PROVE  LockUsed'
  <2>1. locked' = locked /\ pc'[t] \in Critical /\ pc[t] # "idle"
    BY <1>5 DEF SendOK, QuoteError, ApologyError, Goto, TypeOK
  <2>. QED  BY <1>1, <1>5, <2>1, StepGoes DEF Step
<1>6. ASSUME NEW t \in Task, ReplyError(t) \/ Finish(t)
      PROVE  LockUsed'
  <2>1. locked' = [locked EXCEPT ![Chat(t)] = FALSE] /\ pc[t] \in Critical
    BY <1>6 DEF ReplyError, Finish, Leave
  <2>2. \A u \in Task \ {t} : pc'[u] = pc[u]
    BY <1>6, StepGoes DEF Step
  <2>. QED  BY <2>1, <2>2, TaskFields DEF TypeOK, LockUsed, Chat
<1>7. ASSUME NEW m \in Messages, Accept(m)
      PROVE  LockUsed'
  <2>1. PICK h \in HookTask : /\ h.msg = m /\ h.no = tries[m] + 1
                              /\ pc' = [pc EXCEPT ![h] = "open"]
    BY <1>7, AcceptBegins
  <2>2. pc[h] = "idle" /\ h \in Task
    BY <2>1 DEF Dormant, Task, TypeOK
  <2>3. locked' = locked
    BY <1>7 DEF Accept
  <2>. QED  BY <2>1, <2>2, <2>3 DEF LockUsed, Chat, TypeOK
<1>8. CASE Crash
  BY <1>8 DEF Crash, LockUsed
<1>9. CASE Restart
  <2>1. \A t \in Task : pc[t] = "idle"
    BY <1>9 DEF Restart, Dormant
  <2>. QED  BY <1>9, <2>1 DEF Restart, LockUsed
<1>10. ASSUME NEW m \in Messages, Ignore(m)
       PROVE  LockUsed'
  BY <1>10 DEF Ignore, LockUsed, Chat
<1>11. CASE ChangePolicy \/ UNCHANGED vars
  BY <1>11 DEF ChangePolicy, vars, LockUsed, Chat
<1>. QED
  BY <1>2, <1>3, <1>4, <1>5, <1>6, <1>7, <1>8, <1>9, <1>10, <1>11 DEF Next, Step

\* A task that waits for its chat's lock can go on, or somebody who has the lock
\* can: every held lock has a task in its critical part, and each of those has a
\* next step (lock, handleMessage's returns).
THEOREM NoLeakedLock == Spec => []WaitsForWorker
<1>1. Init => LockUsed
  BY DEF Init, LockUsed
<1>2. TypeOK /\ LockUsed => WaitsForWorker
  BY TaskFields DEF LockUsed, WaitsForWorker, LockFree
<1>. QED
  BY <1>1, <1>2, LockUsedStep, DormantInit, DormantStep, MutualExclusion, TypeCorrect, PTL
  DEF Spec

-----------------------------------------------------------------------------
(***************************************************************************)
(* What is left when nobody works.                                         *)
(***************************************************************************)
\* A goroutine that ends while the process runs has removed its message's file,
\* or a send or the disk failed in that very step (handleMessage's returns).
EndsClean ==
  [][\A t \in Task :
       up' /\ pc[t] # "idle" /\ pc'[t] = "idle" =>
         \/ json'[t.msg] = "absent"
         \/ \E f \in {"send", "disk"} : spent'[f] > spent[f]]_vars

\* What the three ways to end do to the file and to the faults.
LEMMA EndingFacts ==
  ASSUME TypeOK, NEW t \in Task, Refuse(t) \/ ReplyError(t) \/ Finish(t)
  PROVE  \/ json'[t.msg] = "absent"
         \/ \E f \in {"send", "disk"} : spent'[f] = spent[f] + 1
<1>1. \A f \in {"send", "disk"} : Spend(f) => spent'[f] = spent[f] + 1
  BY DEF Spend, TypeOK, Fault
<1>2. Forget(t.msg) => json'[t.msg] = "absent" \/ Spend("disk")
  BY TaskFields DEF Forget, TypeOK
<1>3. Refuse(t) \/ Finish(t) => Forget(t.msg)
  BY DEF Refuse, Finish
<1>4. ReplyError(t) => Spend("send")
  BY DEF ReplyError
<1>. QED  BY <1>1, <1>2, <1>3, <1>4

\* No goroutine ends and leaves its message queued without a fault of its own.
THEOREM NothingLeftBehind == Spec => EndsClean
<1>1. ASSUME TypeOK, Dormant, [Next]_vars, NEW t \in Task,
             up', pc[t] # "idle", pc'[t] = "idle"
      PROVE  \/ json'[t.msg] = "absent"
             \/ \E f \in {"send", "disk"} : spent'[f] > spent[f]
  <2>1. ~Crash
    BY <1>1 DEF Crash
  <2>2. \A f \in {"send", "disk"} : spent[f] \in Nat
    BY <1>1 DEF TypeOK, Fault
  <2>. QED  BY <1>1, <2>1, <2>2, Endings, EndingFacts
<1>2. TypeOK /\ Dormant /\ [Next]_vars =>
        [\A t \in Task :
           up' /\ pc[t] # "idle" /\ pc'[t] = "idle" =>
             \/ json'[t.msg] = "absent"
             \/ \E f \in {"send", "disk"} : spent'[f] > spent[f]]_vars
  BY <1>1
<1>. QED
  BY <1>2, DormantInit, DormantStep, TypeCorrect, PTL DEF Spec, EndsClean

\* On a message whose readable file nobody works on, and which the bridge is not
\* through with, a send has failed.
Kept ==
  \A m \in Messages :
    up /\ json[m] = "whole" /\ ~Through(m) /\ Unattended(m) => spent["send"] > 0

\* A message nobody works on that has been acknowledged is settled: answered,
\* apologised for or refused, or not recordable, or its send has failed and it
\* rests in its file; or it was written twice at once and a crash or a failing
\* send has lost it.  It is what AckedIsSettled says of a bridge at rest.
RestIsSettled ==
  \A m \in Messages :
    up /\ Unattended(m) /\ "acked" \in log[m] =>
      \/ log[m] \cap Closing # {}
      \/ "unrecorded" \in log[m]
      \/ json[m] = "whole" /\ spent["send"] > 0
      \/ Contended(m) /\ (spent["crash"] > 0 \/ spent["send"] > 0)

\* Only pending.Write makes a file, or a file readable.
LEMMA FileAppears ==
  ASSUME TypeOK, [Next]_vars, NEW m \in Messages,
         json'[m] # "absent", json'[m] # json[m]
  PROVE  \E t \in Task : t.msg = m /\ (Rename(t) \/ FillTmp(t))
<1>1. ASSUME NEW t \in Task, Rename(t)
      PROVE  t.msg = m
  BY <1>1, TaskFields DEF Rename, TypeOK
<1>6. ASSUME NEW t \in Task, FillTmp(t)
      PROVE  t.msg = m
  BY <1>6, FillFacts
<1>2. ASSUME NEW t \in Task, Refuse(t) \/ Finish(t)
      PROVE  FALSE
  BY <1>2, TaskFields DEF Refuse, Finish, Forget, TypeOK
<1>3. ASSUME NEW t \in Task,
             \/ OpenTmp(t) \/ Ack(t) \/ Authorize(t) \/ Acquire(t) \/ RunResumed(t)
             \/ RunFresh(t) \/ RunFailed(t) \/ Save(t) \/ SendOK(t) \/ QuoteError(t)
             \/ ReplyError(t) \/ ApologyError(t)
      PROVE  json' = json
  BY <1>3 DEF OpenTmp, Ack, Authorize, Acquire, RunResumed, RunFresh, RunFailed, Save,
     SendOK, QuoteError, ReplyError, ApologyError
<1>4. ASSUME NEW n \in Messages, Ignore(n) \/ Accept(n)
      PROVE  json' = json
  BY <1>4 DEF Ignore, Accept
<1>5. CASE Crash \/ Restart \/ ChangePolicy \/ UNCHANGED vars
  BY <1>5 DEF Crash, Restart, ChangePolicy, vars
<1>. QED  BY <1>1, <1>2, <1>3, <1>4, <1>5, <1>6 DEF Next, Step

\* A goroutine that writes or renames is not at its end.
LEMMA WriteWorks ==
  ASSUME TypeOK, NEW t \in Task, Rename(t) \/ FillTmp(t)
  PROVE  pc'[t] \in {"rename", "ack"}
BY DEF Rename, FillTmp, Goto, TypeOK

\* Every step leaves a reason for each file that rests.
LEMMA KeptStep ==
  ASSUME TypeOK, TypeOK', Recorded, Dormant, Kept, [Next]_vars
  PROVE  Kept'
<1>. SUFFICES ASSUME NEW m \in Messages, up', json'[m] = "whole", ~Through(m)',
                     Unattended(m)'
              PROVE  spent'["send"] > 0
  BY DEF Kept
<1>0. ~Through(m)
  BY ThroughStays
<1>1. \A f \in Fault : spent[f] \in Nat /\ spent'[f] \in Nat /\ spent'[f] >= spent[f]
  BY FaultsStay
<1>2. json[m] = "whole"
  <2>1. ASSUME NEW t \in Task, t.msg = m, Rename(t) \/ FillTmp(t)
        PROVE  FALSE
    BY <2>1, WriteWorks DEF Unattended
  <2>. QED  BY <2>1, FileAppears
<1>3. ~Restart
  <2>1. SUFFICES ASSUME Restart PROVE FALSE
    OBVIOUS
  <2>. DEFINE r == [msg |-> m, via |-> "json", no |-> 0]
  <2>2. r \in ReplayTask /\ r.msg = m /\ r.via = "json"
    BY DEF ReplayTask
  <2>. HIDE DEF r
  <2>3. r \in Listed /\ r \in Task
    BY <1>2, <2>2 DEF Listed, Task
  <2>4. pc'[r] = "authorize"
    BY <2>1, <2>3 DEF Restart
  <2>. QED  BY <2>2, <2>3, <2>4 DEF Unattended
<1>4. ~Crash
  BY DEF Crash
<1>5. up
  <2>1. ASSUME NEW t \in Task, Step(t)
        PROVE  up
    BY <2>1, StepGoes DEF TypeOK
  <2>2. ASSUME NEW n \in Messages, Accept(n)
        PROVE  up
    BY <2>2 DEF Accept, Post
  <2>. QED  BY <1>3, <1>4, <2>1, <2>2, Begins
<1>6. CASE Unattended(m)
  BY <1>0, <1>1, <1>2, <1>5, <1>6 DEF Kept, Fault
<1>7. CASE ~Unattended(m)
  <2>1. PICK t \in Task : t.msg = m /\ pc[t] # "idle"
    BY <1>7 DEF Unattended
  <2>2. pc'[t] = "idle"
    BY <2>1 DEF Unattended
  <2>3. Refuse(t) \/ ReplyError(t) \/ Finish(t)
    BY <1>4, <2>1, <2>2, Endings
  <2>4. ~Refuse(t)
    <3>1. Refuse(t) => Note(m, "refused")
      BY <2>1 DEF Refuse
    <3>. QED  BY <3>1, NotedIsThrough DEF Event
  <2>5. ~Finish(t)
    BY <1>0, <2>1 DEF Finish, Recorded
  <2>6. Spend("send")
    BY <2>3, <2>4, <2>5 DEF ReplyError
  <2>. QED  BY <1>1, <2>6 DEF Spend, Fault, TypeOK
<1>. QED  BY <1>6, <1>7

\* At rest every acknowledged message is settled, for all messages and faults:
\* together with BoundedWork and NoLeakedLock the safety half of AckedIsSettled.
THEOREM SettledAtRest == Spec => []RestIsSettled
<1>1. Init => Kept /\ Cared
  BY DEF Init, Kept, Cared
<1>2. TypeOK /\ Recorded /\ Kept /\ Cared => RestIsSettled
  <2>. SUFFICES ASSUME TypeOK, Recorded, Kept, Cared, NEW m \in Messages, up, Unattended(m),
                       "acked" \in log[m], ~Through(m)
                PROVE  \/ json[m] = "whole" /\ spent["send"] > 0
                       \/ Contended(m) /\ (spent["crash"] > 0 \/ spent["send"] > 0)
    BY DEF RestIsSettled, Through, Closing
  <2>1. json[m] = "whole" \/ Contended(m)
    BY DEF Recorded, Covered
  <2>2. json[m] = "whole" => spent["send"] > 0
    BY DEF Kept
  <2>3. spent["crash"] \in Nat /\ spent["send"] \in Nat
    BY DEF TypeOK, Fault
  <2>4. spent["crash"] > 0 \/ spent["send"] > 0
    BY <2>3 DEF Cared
  <2>. QED  BY <2>1, <2>2, <2>4
<1>. QED
  BY <1>1, <1>2, KeptStep, CaredStep, DormantInit, DormantStep, RecordedInit, RecordedStep,
     TypeCorrect, TypeStep, PTL DEF Spec

-----------------------------------------------------------------------------
(***************************************************************************)
(* What the two disagreements with pending/store.go need: a send that      *)
(* fails, a crash.                                                         *)
(***************************************************************************)
\* The comment at pending/store.go:7-10 holds as long as no send fails.
ForgottenNeedsSendError == spent["send"] = 0 => ForgottenOnlyAfterReply

\* The comment at pending/store.go:75-77 holds as long as nothing crashes.
LeftoverNeedsCrash == spent["crash"] = 0 => NothingLeftToRecover

Lost == \A m \in Messages : "apologyLost" \in log[m] => spent["send"] > 0

\* An apology gets lost in a failing send only.
LEMMA LostStep ==
  ASSUME TypeOK, Lost, [Next]_vars
  PROVE  Lost'
<1>1. \A f \in Fault : spent[f] \in Nat /\ spent'[f] \in Nat /\ spent'[f] >= spent[f]
  BY FaultsStay
<1>2. CASE spent'["send"] > 0
  BY <1>2 DEF Lost
<1>3. ASSUME NEW m \in Messages, NEW e \in Event \ {"apologyLost"}, Note(m, e)
      PROVE  Lost'
  BY <1>1, <1>3 DEF Lost, Note, TypeOK, Fault
<1>4. CASE log' = log
  BY <1>1, <1>4 DEF Lost, Fault
<1>5. ASSUME NEW t \in Task, Deliver(t)
      PROVE  Lost'
  BY <1>3, <1>5, TaskFields DEF Deliver, Event
<1>6. ASSUME NEW t \in Task, OpenTmp(t) \/ FillTmp(t) \/ Rename(t) \/ Ack(t) \/ Refuse(t)
      PROVE  log' = log \/ \E e \in Event \ {"apologyLost"} : Note(t.msg, e)
  BY <1>6 DEF OpenTmp, FillTmp, Rename, Ack, Refuse, Event
<1>7. ASSUME NEW t \in Task, ApologyError(t)
      PROVE  spent'["send"] > 0
  BY <1>1, <1>7 DEF ApologyError, Spend, Fault, TypeOK
<1>8. ASSUME NEW t \in Task, SendOK(t) \/ QuoteError(t) \/ ReplyError(t)
      PROVE  Deliver(t) \/ log' = log
  BY <1>8 DEF SendOK, QuoteError, ReplyError
<1>9. ASSUME NEW t \in Task,
             \/ Authorize(t) \/ Acquire(t) \/ RunResumed(t) \/ RunFresh(t)
             \/ RunFailed(t) \/ Save(t) \/ Finish(t)
      PROVE  log' = log
  BY <1>9 DEF Authorize, Acquire, RunResumed, RunFresh, RunFailed, Save, Finish
<1>10. ASSUME NEW m \in Messages, Ignore(m) \/ Accept(m)
       PROVE  log' = log
  BY <1>10 DEF Ignore, Accept
<1>11. Crash \/ Restart \/ ChangePolicy \/ UNCHANGED vars => log' = log
  BY DEF Crash, Restart, ChangePolicy, vars
<1>. QED
  BY <1>2, <1>3, <1>4, <1>5, <1>6, <1>7, <1>8, <1>9, <1>10, <1>11, TaskFields
  DEF Next, Step

\* The pending file of m is there, readable or not, or the bridge is through with m.
Held(m) == json[m] # "absent" \/ Through(m)

\* Who is past writing the file has left one, or somebody else has moved it; what
\* was acknowledged has one.
Traced ==
  /\ \A m \in Messages : "acked" \in log[m] => Held(m)
  /\ \A t \in Task : Writing(t) => tmp[t.msg] # "absent" \/ Held(t.msg)
  /\ \A t \in Task : pc[t] = "ack" => Held(t.msg)

\* A pending file is removed by those only who are through with its message.
LEMMA HeldStays ==
  ASSUME TypeOK, Recorded, [Next]_vars, NEW m \in Messages, Held(m)
  PROVE  Held(m)'
<1>1. CASE Through(m)
  BY <1>1, ThroughStays DEF Held
<1>2. ASSUME NEW t \in Task, Refuse(t), t.msg = m
      PROVE  Through(m)'
  <2>1. Note(m, "refused")
    BY <1>2 DEF Refuse
  <2>. QED  BY <2>1, NotedIsThrough DEF Event
<1>3. ASSUME NEW t \in Task, Finish(t), t.msg = m
      PROVE  Through(m)'
  BY <1>3, ThroughStays DEF Finish, Recorded
<1>4. ASSUME NEW t \in Task, Refuse(t) \/ Finish(t), t.msg # m
      PROVE  json'[m] = json[m]
  <2>1. Forget(t.msg)
    BY <1>4 DEF Refuse, Finish
  <2>. QED  BY <1>4, <2>1 DEF Forget, TypeOK
<1>5. ASSUME NEW t \in Task, Rename(t)
      PROVE  json'[m] = json[m] \/ json'[m] # "absent"
  BY <1>5, TaskFields DEF Rename, TypeOK
<1>6. ASSUME NEW t \in Task, FillTmp(t)
      PROVE  json'[m] = json[m] \/ json'[m] # "absent"
  BY <1>6, FillFacts
<1>7. ASSUME NEW t \in Task,
             \/ OpenTmp(t) \/ Ack(t) \/ Authorize(t) \/ Acquire(t) \/ RunResumed(t)
             \/ RunFresh(t) \/ RunFailed(t) \/ Save(t) \/ SendOK(t) \/ QuoteError(t)
             \/ ReplyError(t) \/ ApologyError(t)
      PROVE  json' = json
  BY <1>7 DEF OpenTmp, Ack, Authorize, Acquire, RunResumed, RunFresh, RunFailed, Save,
     SendOK, QuoteError, ReplyError, ApologyError
<1>8. ASSUME NEW n \in Messages, Ignore(n) \/ Accept(n)
      PROVE  json' = json
  BY <1>8 DEF Ignore, Accept
<1>9. Crash \/ Restart \/ ChangePolicy \/ UNCHANGED vars => json' = json
  BY DEF Crash, Restart, ChangePolicy, vars
<1>10. json'[m] = json[m] \/ json'[m] # "absent" \/ Through(m)'
  BY <1>2, <1>3, <1>4, <1>5, <1>6, <1>7, <1>8, <1>9 DEF Next, Step
<1>. QED  BY <1>1, <1>10 DEF Held

\* Every step keeps the traces of what was written.
LEMMA TracedStep ==
  ASSUME TypeOK, Recorded, Dormant, Traced, [Next]_vars
  PROVE  Traced'
<1>0. \A t \in Task : t.msg \in Messages
  BY TaskFields
<1>1. \A m \in Messages : Held(m) => Held(m)'
  BY HeldStays
<1>2. ASSUME NEW m \in Messages, "acked" \in log'[m]
      PROVE  Held(m)'
  <2>1. CASE "acked" \in log[m]
    BY <1>1, <2>1 DEF Traced
  <2>2. CASE "acked" \notin log[m]
    <3>1. PICK t \in Task : t.msg = m /\ Ack(t)
      BY <1>2, <2>2, AckNotes
    <3>. QED  BY <1>1, <3>1 DEF Ack, Traced
  <2>. QED  BY <2>1, <2>2
<1>3. ASSUME NEW t \in Task, Rename(t)
      PROVE  Held(t.msg)' /\ \A m \in Messages \ {t.msg} : tmp'[m] = tmp[m]
  <2>1. pc[t] = "rename" /\ t.msg \in Messages
    BY <1>0, <1>3 DEF Rename
  <2>2. tmp[t.msg] # "absent" /\ json' = [json EXCEPT ![t.msg] = tmp[t.msg]] => Held(t.msg)'
    BY <2>1 DEF Held, TypeOK
  <2>3. tmp[t.msg] = "absent" => Held(t.msg)'
    BY <1>1, <2>1 DEF Traced, Writing
  <2>4. Note(t.msg, "unrecorded") => Held(t.msg)'
    BY <2>1, NotedIsThrough DEF Event, Held
  <2>5. \A m \in Messages \ {t.msg} : tmp'[m] = tmp[m]
    BY <1>3, <2>1 DEF Rename, TypeOK
  <2>. QED  BY <1>3, <2>2, <2>3, <2>4, <2>5 DEF Rename
<1>4. ASSUME NEW t \in Task, OpenTmp(t) \/ FillTmp(t), NEW m \in Messages, tmp[m] # "absent"
      PROVE  tmp'[m] # "absent"
  <2>1. CASE OpenTmp(t)
    BY <1>0, <1>4, <2>1 DEF OpenTmp, TypeOK
  <2>2. CASE FillTmp(t)
    BY <1>4, <2>2, FillFacts
  <2>. QED  BY <1>4, <2>1, <2>2
<1>5. ASSUME NEW t \in Task, Writing(t)'
      PROVE  tmp'[t.msg] # "absent" \/ Held(t.msg)'
  <2>1. CASE Writing(t) /\ Aside
    BY <1>0, <1>1, <2>1 DEF Aside, Traced
  <2>2. CASE ~Writing(t) /\ Aside
    BY <1>5, <2>2 DEF Aside, Writing
  <2>3. ASSUME NEW u \in Task, Rename(u)
        PROVE  tmp'[t.msg] # "absent" \/ Held(t.msg)'
    <3>1. CASE u.msg = t.msg
      BY <1>3, <2>3, <3>1
    <3>2. CASE u.msg # t.msg
      <4>1. pc'[t] = pc[t]
        BY <2>3, <3>2 DEF Rename, Goto, TypeOK
      <4>. QED  BY <1>0, <1>1, <1>3, <1>5, <2>3, <3>2, <4>1 DEF Traced, Writing
    <3>. QED  BY <3>1, <3>2
  <2>4. ASSUME NEW u \in Task, OpenTmp(u) \/ FillTmp(u), Writing(t)
        PROVE  tmp'[t.msg] # "absent" \/ Held(t.msg)'
    BY <1>0, <1>1, <1>4, <2>4 DEF Traced
  <2>5. ASSUME NEW u \in Task, OpenTmp(u) \/ FillTmp(u), ~Writing(t)
        PROVE  tmp'[t.msg] # "absent" \/ Held(t.msg)'
    <3>1. pc[u] \in {"open", "write"} /\ \A w \in Task \ {u} : pc'[w] = pc[w]
      BY <2>5 DEF OpenTmp, FillTmp, Goto, TypeOK
    <3>2. u = t /\ OpenTmp(t)
      BY <1>5, <2>5, <3>1 DEF Writing, FillTmp
    <3>3. tmp' = [tmp EXCEPT ![t.msg] = "empty"] \/ Note(t.msg, "unrecorded")
      BY <3>2 DEF OpenTmp
    <3>4. tmp' = [tmp EXCEPT ![t.msg] = "empty"] => tmp'[t.msg] # "absent"
      BY <1>0 DEF TypeOK
    <3>5. Note(t.msg, "unrecorded") => Held(t.msg)'
      BY <1>0, NotedIsThrough DEF Event, Held
    <3>. QED  BY <3>3, <3>4, <3>5
  <2>6. CASE Crash
    BY <1>5, <2>6 DEF Crash, Writing
  <2>. QED  BY <2>1, <2>2, <2>3, <2>4, <2>5, <2>6, WriteMoves
<1>6. ASSUME NEW t \in Task, pc'[t] = "ack"
      PROVE  Held(t.msg)'
  <2>1. CASE pc[t] = "ack"
    BY <1>0, <1>1, <2>1 DEF Traced
  <2>2. CASE pc[t] # "ack"
    <3>1. OpenTmp(t) \/ FillTmp(t) \/ Rename(t)
      BY <1>6, <2>2, PcMoves DEF Step, TypeOK, Ack, Authorize, Refuse, Acquire, RunResumed,
         RunFresh, RunFailed, Save, SendOK, QuoteError, ReplyError, ApologyError, Finish,
         Leave, Goto, FirstSend
    <3>2. OpenTmp(t) \/ FillTmp(t) => Note(t.msg, "unrecorded")
      BY <1>6 DEF OpenTmp, FillTmp, Goto, TypeOK
    <3>3. Note(t.msg, "unrecorded") => Held(t.msg)'
      BY <1>0, NotedIsThrough DEF Event, Held
    <3>. QED  BY <1>3, <3>1, <3>2, <3>3
  <2>. QED  BY <2>1, <2>2
<1>. QED  BY <1>2, <1>5, <1>6 DEF Traced

\* Without a failing send the pending file of an acknowledged message, readable or
\* not, is removed only after an answer, an apology or a refusal: what the run
\* apology_lost finds has no other cause.
THEOREM DroppedBySendError == Spec => []ForgottenNeedsSendError
<1>1. Init => Lost /\ Traced
  BY DEF Init, Lost, Traced, Writing
<1>2. TypeOK /\ Traced /\ Lost => ForgottenNeedsSendError
  <2>. SUFFICES ASSUME TypeOK, Traced, Lost, spent["send"] = 0, NEW m \in Messages,
                       "acked" \in log[m], json[m] = "absent"
                PROVE  log[m] \cap {"answered", "apologised", "refused", "unrecorded"} # {}
    BY DEF ForgottenNeedsSendError, ForgottenOnlyAfterReply
  <2>1. Through(m)
    BY DEF Traced, Held
  <2>2. "apologyLost" \notin log[m]
    BY DEF Lost, TypeOK, Fault
  <2>. QED  BY <2>1, <2>2 DEF Through
<1>. QED
  BY <1>1, <1>2, LostStep, TracedStep, DormantInit, DormantStep, RecordedInit, RecordedStep,
     TypeCorrect, PTL DEF Spec

\* As long as nothing has failed, a file has a task that will deal with it.
Handled ==
  spent["crash"] = 0 =>
    /\ up
    /\ \A m \in Messages :
         spent["send"] = 0 /\ spent["disk"] = 0 =>
           /\ tmp[m] # "absent" => \E t \in Task : t.msg = m /\ Writing(t)
           /\ json[m] # "absent" => ~Unattended(m)

\* Every step without a fault leaves a task to each file.
LEMMA HandledStep ==
  ASSUME TypeOK, TypeOK', Dormant, Handled, [Next]_vars
  PROVE  Handled'
<1>1. \A f \in Fault : spent[f] \in Nat /\ spent'[f] \in Nat /\ spent'[f] >= spent[f]
  BY FaultsStay
<1>. SUFFICES ASSUME spent'["crash"] = 0
              PROVE  up' /\ \A m \in Messages :
                       spent'["send"] = 0 /\ spent'["disk"] = 0 =>
                         /\ tmp'[m] # "absent" => \E t \in Task : t.msg = m /\ Writing(t)'
                         /\ json'[m] # "absent" => ~Unattended(m)'
  BY DEF Handled
<1>2. spent["crash"] = 0 /\ up
  BY <1>1 DEF Handled, Fault
<1>3. ~Crash /\ ~Restart
  <2>1. Crash => spent'["crash"] = spent["crash"] + 1
    BY DEF Crash, Spend, TypeOK, Fault
  <2>. QED  BY <1>1, <1>2, <2>1 DEF Restart, Fault
<1>4. up'
  <2>1. ASSUME NEW t \in Task, Step(t)
        PROVE  up'
    BY <1>2, <2>1, StepGoes
  <2>2. ASSUME NEW m \in Messages, Accept(m)
        PROVE  up'
    BY <1>2, <2>2 DEF Accept
  <2>. QED  BY <1>2, <1>3, <2>1, <2>2, Begins
<1>. SUFFICES ASSUME NEW m \in Messages, spent'["send"] = 0, spent'["disk"] = 0
              PROVE  /\ tmp'[m] # "absent" => \E t \in Task : t.msg = m /\ Writing(t)'
                     /\ json'[m] # "absent" => ~Unattended(m)'
  BY <1>4
<1>5. spent["send"] = 0 /\ spent["disk"] = 0
  BY <1>1 DEF Fault
<1>6. \A f \in {"send", "disk", "crash"} : ~Spend(f)
  BY <1>1, <1>2, <1>5 DEF Spend, TypeOK, Fault
<1>7. /\ tmp[m] # "absent" => \E t \in Task : t.msg = m /\ Writing(t)
      /\ json[m] # "absent" => ~Unattended(m)
  BY <1>2, <1>5 DEF Handled
<1>8. ASSUME tmp'[m] # "absent"
      PROVE  \E t \in Task : t.msg = m /\ Writing(t)'
  <2>1. ASSUME NEW t \in Task, OpenTmp(t) \/ FillTmp(t), t.msg = m
        PROVE  Writing(t)'
    BY <1>6, <2>1 DEF OpenTmp, FillTmp, Goto, TypeOK, Writing
  <2>2. ASSUME NEW t \in Task, Rename(t), t.msg = m
        PROVE  FALSE
    <3>1. tmp'[m] = "absent"
      BY <1>6, <2>2, TaskFields DEF Rename, TypeOK
    <3>. QED  BY <1>8, <3>1
  <2>3. CASE \E t \in Task : t.msg = m /\ (OpenTmp(t) \/ FillTmp(t) \/ Rename(t))
    BY <2>1, <2>2, <2>3
  <2>4. CASE ~ \E t \in Task : t.msg = m /\ (OpenTmp(t) \/ FillTmp(t) \/ Rename(t))
    <3>1. tmp'[m] = tmp[m]
      <4>1. ASSUME NEW t \in Task, OpenTmp(t) \/ Rename(t)
            PROVE  tmp'[m] = tmp[m]
        BY <2>4, <4>1, TaskFields DEF OpenTmp, Rename, TypeOK
      <4>2. ASSUME NEW t \in Task, FillTmp(t)
            PROVE  tmp'[m] = tmp[m]
        BY <2>4, <4>2, FillFacts
      <4>. QED  BY <1>3, <4>1, <4>2, WriteMoves DEF Aside
    <3>2. PICK t \in Task : t.msg = m /\ Writing(t)
      BY <1>7, <1>8, <3>1
    <3>3. pc'[t] = pc[t]
      <4>1. ~Step(t)
        BY <2>4, <3>2 DEF Writing, Step, OpenTmp, FillTmp, Rename, Ack, Authorize, Refuse,
           Acquire, RunResumed, RunFresh, RunFailed, Save, SendOK, QuoteError, ReplyError,
           ApologyError, Finish
      <4>. QED  BY <1>3, <3>2, <4>1, StaysPut DEF Writing
    <3>. QED  BY <3>2, <3>3 DEF Writing
  <2>. QED  BY <2>3, <2>4
<1>9. ASSUME json'[m] # "absent"
      PROVE  ~Unattended(m)'
  <2>1. ASSUME NEW t \in Task, t.msg = m, Rename(t) \/ FillTmp(t)
        PROVE  ~Unattended(m)'
    BY <2>1, WriteWorks DEF Unattended
  <2>2. ASSUME json[m] # "absent"
        PROVE  ~Unattended(m)'
    <3>1. PICK t \in Task : t.msg = m /\ pc[t] # "idle"
      BY <1>7, <2>2 DEF Unattended
    <3>2. CASE pc'[t] # "idle"
      BY <3>1, <3>2 DEF Unattended
    <3>3. CASE pc'[t] = "idle"
      <4>1. Refuse(t) \/ ReplyError(t) \/ Finish(t)
        BY <1>3, <3>1, <3>3, Endings
      <4>2. \E f \in {"send", "disk"} : spent'[f] = spent[f] + 1
        BY <1>9, <3>1, <4>1, EndingFacts
      <4>. QED  BY <1>5, <4>2
    <3>. QED  BY <3>2, <3>3
  <2>3. CASE json[m] = "absent"
    <3>1. \E t \in Task : t.msg = m /\ (Rename(t) \/ FillTmp(t))
      BY <1>9, <2>3, FileAppears
    <3>. QED  BY <2>1, <3>1
  <2>. QED  BY <2>2, <2>3
<1>. QED  BY <1>8, <1>9

\* Without a crash no answered message is in a file that a start would replay:
\* what the run leftover_tmp finds has no other cause.
THEOREM LeftoverByCrash == Spec => []LeftoverNeedsCrash
<1>1. Init => Handled
  BY DEF Init, Handled
<1>2. TypeOK /\ Handled => LeftoverNeedsCrash
  <2>. SUFFICES ASSUME TypeOK, Handled, spent["crash"] = 0, NEW m \in Messages,
                       Unattended(m), spent["send"] = 0, spent["disk"] = 0,
                       NEW t \in Listed
                PROVE  t.msg # m
    BY DEF LeftoverNeedsCrash, NothingLeftToRecover
  <2>1. json[m] = "absent"
    BY DEF Handled
  <2>2. tmp[m] = "absent"
    BY DEF Handled, Unattended, Writing
  <2>. QED  BY <2>1, <2>2 DEF Listed
<1>. QED
  BY <1>1, <1>2, HandledStep, DormantInit, DormantStep, TypeCorrect, TypeStep, PTL
  DEF Spec
=============================================================================
