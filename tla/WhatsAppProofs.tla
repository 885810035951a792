---------------------------- MODULE WhatsAppProofs ----------------------------
(***************************************************************************)
(* Theorems about WhatsApp, for any numbers of devices, of goroutines that *)
(* send and of requests.                                                   *)
(***************************************************************************)
EXTENDS WhatsApp, TLAPS

\* A text is not sent for a third time: whoever may still send has sent once.
Attempts == \A s \in Sender : at[s] \notin {"answer"} => tries[s] \in {0, 1}

TypeInv == TypeOK /\ Attempts

USE DEF Over, Place, Aim, Answer, Stage

LEMMA TypeInit == Init => TypeInv
BY DEF Init, TypeInv, TypeOK, Attempts

LEMMA CallTypes == ASSUME TypeInv, NEW s \in Sender, Call(s) PROVE TypeInv'
BY DEF TypeInv, TypeOK, Attempts, Call, Goto, gowa, asking

LEMMA ListTypes == ASSUME TypeInv, NEW s \in Sender, List(s) PROVE TypeInv'
BY DEF TypeInv, TypeOK, Attempts, List, Goto, gowa, asking

LEMMA ReturnTypes ==
  ASSUME TypeInv, NEW s \in Sender, NEW place \in Over, Return(s, place),
         toask' \in [Sender -> SUBSET Device], pick' \in [Sender -> Device \cup {None}],
         cached' \in Device \cup {None}, UNCHANGED <<gowa, asking>>
  PROVE  TypeInv'
<1>1. at' \in [Sender -> Place]
  BY DEF TypeInv, TypeOK, Return, Goto
<1>6. tries' \in [Sender -> 0 .. 2]
  <2>1. tries \in [Sender -> 0 .. 2] /\ tries' = [tries EXCEPT ![s] = 0]
    BY DEF TypeInv, TypeOK, Return
  <2> QED BY <2>1
<1>2. id' \in [Sender -> Device \cup {None}]
  BY DEF TypeInv, TypeOK, Return
<1>5. delivered' \in [Sender -> Nat]
  <2>1. delivered \in [Sender -> Nat] /\ delivered' = [delivered EXCEPT ![s] = 0]
    BY DEF TypeInv, TypeOK, Return
  <2> QED BY <2>1
<1>3. heard' \in [Sender -> {"ok", "rejected", "error"}]
  BY DEF TypeInv, TypeOK, Return
<1>4. Attempts'
  BY DEF TypeInv, TypeOK, Attempts, Return, Goto
<1> QED
  BY <1>1, <1>2, <1>3, <1>4, <1>5, <1>6 DEF TypeInv, TypeOK, Return, Ends, gowa, asking

LEMMA AskTypes ==
  ASSUME TypeInv, NEW s \in Sender, NEW d \in Device, AskStatus(s, d) \/ StatusFails(s, d)
  PROVE  TypeInv'
<1>1. /\ at[s] = "ask"
      /\ UNCHANGED <<gowa, cached, id, tries, heard, delivered, refreshed, asking, calm>>
  BY DEF AskStatus, StatusFails, Asked
<1>2. at' \in [Sender -> Place] /\ Attempts'
  BY <1>1 DEF TypeInv, TypeOK, Attempts, AskStatus, StatusFails, Found, PassOver, Goto
<1>3. pick' \in [Sender -> Device \cup {None}] /\ toask' \in [Sender -> SUBSET Device]
  BY DEF TypeInv, TypeOK, AskStatus, StatusFails, Found, PassOver
<1> QED BY <1>1, <1>2, <1>3 DEF TypeInv, TypeOK, gowa, asking

LEMMA StoreTypes == ASSUME TypeInv, NEW s \in Sender, Store(s) PROVE TypeInv'
<1>1. CASE tries[s] = 1 /\ pick[s] = id[s]
  <2>1. /\ toask' \in [Sender -> SUBSET Device] /\ pick' \in [Sender -> Device \cup {None}]
        /\ cached' \in Device \cup {None}
    BY DEF TypeInv, TypeOK, Store
  <2> QED BY <1>1, <2>1, ReturnTypes DEF Store
<1>2. CASE ~(tries[s] = 1 /\ pick[s] = id[s])
  <2>1. at' \in [Sender -> Place] /\ Attempts'
    BY <1>2 DEF TypeInv, TypeOK, Attempts, Store, Goto
  <2>2. toask' \in [Sender -> SUBSET Device]
    BY <1>2 DEF TypeInv, TypeOK, Store
  <2>3. pick[s] \in Device \cup {None} /\ pick' \in [Sender -> Device \cup {None}]
    BY <1>2 DEF TypeInv, TypeOK, Store
  <2>4. id' \in [Sender -> Device \cup {None}] /\ cached' \in Device \cup {None}
    BY <1>2, <2>3 DEF TypeInv, TypeOK, Store
  <2> QED BY <1>2, <2>1, <2>2, <2>3, <2>4 DEF TypeInv, TypeOK, Store, gowa, asking
<1> QED BY <1>1, <1>2

LEMMA PostTypes == ASSUME TypeInv, NEW s \in Sender, Post(s) \/ PostFails(s) PROVE TypeInv'
<1>1. PICK result \in {"ok", "rejected", "error"} :
        /\ at[s] = "post" /\ Posted(s, result)
        /\ Arrives(s) \/ UNCHANGED delivered
  BY DEF Post, PostFails
<1>2. delivered' \in [Sender -> Nat]
  <2>1. delivered \in [Sender -> Nat]
    BY DEF TypeInv, TypeOK
  <2>2. delivered' = delivered \/ delivered' = [delivered EXCEPT ![s] = @ + 1]
    BY <1>1 DEF Arrives
  <2> QED BY <2>1, <2>2
<1>3. tries' \in [Sender -> 0 .. 2]
  <2>1. tries \in [Sender -> 0 .. 2] /\ tries' = [tries EXCEPT ![s] = @ + 1]
    BY <1>1 DEF TypeInv, TypeOK, Posted
  <2>2. tries[s] + 1 \in 0 .. 2
    BY <1>1 DEF TypeInv, Attempts
  <2> QED BY <2>1, <2>2
<1>5. at' \in [Sender -> Place]
  BY <1>1 DEF TypeInv, TypeOK, Posted, Goto
<1>6. heard' \in [Sender -> {"ok", "rejected", "error"}]
  BY <1>1 DEF TypeInv, TypeOK, Posted
<1>4. Attempts'
  BY <1>1 DEF TypeInv, TypeOK, Attempts, Posted, Goto
<1> QED BY <1>1, <1>2, <1>3, <1>4, <1>5, <1>6 DEF TypeInv, TypeOK, Posted, gowa, asking

LEMMA HearTypes == ASSUME TypeInv, NEW s \in Sender, Hear(s) PROVE TypeInv'
<1>1. CASE Retry(s)
  BY <1>1 DEF TypeInv, TypeOK, Attempts, Hear, Retry, Goto, gowa, asking
<1>2. CASE ~Retry(s)
  <2>1. PICK place \in Over : Return(s, place)
    BY <1>2 DEF Hear
  <2>2. /\ toask' \in [Sender -> SUBSET Device] /\ pick' \in [Sender -> Device \cup {None}]
        /\ cached' \in Device \cup {None} /\ UNCHANGED <<gowa, asking>>
    BY DEF TypeInv, TypeOK, Hear
  <2> QED BY <2>1, <2>2, ReturnTypes
<1> QED BY <1>1, <1>2

LEMMA ReturnsTypes ==
  ASSUME TypeInv, NEW s \in Sender, ListNone(s) \/ ListFails(s) PROVE TypeInv'
<1>1. Return(s, "failed") /\ UNCHANGED <<gowa, cached, toask, pick, asking>>
  BY DEF ListNone, ListFails
<1>2. /\ toask' \in [Sender -> SUBSET Device] /\ pick' \in [Sender -> Device \cup {None}]
      /\ cached' \in Device \cup {None}
  BY <1>1 DEF TypeInv, TypeOK
<1> QED BY <1>1, <1>2, ReturnTypes

LEMMA RestartTypes == ASSUME TypeInv, RestartBridge PROVE TypeInv'
<1>1. Attempts' /\ at' \in [Sender -> Place] /\ tries' \in [Sender -> 0 .. 2]
  BY DEF Attempts, RestartBridge
<1>2. delivered' \in [Sender -> Nat]
  BY DEF RestartBridge
<1>3. /\ id' \in [Sender -> Device \cup {None}] /\ pick' \in [Sender -> Device \cup {None}]
      /\ toask' \in [Sender -> SUBSET Device]
  BY DEF RestartBridge
<1>4. heard' \in [Sender -> {"ok", "rejected", "error"}]
  BY DEF RestartBridge
<1>5. cached' \in Device \cup {None} /\ refreshed' \subseteq Sender
  BY DEF RestartBridge
<1> QED
  BY <1>1, <1>2, <1>3, <1>4, <1>5 DEF TypeInv, TypeOK, RestartBridge, gowa, asking

\* What a request may do to the types' parts.
LEMMA RequestTypes ==
  ASSUME TypeInv, NEW r \in Request,
         \/ Resolve(r) \/ WantDevice(r) \/ ReplyNone(r) \/ Create(r) \/ Act(r)
         \/ Look(r) \/ Logout(r) \/ Recheck(r) \/ Unreachable(r)
  PROVE  TypeInv'
<1>1. stage' \in [Request -> Stage]
  <2>1. stage \in [Request -> Stage]
    BY DEF TypeInv, TypeOK
  <2>2. \E next \in Stage : Step(r, next)
    BY DEF Resolve, WantDevice, ReplyNone, Create, Act, Look, Logout, Recheck, Unreachable, Reply
  <2> QED BY <2>1, <2>2 DEF Step
<1>2. target' \in [Request -> Device \cup {None}]
  BY DEF TypeInv, TypeOK, Resolve, WantDevice, ReplyNone, Create, Act, Look, Logout, Recheck,
         Unreachable, Step, Reply
<1>3. calm' \subseteq Sender
  BY DEF TypeInv, TypeOK, Resolve, WantDevice, ReplyNone, Create, Act, Look, Logout, Recheck,
         Unreachable
<1>4. registered' \subseteq seen' /\ linked' \subseteq registered' /\ seen' \subseteq Device
  BY DEF TypeInv, TypeOK, Resolve, WantDevice, ReplyNone, Create, Act, Look, Logout, Recheck,
         Unreachable, gowa
<1>5. UNCHANGED <<cached, sending>>
  BY DEF Resolve, WantDevice, ReplyNone, Create, Act, Look, Logout, Recheck, Unreachable
<1> QED BY <1>1, <1>2, <1>3, <1>4, <1>5 DEF TypeInv, TypeOK, Attempts, sending

LEMMA OutsideTypes ==
  ASSUME TypeInv, (\E d \in Device : Pair(d) \/ Unlink(d)) \/ (\E a \in calm : Trouble(a))
  PROVE  TypeInv'
BY DEF TypeInv, TypeOK, Attempts, Pair, Unlink, Trouble, Ends, gowa, sending, asking

\* Every step keeps the types.
LEMMA TypeStep == ASSUME TypeInv, [Next]_vars PROVE TypeInv'
<1>1. CASE Next
  BY <1>1, CallTypes, ListTypes, ReturnsTypes, AskTypes, StoreTypes, PostTypes, HearTypes,
     RestartTypes, RequestTypes, OutsideTypes DEF Next
<1>2. CASE UNCHANGED vars
  BY <1>2 DEF TypeInv, TypeOK, Attempts, vars, gowa, sending, asking
<1> QED BY <1>1, <1>2

\* The declared types hold in every state; tries stays in 0 .. 2 because
\* Client.post never sends a third time.
THEOREM SendTypes == Spec => []TypeOK
<1>1. Init => TypeInv
  BY TypeInit
<1>2. TypeInv /\ [Next]_vars => TypeInv'
  BY TypeStep
<1>3. TypeInv => TypeOK
  BY DEF TypeInv
<1> QED BY <1>1, <1>2, <1>3, PTL DEF Spec
-----------------------------------------------------------------------------
(***************************************************************************)
(* The contract.  A refusal is heard only of a text that has not arrived,  *)
(* so the second attempt starts where the first did.                       *)
(***************************************************************************)
Arrival ==
  \A s \in Sender :
    /\ at[s] # "answer" => delivered[s] = 0
    /\ delivered[s] \in {0, 1}
    /\ at[s] = "answer" /\ heard[s] = "rejected" => delivered[s] = 0

Stays == UNCHANGED <<Outcome, delivered>>

\* A sender moves on without posting.
LEMMA GoOn ==
  ASSUME TypeInv, Arrival, NEW s \in Sender, NEW place \in Place \ {"answer"},
         at[s] \in Place \ Over, place \notin Over, Goto(s, place),
         at[s] = "answer" => heard[s] = "rejected", UNCHANGED <<heard, delivered>>
  PROVE  Arrival' /\ Stays
<1>1. at \in [Sender -> Place] /\ at' = [at EXCEPT ![s] = place]
  BY DEF TypeInv, TypeOK, Goto
<1>2. Arrival'
  BY <1>1 DEF Arrival
<1>3. Outcome' = Outcome
  BY <1>1 DEF Outcome
<1> QED BY <1>2, <1>3 DEF Stays

\* A sender returns, as sent or as failed.
LEMMA ComeBack ==
  ASSUME TypeInv, Arrival, NEW s \in Sender, NEW place \in Over \ {"idle"},
         at[s] \in Place \ Over, Return(s, place)
  PROVE  Arrival' /\ Contract!Return(s)
<1>1. /\ at \in [Sender -> Place] /\ at' = [at EXCEPT ![s] = place]
  BY DEF TypeInv, TypeOK, Return, Goto
<1>2. delivered \in [Sender -> Nat] /\ delivered' = [delivered EXCEPT ![s] = 0]
  BY DEF TypeInv, TypeOK, Return
<1>3. heard \in [Sender -> {"ok", "rejected", "error"}] /\ heard' = [heard EXCEPT ![s] = "ok"]
  BY DEF TypeInv, TypeOK, Return
<1>4. Arrival'
  BY <1>1, <1>2, <1>3 DEF Arrival
<1>5. Outcome[s] = "open" /\ Outcome' = [Outcome EXCEPT ![s] = place]
  BY <1>1 DEF Outcome
<1> QED BY <1>2, <1>4, <1>5 DEF Contract!Return

LEMMA CallRefines == ASSUME TypeInv, Arrival, NEW s \in Sender, Call(s) PROVE Arrival' /\ Contract!Call(s)
<1>1. PICK place \in {"list", "post"} : at' = [at EXCEPT ![s] = place]
  BY DEF Call, Goto
<1>2. at \in [Sender -> Place] /\ at[s] \in Over /\ UNCHANGED <<heard, delivered>>
  BY DEF TypeInv, TypeOK, Call
<1>3. Arrival'
  BY <1>1, <1>2 DEF Arrival
<1>4. Outcome[s] # "open" /\ Outcome' = [Outcome EXCEPT ![s] = "open"]
  BY <1>1, <1>2 DEF Outcome
<1> QED BY <1>2, <1>3, <1>4 DEF Contract!Call

LEMMA ResolveRefines ==
  ASSUME TypeInv, Arrival, NEW s \in Sender, NEW d \in Device,
         List(s) \/ AskStatus(s, d) \/ StatusFails(s, d)
  PROVE  Arrival' /\ Stays
<1>1. PICK place \in {"ask", "store"} : Goto(s, place)
  BY DEF List, AskStatus, StatusFails, Found, PassOver
<1>2. at[s] \in {"list", "ask"} /\ UNCHANGED <<heard, delivered>>
  BY DEF List, AskStatus, StatusFails, Asked
<1> QED BY <1>1, <1>2, GoOn

LEMMA StoreRefines ==
  ASSUME TypeInv, Arrival, NEW s \in Sender, Store(s)
  PROVE  Arrival' /\ (Stays \/ Contract!Return(s))
<1>1. at[s] = "store"
  BY DEF Store
<1>2. CASE Return(s, "failed")
  BY <1>1, <1>2, ComeBack
<1>3. CASE Goto(s, "post") /\ UNCHANGED <<heard, delivered>>
  BY <1>1, <1>3, GoOn
<1> QED BY <1>2, <1>3 DEF Store

LEMMA HearRefines ==
  ASSUME TypeInv, Arrival, NEW s \in Sender, Hear(s)
  PROVE  Arrival' /\ (Stays \/ Contract!Return(s))
<1>1. at[s] = "answer"
  BY DEF Hear
<1>2. CASE Retry(s)
  BY <1>1, <1>2, GoOn DEF Hear, Retry
<1>3. CASE ~Retry(s) /\ heard[s] = "ok"
  BY <1>1, <1>3, ComeBack DEF Hear
<1>4. CASE ~Retry(s) /\ heard[s] # "ok"
  BY <1>1, <1>4, ComeBack DEF Hear
<1> QED BY <1>2, <1>3, <1>4

LEMMA PostRefines ==
  ASSUME TypeInv, Arrival, NEW s \in Sender, Post(s) \/ PostFails(s)
  PROVE  Arrival' /\ (Stays \/ Contract!Deliver(s))
<1>1. PICK result \in {"ok", "rejected", "error"} :
        /\ at[s] = "post" /\ Posted(s, result)
        /\ \/ result # "rejected" /\ Arrives(s)
           \/ UNCHANGED delivered
  BY DEF Post, PostFails
<1>2. /\ at \in [Sender -> Place] /\ at' = [at EXCEPT ![s] = "answer"]
  BY <1>1 DEF TypeInv, TypeOK, Posted, Goto
<1>3. heard \in [Sender -> {"ok", "rejected", "error"}] /\ heard' = [heard EXCEPT ![s] = result]
  BY <1>1 DEF TypeInv, TypeOK, Posted
<1>4. delivered \in [Sender -> Nat] /\ delivered[s] = 0
  BY <1>1 DEF TypeInv, TypeOK, Arrival
<1>5. Outcome[s] = "open" /\ Outcome' = Outcome
  BY <1>1, <1>2 DEF Outcome
<1>6. CASE result # "rejected" /\ Arrives(s)
  <2>1. delivered' = [delivered EXCEPT ![s] = 1]
    BY <1>4, <1>6 DEF Arrives
  <2>2. Arrival'
    BY <1>2, <1>3, <1>4, <1>6, <2>1 DEF Arrival
  <2> QED BY <1>4, <1>5, <2>1, <2>2 DEF Contract!Deliver
<1>7. CASE UNCHANGED delivered
  <2>1. Arrival'
    BY <1>2, <1>3, <1>4, <1>7 DEF Arrival
  <2> QED BY <1>5, <1>7, <2>1 DEF Stays
<1> QED BY <1>1, <1>6, <1>7

LEMMA RestartRefines == ASSUME RestartBridge PROVE Arrival' /\ Contract!Abandon
<1>1. Arrival'
  BY DEF RestartBridge, Arrival
<1>2. Outcome' = [s \in Sender |-> "idle"]
  BY DEF RestartBridge, Outcome
<1> QED BY <1>1, <1>2 DEF RestartBridge, Contract!Abandon

\* Whoever leaves Client.post alone leaves the contract alone.
LEMMA ElsewhereRefines ==
  ASSUME Arrival, UNCHANGED <<at, heard, delivered>> PROVE Arrival' /\ Stays
BY DEF Arrival, Stays, Outcome

\* Every step of the system is one of the contract, or leaves it alone.
LEMMA ContractStep ==
  ASSUME TypeInv, Arrival, [Next]_vars PROVE Arrival' /\ [Contract!Next]_(Contract!vars)
<1>1. Stays => [Contract!Next]_(Contract!vars)
  BY DEF Stays, Contract!vars
<1>2. ASSUME NEW s \in Sender, ListNone(s) \/ ListFails(s)
      PROVE  Arrival' /\ Contract!Return(s)
  BY <1>2, ComeBack DEF ListNone, ListFails
<1>3. ASSUME \/ \E r \in Request :
                  \/ Resolve(r) \/ WantDevice(r) \/ ReplyNone(r) \/ Create(r) \/ Act(r)
                  \/ Look(r) \/ Logout(r) \/ Recheck(r) \/ Unreachable(r)
             \/ \E d \in Device : Pair(d) \/ Unlink(d)
             \/ \E a \in calm : Trouble(a)
             \/ UNCHANGED vars
      PROVE  Arrival' /\ Stays
  <2>1. UNCHANGED <<at, heard, delivered>>
    BY <1>3 DEF Resolve, WantDevice, ReplyNone, Create, Act, Look, Logout, Recheck, Unreachable,
                Pair, Unlink, Trouble, vars, sending
  <2> QED BY <2>1, ElsewhereRefines
<1>4. CASE RestartBridge
  BY <1>4, RestartRefines DEF Contract!Next
<1>5. ASSUME NEW s \in Sender,
             \/ Call(s) \/ List(s) \/ ListNone(s) \/ ListFails(s)
             \/ \E d \in Device : AskStatus(s, d) \/ StatusFails(s, d)
             \/ Store(s) \/ Post(s) \/ PostFails(s) \/ Hear(s)
      PROVE  Arrival' /\ [Contract!Next]_(Contract!vars)
  <2>1. Arrival' /\ (Stays \/ Contract!Call(s) \/ Contract!Deliver(s) \/ Contract!Return(s))
    <3>1. CASE Call(s)
      BY <3>1, CallRefines
    <3>2. CASE List(s) \/ \E d \in Device : AskStatus(s, d) \/ StatusFails(s, d)
      <4>1. \E d \in Device : List(s) \/ AskStatus(s, d) \/ StatusFails(s, d)
        BY <3>2 DEF List, TypeInv, TypeOK
      <4> QED BY <4>1, ResolveRefines
    <3>3. CASE Store(s) \/ Hear(s) \/ Post(s) \/ PostFails(s)
      BY <3>3, StoreRefines, HearRefines, PostRefines
    <3> QED BY <1>2, <1>5, <3>1, <3>2, <3>3
  <2> QED BY <1>1, <2>1 DEF Contract!Next
<1> QED BY <1>1, <1>3, <1>4, <1>5 DEF Next

\* Client.post keeps the contract of SendOnce, for any number of senders, requests
\* and devices: a text arrives at most once per call, whatever the call reports.
THEOREM SendIsOnce == Spec => ImplementsSend
<1>1. Init => TypeInv /\ Arrival /\ Contract!Init
  <2>1. Init => Arrival
    BY DEF Init, Arrival
  <2>2. Init => Contract!Init
    BY DEF Init, Contract!Init, Outcome
  <2> QED BY <2>1, <2>2, TypeInit
<1>2. TypeInv /\ Arrival /\ [Next]_vars => (TypeInv /\ Arrival)' /\ [Contract!Next]_(Contract!vars)
  BY TypeStep, ContractStep
<1> QED BY <1>1, <1>2, PTL DEF Spec, ImplementsSend, Contract!Spec
-----------------------------------------------------------------------------
\* "Unlinked" is answered only of a device that gowa has no more.
THEOREM UnlinkedIsGone == Spec => UnlinkedMeansGone
<1> DEFINE GoneNow(r) ==
      stage[r] \notin Answer /\ stage'[r] = "unlinked" => target[r] \notin registered'
<1>1. ASSUME TypeInv, Next, NEW r \in Request, stage[r] \notin Answer, stage'[r] = "unlinked"
      PROVE  target[r] \notin registered'
  <2>1. stage \in [Request -> Stage]
    BY <1>1 DEF TypeInv, TypeOK
  <2>2. ASSUME NEW o \in Request,
               \/ Resolve(o) \/ WantDevice(o) \/ ReplyNone(o) \/ Create(o) \/ Act(o)
               \/ Look(o) \/ Logout(o) \/ Recheck(o) \/ Unreachable(o)
        PROVE  target[r] \notin registered'
    <3>1. \E next \in Stage : stage' = [stage EXCEPT ![o] = next]
      BY <2>2 DEF Resolve, WantDevice, ReplyNone, Create, Act, Look, Logout, Recheck, Unreachable,
                  Step, Reply
    <3>2. o = r
      BY <3>1, <2>1, <1>1
    <3>3. Logout(r) \/ Recheck(r)
      BY <2>2, <3>2, <2>1, <1>1 DEF Resolve, WantDevice, ReplyNone, Create, Act, Look, Unreachable,
                                    Step, Reply, Existing
    <3>4. CASE Logout(r)
      BY <3>4 DEF Logout
    <3>5. CASE Recheck(r)
      <4>1. stage' = [stage EXCEPT ![r] = IF Gone(target[r]) THEN "unlinked" ELSE "error"]
        BY <3>5 DEF Recheck, Reply, Step
      <4> QED BY <4>1, <3>5, <2>1, <1>1 DEF Recheck, Gone, gowa
    <3> QED BY <3>3, <3>4, <3>5
  <2>3. stage' # stage
    BY <1>1
  <2> QED
    BY <2>2, <2>3, <1>1 DEF Next, Call, List, ListNone, ListFails, AskStatus, StatusFails, Store, Post,
       PostFails, Posted, Hear, RestartBridge, Pair, Unlink, Trouble, asking
<1>2. TypeInv /\ [Next]_vars => [\A r \in Request : GoneNow(r)]_vars
  BY <1>1
<1> QED BY <1>2, TypeInit, TypeStep, PTL DEF Spec, UnlinkedMeansGone
-----------------------------------------------------------------------------
(***************************************************************************)
(* A calm send.  What it has learned of the devices still holds, so that a *)
(* device found by asking everyone is the one that is logged in, and a     *)
(* refused device is not the one that a refresh brings.                    *)
(***************************************************************************)
Fit(d) == linked = {} \/ d \in linked

Knows(s) ==
  /\ at[s] \in {"list", "ask", "store"} /\ tries[s] = 1 => id[s] \notin registered
  /\ at[s] = "ask" =>
       /\ s \in refreshed /\ pick[s] \in registered
       /\ toask[s] \subseteq registered /\ linked \subseteq toask[s]
  /\ at[s] = "store" => s \in refreshed /\ pick[s] \in registered /\ Fit(pick[s])
  /\ at[s] = "post" =>
       /\ s \in refreshed => Fit(id[s])
       /\ tries[s] = 1 => s \in refreshed
  /\ at[s] = "answer" =>
       /\ s \in refreshed => Fit(id[s])
       /\ tries[s] # 0
       /\ tries[s] = 2 => s \in refreshed
       /\ heard[s] = "rejected" => id[s] \notin registered
       /\ heard[s] = "error" => id[s] \in registered \ linked

\* Nothing is left of the calls before.
Fresh == \A s \in Sender : at[s] \in Over => tries[s] = 0 /\ s \notin refreshed

Informed == Fresh /\ \A s \in Sender \cap calm : Knows(s)

\* s has not moved, and the devices are the same.
LEMMA StillKnows ==
  ASSUME NEW s, Knows(s), UNCHANGED <<registered, linked>>,
         at'[s] = at[s], id'[s] = id[s], toask'[s] = toask[s], pick'[s] = pick[s],
         tries'[s] = tries[s], heard'[s] = heard[s], s \in refreshed' <=> s \in refreshed
  PROVE  Knows(s)'
BY DEF Knows, Fit

\* A step of Client.post for s.
SendStep(s) ==
  \/ Call(s) \/ List(s) \/ ListNone(s) \/ ListFails(s)
  \/ \E d \in Device : AskStatus(s, d) \/ StatusFails(s, d)
  \/ Store(s) \/ Post(s) \/ PostFails(s) \/ Hear(s)

\* One sender moves: the others have not moved.
LEMMA OthersStill ==
  ASSUME TypeInv, NEW s \in Sender, SendStep(s), NEW o \in Sender \ {s}
  PROVE  /\ at'[o] = at[o] /\ id'[o] = id[o] /\ toask'[o] = toask[o] /\ pick'[o] = pick[o]
         /\ tries'[o] = tries[o] /\ heard'[o] = heard[o] /\ (o \in refreshed' <=> o \in refreshed)
         /\ UNCHANGED <<registered, linked>> /\ calm' \subseteq calm \cup {s}
<1>1. at'[o] = at[o]
  <2>1. \E place \in Place : Goto(s, place)
    BY DEF SendStep, Call, List, ListNone, ListFails, AskStatus, StatusFails, Found, PassOver,
           Store, Post, PostFails, Posted, Hear, Return
  <2> QED BY <2>1 DEF TypeInv, TypeOK, Goto
<1>5. id'[o] = id[o]
  BY DEF TypeInv, TypeOK, SendStep, Call, List, ListNone, ListFails, AskStatus, StatusFails,
         Store, Post, PostFails, Posted, Hear, Return
<1>2. toask'[o] = toask[o] /\ pick'[o] = pick[o]
  BY DEF TypeInv, TypeOK, SendStep, Call, List, ListNone, ListFails, AskStatus, StatusFails, Found,
         PassOver, Store, Post, PostFails, Posted, Hear
<1>3. tries'[o] = tries[o] /\ heard'[o] = heard[o]
  BY DEF TypeInv, TypeOK, SendStep, Call, List, ListNone, ListFails, AskStatus, StatusFails,
         Store, Post, PostFails, Posted, Hear, Return
<1>4. /\ o \in refreshed' <=> o \in refreshed
      /\ UNCHANGED <<registered, linked>> /\ calm' \subseteq calm \cup {s}
  BY DEF SendStep, Call, List, ListNone, ListFails, AskStatus, StatusFails, Store, Post, PostFails,
         Posted, Hear, Return, Ends, gowa
<1> QED BY <1>1, <1>2, <1>3, <1>4, <1>5

Own(s) ==
  /\ at[s] \in Over => tries[s] = 0 /\ s \notin refreshed
  /\ s \in calm => Knows(s)

\* A sender that returns knows nothing and needs to know nothing.
LEMMA OwnReturn ==
  ASSUME TypeInv, NEW s \in Sender, NEW place \in Over, Return(s, place) PROVE Own(s)'
<1>1. at \in [Sender -> Place] /\ at' = [at EXCEPT ![s] = place]
  BY DEF TypeInv, TypeOK, Return, Goto
<1>2. tries \in [Sender -> 0 .. 2] /\ tries' = [tries EXCEPT ![s] = 0]
  BY DEF TypeInv, TypeOK, Return
<1>3. s \notin refreshed' /\ s \notin calm'
  BY DEF Return, Ends
<1> QED BY <1>1, <1>2, <1>3 DEF Own

LEMMA OwnCall == ASSUME TypeInv, NEW s \in Sender, Own(s), Call(s) PROVE Own(s)'
<1>1. PICK place \in {"list", "post"} : at' = [at EXCEPT ![s] = place]
  BY DEF Call, Goto
<1>2. at \in [Sender -> Place]
  BY DEF TypeInv, TypeOK
<1>3. tries[s] = 0 /\ s \notin refreshed /\ UNCHANGED <<tries, refreshed>>
  BY DEF Own, Call
<1> QED BY <1>1, <1>2, <1>3 DEF Own, Knows

LEMMA OwnList == ASSUME TypeInv, NEW s \in Sender, Own(s), List(s) PROVE Own(s)'
<1>1. PICK first \in registered : pick' = [pick EXCEPT ![s] = first]
  BY DEF List
<1>2. /\ at[s] = "list" /\ at' = [at EXCEPT ![s] = "ask"] /\ at \in [Sender -> Place]
      /\ s \in refreshed'
  BY DEF TypeInv, TypeOK, List, Goto
<1>3. /\ toask' = [toask EXCEPT ![s] = registered] /\ toask \in [Sender -> SUBSET Device]
      /\ pick \in [Sender -> Device \cup {None}] /\ linked \subseteq registered
      /\ UNCHANGED <<registered, linked, id, tries, calm>>
  BY DEF TypeInv, TypeOK, List, gowa
<1> QED BY <1>1, <1>2, <1>3 DEF Own, Knows

LEMMA OwnAsk ==
  ASSUME TypeInv, NEW s \in Sender, Own(s), NEW d \in Device, AskStatus(s, d) \/ StatusFails(s, d)
  PROVE  Own(s)'
<1>1. /\ at[s] = "ask" /\ d \in toask[s] /\ (pick[s] \in toask[s] => d = pick[s])
      /\ UNCHANGED <<registered, linked, id, tries, refreshed, calm>>
  BY DEF AskStatus, StatusFails, Asked, gowa
<1>2. at \in [Sender -> Place] /\ toask \in [Sender -> SUBSET Device] /\ pick \in [Sender -> Device \cup {None}]
  BY DEF TypeInv, TypeOK
<1>3. CASE s \notin calm
  BY <1>1, <1>2, <1>3 DEF Own, AskStatus, StatusFails, Found, PassOver, Goto
<1>4. CASE s \in calm /\ d \in linked
  <2>1. at' = [at EXCEPT ![s] = "store"] /\ pick' = [pick EXCEPT ![s] = d]
    BY <1>4 DEF AskStatus, StatusFails, Found, Goto
  <2> QED BY <1>1, <1>2, <1>4, <2>1 DEF Own, Knows, Fit
<1>5. CASE s \in calm /\ d \notin linked
  <2>1. /\ toask' = [toask EXCEPT ![s] = @ \ {d}] /\ UNCHANGED pick
        /\ at' = [at EXCEPT ![s] = IF toask[s] = {d} THEN "store" ELSE "ask"]
    BY <1>5 DEF AskStatus, StatusFails, PassOver, Goto
  <2>2. CASE toask[s] = {d}
    BY <1>1, <1>2, <1>5, <2>1, <2>2 DEF Own, Knows, Fit
  <2>3. CASE toask[s] # {d}
    BY <1>1, <1>2, <1>5, <2>1, <2>3 DEF Own, Knows
  <2> QED BY <2>2, <2>3
<1> QED BY <1>3, <1>4, <1>5

LEMMA OwnStore == ASSUME TypeInv, NEW s \in Sender, Own(s), Store(s) PROVE Own(s)'
<1>1. CASE tries[s] = 1 /\ pick[s] = id[s]
  BY <1>1, OwnReturn DEF Store
<1>2. CASE ~(tries[s] = 1 /\ pick[s] = id[s])
  <2>1. /\ at[s] = "store" /\ at' = [at EXCEPT ![s] = "post"] /\ id' = [id EXCEPT ![s] = pick[s]]
        /\ UNCHANGED <<registered, linked, tries, refreshed, calm>>
    BY <1>2 DEF Store, Goto, gowa
  <2>2. at \in [Sender -> Place] /\ id \in [Sender -> Device \cup {None}]
    BY DEF TypeInv, TypeOK
  <2> QED BY <2>1, <2>2 DEF Own, Knows, Fit
<1> QED BY <1>1, <1>2

LEMMA OwnPost == ASSUME TypeInv, NEW s \in Sender, Own(s), Post(s) \/ PostFails(s) PROVE Own(s)'
<1>1. PICK result \in {"ok", "rejected", "error"} :
        /\ at[s] = "post" /\ Posted(s, result)
        /\ s \in calm => /\ result = "rejected" => id[s] \notin registered
                         /\ result = "error" => id[s] \in registered \ linked
  BY DEF Post, PostFails
<1>2. /\ at' = [at EXCEPT ![s] = "answer"] /\ heard' = [heard EXCEPT ![s] = result]
      /\ UNCHANGED <<registered, linked, id, refreshed, calm>>
  BY <1>1 DEF Posted, Goto, gowa
<1>3. at \in [Sender -> Place] /\ heard \in [Sender -> {"ok", "rejected", "error"}]
  BY DEF TypeInv, TypeOK
<1>4. tries'[s] # 0 /\ (tries'[s] = 2 => tries[s] = 1)
  <2>1. tries \in [Sender -> 0 .. 2] /\ tries' = [tries EXCEPT ![s] = @ + 1]
    BY <1>1 DEF TypeInv, TypeOK, Posted
  <2> QED BY <2>1
<1> QED BY <1>1, <1>2, <1>3, <1>4 DEF Own, Knows, Fit

LEMMA OwnHear == ASSUME TypeInv, NEW s \in Sender, Own(s), Hear(s) PROVE Own(s)'
<1>1. CASE Retry(s)
  <2>1. /\ at[s] = "answer" /\ at' = [at EXCEPT ![s] = "list"] /\ heard[s] = "rejected"
        /\ UNCHANGED <<registered, linked, id, tries, refreshed, calm>>
    BY <1>1 DEF Hear, Retry, Goto, gowa
  <2>2. at \in [Sender -> Place]
    BY DEF TypeInv, TypeOK
  <2> QED BY <2>1, <2>2 DEF Own, Knows
<1>2. CASE ~Retry(s)
  BY <1>2, OwnReturn DEF Hear
<1> QED BY <1>1, <1>2

\* Every step leaves undisturbed senders informed.
LEMMA InformedStep == ASSUME TypeInv, Informed, [Next]_vars PROVE Informed'
<1>1. ASSUME NEW s \in Sender, SendStep(s) PROVE Informed'
  <2>1. Own(s)
    BY DEF Informed, Fresh, Own
  <2>2. Own(s)'
    BY <2>1, <1>1, OwnCall, OwnList, OwnAsk, OwnStore, OwnPost, OwnHear, OwnReturn
       DEF SendStep, ListNone, ListFails
  <2>3. \A o \in Sender \ {s} : Own(o)'
    <3> TAKE o \in Sender \ {s}
    <3>1. Own(o)
      BY DEF Informed, Fresh, Own
    <3>2. o \in calm' => o \in calm
      BY <1>1, OthersStill
    <3>3. o \in calm => Knows(o)'
      BY <3>1, <1>1, OthersStill, StillKnows DEF Own
    <3> QED BY <3>1, <3>2, <3>3, <1>1, OthersStill DEF Own
  <2> QED BY <2>2, <2>3 DEF Informed, Fresh, Own
<1>2. ASSUME UNCHANGED sending,
             \/ calm' \subseteq calm /\ UNCHANGED <<registered, linked>>
             \/ calm' = {}
      PROVE  Informed'
  BY <1>2, StillKnows DEF Informed, Fresh, sending
<1>3. ASSUME NEW r \in Request,
             \/ Resolve(r) \/ WantDevice(r) \/ ReplyNone(r) \/ Create(r) \/ Act(r)
             \/ Look(r) \/ Logout(r) \/ Recheck(r) \/ Unreachable(r)
      PROVE  Informed'
  <2>1. UNCHANGED sending
    BY <1>3 DEF Resolve, WantDevice, ReplyNone, Create, Act, Look, Logout, Recheck, Unreachable
  <2>2. \/ calm' \subseteq calm /\ UNCHANGED <<registered, linked>>
        \/ calm' = {}
    BY <1>3 DEF TypeInv, TypeOK, Resolve, WantDevice, ReplyNone, Create, Act, Look, Logout, Recheck,
                Unreachable, gowa
  <2> QED BY <2>1, <2>2, <1>2
<1>4. CASE RestartBridge
  BY <1>4 DEF RestartBridge, Informed, Fresh, TypeInv, TypeOK
<1>5. CASE (\E d \in Device : Pair(d) \/ Unlink(d)) \/ (\E a \in calm : Trouble(a)) \/ UNCHANGED vars
  BY <1>5, <1>2 DEF Pair, Unlink, Trouble, Ends, vars, gowa
<1> QED BY <1>1, <1>3, <1>4, <1>5 DEF Next, SendStep

\* A send during which nothing failed and no device changed is taken by gowa unless
\* no device is logged in or the bridge remembers a leftover record.
THEOREM CalmSucceeds == Spec => CalmSendSucceeds
<1> DEFINE FailsRightly(s) ==
      at[s] \notin Over /\ at'[s] = "failed" =>
        linked = {} \/ (s \notin refreshed /\ id[s] \in registered \ linked)
<1>1. Init => TypeInv /\ Informed
  BY TypeInit DEF Init, Informed, Fresh
<1>2. TypeInv /\ Informed /\ [Next]_vars => (TypeInv /\ Informed)'
  BY TypeStep, InformedStep
<1>3. ASSUME TypeInv, Informed, Next, NEW s \in Sender \cap calm, at[s] \notin Over, at'[s] = "failed"
      PROVE  linked = {} \/ (s \notin refreshed /\ id[s] \in registered \ linked)
  <2>1. Knows(s) /\ at \in [Sender -> Place] /\ linked \subseteq registered
    BY <1>3 DEF Informed, TypeInv, TypeOK
  <2>2. SendStep(s)
    <3>1. ASSUME NEW o \in Sender, SendStep(o) PROVE o = s
      BY <3>1, <1>3, OthersStill
    <3>2. at' # at /\ ~RestartBridge
      BY <1>3 DEF RestartBridge
    <3> QED
      BY <3>1, <3>2, <1>3 DEF Next, SendStep, Resolve, WantDevice, ReplyNone, Create, Act, Look, Logout,
         Recheck, Unreachable, Pair, Unlink, Trouble, sending
  <2>3. \/ ListNone(s)
        \/ Store(s) /\ tries[s] = 1 /\ pick[s] = id[s]
        \/ Hear(s) /\ ~Retry(s) /\ heard[s] # "ok"
    BY <2>1, <2>2, <1>3 DEF SendStep, Call, List, ListFails, AskStatus, StatusFails, Asked, Found,
       PassOver, Store, Post, PostFails, Posted, Hear, Return, Goto
  <2>4. CASE ListNone(s)
    BY <2>1, <2>4 DEF ListNone
  <2>5. CASE Store(s) /\ tries[s] = 1 /\ pick[s] = id[s]
    BY <2>1, <2>5 DEF Store, Knows
  <2>6. CASE Hear(s) /\ ~Retry(s) /\ heard[s] # "ok"
    <3>1. tries[s] \in 0 .. 2
      BY <1>3 DEF TypeInv, TypeOK
    <3>2. at[s] = "answer" /\ heard[s] \in {"rejected", "error"}
      BY <2>6, <1>3 DEF Hear, TypeInv, TypeOK
    <3> QED BY <3>1, <3>2, <2>1, <2>6 DEF Knows, Fit, Retry
  <2> QED BY <2>3, <2>4, <2>5, <2>6
<1>4. TypeInv /\ Informed /\ [Next]_vars => [\A s \in Sender \cap calm : FailsRightly(s)]_vars
  BY <1>3
<1> QED BY <1>1, <1>2, <1>4, PTL DEF Spec, CalmSendSucceeds
=============================================================================
