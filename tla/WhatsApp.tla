------------------------------- MODULE WhatsApp -------------------------------
(***************************************************************************)
(* The WhatsApp devices that gowa keeps, and the two processes that use    *)
(* them over HTTP.  The bridge's client remembers the device it sends as,  *)
(* resolves it again when gowa refuses it, and serves several goroutines   *)
(* at once.  The admin server pairs, reconnects, unlinks and looks at the  *)
(* status, each request in several calls with nothing held in between.     *)
(* Every call may fail, also after gowa has carried it out.                *)
(*                                                                         *)
(* gowa answers /devices in no meaningful order, and a record may be a     *)
(* leftover that is not logged in.  A call or request that has ended has   *)
(* no local variables: its part of the state is reset.                     *)
(***************************************************************************)
EXTENDS Naturals

CONSTANTS
  Device,     \* bound: the device ids that gowa hands out
  Sender,     \* goroutines of the bridge that send
  Request,    \* bound: requests to the admin server under way at a time
  None        \* no device

ASSUME DeviceAssumption == None \notin Device

VARIABLES
  registered,   \* gowa's device records
  linked,       \* those that are logged in to WhatsApp
  seen,         \* the ids handed out so far
  cached,       \* Client.deviceID of the bridge
  at,           \* at[s]: where s is in Client.post
  id,           \* id[s]: the device it sends as
  toask,        \* toask[s]: listed devices whose status it has not asked for
  pick,         \* pick[s]: the device that refreshDeviceID will return
  tries,        \* tries[s]: how often s has called doPost
  heard,        \* heard[s]: the answer to the last doPost
  stage,        \* stage[r]: the call to gowa that request r makes next, or what
                \* it was answered
  target,       \* target[r]: the device it is about
  \* History:
  delivered,    \* delivered[s]: how often the text of s has arrived in the chat
  refreshed,    \* senders that have resolved the device in this call
  calm          \* senders whose call is under way, none of whose requests to gowa has
                \* failed and during which no device was changed

gowa == <<registered, linked, seen>>
sending == <<at, id, toask, pick, tries, heard, delivered, refreshed>>
asking == <<stage, target>>
vars == <<gowa, cached, sending, asking, calm>>

Over == {"idle", "sent", "failed"}
Place == Over \cup {"list", "ask", "store", "post", "answer"}

\* The call a request is for: LoginQR or LoginCode, Reconnect, Logout, Status.
Aim == {"login", "reconnect", "logout", "look"}
Answer == {"ok", "error", "unlinked", "in", "out", "no device"}
Stage == Answer \cup Aim \cup {"create", "recheck"}

TypeOK ==
  /\ registered \subseteq seen /\ linked \subseteq registered /\ seen \subseteq Device
  /\ cached \in Device \cup {None}
  /\ at \in [Sender -> Place]
  /\ id \in [Sender -> Device \cup {None}]
  /\ toask \in [Sender -> SUBSET Device]
  /\ pick \in [Sender -> Device \cup {None}]
  /\ tries \in [Sender -> 0 .. 2]
  /\ heard \in [Sender -> {"ok", "rejected", "error"}]
  /\ stage \in [Request -> Stage]
  /\ target \in [Request -> Device \cup {None}]
  /\ delivered \in [Sender -> Nat]
  /\ refreshed \subseteq Sender
  /\ calm \subseteq Sender

Init ==
  /\ registered \in SUBSET Device /\ linked \in SUBSET registered
  /\ seen = registered
  /\ cached = None
  /\ at = [s \in Sender |-> "idle"]
  /\ id = [s \in Sender |-> None] /\ pick = id
  /\ toask = [s \in Sender |-> {}]
  /\ tries = [s \in Sender |-> 0] /\ delivered = tries
  /\ heard = [s \in Sender |-> "ok"]
  /\ stage = [r \in Request |-> "ok"]
  /\ target = [r \in Request |-> None]
  /\ refreshed = {} /\ calm = {}

\* s is over, or a request it made has failed.
Ends(s) == calm' = calm \ {s}
-----------------------------------------------------------------------------
(***************************************************************************)
(* Client.post, in the bridge.                                             *)
(***************************************************************************)

Goto(s, place) == at' = [at EXCEPT ![s] = place]

Return(s, place) ==
  /\ Goto(s, place)
  /\ id' = [id EXCEPT ![s] = None]
  /\ heard' = [heard EXCEPT ![s] = "ok"]
  /\ tries' = [tries EXCEPT ![s] = 0]
  /\ delivered' = [delivered EXCEPT ![s] = 0]
  /\ refreshed' = refreshed \ {s}
  /\ Ends(s)

\* deviceIDForSend: the remembered device, else one that has to be looked for.
Call(s) ==
  /\ at[s] \in Over
  /\ Goto(s, IF cached = None THEN "list" ELSE "post")
  /\ id' = [id EXCEPT ![s] = cached]
  /\ calm' = calm \cup {s}
  /\ UNCHANGED <<gowa, cached, toask, pick, tries, heard, delivered, refreshed, asking>>

\* refreshDeviceID, its Devices call: the first of the list is what remains if
\* none is logged in.
List(s) ==
  /\ at[s] = "list"
  /\ \E first \in registered : pick' = [pick EXCEPT ![s] = first]
  /\ toask' = [toask EXCEPT ![s] = registered]
  /\ Goto(s, "ask")
  /\ refreshed' = refreshed \cup {s}
  /\ UNCHANGED <<gowa, cached, id, tries, heard, delivered, asking, calm>>

\* There is no device, or the call fails: none to send as, or to send again as.
ListNone(s) ==
  /\ at[s] = "list"
  /\ registered = {}
  /\ Return(s, "failed")
  /\ UNCHANGED <<gowa, cached, toask, pick, asking>>

ListFails(s) ==
  /\ at[s] = "list"
  /\ s \notin calm
  /\ Return(s, "failed")
  /\ UNCHANGED <<gowa, cached, toask, pick, asking>>

\* The device whose status is asked for next: the first one first.
Asked(s, d) ==
  /\ at[s] = "ask" /\ d \in toask[s]
  /\ pick[s] \in toask[s] => d = pick[s]

Found(s, d) ==
  /\ pick' = [pick EXCEPT ![s] = d]
  /\ Goto(s, "store")
  /\ UNCHANGED toask

PassOver(s, d) ==
  /\ toask' = [toask EXCEPT ![s] = @ \ {d}]
  /\ Goto(s, IF toask[s] = {d} THEN "store" ELSE "ask")
  /\ UNCHANGED pick

\* Mutant: the first record of the list is taken as it is.
TakeFirst(s, d) ==
  /\ Asked(s, d)
  /\ Found(s, d)
  /\ UNCHANGED <<gowa, cached, id, tries, heard, delivered, refreshed, asking, calm>>

\* Its Status calls: the first device that is logged in ends them.
AskStatus(s, d) ==
  /\ Asked(s, d)
  /\ IF d \in linked THEN Found(s, d) ELSE PassOver(s, d)
  /\ UNCHANGED <<gowa, cached, id, tries, heard, delivered, refreshed, asking, calm>>

\* A Status call that fails counts as not logged in.
StatusFails(s, d) ==
  /\ Asked(s, d)
  /\ PassOver(s, d)
  /\ s \notin calm
  /\ UNCHANGED <<gowa, cached, id, tries, heard, delivered, refreshed, asking, calm>>

\* The mutex is taken for this assignment only.  A refresh after a refusal is
\* worth another attempt only if it brings another device.
Store(s) ==
  /\ at[s] = "store"
  /\ cached' = pick[s]
  /\ IF tries[s] = 1 /\ pick[s] = id[s]
     THEN Return(s, "failed")
     ELSE /\ Goto(s, "post")
          /\ id' = [id EXCEPT ![s] = pick[s]]
          /\ UNCHANGED <<tries, heard, delivered, refreshed, calm>>
  /\ pick' = [pick EXCEPT ![s] = None]
  /\ toask' = [toask EXCEPT ![s] = {}]
  /\ UNCHANGED <<gowa, asking>>

Posted(s, result) ==
  /\ heard' = [heard EXCEPT ![s] = result]
  /\ tries' = [tries EXCEPT ![s] = @ + 1]
  /\ Goto(s, "answer")
  /\ UNCHANGED <<gowa, cached, id, toask, pick, refreshed, asking, calm>>

Arrives(s) == delivered' = [delivered EXCEPT ![s] = @ + 1]

\* gowa carries out doPost: it takes the text for a device that is logged in, and
\* if it has lost the connection to WhatsApp the text does not arrive; it refuses
\* a device it does not have with DEVICE_ID_REQUIRED, and fails otherwise.
Post(s) ==
  /\ at[s] = "post"
  /\ \/ id[s] \in linked /\ Posted(s, "ok") /\ (Arrives(s) \/ UNCHANGED delivered)
     \/ id[s] \notin registered /\ Posted(s, "rejected") /\ UNCHANGED delivered
     \/ id[s] \in registered \ linked /\ Posted(s, "error") /\ UNCHANGED delivered

\* doPost fails on the way there, or on the way back, or gowa refuses a device
\* that it has.
PostFails(s) ==
  /\ at[s] = "post"
  /\ s \notin calm
  /\ \/ Posted(s, "error") /\ UNCHANGED delivered
     \/ id[s] \in linked /\ Arrives(s) /\ Posted(s, "error")
     \/ Posted(s, "rejected") /\ UNCHANGED delivered

\* Mutant: a refused second attempt is followed by a third.
EachTime(s) == heard[s] = "rejected"

\* Mutant: any error of the first attempt is followed by a second one.
AnyError(s) == heard[s] # "ok" /\ tries[s] = 1

\* post(): only a refused device id is worth one more attempt.
Retry(s) == heard[s] = "rejected" /\ tries[s] = 1

Hear(s) ==
  /\ at[s] = "answer"
  /\ IF Retry(s)
     THEN Goto(s, "list") /\ UNCHANGED <<id, tries, heard, delivered, refreshed, calm>>
     ELSE Return(s, IF heard[s] = "ok" THEN "sent" ELSE "failed")
  /\ UNCHANGED <<gowa, cached, toask, pick, asking>>

\* The bridge starts over and has forgotten the device.
RestartBridge ==
  /\ cached' = None
  /\ at' = [s \in Sender |-> "idle"]
  /\ id' = [s \in Sender |-> None] /\ pick' = id'
  /\ toask' = [s \in Sender |-> {}]
  /\ tries' = [s \in Sender |-> 0] /\ delivered' = tries'
  /\ heard' = [s \in Sender |-> "ok"]
  /\ refreshed' = {} /\ calm' = {}
  /\ UNCHANGED <<gowa, asking>>
-----------------------------------------------------------------------------
(***************************************************************************)
(* The requests of the admin server.                                       *)
(***************************************************************************)

Step(r, call) == stage' = [stage EXCEPT ![r] = call]

Reply(r, answer) ==
  /\ Step(r, answer)
  /\ target' = [target EXCEPT ![r] = None]

\* existingDevice: the named device if gowa has it, else the first of its list.
\* The page may name one that is gone.
Existing(named, d) == d \in registered /\ (named \in registered => d = named)

\* handleQR, handlePairCode, handleReconnect and handleLogout begin with it;
\* waInfo takes the first device of the list.
Resolve(r) ==
  /\ stage[r] \in Answer
  /\ \E call \in Aim, named \in seen \cup {None}, d \in Device :
       /\ call = "look" => named = None
       /\ Existing(named, d)
       /\ target' = [target EXCEPT ![r] = d]
       /\ Step(r, call)
  /\ UNCHANGED <<gowa, cached, sending, calm>>

NoDevice == registered = {}

\* gowa has no device: deviceForPairing will register one ...
WantDevice(r) ==
  /\ stage[r] \in Answer /\ NoDevice
  /\ Step(r, "create")
  /\ UNCHANGED <<gowa, cached, sending, target, calm>>

\* ... and all others end, as every request does when the list cannot be had.
ReplyNone(r) ==
  /\ stage[r] \in Answer
  /\ \/ NoDevice /\ \E answer \in {"error", "unlinked", "no device"} : Reply(r, answer)
     \/ Reply(r, "error")
  /\ UNCHANGED <<gowa, cached, sending, calm>>

\* AddDevice, with its answer or without.
Create(r) ==
  /\ stage[r] = "create"
  /\ \E d \in Device \ seen :
       /\ registered' = registered \cup {d}
       /\ seen' = seen \cup {d}
       /\ \/ Step(r, "login") /\ target' = [target EXCEPT ![r] = d]
          \/ Reply(r, "error")
  /\ calm' = {}
  /\ UNCHANGED <<linked, cached, sending>>

\* LoginQR or LoginCode, and Reconnect: they succeed only for a device gowa has.
Act(r) ==
  /\ stage[r] \in {"login", "reconnect"}
  /\ Reply(r, IF target[r] \in registered THEN "ok" ELSE "error")
  /\ UNCHANGED <<gowa, cached, sending, calm>>

\* waInfo, its Status call: only that tells whether a device is logged in.
Look(r) ==
  /\ stage[r] = "look"
  /\ Reply(r, IF target[r] \in linked THEN "in" ELSE "out")
  /\ UNCHANGED <<gowa, cached, sending, calm>>

\* gowa's logout removes the record.  It reports an error for a device that was
\* not logged in, as for one it has not; or the answer is lost.
Logout(r) ==
  /\ stage[r] = "logout"
  /\ registered' = registered \ {target[r]}
  /\ linked' = linked \ {target[r]}
  /\ calm' = IF target[r] \in registered THEN {} ELSE calm
  /\ \/ target[r] \in linked /\ Reply(r, "unlinked")
     \/ Step(r, "recheck") /\ UNCHANGED target
  /\ UNCHANGED <<seen, cached, sending>>

\* Mutant: a logout that reports an error is taken for one of a dead session.
TakenForGone(d) == TRUE

\* handleLogout looks again: if the device is gone, the goal was met.
Gone(d) == d \notin registered

Recheck(r) ==
  /\ stage[r] = "recheck"
  /\ Reply(r, IF Gone(target[r]) THEN "unlinked" ELSE "error")
  /\ UNCHANGED <<gowa, cached, sending, calm>>

\* A call does not reach gowa, or its answer is lost and it changed nothing.  A
\* logout that fails is looked into; without a status waInfo leaves LoggedIn at
\* false beside Reachable, which verdict shows as logged out.
Unreachable(r) ==
  /\ \/ stage[r] \notin Answer \cup {"logout", "look"} /\ Reply(r, "error")
     \/ stage[r] = "logout" /\ Step(r, "recheck") /\ UNCHANGED target
     \/ stage[r] = "look" /\ Reply(r, "out")
  /\ UNCHANGED <<gowa, cached, sending, calm>>
-----------------------------------------------------------------------------
\* Somebody scans the QR code, or enters the pair code, of a registered device.
Pair(d) ==
  /\ d \in registered \ linked
  /\ linked' = linked \cup {d}
  /\ calm' = {}
  /\ UNCHANGED <<registered, seen, cached, sending, asking>>

\* A device is unlinked on the phone; gowa keeps its record or drops it.
Unlink(d) ==
  /\ d \in linked
  /\ linked' = linked \ {d}
  /\ registered' \in {registered, registered \ {d}}
  /\ calm' = {}
  /\ UNCHANGED <<seen, cached, sending, asking>>

\* The network goes bad for a sender: its requests to gowa may fail from now on.
Trouble(s) ==
  /\ s \in calm
  /\ Ends(s)
  /\ UNCHANGED <<gowa, cached, sending, asking>>
-----------------------------------------------------------------------------
Next ==
  \/ \E s \in Sender :
       \/ Call(s) \/ List(s) \/ ListNone(s) \/ ListFails(s)
       \/ \E d \in Device : AskStatus(s, d) \/ StatusFails(s, d)
       \/ Store(s) \/ Post(s) \/ PostFails(s) \/ Hear(s)
  \/ RestartBridge
  \/ \E r \in Request :
       \/ Resolve(r) \/ WantDevice(r) \/ ReplyNone(r) \/ Create(r) \/ Act(r)
       \/ Look(r) \/ Logout(r) \/ Recheck(r) \/ Unreachable(r)
  \/ \E d \in Device : Pair(d) \/ Unlink(d)
  \/ \E s \in calm : Trouble(s)

Spec == Init /\ [][Next]_vars
-----------------------------------------------------------------------------
(***************************************************************************)
(* Properties.                                                             *)
(***************************************************************************)

Outcome == [s \in Sender |-> IF at[s] \in Over THEN at[s] ELSE "open"]

Contract == INSTANCE SendOnce WITH call <- Outcome

\* post() brings a text into the chat at most once although it may send twice: the
\* second attempt is made only when the first cannot have arrived, whatever
\* answers were lost and whatever became of the devices in between.
ImplementsSend == Contract!Spec

\* A send during which no request failed and no device was changed is taken by
\* gowa unless no device is logged in, or the bridge remembers a record that gowa still has
\* but that is not logged in: only a refused id makes it look again.
CalmSendSucceeds ==
  [][\A s \in Sender \cap calm :
       at[s] \notin Over /\ at'[s] = "failed" =>
         linked = {} \/ (s \notin refreshed /\ id[s] \in registered \ linked)]_vars

\* handleLogout answers "unlinked" only when gowa has no such device any more,
\* also when gowa reported an error or its answer was lost.
UnlinkedMeansGone ==
  [][\A r \in Request :
       stage[r] \notin Answer /\ stage'[r] = "unlinked" =>
         target[r] \notin registered']_vars
=============================================================================
