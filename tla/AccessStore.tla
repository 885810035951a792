------------------------------ MODULE AccessStore ------------------------------
(***************************************************************************)
(* The access file and its two readers.  The admin process changes it on   *)
(* request (read, modify, write, without a lock around the three); the     *)
(* operator may edit, damage or remove it by hand; the bridge re-reads it  *)
(* for every message.  Each process keeps a cached copy behind a mutex     *)
(* which it holds from the stat of the file to the end of the read, but a  *)
(* mutex of one process keeps out neither the other process nor a rename.  *)
(***************************************************************************)
EXTENDS AccessPolicy

CONSTANTS
  Saver,      \* requests to the admin process
  Message,    \* webhooks the bridge is handling
  Requests,   \* what a save may ask for
  HandEdits,  \* what the operator may write into the file
  Incomings,  \* the messages that may come in
  BotPhone,   \* digits of the bot's own number
  BotLID,     \* its LID, as gowa lists it
  MaxChange   \* bound: changes of the file

(* What Normalize makes: a Store holds nothing else. *)
Canonical ==
  LET number == [digits : Digits, form : {"plain"}] \cup {Blank}
      member == [phone : number \ {Blank}, lid : [user : Digits \cup {""},
                                                 server : {""}]]
  IN  [mode : {"personal", "team", "none"}, number : number,
       group : {NoJID} \cup [user : Digits \cup Group, server : {"group"}],
       members : UNION {[S -> member] : S \in SUBSET Slot}]

Process == {"admin", "bridge"}
Task == Saver \cup Message
Home(t) == IF t \in Saver THEN "admin" ELSE "bridge"

Request == [mode : {"personal", "team", "none"}, sets : SUBSET {"number", "team"},
            number : Written, group : JID, members : Roster]

NoRequest == [mode |-> "none", sets |-> {}, number |-> Blank, group |-> NoJID,
              members |-> NoMembers]
NoMessage == [chat |-> NoJID, from |-> NoJID, fromLID |-> NoJID,
              mentions |-> {}, words |-> "no", media |-> "no"]

ASSUME TaskAssumption == Saver \cap Message = {}
ASSUME InputAssumption ==
  /\ "" \notin Digits \cup Group
  /\ Slot \subseteq Nat
  /\ AllowedSenders \in UNION {[S -> Written] : S \in SUBSET Slot}
  /\ Requests \subseteq Request
  /\ HandEdits \subseteq Config
  /\ Incomings \subseteq Incoming
  /\ BotPhone \in Digits \cup {""} /\ BotLID \in Digits \cup {""}
ASSUME BoundAssumption == MaxChange \in Nat

VARIABLES
  file,     \* the access file; "at" is its modification time
  store,    \* each process's Store
  pc,       \* where each task is
  req,      \* what a save asks for
  base,     \* the policy the task took from its Store
  sawAt,    \* history: modification time of the file a save started from
  inc,      \* the message a webhook carries
  seen,     \* history: the policies in force since the webhook came in
  verdict   \* what the bridge decided

vars == <<file, store, pc, req, base, sawAt, inc, seen, verdict>>

File == [state : {"absent", "broken", "config"}, cfg : Config, at : Nat,
         by : {"save", "hand"}]
Store == [init : {"yes", "no"}, src : {"file", "env"}, mtime : Nat,
          err : {"yes", "no"}, cfg : Canonical]
Unopened == [init |-> "no", src |-> "env", mtime |-> 0, err |-> "no",
             cfg |-> Denied]

(* The policy a file stands for: what a fresh read of it would enforce. *)
Policy(f) ==
  IF f.state = "absent" THEN Legacy
  ELSE IF f.state = "config" /\ Valid(f.cfg) THEN Normalize(f.cfg)
  ELSE Denied

(* A file that vanishes between stat and read is unreadable. *)
InForce(f) ==
  IF f.state = "absent" THEN {Policy(f), Denied} ELSE {Policy(f)}

Calls == {"get", "err", "saved"}
Reading == {"getRead", "errRead", "savedRead"}
Locked(p) == \E t \in Task : Home(t) = p /\ pc[t] \in Reading

Init ==
  /\ file = [state |-> "absent", cfg |-> Denied, at |-> 0, by |-> "hand"]
  /\ store = [p \in Process |-> Unopened]
  /\ pc = [t \in Task |-> "idle"]
  /\ req = [t \in Saver |-> NoRequest]
  /\ base = [t \in Task |-> Denied]
  /\ sawAt = [t \in Saver |-> 0]
  /\ inc = [t \in Message |-> NoMessage]
  /\ seen = [t \in Message |-> {}]
  /\ verdict = [t \in Message |-> "none"]
-----------------------------------------------------------------------------
(* refreshLocked, called by Get, Err and (with init cleared) by Save. *)

(* Get returns the policy; Err returns whether the file is broken, and a   *)
(* save of a broken file starts clean; Save's refresh returns nothing.     *)
Return(t, call, s) ==
  /\ base' = [base EXCEPT ![t] =
                IF call = "get" THEN s.cfg
                ELSE IF call = "err" /\ s.err = "yes" THEN Denied ELSE @]
  /\ pc' = [pc EXCEPT ![t] =
                IF call = "get" THEN IF t \in Saver THEN "err" ELSE "decide"
                ELSE IF call = "err" THEN "put" ELSE "done"]

Note(t, call) ==
  sawAt' = IF t \in Saver /\ call = "get"
             THEN [sawAt EXCEPT ![t] = file.at] ELSE sawAt

(* A mutant: a file once read is not looked at again. *)
Settled(t, s) ==
  /\ pc[t] # "saved" /\ s.init = "yes"
  /\ IF file.state = "absent" THEN s.src = "env"
     ELSE s.src = "file" /\ s.err = "no"

(* The cached copy stands. *)
Stands(t, s) ==
  /\ pc[t] # "saved" /\ s.init = "yes"
  /\ IF file.state = "absent" THEN s.src = "env"
     ELSE s.src = "file" /\ s.mtime = file.at /\ s.err = "no"

UseCached(t) ==
  /\ pc[t] \in Calls /\ ~Locked(Home(t))
  /\ Stands(t, store[Home(t)])
  /\ Return(t, pc[t], store[Home(t)])
  /\ Note(t, pc[t])
  /\ UNCHANGED <<file, store, req, inc, seen, verdict>>

Environment == [init |-> "yes", src |-> "env", mtime |-> 0, err |-> "no",
                cfg |-> Legacy]

UseEnvironment(t) ==
  /\ pc[t] \in Calls /\ ~Locked(Home(t))
  /\ file.state = "absent"
  /\ ~Stands(t, store[Home(t)])
  /\ store' = [store EXCEPT ![Home(t)] = Environment]
  /\ Return(t, pc[t], Environment)
  /\ Note(t, pc[t])
  /\ UNCHANGED <<file, req, inc, seen, verdict>>

(* The modification time is taken before the file is read. *)
Stat(t) ==
  /\ pc[t] \in Calls /\ ~Locked(Home(t))
  /\ file.state # "absent"
  /\ ~Stands(t, store[Home(t)])
  /\ store' = [store EXCEPT ![Home(t)].init = "yes", ![Home(t)].src = "file",
                            ![Home(t)].mtime = file.at]
  /\ pc' = [pc EXCEPT ![t] = IF @ = "get" THEN "getRead"
                             ELSE IF @ = "err" THEN "errRead" ELSE "savedRead"]
  /\ Note(t, pc[t])
  /\ UNCHANGED <<file, req, base, inc, seen, verdict>>

CallOf(p) == IF p = "getRead" THEN "get" ELSE IF p = "errRead" THEN "err"
             ELSE "saved"

Usable(f) == f.state = "config" /\ Valid(f.cfg)

(* Mutants: a broken file leaves the last good policy in force; a file is  *)
(* taken as it is written.                                                 *)
KeepLast(s) ==
  [s EXCEPT !.cfg = IF Usable(file) THEN Normalize(file.cfg) ELSE @,
            !.err = "no"]
AsWritten(s) ==
  [s EXCEPT !.cfg = IF Usable(file) THEN file.cfg ELSE Denied,
            !.err = IF Usable(file) THEN "no" ELSE "yes"]

Loaded(s) ==
  [s EXCEPT !.cfg = IF Usable(file) THEN Normalize(file.cfg) ELSE Denied,
            !.err = IF Usable(file) THEN "no" ELSE "yes"]


ReadFile(t) ==
  /\ pc[t] \in Reading
  /\ store' = [store EXCEPT ![Home(t)] = Loaded(@)]
  /\ Return(t, CallOf(pc[t]), Loaded(store[Home(t)]))
  /\ UNCHANGED <<file, req, sawAt, inc, seen, verdict>>
-----------------------------------------------------------------------------
(* Changes of the file. *)

(* history: what is in force is recorded for every webhook under way. *)
Change(f) ==
  /\ file.at < MaxChange
  /\ file' = f
  /\ seen' = [t \in Message |->
                IF pc[t] \in {"idle", "done"} THEN seen[t] ELSE seen[t] \cup InForce(f)]

Submit(t) ==
  /\ pc[t] = "idle"
  /\ \E r \in Requests : req' = [req EXCEPT ![t] = r]
  /\ pc' = [pc EXCEPT ![t] = "get"]
  /\ UNCHANGED <<file, store, base, sawAt, inc, seen, verdict>>

(* The sections the request does not mention stay as they were read. *)
Asked(c, r) ==
  [mode |-> r.mode,
   number |-> IF "number" \in r.sets THEN r.number ELSE c.number,
   group |-> IF "team" \in r.sets THEN r.group ELSE c.group,
   members |-> IF "team" \in r.sets THEN r.members ELSE c.members]

(* Normalize returns an error, or writing the file fails: a 400. *)
Refuse(t) ==
  /\ pc[t] = "put"
  /\ pc' = [pc EXCEPT ![t] = "done"]
  /\ UNCHANGED <<file, store, req, base, sawAt, inc, seen, verdict>>

(* A mutant: the config is checked, but written as it came. *)
AsGiven(c) == [state |-> "config", cfg |-> c, at |-> file.at + 1, by |-> "save"]

SavedFile(c) == [state |-> "config", cfg |-> Normalize(c), at |-> file.at + 1,
                 by |-> "save"]

(* The temporary file is renamed over the access file. *)
Put(t) ==
  /\ pc[t] = "put"
  /\ Valid(Asked(base[t], req[t]))
  /\ Change(SavedFile(Asked(base[t], req[t])))
  /\ pc' = [pc EXCEPT ![t] = "saved"]
  /\ UNCHANGED <<store, req, base, sawAt, inc, verdict>>

Edit ==
  /\ \E c \in HandEdits :
       Change([state |-> "config", cfg |-> c, at |-> file.at + 1, by |-> "hand"])
  /\ UNCHANGED <<store, pc, req, base, sawAt, inc, verdict>>

Damage ==
  /\ Change([state |-> "broken", cfg |-> Denied, at |-> file.at + 1,
             by |-> "hand"])
  /\ UNCHANGED <<store, pc, req, base, sawAt, inc, verdict>>

Remove ==
  /\ Change([state |-> "absent", cfg |-> Denied, at |-> file.at + 1,
             by |-> "hand"])
  /\ UNCHANGED <<store, pc, req, base, sawAt, inc, verdict>>
-----------------------------------------------------------------------------
(* The bridge's gate for a live message. *)

Arrive(t) ==
  /\ pc[t] = "idle"
  /\ \E m \in Incomings : inc' = [inc EXCEPT ![t] = m]
  /\ seen' = [seen EXCEPT ![t] = InForce(file)]
  /\ pc' = [pc EXCEPT ![t] = "get"]
  /\ UNCHANGED <<file, store, req, base, sawAt, verdict>>

Account(lid) == [phone |-> BotPhone, lid |-> lid]
Ruling(c, in, bot) == IF Decide(c, in, bot) THEN "allow" ELSE "deny"

Judge(t) ==
  /\ pc[t] = "decide"
  /\ ~NeedsLID(base[t], inc[t], Account(""))
  /\ verdict' = [verdict EXCEPT ![t] = Ruling(base[t], inc[t], Account(""))]
  /\ pc' = [pc EXCEPT ![t] = "done"]
  /\ UNCHANGED <<file, store, req, base, sawAt, inc, seen>>

AskLID(t) ==
  /\ pc[t] = "decide"
  /\ NeedsLID(base[t], inc[t], Account(""))
  /\ pc' = [pc EXCEPT ![t] = "lookup"]
  /\ UNCHANGED <<file, store, req, base, sawAt, inc, seen, verdict>>

(* The lookup finds the LID, or (an error, a cached miss, three seconds)   *)
(* none; the policy taken before the lookup is then applied.               *)
AnswerLID(t) ==
  /\ pc[t] = "lookup"
  /\ \E lid \in {"", BotLID} :
       verdict' = [verdict EXCEPT ![t] = Ruling(base[t], inc[t], Account(lid))]
  /\ pc' = [pc EXCEPT ![t] = "done"]
  /\ UNCHANGED <<file, store, req, base, sawAt, inc, seen>>

(* The handlers of the tasks T return: what they held is gone. *)
Forget(T) ==
  /\ pc' = [t \in Task |-> IF t \in T THEN "idle" ELSE pc[t]]
  /\ base' = [t \in Task |-> IF t \in T THEN Denied ELSE base[t]]
  /\ req' = [t \in Saver |-> IF t \in T THEN NoRequest ELSE req[t]]
  /\ sawAt' = [t \in Saver |-> IF t \in T THEN 0 ELSE sawAt[t]]
  /\ inc' = [t \in Message |-> IF t \in T THEN NoMessage ELSE inc[t]]
  /\ seen' = [t \in Message |-> IF t \in T THEN {} ELSE seen[t]]
  /\ verdict' = [t \in Message |-> IF t \in T THEN "none" ELSE verdict[t]]

Leave(t) == pc[t] = "done" /\ Forget({t}) /\ UNCHANGED <<file, store>>

(* A process dies and starts over; the file survives. *)
Restart(p) ==
  /\ store' = [store EXCEPT ![p] = Unopened]
  /\ Forget({t \in Task : Home(t) = p})
  /\ UNCHANGED file
-----------------------------------------------------------------------------
Next ==
  \/ \E t \in Task : UseCached(t) \/ UseEnvironment(t) \/ Stat(t) \/ ReadFile(t)
                    \/ Leave(t)
  \/ \E t \in Saver : Submit(t) \/ Refuse(t) \/ Put(t)
  \/ \E t \in Message : Arrive(t) \/ Judge(t) \/ AskLID(t) \/ AnswerLID(t)
  \/ Edit \/ Damage \/ Remove
  \/ \E p \in Process : Restart(p)

Spec == Init /\ [][Next]_vars
-----------------------------------------------------------------------------
(* Type correctness, of the file, the two stores and every task. *)
TypeOK ==
  /\ file \in File
  /\ store \in [Process -> Store]
  /\ pc \in [Task -> {"idle", "decide", "lookup", "put", "done"} \cup Calls \cup Reading]
  /\ req \in [Saver -> Request]
  /\ base \in [Task -> Canonical]
  /\ sawAt \in [Saver -> Nat]
  /\ inc \in [Message -> Incoming]
  /\ seen \in [Message -> SUBSET Canonical]
  /\ verdict \in [Message -> {"none", "allow", "deny"}]

(* A Store that would answer from its cache has in it what the file says.  *)
(* It is why refreshLocked takes the modification time before it reads: a  *)
(* file replaced in between is then read again at the next call.           *)
CacheHonest ==
  \A p \in Process :
    LET s == store[p] IN
    /\ ~Locked(p) /\ s.init = "yes" /\ s.err = "no"
    /\ s.src = "file" /\ file.state # "absent" /\ s.mtime = file.at
    => s.cfg = Policy(file)

(* Every message is judged by a policy that was in force while the bridge  *)
(* was handling it: never by one that was replaced before the message came *)
(* in, and never by the last good policy when the file is broken.          *)
JudgedByPolicyInForce ==
  \A t \in Message :
    verdict[t] # "none" =>
      \E c \in seen[t], lid \in {"", BotLID} :
        verdict[t] = Ruling(c, inc[t], Account(lid))

(* What Save wrote, the bridge enforces as it stands: the saved file is    *)
(* valid, and reading it back changes nothing in it.                       *)
SavedIsEnforced ==
  file.by = "save" => file.state = "config" /\ Policy(file) = file.cfg

(* A save which nothing overtook keeps the section it does not mention:    *)
(* the roster survives a switch to personal mode, the owner's number a     *)
(* switch to team mode.                                                    *)
UndisturbedSaveKeeps ==
  [][\A t \in Saver :
       pc[t] = "put" /\ pc'[t] = "saved" /\ sawAt[t] = file.at =>
         /\ "number" \notin req[t].sets => file'.cfg.number = Policy(file).number
         /\ "team" \notin req[t].sets =>
              /\ file'.cfg.group = Policy(file).group
              /\ file'.cfg.members = Policy(file).members]_vars

(* The Store as the bridge's handler relies on it: a policy that changes   *)
(* at an instant, of which a message takes one at an instant.              *)
Rulings(c, in) == {Ruling(c, in, Account(lid)) : lid \in {"", BotLID}}
StageOf(p) ==
  IF p = "idle" THEN "away"
  ELSE IF p = "done" THEN "judged"
  ELSE IF p \in {"decide", "lookup"} THEN "ready" ELSE "here"
stages == [t \in Message |-> StageOf(pc[t])]
policies == [t \in Message |-> base[t]]

Gate == INSTANCE PolicyGate WITH
  Incoming <- Incomings,
  force <- InForce(file),
  stage <- stages,
  held <- policies

(* Whatever is saved, edited, damaged or removed while it reads and waits, *)
(* a message is handled as if it had looked at one policy once: no mixture *)
(* of two, none that was replaced before it came in, and no verdict that   *)
(* the policy it took does not give.                                       *)
ImplementsGate == Gate!Spec
=============================================================================
