------------------------------- MODULE Bridge -------------------------------
(***************************************************************************)
(* The message pipeline of the bridge process: gowa posts a webhook, the   *)
(* handler writes the message to the pending directory, acknowledges it    *)
(* and hands it to a goroutine; the goroutine waits for the chat's lock,   *)
(* runs Claude on the chat's session, saves the session, sends the reply   *)
(* and removes the pending file.  A crash loses the goroutines, the locks  *)
(* and the in-memory session map; the restart replays the directory.       *)
(*                                                                         *)
(* A Claude session is represented by the messages its history holds; the  *)
(* empty set stands for "no session id stored".                            *)
(***************************************************************************)
EXTENDS Naturals, FiniteSets

CONSTANTS
  Messages,   \* inbound WhatsApp messages, each with its own message_id
  Chats,      \* chat ids
  Senders,    \* people who write to the bot
  ChatOf,     \* the chat a message was sent to
  SenderOf,   \* the person who sent it
  Groups,     \* the chats that are groups (a reply there is first quoted)
  MaxTries,   \* bound: how often gowa posts each message
  Budgets     \* bounds: how many faults of each kind may occur together

Fault == {"crash", "send", "disk", "policy"}

ASSUME BridgeAssumption ==
  /\ ChatOf \in [Messages -> Chats]
  /\ SenderOf \in [Messages -> Senders]
  /\ Groups \subseteq Chats
  /\ MaxTries \in [Messages -> Nat]
  /\ Budgets \subseteq [Fault -> Nat]

(***************************************************************************)
(* A task is a goroutine working on one message: the one of the no-th      *)
(* webhook delivery, or the one replayPending starts for a file it found,  *)
(* the message's .json file or a .json.tmp left behind by a crash.         *)
(***************************************************************************)
HookTask ==
  UNION {[msg : {m}, via : {"hook"}, no : 1..MaxTries[m]] : m \in Messages}
ReplayTask == [msg : Messages, via : {"json", "tmp"}, no : {0}]
Task == HookTask \cup ReplayTask

Chat(t) == ChatOf[t.msg]

PC == {"idle", "open", "write", "rename", "ack", "authorize", "wait", "run",
       "save", "quote", "plain", "done"}

\* Where a task is while it holds the lock of its chat.
Critical == {"run", "save", "quote", "plain", "done"}

\* How the Claude run of a task ended.
Ending == {"none", "resumed", "fresh", "failed"}

\* Content of a file; only a whole one parses.
File == {"absent", "empty", "torn", "whole"}

\* The name under which a file that a task has opened is found now: a rename
\* moves it, and a file that was replaced or removed has none.
Name == {"none", "tmp", "json"}

\* What has happened to a message; a history variable, read by no action.  A
\* text counts as sent once gowa has taken it; gowa may still fail to bring it
\* to WhatsApp (README.md:302), which the bridge never learns.
Event == {"acked", "answered", "apologised", "apologyLost", "refused",
          "unrecorded", "contended"}

VARIABLES
  up,       \* the bridge process is running
  pc,       \* pc[t]: the next step of task t
  ctx,      \* ctx[t]: the session t resumes, then the one its run produced
  ending,   \* ending[t]: how t's Claude run ended
  locked,   \* locked[c]: the mutex of chat c (chatlock.go)
  conv,     \* conv[c]: session of chat c in memory (session.Store)
  saved,    \* saved[c]: session of chat c in the session file
  json,     \* json[m]: the pending file of m
  tmp,      \* tmp[m]: its temporary, <message_id>.json.tmp
  opened,   \* opened[t]: where the file is that task t has open for writing
  allowed,  \* senders the access policy allows
  granted,  \* senders the policy allowed at some time since the last start
  tries,    \* tries[m]: how often gowa has posted m
  log,      \* log[m]: events of m
  replies,  \* replies[m]: how many copies of Claude's reply gowa has taken
  spent     \* spent[f]: faults of kind f so far

files == <<json, tmp, opened>>
policy == <<allowed, granted>>
sessions == <<conv, saved>>
vars == <<up, pc, ctx, ending, locked, sessions, files, policy, tries, log,
          replies, spent>>

TypeOK ==
  /\ up \in BOOLEAN
  /\ pc \in [Task -> PC]
  /\ ctx \in [Task -> SUBSET Messages]
  /\ ending \in [Task -> Ending]
  /\ locked \in [Chats -> BOOLEAN]
  /\ conv \in [Chats -> SUBSET Messages]
  /\ saved \in [Chats -> SUBSET Messages]
  /\ json \in [Messages -> File]
  /\ tmp \in [Messages -> File]
  /\ opened \in [Task -> Name]
  /\ allowed \subseteq Senders
  /\ granted \subseteq Senders
  /\ tries \in [Messages -> Nat]
  /\ \A m \in Messages : tries[m] <= MaxTries[m]
  /\ log \in [Messages -> SUBSET Event]
  /\ replies \in [Messages -> Nat]
  /\ spent \in [Fault -> Nat]

Init ==
  /\ up = TRUE
  /\ pc = [t \in Task |-> "idle"]
  /\ ctx = [t \in Task |-> {}]
  /\ ending = [t \in Task |-> "none"]
  /\ locked = [c \in Chats |-> FALSE]
  /\ conv = [c \in Chats |-> {}]
  /\ saved = [c \in Chats |-> {}]
  /\ json = [m \in Messages |-> "absent"]
  /\ tmp = [m \in Messages |-> "absent"]
  /\ opened = [t \in Task |-> "none"]
  /\ allowed \in SUBSET Senders
  /\ granted = allowed
  /\ tries = [m \in Messages |-> 0]
  /\ log = [m \in Messages |-> {}]
  /\ replies = [m \in Messages |-> 0]
  /\ spent = [f \in Fault |-> 0]

MayFail(f) ==
  \E b \in Budgets : spent[f] < b[f] /\ \A k \in Fault : spent[k] <= b[k]

Spend(f) == MayFail(f) /\ spent' = [spent EXCEPT ![f] = @ + 1]

Goto(t, l) == pc' = [pc EXCEPT ![t] = l]
Note(m, e) == log' = [log EXCEPT ![m] = @ \cup {e}]

\* Mutant: the early return of handleMessage forgets the lock.
LeaveLocked(t) ==
  /\ ctx' = [ctx EXCEPT ![t] = {}]
  /\ ending' = [ending EXCEPT ![t] = "none"]
  /\ Goto(t, "idle")
  /\ UNCHANGED locked

\* The goroutine ends: the deferred unlock runs and its locals are gone.
Leave(t) ==
  /\ locked' = [locked EXCEPT ![Chat(t)] = FALSE]
  /\ ctx' = [ctx EXCEPT ![t] = {}]
  /\ ending' = [ending EXCEPT ![t] = "none"]
  /\ Goto(t, "idle")
-----------------------------------------------------------------------------
(***************************************************************************)
(* ServeHTTP.                                                              *)
(***************************************************************************)

\* gowa posts m once more: it has had no 200 for m, or has it too late.
Post(m) ==
  /\ up
  /\ tries[m] < MaxTries[m]
  /\ tries' = [tries EXCEPT ![m] = @ + 1]

\* decide() denies: 200 and nothing else happens.
Ignore(m) ==
  /\ Post(m)
  /\ SenderOf[m] \notin allowed
  /\ UNCHANGED <<up, pc, ctx, ending, locked, sessions, files, policy, log,
                 replies, spent>>

\* Mutant: the message is acknowledged and worked on, but never recorded.
AcceptUnrecorded(m) ==
  /\ Post(m)
  /\ SenderOf[m] \in allowed
  /\ Goto([msg |-> m, via |-> "hook", no |-> tries[m] + 1], "ack")
  /\ UNCHANGED <<up, ctx, ending, locked, sessions, files, policy, log,
                 replies, spent>>

Accept(m) ==
  /\ Post(m)
  /\ SenderOf[m] \in allowed
  /\ Goto([msg |-> m, via |-> "hook", no |-> tries[m] + 1], "open")
  /\ UNCHANGED <<up, ctx, ending, locked, sessions, files, policy, log,
                 replies, spent>>

\* Another delivery of t's message is between opening the temporary and moving it.
Contends(t) ==
  \E u \in Task \ {t} : u.msg = t.msg /\ pc[u] \in {"write", "rename"}

\* pending.Write: os.WriteFile opens the temporary, which empties the file that
\* is there already, though another delivery of the message may be writing it.
OpenTmp(t) ==
  /\ pc[t] = "open"
  /\ \/ /\ tmp' = [tmp EXCEPT ![t.msg] = "empty"]
        /\ opened' = [opened EXCEPT ![t] = "tmp"]
        /\ Goto(t, "write")
        /\ \/ Contends(t) /\ Note(t.msg, "contended")
           \/ ~Contends(t) /\ UNCHANGED log
        /\ UNCHANGED spent
     \/ /\ Spend("disk")
        /\ Note(t.msg, "unrecorded")
        /\ Goto(t, "ack")
        /\ UNCHANGED <<tmp, opened>>
  /\ UNCHANGED <<up, ctx, ending, locked, sessions, json, policy, tries,
                 replies>>

\* What the file holds that t has open (opened[t] is a name), and t's write to it.
Content(t) == IF opened[t] = "json" THEN json[t.msg] ELSE tmp[t.msg]

Fill(t, f) ==
  /\ json' = IF opened[t] = "json" THEN [json EXCEPT ![t.msg] = f] ELSE json
  /\ tmp' = IF opened[t] = "tmp" THEN [tmp EXCEPT ![t.msg] = f] ELSE tmp

\* ... and writes the record from the start of that file.  A longer one that
\* another delivery has written meanwhile keeps its tail.
FillTmp(t) ==
  /\ pc[t] = "write"
  /\ \/ /\ \E f \in {"whole", "torn"} :
             /\ f = "torn" => Content(t) # "empty"
             /\ Fill(t, f)
        /\ Goto(t, "rename")
        /\ UNCHANGED <<log, spent>>
     \/ /\ Spend("disk")
        /\ \E f \in {Content(t), "torn"} : Fill(t, f)
        /\ Note(t.msg, "unrecorded")
        /\ Goto(t, "ack")
  /\ opened' = [opened EXCEPT ![t] = "none"]
  /\ UNCHANGED <<up, ctx, ending, locked, sessions, policy, tries, replies>>

\* The open files of m after a rename: the one it moves, and the one it replaces.
Moved(m) ==
  [u \in Task |->
     IF u.msg # m THEN opened[u] ELSE IF opened[u] = "tmp" THEN "json" ELSE "none"]

\* os.Rename of the temporary, whatever it holds by now.  It fails by itself when
\* another delivery of the message has moved it already.
Rename(t) ==
  /\ pc[t] = "rename"
  /\ Goto(t, "ack")
  /\ \/ /\ tmp[t.msg] # "absent"
        /\ json' = [json EXCEPT ![t.msg] = tmp[t.msg]]
        /\ tmp' = [tmp EXCEPT ![t.msg] = "absent"]
        /\ opened' = Moved(t.msg)
        /\ UNCHANGED <<log, spent>>
     \/ /\ tmp[t.msg] = "absent"
        /\ UNCHANGED <<files, log, spent>>
     \/ /\ Spend("disk")
        /\ Note(t.msg, "unrecorded")
        /\ UNCHANGED files
  /\ UNCHANGED <<up, ctx, ending, locked, sessions, policy, tries, replies>>

\* WriteHeader(200) and `go handleMessage`.
Ack(t) ==
  /\ pc[t] = "ack"
  /\ Goto(t, "wait")
  /\ Note(t.msg, "acked")
  /\ UNCHANGED <<up, ctx, ending, locked, sessions, files, policy, tries,
                 replies, spent>>
-----------------------------------------------------------------------------
(***************************************************************************)
(* handleMessage, and Replay which runs it for a file found at startup.    *)
(***************************************************************************)

\* Mutant: Done removes the temporary instead of the .json file.
ForgetTmp(m) ==
  \/ tmp' = [tmp EXCEPT ![m] = "absent"] /\ UNCHANGED <<json, opened, spent>>
  \/ Spend("disk") /\ UNCHANGED files

\* The open files of m after its .json file was removed.
Removed(m) ==
  [u \in Task |-> IF u.msg = m /\ opened[u] = "json" THEN "none" ELSE opened[u]]

\* pending.Done: removes the .json file and nothing else; may fail.
Forget(m) ==
  \/ /\ json' = [json EXCEPT ![m] = "absent"]
     /\ opened' = Removed(m)
     /\ UNCHANGED <<tmp, spent>>
  \/ Spend("disk") /\ UNCHANGED files

\* Mutant: whoever made it into the queue was allowed once, and stays so.
TrustQueue(t) == TRUE

Permitted(t) == SenderOf[t.msg] \in allowed

Authorize(t) ==
  /\ pc[t] = "authorize"
  /\ Permitted(t)
  /\ Goto(t, "wait")
  /\ UNCHANGED <<up, ctx, ending, locked, sessions, files, policy, tries,
                 log, replies, spent>>

Refuse(t) ==
  /\ pc[t] = "authorize"
  /\ ~Permitted(t)
  /\ Note(t.msg, "refused")
  /\ Forget(t.msg)
  /\ Goto(t, "idle")
  /\ UNCHANGED <<up, ctx, ending, locked, sessions, policy, tries, replies>>

\* Mutant: the chat's lock is not waited for.
AnyTime(t) == TRUE

LockFree(t) == ~locked[Chat(t)]

\* chatLocks.Lock, then store.Get while holding it.
Acquire(t) ==
  /\ pc[t] = "wait"
  /\ LockFree(t)
  /\ locked' = [locked EXCEPT ![Chat(t)] = TRUE]
  /\ ctx' = [ctx EXCEPT ![t] = conv[Chat(t)]]
  /\ Goto(t, "run")
  /\ UNCHANGED <<up, ending, sessions, files, policy, tries, log, replies,
                 spent>>

\* Mutant: the run does not resume the chat's session.
Unresumed(t) == {t.msg}

Resumed(t) == ctx[t] \cup {t.msg}

\* runner.Reply: the run succeeds, resuming the session when there is one.
RunResumed(t) ==
  /\ pc[t] = "run"
  /\ ctx' = [ctx EXCEPT ![t] = Resumed(t)]
  /\ ending' = [ending EXCEPT ![t] = "resumed"]
  /\ Goto(t, "save")
  /\ UNCHANGED <<up, locked, sessions, files, policy, tries, log, replies,
                 spent>>

\* runner.Reply: the resumed run fails, the retry as a new conversation works.
RunFresh(t) ==
  /\ pc[t] = "run"
  /\ ctx[t] # {}
  /\ ctx' = [ctx EXCEPT ![t] = {t.msg}]
  /\ ending' = [ending EXCEPT ![t] = "fresh"]
  /\ Goto(t, "save")
  /\ UNCHANGED <<up, locked, sessions, files, policy, tries, log, replies,
                 spent>>

\* Mutant: a kind of send that no branch of reply() handles.
UnknownSend(t) == IF Chat(t) \in Groups THEN "quoted" ELSE "plain"

\* reply() quotes the message in a group and sends plainly elsewhere.
FirstSend(t) == IF Chat(t) \in Groups THEN "quote" ELSE "plain"

RunFailed(t) ==
  /\ pc[t] = "run"
  /\ ending' = [ending EXCEPT ![t] = "failed"]
  /\ Goto(t, FirstSend(t))
  /\ UNCHANGED <<up, ctx, locked, sessions, files, policy, tries, log,
                 replies, spent>>

\* store.Set: memory first, then the whole map to the file, which may fail.
Save(t) ==
  /\ pc[t] = "save"
  /\ conv' = [conv EXCEPT ![Chat(t)] = ctx[t]]
  /\ \/ saved' = conv' /\ UNCHANGED spent
     \/ Spend("disk") /\ UNCHANGED saved
  /\ Goto(t, FirstSend(t))
  /\ UNCHANGED <<up, ctx, ending, locked, files, policy, tries, log, replies>>

\* gowa takes a text of t: Claude's reply, or the apology.
Deliver(t) ==
  IF ending[t] = "failed"
  THEN Note(t.msg, "apologised") /\ UNCHANGED replies
  ELSE Note(t.msg, "answered")
       /\ replies' = [replies EXCEPT ![t.msg] = @ + 1]

\* Mutant: the unquoted send follows the quoted one even if that worked.
SendBoth(t) ==
  /\ pc[t] \in {"quote", "plain"}
  /\ Deliver(t)
  /\ Goto(t, IF pc[t] = "quote" THEN "plain" ELSE "done")
  /\ UNCHANGED <<up, ctx, ending, locked, sessions, files, policy, tries,
                 spent>>

SendOK(t) ==
  /\ pc[t] \in {"quote", "plain"}
  /\ Deliver(t)
  /\ Goto(t, "done")
  /\ UNCHANGED <<up, ctx, ending, locked, sessions, files, policy, tries,
                 spent>>

\* The quoted send reports an error, though gowa may have taken it: reply() sends
\* again, unquoted.
QuoteError(t) ==
  /\ pc[t] = "quote"
  /\ Spend("send")
  /\ Deliver(t) \/ UNCHANGED <<log, replies>>
  /\ Goto(t, "plain")
  /\ UNCHANGED <<up, ctx, ending, locked, sessions, files, policy, tries>>

\* Mutant: a reply that could not be sent is done with, like an apology.
GiveUpReply(t) ==
  /\ pc[t] = "plain"
  /\ ending[t] # "failed"
  /\ Spend("send")
  /\ Goto(t, "done")
  /\ UNCHANGED <<up, ctx, ending, locked, sessions, files, policy, tries,
                 log, replies>>

\* Sending Claude's reply fails: the pending file stays for the next start.
ReplyError(t) ==
  /\ pc[t] = "plain"
  /\ ending[t] # "failed"
  /\ Spend("send")
  /\ Deliver(t) \/ UNCHANGED <<log, replies>>
  /\ Leave(t)
  /\ UNCHANGED <<up, sessions, files, policy, tries>>

\* Sending the apology fails: the result is ignored.
ApologyError(t) ==
  /\ pc[t] = "plain"
  /\ ending[t] = "failed"
  /\ Spend("send")
  /\ Note(t.msg, "apologised") \/ Note(t.msg, "apologyLost")
  /\ Goto(t, "done")
  /\ UNCHANGED <<up, ctx, ending, locked, sessions, files, policy, tries,
                 replies>>

\* markDone, return and the deferred unlock.
Finish(t) ==
  /\ pc[t] = "done"
  /\ Forget(t.msg)
  /\ Leave(t)
  /\ UNCHANGED <<up, sessions, policy, tries, log, replies>>
-----------------------------------------------------------------------------
(***************************************************************************)
(* The process, and the administrator.                                     *)
(***************************************************************************)

Crash ==
  /\ up
  /\ Spend("crash")
  /\ up' = FALSE
  /\ pc' = [t \in Task |-> "idle"]
  /\ ctx' = [t \in Task |-> {}]
  /\ ending' = [t \in Task |-> "none"]
  /\ locked' = [c \in Chats |-> FALSE]
  /\ opened' = [t \in Task |-> "none"]
  /\ UNCHANGED <<sessions, json, tmp, policy, tries, log, replies>>

\* ListAll reads every entry of the directory, whatever its suffix, and skips
\* what does not parse.
Listed == {t \in ReplayTask : (IF t.via = "json" THEN json ELSE tmp)[t.msg] = "whole"}

\* systemd restarts the process: main() opens the stores and starts one
\* goroutine for every message ListAll returned.
Restart ==
  /\ ~up
  /\ up' = TRUE
  /\ conv' = saved
  /\ granted' = allowed
  /\ pc' = [t \in Task |-> IF t \in Listed THEN "authorize" ELSE "idle"]
  /\ UNCHANGED <<ctx, ending, locked, saved, files, allowed, tries, log,
                 replies, spent>>

\* An access file is saved, or breaks and denies everybody.
ChangePolicy ==
  /\ Spend("policy")
  /\ \E a \in (SUBSET Senders) \ {allowed} :
       allowed' = a /\ granted' = granted \cup a
  /\ UNCHANGED <<up, pc, ctx, ending, locked, sessions, files, tries, log,
                 replies>>

Step(t) ==
  \/ OpenTmp(t) \/ FillTmp(t) \/ Rename(t) \/ Ack(t)
  \/ Authorize(t) \/ Refuse(t)
  \/ Acquire(t) \/ RunResumed(t) \/ RunFresh(t) \/ RunFailed(t) \/ Save(t)
  \/ SendOK(t) \/ QuoteError(t) \/ ReplyError(t) \/ ApologyError(t)
  \/ Finish(t)

Next ==
  \/ \E m \in Messages : Ignore(m) \/ Accept(m)
  \/ \E t \in Task : Step(t)
  \/ Crash \/ Restart \/ ChangePolicy

Spec == Init /\ [][Next]_vars

\* A goroutine keeps running, a Claude run and a send end (timeouts), and
\* systemd restarts the process.
FairSpec == Spec /\ (\A t \in Task : WF_vars(Step(t))) /\ WF_vars(Restart)
-----------------------------------------------------------------------------
\* What the pipeline promises, whatever its goroutines and files do: see
\* AckedQueue.  A message is owed while its pending file is readable.
Through(m) == log[m] \cap {"answered", "apologised", "apologyLost", "refused",
                           "unrecorded"} # {}

\* Two deliveries of m have written its temporary at the same time.
Contended(m) == "contended" \in log[m]

Queue == INSTANCE AckedQueue WITH
  owed <- {m \in Messages : json[m] = "whole"},
  promised <- {m \in Messages : "acked" \in log[m]},
  closed <- {m \in Messages : Through(m)},
  risky <- {m \in Messages : Contended(m)}

\* The pipeline implements the acknowledged queue: it records before it
\* promises, and a readable file becomes unreadable or goes only when the bridge
\* is through with its message or two deliveries of it were written at once.
ImplementsQueue == Queue!Spec
-----------------------------------------------------------------------------
(***************************************************************************)
(* Properties.                                                             *)
(***************************************************************************)

\* At most one task per chat is between taking the chat's lock and releasing
\* it, so two Claude runs never resume the same session at the same time
\* (chatlock.go), whichever of webhooks and replays they come from.
OneRunPerChat ==
  \A t1, t2 \in Task :
    /\ pc[t1] \in Critical
    /\ pc[t2] \in Critical
    /\ Chat(t1) = Chat(t2)
    => t1 = t2

\* Ways in which the bridge is through with a message.
Closing == {"answered", "apologised", "apologyLost", "refused"}

\* No task is working on m.
Unattended(m) == \A t \in Task : t.msg = m => pc[t] = "idle"

\* A message whose delivery was acknowledged to gowa, which posts it no more,
\* is in a readable pending file until the bridge is through with it: a restart
\* finds it.  Two exceptions: the disk refused to take it, or two deliveries of
\* it wrote the one temporary at the same time.  Then a crash or a failing send
\* may lose it; without either a goroutine works on it until it is settled.
AckedIsRecoverable ==
  \A m \in Messages :
    "acked" \in log[m] =>
      \/ json[m] = "whole"
      \/ log[m] \cap Closing # {}
      \/ "unrecorded" \in log[m]
      \/ Contended(m) /\ (~Unattended(m) \/ spent["crash"] > 0 \/ spent["send"] > 0)

\* Claude never runs for a message of a sender the policy has denied ever
\* since the process started, although the message may have been queued while
\* its sender was still allowed (Replay asks the policy again).
RevokedNeverRuns ==
  \A t \in Task : pc[t] \in Critical => SenderOf[t.msg] \in granted

\* Every copy of a reply beyond the first has a cause: gowa posted the message
\* again, a crash made the restart replay its two files, or a send reported an
\* error although it may have arrived.
DuplicatesHaveCauses ==
  \A m \in Messages :
    replies[m] <= tries[m] + 2 * spent["crash"] + spent["send"]

\* The session saved for a chat never loses an exchange it held: only a run
\* that had to start a new conversation because the resumed one failed, or a
\* restart after the session file could not be written, may shorten it.
ContextKept ==
  [][\A c \in Chats :
       \/ conv[c] \subseteq conv'[c]
       \/ \E t \in Task : pc[t] = "save" /\ Chat(t) = c /\ ending[t] = "fresh"
       \/ ~up /\ spent["disk"] > 0]_vars

\* An acknowledged message is settled in the end, by a reply, an apology or the
\* policy, unless the disk did not take it or its reply could not be sent; in
\* that case it rests in its pending file for the next start.  If two deliveries
\* wrote that file at the same time, a crash or a failing send may lose it.
AckedIsSettled ==
  \A m \in Messages :
    "acked" \in log[m] ~>
      \/ log[m] \cap Closing # {}
      \/ "unrecorded" \in log[m]
      \/ json[m] = "whole" /\ Unattended(m) /\ spent["send"] > 0
      \/ Contended(m) /\ Unattended(m) /\ (spent["crash"] > 0 \/ spent["send"] > 0)

\* Every message queued when the process starts leaves the queue if sending
\* and the disk work from then on: nothing the replays do to each other (they
\* all start at once and share the locks) blocks one of them.
RestartDrains ==
  \A m \in Messages :
    /\ ~up
    /\ json[m] = "whole"
    /\ ~MayFail("send")
    /\ ~MayFail("disk")
    ~> json[m] = "absent"

\* pending/store.go:7-10: the pending file is deleted "only once a reply (success
\* or the error-fallback message) has actually been sent".
ForgottenOnlyAfterReply ==
  \A m \in Messages :
    "acked" \in log[m] =>
      \/ json[m] # "absent"
      \/ log[m] \cap {"answered", "apologised", "refused", "unrecorded"} # {}

\* pending/store.go:75-77: Done removes a message once the sender got a response,
\* "so there's nothing left to recover".  Without send and disk errors, a message
\* that was answered and on which nobody works is in no file ListAll returns.
NothingLeftToRecover ==
  \A m \in Messages :
    /\ up
    /\ Unattended(m)
    /\ log[m] \cap {"answered", "apologised"} # {}
    /\ spent["send"] = 0
    /\ spent["disk"] = 0
    => \A t \in Listed : t.msg # m
=============================================================================
