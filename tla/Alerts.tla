-------------------------------- MODULE Alerts --------------------------------
(***************************************************************************)
(* The alert loop of the admin process: once a minute it computes the      *)
(* status of the stack, hands it to the Monitor, and posts to Discord what *)
(* the Monitor wants announced.  The stack changes at any time, settings   *)
(* are saved, Discord may refuse a message, and a restart of the admin     *)
(* process forgets what the Monitor knew.  Ages are in minutes; they stop  *)
(* at a bound beyond which nothing depends on them.                        *)
(***************************************************************************)
EXTENDS Naturals

CONSTANTS
  Possible,    \* the states of the stack that occur
  Reminder,    \* reminderInterval, in minutes
  Longest,     \* bound: ages of incidents are counted up to here
  MaxFail,     \* bound: messages that do not reach Discord
  MaxRestart,  \* bound: restarts of the admin process
  MaxEdit      \* bound: changes of the settings

(* What computeStatus finds out: one field per probe. *)
Status == [bridge : {"active", "silent", "inactive"},
           whatsapp : {"connected", "disconnected", "logged out", "no device",
                       "unreachable"},
           containers : {"up", "down"},
           claude : {"signed in", "signed out"},
           queue : {"moving", "stuck"}]

ASSUME StatusAssumption == Possible \subseteq Status /\ Possible # {}
ASSUME BoundAssumption ==
  /\ Reminder \in Nat \ {0} /\ Longest \in Nat
  /\ MaxFail \in Nat /\ MaxRestart \in Nat /\ MaxEdit \in Nat

Down(st) ==
  \/ st.bridge # "active"
  \/ st.whatsapp \in {"unreachable", "no device", "logged out"}
  \/ st.claude = "signed out"
Warn(st) ==
  \/ st.whatsapp = "disconnected"
  \/ st.containers = "down"
  \/ st.queue = "stuck"

Verdict(st) ==
  IF Down(st) THEN "down" ELSE IF Warn(st) THEN "degraded" ELSE "ok"

Overall == {"ok", "degraded", "down"}

VARIABLES
  world,      \* the state of the stack
  settings,   \* the alerts file
  tick,       \* whether the ticker has fired since the loop last waited
  pc,         \* the loop: waiting, about to call Check, or sending
  sample,     \* the status just computed
  have, last, sinceSent, timing, outage,   \* the Monitor
  msg,        \* the message being sent, or the one sent last
  told,       \* the overall state in the last message on Discord
  incident,   \* history: time since the first bad sample of the incident
  quiet,      \* history: time since a message was last attempted
  same,       \* history: whether all samples since then were as announced
  disturbed,  \* history: whether an announcement was lost since the last one
              \* that arrived
  left        \* failures, restarts and edits still to come

monitor == <<have, last, sinceSent, timing, outage>>
history == <<incident, quiet, same, disturbed>>
vars == <<world, settings, tick, pc, sample, monitor, msg, told, history, left>>

(* The file; an enabled one must have a webhook URL of Discord's shape, or *)
(* it counts as broken.  The shape is looked for in the trimmed URL, but   *)
(* the URL is kept as it was given: a padded one passes.                   *)
NoSettings == [state |-> "absent", enabled |-> "no", url |-> "none"]
Broken == [state |-> "broken", enabled |-> "no", url |-> "none"]
Config(enabled, url) == [state |-> "config", enabled |-> enabled, url |-> url]
Url == {"none", "malformed", "padded", "webhook"}
Shaped == {"padded", "webhook"}
Settings == {NoSettings, Broken} \cup {Config("yes", u) : u \in Shaped}
            \cup {Config("no", u) : u \in Url}

(* Get: a broken or missing file disables. *)
On(f) == f.state = "config" /\ f.enabled = "yes" /\ f.url # "none"

Message == [overall : Overall, kind : {"change", "recovery", "reminder"},
            downtime : 0 .. Longest, to : Url]
NoMessage == [overall |-> "ok", kind |-> "change", downtime |-> 0, to |-> "none"]

Init ==
  /\ world \in Possible
  /\ settings \in {NoSettings, Config("yes", "webhook")}
  /\ tick = "yes" /\ pc = "wait" /\ sample = "ok"
  /\ have = "no" /\ last = "ok" /\ sinceSent = 0
  /\ timing = "off" /\ outage = 0
  /\ msg = NoMessage /\ told = "none"
  /\ incident = [on |-> "no", age |-> 0]
  /\ quiet = 0 /\ same = "no" /\ disturbed = "no"
  /\ left = [fails |-> MaxFail, restarts |-> MaxRestart, edits |-> MaxEdit]
-----------------------------------------------------------------------------
Older(age, bound) == IF age < bound THEN age + 1 ELSE age

(* A minute passes; the ticker holds at most one tick for the loop. *)
Tick ==
  /\ tick' = "yes"
  /\ sinceSent' = Older(sinceSent, Reminder)
  /\ outage' = Older(outage, Longest)
  /\ incident' = [incident EXCEPT !.age = Older(@, Longest)]
  /\ quiet' = Older(quiet, Reminder)
  /\ UNCHANGED <<world, settings, pc, sample, have, last, timing, msg, told, same,
                 disturbed, left>>

(* Something breaks or is repaired. *)
Turn ==
  /\ world' \in Possible
  /\ UNCHANGED <<settings, tick, pc, sample, monitor, msg, told, history, left>>

Probe ==
  /\ pc = "wait" /\ tick = "yes"
  /\ tick' = "no"
  /\ sample' = Verdict(world)
  /\ pc' = "check"
  /\ UNCHANGED <<world, settings, monitor, msg, told, history, left>>
-----------------------------------------------------------------------------
(* Monitor.Check *)

Baseline == IF have = "yes" THEN last ELSE "ok"

(* A mutant: only leaving and reaching "ok" count. *)
Health == (sample = "ok") # (Baseline = "ok")
Changed == sample # Baseline

(* Mutants: a reminder at every sample; none at all. *)
Always == sample = Baseline /\ sample # "ok" /\ have = "yes"
Never == FALSE
Due ==
  /\ sample = Baseline /\ sample # "ok" /\ have = "yes"
  /\ sinceSent >= Reminder

(* A mutant: every change of the state starts a new incident. *)
AnyChange == sample # "ok" /\ sample # Baseline
Breaks == Baseline = "ok" /\ sample # "ok" /\ timing = "off"

Kind == IF Due THEN "reminder" ELSE IF sample = "ok" THEN "recovery" ELSE "change"
Downtime == IF Breaks THEN 0 ELSE outage
Attempt == (Changed \/ Due) /\ On(settings)

Observe ==
  /\ last' = sample /\ have' = "yes"
  /\ sinceSent' = IF Changed \/ Due THEN 0 ELSE sinceSent
  /\ timing' = IF sample = "ok" THEN "off" ELSE IF Breaks THEN "on" ELSE timing
  /\ outage' = Downtime

Remember ==
  /\ incident' = IF sample = "ok" THEN [on |-> "no", age |-> 0]
                 ELSE IF incident.on = "no" THEN [on |-> "yes", age |-> 0]
                 ELSE incident
  /\ quiet' = IF Attempt THEN 0 ELSE quiet
  /\ same' = IF Attempt THEN "yes" ELSE IF sample # msg.overall THEN "no" ELSE same
  /\ disturbed' = IF (Changed \/ Due) /\ ~On(settings) THEN "yes" ELSE disturbed

Check ==
  /\ pc = "check"
  /\ Observe /\ Remember
  /\ pc' = IF Attempt THEN "send" ELSE "wait"
  /\ msg' = IF Attempt THEN [overall |-> sample, kind |-> Kind, downtime |-> Downtime,
                              to |-> settings.url]
            ELSE msg
  /\ UNCHANGED <<world, settings, tick, sample, told, left>>

(* Discord takes the message, whether or not its answer is received. *)
Arrives ==
  /\ pc = "send" /\ msg.to = "webhook"
  /\ told' = msg.overall
  /\ disturbed' = "no"
  /\ pc' = "wait"
  /\ UNCHANGED <<world, settings, tick, sample, monitor, msg, incident, quiet, same,
                 left>>

(* It does not, or the URL is none a request can be made for: that is      *)
(* logged, and the message is not sent again.                              *)
Fails ==
  /\ pc = "send"
  /\ \/ left.fails > 0 /\ left' = [left EXCEPT !.fails = @ - 1]
     \/ msg.to # "webhook" /\ left' = left
  /\ disturbed' = "yes"
  /\ pc' = "wait"
  /\ UNCHANGED <<world, settings, tick, sample, monitor, msg, told, incident, quiet,
                 same>>
-----------------------------------------------------------------------------
Edited(f) ==
  /\ left.edits > 0
  /\ left' = [left EXCEPT !.edits = @ - 1]
  /\ settings' = f
  /\ UNCHANGED <<world, tick, pc, sample, monitor, msg, told, history>>

Kept == IF settings.state = "config" THEN settings.url ELSE "none"

(* A mutant: the URL is not looked at. *)
AnyUrl(enabled, url) == enabled = "yes" => url # "none"
Acceptable(enabled, url) == enabled = "yes" => url \in Shaped

(* A save may leave out the URL, which keeps the stored one. *)
SaveSettings ==
  \E enabled \in {"yes", "no"}, url \in Url \cup {Kept} :
    /\ Acceptable(enabled, url)
    /\ Edited(Config(enabled, url))

(* The file is removed, or damaged, by hand. *)
LoseSettings == \E f \in {NoSettings, Broken} : Edited(f)

(* The admin process starts over: the Monitor and a message under way are  *)
(* lost.                                                                   *)
Restart ==
  /\ left.restarts > 0
  /\ left' = [left EXCEPT !.restarts = @ - 1]
  /\ tick' = "yes" /\ pc' = "wait" /\ sample' = "ok"
  /\ have' = "no" /\ last' = "ok" /\ sinceSent' = 0
  /\ timing' = "off" /\ outage' = 0
  /\ incident' = [on |-> "no", age |-> 0]
  /\ same' = "no" /\ disturbed' = "yes"
  /\ UNCHANGED <<world, settings, msg, told, quiet>>

Next == \/ Tick \/ Turn \/ Probe \/ Check \/ Arrives \/ Fails
        \/ SaveSettings \/ LoseSettings \/ Restart

Spec == Init /\ [][Next]_vars

(* Time passes, the loop is a goroutine of its own, every probe and every  *)
(* post has a timeout.                                                     *)
Fairness == WF_vars(Tick) /\ WF_vars(Probe) /\ WF_vars(Check)
            /\ WF_vars(Arrives \/ Fails)
FairSpec == Spec /\ Fairness
-----------------------------------------------------------------------------
(* Type correctness; an enabled alerts file has a usable URL. *)
TypeOK ==
  /\ world \in Possible /\ settings \in Settings
  /\ tick \in {"yes", "no"} /\ pc \in {"wait", "check", "send"}
  /\ sample \in Overall
  /\ have \in {"yes", "no"} /\ last \in Overall
  /\ sinceSent \in 0 .. Reminder
  /\ timing \in {"on", "off"} /\ outage \in 0 .. Longest
  /\ msg \in Message /\ told \in Overall \cup {"none"}
  /\ incident \in [on : {"yes", "no"}, age : 0 .. Longest]
  /\ quiet \in 0 .. Reminder /\ same \in {"yes", "no"} /\ disturbed \in {"yes", "no"}
  /\ left \in [fails : Nat, restarts : Nat, edits : Nat]

(* The last message on Discord says what the Monitor last saw, unless an   *)
(* announcement was lost since: one that failed, one that fell into a time *)
(* of disabled alerts, or the Monitor's memory.                            *)
ChannelInStep ==
  disturbed = "no" /\ pc # "send" =>
    told = Baseline \/ (told = "none" /\ Baseline = "ok")

(* A reminder and a recovery state the time since the first bad sample of  *)
(* the whole incident, whatever it went through in between.                *)
DowntimeIsWhole ==
  [][pc = "check" /\ pc' = "send" /\ msg'.kind \in {"recovery", "reminder"} =>
       incident.on = "yes" /\ msg'.downtime = incident.age]_vars

(* One running admin process repeats an announcement only after the        *)
(* reminder interval, or after it saw another state in between.            *)
NoSpam ==
  [][pc = "check" /\ pc' = "send" /\ same = "yes" /\ msg'.overall = msg.overall =>
       quiet >= Reminder]_vars

(* A trouble that lasts is on Discord in the end and stays there, whatever *)
(* messages were lost and however often the process was restarted, if      *)
(* alerting is on and its URL is not padded.                               *)
TroubleIsTold ==
  \A v \in {"degraded", "down"} :
    <>[](Verdict(world) = v /\ On(settings) /\ settings.url = "webhook")
      => <>[](told = v)
=============================================================================
