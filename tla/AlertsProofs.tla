------------------------------ MODULE AlertsProofs ------------------------------
(***************************************************************************)
(* Proofs about the alert loop: its types, what the channel says, that the *)
(* stated downtime is that of the whole incident, and that announcements   *)
(* are not repeated too soon.  All follow from one inductive invariant.    *)
(***************************************************************************)
EXTENDS Alerts, TLAPS

(* The Monitor times an incident exactly while it last saw one, from its   *)
(* first bad sample.                                                       *)
Timed ==
  /\ timing = "on" <=> have = "yes" /\ last # "ok"
  /\ incident.on = "yes" <=> timing = "on"
  /\ timing = "on" => outage = incident.age

(* Since the last message under which only its own state was seen, the     *)
(* Monitor's clock of announcements is not ahead of the true one.          *)
Paced == same = "yes" => have = "yes" /\ last = msg.overall /\ sinceSent <= quiet

(* What is being sent is what was last seen. *)
Current == pc = "send" => have = "yes" /\ last = msg.overall

IInv == TypeOK /\ Timed /\ Paced /\ Current /\ ChannelInStep

(* The verdict is one of the three states. *)
LEMMA VerdictIn == \A st : Verdict(st) \in Overall
BY DEF Verdict, Overall

(* An age stays within its bound, and the order of two ages is kept. *)
LEMMA OlderFacts ==
  ASSUME NEW b \in Nat, NEW x \in 0 .. b, NEW y \in 0 .. b
  PROVE  /\ Older(x, b) \in 0 .. b
         /\ x <= y => Older(x, b) <= Older(y, b)
BY DEF Older

(* A file with a configuration has one of the four kinds of URL. *)
LEMMA UrlFacts == \A f \in Settings : f.url \in Url
BY DEF Settings, NoSettings, Broken, Config, Url, Shaped

(* The invariant holds at the start. *)
LEMMA InitInv == Init => IInv
<1> SUFFICES ASSUME Init PROVE IInv
  OBVIOUS
<1> USE StatusAssumption, BoundAssumption
<1>1. TypeOK
  <2>1. settings \in Settings
    BY DEF Init, Settings, Shaped
  <2>2. msg \in Message
    BY DEF Init, NoMessage, Message, Overall, Url
  <2> QED
    BY <2>1, <2>2 DEF Init, TypeOK, Overall
<1>2. Timed /\ Paced /\ Current
  BY DEF Init, Timed, Paced, Current
<1>3. ChannelInStep
  BY DEF Init, ChannelInStep, Baseline
<1> QED
  BY <1>1, <1>2, <1>3 DEF IInv

(* What Check leaves behind, its message included. *)
LEMMA CheckFacts ==
  ASSUME IInv, Check
  PROVE  /\ TypeOK' /\ Timed' /\ Paced' /\ Current' /\ ChannelInStep'
<1> USE StatusAssumption, BoundAssumption
<1>1. /\ sample \in Overall /\ last \in Overall
      /\ msg \in Message /\ msg.overall \in Overall
      /\ sinceSent \in 0 .. Reminder /\ quiet \in 0 .. Reminder
      /\ outage \in 0 .. Longest /\ 0 \in 0 .. Longest /\ 0 \in 0 .. Reminder
      /\ incident \in [on : {"yes", "no"}, age : 0 .. Longest]
      /\ have \in {"yes", "no"} /\ timing \in {"on", "off"}
      /\ same \in {"yes", "no"} /\ disturbed \in {"yes", "no"}
  BY DEF IInv, TypeOK, Message
<1>2. Downtime \in 0 .. Longest
  BY <1>1 DEF Downtime
<1>3. Kind \in {"change", "recovery", "reminder"}
  BY DEF Kind
<1>4. msg' \in Message /\ (Attempt => msg'.overall = sample)
  <2>1. CASE Attempt
    <3>1. msg' = [overall |-> sample, kind |-> Kind, downtime |-> Downtime,
                  to |-> settings.url]
      BY <2>1 DEF Check
    <3>2. settings.url \in Url
      BY UrlFacts DEF IInv, TypeOK
    <3> QED
      BY <3>1, <3>2, <1>1, <1>2, <1>3 DEF Message
  <2>2. CASE ~Attempt
    BY <2>2, <1>1 DEF Check
  <2> QED
    BY <2>1, <2>2
<1>5. /\ last' = sample /\ have' = "yes"
      /\ sinceSent' = IF Changed \/ Due THEN 0 ELSE sinceSent
      /\ timing' = IF sample = "ok" THEN "off" ELSE IF Breaks THEN "on" ELSE timing
      /\ outage' = Downtime
  BY DEF Check, Observe
<1>6. /\ incident' = IF sample = "ok" THEN [on |-> "no", age |-> 0]
                     ELSE IF incident.on = "no" THEN [on |-> "yes", age |-> 0]
                     ELSE incident
      /\ quiet' = IF Attempt THEN 0 ELSE quiet
      /\ same' = IF Attempt THEN "yes" ELSE IF sample # msg.overall THEN "no" ELSE same
      /\ disturbed' = IF (Changed \/ Due) /\ ~On(settings) THEN "yes" ELSE disturbed
  BY DEF Check, Remember
<1>7. incident' \in [on : {"yes", "no"}, age : 0 .. Longest]
  BY <1>1, <1>6
<1>8. TypeOK'
  <2>1. pc' \in {"wait", "check", "send"}
    BY DEF Check
  <2>2. sinceSent' \in 0 .. Reminder /\ quiet' \in 0 .. Reminder
    BY <1>1, <1>5, <1>6
  <2>3. outage' \in 0 .. Longest /\ timing' \in {"on", "off"}
    BY <1>1, <1>2, <1>5
  <2>4. same' \in {"yes", "no"} /\ disturbed' \in {"yes", "no"}
    BY <1>1, <1>6
  <2>5. UNCHANGED <<world, settings, tick, sample, told, left>>
    BY DEF Check
  <2> QED
    BY <1>1, <1>4, <1>5, <1>7, <2>1, <2>2, <2>3, <2>4, <2>5 DEF IInv, TypeOK
<1>9. Timed'
  <2>1. Timed
    BY DEF IInv
  <2>2. CASE sample = "ok"
    BY <2>2, <1>5, <1>6 DEF Timed
  <2>3. CASE sample # "ok" /\ timing = "on"
    <3>1. have = "yes" /\ last # "ok" /\ incident.on = "yes" /\ outage = incident.age
      BY <2>1, <2>3 DEF Timed
    <3>2. ~Breaks
      BY <2>3 DEF Breaks
    <3> QED
      BY <3>1, <3>2, <2>3, <1>5, <1>6 DEF Timed, Downtime
  <2>4. CASE sample # "ok" /\ timing = "off"
    <3>1. Baseline = "ok" /\ incident.on = "no"
      BY <2>1, <2>4, <1>1 DEF Timed, Baseline
    <3>2. Breaks
      BY <3>1, <2>4 DEF Breaks
    <3> QED
      BY <3>1, <3>2, <2>4, <1>5, <1>6 DEF Timed, Downtime
  <2> QED
    BY <2>2, <2>3, <2>4, <1>1
<1>10. Paced'
  <2>1. CASE Attempt
    BY <2>1, <1>1, <1>4, <1>5, <1>6 DEF Paced, Attempt
  <2>2. CASE ~Attempt
    <3>1. msg' = msg
      BY <2>2 DEF Check
    <3>2. Paced
      BY DEF IInv
    <3> QED
      BY <2>2, <3>1, <3>2, <1>1, <1>5, <1>6 DEF Paced
  <2> QED
    BY <2>1, <2>2
<1>11. Current'
  BY <1>4, <1>5 DEF Check, Current
<1>12. ChannelInStep'
  <2>1. CASE Attempt
    BY <2>1 DEF Check, ChannelInStep
  <2>2. CASE ~Attempt /\ (Changed \/ Due)
    BY <2>2, <1>6 DEF Attempt, ChannelInStep
  <2>3. CASE ~Attempt /\ ~Changed /\ ~Due
    <3>1. Baseline' = Baseline
      BY <2>3, <1>5 DEF Changed, Baseline
    <3>2. told' = told /\ pc # "send" /\ disturbed' = disturbed
      BY <2>3, <1>6 DEF Check
    <3> QED
      BY <3>1, <3>2 DEF IInv, ChannelInStep
  <2> QED
    BY <2>1, <2>2, <2>3
<1> QED
  BY <1>8, <1>9, <1>10, <1>11, <1>12

(* A minute that passes. *)
LEMMA TickInv ==
  ASSUME IInv, Tick
  PROVE  IInv'
<1> USE BoundAssumption
<1>1. /\ sinceSent \in 0 .. Reminder /\ quiet \in 0 .. Reminder
      /\ outage \in 0 .. Longest /\ incident.age \in 0 .. Longest
      /\ incident \in [on : {"yes", "no"}, age : 0 .. Longest]
  BY DEF IInv, TypeOK
<1>2. /\ Older(sinceSent, Reminder) \in 0 .. Reminder
      /\ Older(quiet, Reminder) \in 0 .. Reminder
      /\ sinceSent <= quiet => Older(sinceSent, Reminder) <= Older(quiet, Reminder)
  BY <1>1, OlderFacts
<1>3. /\ Older(outage, Longest) \in 0 .. Longest
      /\ Older(incident.age, Longest) \in 0 .. Longest
  BY <1>1, OlderFacts
<1>4. /\ sinceSent' = Older(sinceSent, Reminder) /\ quiet' = Older(quiet, Reminder)
      /\ outage' = Older(outage, Longest)
      /\ incident'.age = Older(incident.age, Longest) /\ incident'.on = incident.on
      /\ incident' \in [on : {"yes", "no"}, age : 0 .. Longest]
  BY <1>1, <1>3 DEF Tick
<1>5. UNCHANGED <<world, settings, pc, sample, have, last, timing, msg, told, same,
                  disturbed, left>> /\ tick' = "yes"
  BY DEF Tick
<1>6. TypeOK'
  BY <1>2, <1>3, <1>4, <1>5 DEF IInv, TypeOK
<1>7. Timed'
  BY <1>4, <1>5 DEF IInv, Timed
<1>8. Paced'
  BY <1>2, <1>4, <1>5 DEF IInv, Paced
<1>9. Current' /\ ChannelInStep'
  BY <1>5 DEF IInv, Current, ChannelInStep, Baseline
<1> QED
  BY <1>6, <1>7, <1>8, <1>9 DEF IInv

(* Everything that leaves the Monitor and what it is compared with alone,  *)
(* and starts no message.                                                  *)
LEMMA ElsewhereInv ==
  ASSUME IInv, TypeOK',
         UNCHANGED <<monitor, history, msg, told>>, pc' = "send" <=> pc = "send"
  PROVE  IInv'
<1>1. Timed' /\ Paced'
  BY DEF IInv, Timed, Paced, monitor, history
<1>2. Current' /\ ChannelInStep'
  BY DEF IInv, Current, ChannelInStep, Baseline, monitor, history
<1> QED
  BY <1>1, <1>2 DEF IInv

(* A change of the settings. *)
LEMMA EditedInv ==
  ASSUME IInv, NEW f \in Settings, Edited(f)
  PROVE  IInv'
<1>1. UNCHANGED <<world, tick, pc, sample, monitor, msg, told, history>>
  BY DEF Edited
<1>2. left' \in [fails : Nat, restarts : Nat, edits : Nat]
  BY DEF Edited, IInv, TypeOK
<1>3. TypeOK'
  BY <1>1, <1>2 DEF Edited, IInv, TypeOK, monitor, history
<1> QED
  BY <1>1, <1>3, ElsewhereInv

(* What a save may write is a configuration a file may have. *)
LEMMA AcceptableFits ==
  ASSUME IInv, NEW enabled \in {"yes", "no"}, NEW url \in Url \cup {Kept},
         Acceptable(enabled, url)
  PROVE  Config(enabled, url) \in Settings
<1>1. Kept \in Url
  <2>1. settings \in Settings
    BY DEF IInv, TypeOK
  <2> QED
    BY <2>1, UrlFacts DEF Kept, Url
<1> QED
  BY <1>1 DEF Acceptable, Settings

(* A new process knows nothing, and nothing is claimed of it. *)
LEMMA RestartInv ==
  ASSUME IInv, Restart
  PROVE  IInv'
<1> USE BoundAssumption
<1>1. left' \in [fails : Nat, restarts : Nat, edits : Nat]
  BY DEF Restart, IInv, TypeOK
<1>2. TypeOK'
  BY <1>1 DEF Restart, IInv, TypeOK, Overall
<1>3. Timed' /\ Paced' /\ Current' /\ ChannelInStep'
  BY DEF Restart, Timed, Paced, Current, ChannelInStep
<1> QED
  BY <1>2, <1>3 DEF IInv

(* The message has been sent. *)
LEMMA SentInv ==
  ASSUME IInv, Arrives \/ Fails
  PROVE  IInv'
<1>1. UNCHANGED <<monitor, msg, incident, quiet, same>> /\ pc = "send" /\ pc' = "wait"
  BY DEF Arrives, Fails
<1>2. TypeOK'
  <2>1. CASE Arrives
    BY <2>1 DEF Arrives, IInv, TypeOK, monitor, Message
  <2>2. CASE Fails
    <3>1. left' \in [fails : Nat, restarts : Nat, edits : Nat]
      BY <2>2 DEF Fails, IInv, TypeOK
    <3> QED
      BY <2>2, <3>1 DEF Fails, IInv, TypeOK, monitor
  <2> QED
    BY <2>1, <2>2
<1>3. Timed' /\ Paced' /\ Current'
  BY <1>1 DEF IInv, Timed, Paced, Current, monitor
<1>4. ChannelInStep'
  <2>1. CASE Arrives
    BY <2>1 DEF Arrives, IInv, Current, ChannelInStep, Baseline, monitor
  <2>2. CASE Fails
    BY <2>2 DEF Fails, ChannelInStep
  <2> QED
    BY <2>1, <2>2
<1> QED
  BY <1>2, <1>3, <1>4 DEF IInv

(* Every step preserves the invariant. *)
LEMMA StepInv == IInv /\ [Next]_vars => IInv'
<1> SUFFICES ASSUME IInv, [Next]_vars PROVE IInv'
  OBVIOUS
<1>1. CASE Tick
  BY <1>1, TickInv
<1>2. CASE Turn
  <2>1. TypeOK'
    BY <1>2 DEF Turn, IInv, TypeOK, monitor, history
  <2> QED
    BY <1>2, <2>1, ElsewhereInv DEF Turn
<1>3. CASE Probe
  <2>1. sample' \in Overall
    BY <1>3, VerdictIn DEF Probe
  <2>2. TypeOK'
    BY <1>3, <2>1 DEF Probe, IInv, TypeOK, monitor, history
  <2> QED
    BY <1>3, <2>2, ElsewhereInv DEF Probe
<1>4. CASE Check
  BY <1>4, CheckFacts DEF IInv
<1>5. CASE Arrives \/ Fails
  BY <1>5, SentInv
<1>6. CASE SaveSettings
  BY <1>6, AcceptableFits, EditedInv DEF SaveSettings
<1>7. CASE LoseSettings
  <2>1. NoSettings \in Settings /\ Broken \in Settings
    BY DEF Settings
  <2> QED
    BY <1>7, <2>1, EditedInv DEF LoseSettings
<1>8. CASE Restart
  BY <1>8, RestartInv
<1>9. CASE UNCHANGED vars
  <2>1. TypeOK'
    BY <1>9 DEF vars, IInv, TypeOK, monitor, history
  <2> QED
    BY <1>9, <2>1, ElsewhereInv DEF vars
<1> QED
  BY <1>1, <1>2, <1>3, <1>4, <1>5, <1>6, <1>7, <1>8, <1>9 DEF Next

(* The invariant always holds: in every state the Monitor's own record of  *)
(* the incident and of its last announcement agrees with the true one.     *)
THEOREM AlertsInvariant == Spec => []IInv
  BY InitInv, StepInv, PTL DEF Spec

(* Every variable keeps its type; no settings with alerting on but without *)
(* a URL of Discord's shape are ever stored.                               *)
THEOREM AlertsTypes == Spec => []TypeOK
<1>1. IInv => TypeOK
  BY DEF IInv
<1> QED
  BY <1>1, AlertsInvariant, PTL

(* The last message on Discord says what the Monitor last saw, unless an   *)
(* announcement was lost since (Monitor.Check, Notifier.Send).             *)
THEOREM ChannelAgrees == Spec => []ChannelInStep
<1>1. IInv => ChannelInStep
  BY DEF IInv
<1> QED
  BY <1>1, AlertsInvariant, PTL

(* Only Check starts a message, and the message is the one it builds. *)
LEMMA OnlyCheckSends ==
  ASSUME IInv, [Next]_vars, pc = "check", pc' = "send"
  PROVE  Check /\ Attempt /\ msg' = [overall |-> sample, kind |-> Kind,
                                     downtime |-> Downtime, to |-> settings.url]
<1>1. Check
  BY DEF Next, Tick, Turn, Probe, Arrives, Fails, SaveSettings, LoseSettings, Edited,
         Restart, vars
<1> QED
  BY <1>1 DEF Check

(* A reminder and a recovery state the time since the first bad sample of  *)
(* the incident, through every change of its severity (unhealthySince).    *)
THEOREM WholeDowntime == Spec => DowntimeIsWhole
<1>1. IInv /\ [Next]_vars =>
        (pc = "check" /\ pc' = "send" /\ msg'.kind \in {"recovery", "reminder"} =>
           incident.on = "yes" /\ msg'.downtime = incident.age)
  <2> SUFFICES ASSUME IInv, [Next]_vars, pc = "check", pc' = "send",
                      msg'.kind \in {"recovery", "reminder"}
               PROVE  incident.on = "yes" /\ msg'.downtime = incident.age
    OBVIOUS
  <2>1. Attempt /\ msg'.kind = Kind /\ msg'.downtime = Downtime
    BY OnlyCheckSends
  <2>2. have = "yes" /\ last # "ok"
    <3>1. CASE Due
      BY <3>1 DEF Due, Baseline
    <3>2. CASE ~Due
      <4>1. sample = "ok"
        BY <3>2, <2>1 DEF Kind
      <4>2. Baseline # "ok"
        BY <3>2, <2>1, <4>1 DEF Attempt, Changed
      <4> QED
        BY <4>2 DEF Baseline
    <3> QED
      BY <3>1, <3>2
  <2>3. timing = "on" /\ incident.on = "yes" /\ outage = incident.age
    BY <2>2 DEF IInv, Timed
  <2>4. ~Breaks
    BY <2>3 DEF Breaks
  <2> QED
    BY <2>1, <2>3, <2>4 DEF Downtime
<1> QED
  BY <1>1, AlertsInvariant, PTL DEF Spec, DowntimeIsWhole

(* Within one run of the admin process an announcement is repeated only    *)
(* after the reminder interval or another state (lastSentAt).              *)
THEOREM Unobtrusive == Spec => NoSpam
<1>1. IInv /\ [Next]_vars =>
        (pc = "check" /\ pc' = "send" /\ same = "yes" /\ msg'.overall = msg.overall =>
           quiet >= Reminder)
  <2> SUFFICES ASSUME IInv, [Next]_vars, pc = "check", pc' = "send", same = "yes",
                      msg'.overall = msg.overall
               PROVE  quiet >= Reminder
    OBVIOUS
  <2>1. Attempt /\ msg'.overall = sample
    BY OnlyCheckSends
  <2>2. have = "yes" /\ last = msg.overall /\ sinceSent <= quiet
    BY DEF IInv, Paced
  <2>3. ~Changed
    BY <2>1, <2>2 DEF Changed, Baseline
  <2>4. sinceSent >= Reminder
    BY <2>1, <2>3 DEF Attempt, Due
  <2>5. sinceSent \in Nat /\ quiet \in Nat
    BY BoundAssumption DEF IInv, TypeOK
  <2> QED
    BY <2>2, <2>4, <2>5, BoundAssumption
<1> QED
  BY <1>1, AlertsInvariant, PTL DEF Spec, NoSpam
-----------------------------------------------------------------------------
(* Of TroubleIsTold, what single steps show: when a check of a trouble says *)
(* nothing although alerts are on, the channel says it already, or the     *)
(* trouble was due to be announced less than a reminder interval ago and   *)
(* a message was lost.                                                     *)
SilenceExplained ==
  Check /\ pc' = "wait" /\ sample # "ok" /\ On(settings) =>
    \/ disturbed = "no" /\ told = sample
    \/ disturbed = "yes" /\ have = "yes" /\ last = sample /\ sinceSent < Reminder

(* What the channel says changes only to what the Monitor last saw. *)
ToldIsSeen == told' # told => pc = "send" /\ have = "yes" /\ told' = last

(* A check that says nothing leaves the Monitor's clock running: as long as *)
(* the trouble lasts and alerts are on, its age only grows until it is     *)
(* announced.                                                              *)
SilenceRunsOut ==
  Check /\ pc' = "wait" /\ sample # "ok" /\ On(settings) =>
    have' = "yes" /\ last' = sample /\ sinceSent' = sinceSent

(* The safety half of TroubleIsTold: no check is silent about a trouble    *)
(* without a reason that passes by itself, silence does not put off the    *)
(* reminder, and nothing else than a report of what was seen replaces what *)
(* the channel says (Monitor.Check, alertLoop).                            *)
THEOREM SilenceIsShort ==
  Spec => [][SilenceExplained /\ ToldIsSeen /\ SilenceRunsOut]_vars
<1>1. ASSUME IInv, Check, pc' = "wait", sample # "ok", On(settings)
      PROVE  /\ sample = last /\ have = "yes" /\ ~(sinceSent >= Reminder)
             /\ have' = "yes" /\ last' = sample /\ sinceSent' = sinceSent
  <2>1. ~Changed /\ ~Due
    BY <1>1 DEF Check, Attempt
  <2>2. sample = last /\ have = "yes"
    BY <1>1, <2>1 DEF Changed, Baseline
  <2>3. ~(sinceSent >= Reminder)
    BY <1>1, <2>1, <2>2 DEF Due, Changed
  <2>4. have' = "yes" /\ last' = sample /\ sinceSent' = sinceSent
    BY <1>1, <2>1 DEF Check, Observe
  <2> QED
    BY <2>2, <2>3, <2>4
<1>2. IInv => SilenceExplained
  <2> SUFFICES ASSUME IInv, Check, pc' = "wait", sample # "ok", On(settings)
               PROVE  \/ disturbed = "no" /\ told = sample
                      \/ disturbed = "yes" /\ have = "yes" /\ last = sample
                         /\ sinceSent < Reminder
    BY DEF SilenceExplained
  <2>1. sample = last /\ have = "yes" /\ ~(sinceSent >= Reminder)
    BY <1>1
  <2>2. sinceSent < Reminder
    BY <2>1, BoundAssumption DEF IInv, TypeOK
  <2>3. disturbed = "no" => told = sample
    BY <2>1 DEF IInv, ChannelInStep, Baseline, Check
  <2> QED
    BY <2>1, <2>2, <2>3 DEF IInv, TypeOK
<1>3. IInv => SilenceRunsOut
  BY <1>1 DEF SilenceRunsOut
<1>4. IInv /\ [Next]_vars => ToldIsSeen
  <2> SUFFICES ASSUME IInv, [Next]_vars, told' # told
               PROVE  pc = "send" /\ have = "yes" /\ told' = last
    BY DEF ToldIsSeen
  <2>1. Arrives
    BY DEF Next, Tick, Turn, Probe, Check, Fails, SaveSettings, LoseSettings, Edited,
           Restart, vars
  <2> QED
    BY <2>1 DEF Arrives, IInv, Current
<1> QED
  BY <1>2, <1>3, <1>4, AlertsInvariant, PTL DEF Spec
=============================================================================
