----------------------------- MODULE PolicyGate -----------------------------
(***************************************************************************)
(* What the bridge's handler relies on when it asks the access Store: that *)
(* the policy is one thing which changes at an instant, and that a message *)
(* takes it at one instant between its arrival and its verdict.  There is  *)
(* no file, no cache, no mutex and no second process here.                 *)
(***************************************************************************)
CONSTANTS
  Message,        \* the webhooks that are handled at a time
  Incoming,       \* what a webhook may carry
  Rulings(_, _)   \* the verdicts a policy may give on what a webhook carries

VARIABLES
  force,     \* the policies in force: a reader finds one of them
  stage,     \* how far the handling of each webhook is
  inc,       \* what it carries
  held,      \* the policy it took
  verdict    \* what became of it

vars == <<force, stage, inc, held, verdict>>

Init ==
  /\ stage = [t \in Message |-> "away"]
  /\ verdict = [t \in Message |-> "none"]

Change == UNCHANGED <<stage, inc, held, verdict>>

Arrive(t) ==
  /\ stage[t] = "away"
  /\ stage' = [stage EXCEPT ![t] = "here"]
  /\ \E m \in Incoming : inc' = [inc EXCEPT ![t] = m]
  /\ UNCHANGED <<force, held, verdict>>

Take(t) ==
  /\ stage[t] = "here"
  /\ stage' = [stage EXCEPT ![t] = "ready"]
  /\ \E c \in force : held' = [held EXCEPT ![t] = c]
  /\ UNCHANGED <<force, inc, verdict>>

Judge(t) ==
  /\ stage[t] = "ready"
  /\ stage' = [stage EXCEPT ![t] = "judged"]
  /\ \E v \in Rulings(held[t], inc[t]) : verdict' = [verdict EXCEPT ![t] = v]
  /\ UNCHANGED <<force, inc, held>>

\* The webhooks T are over, at whatever stage: what was known of them is gone.
Part(T) ==
  /\ stage' = [t \in Message |-> IF t \in T THEN "away" ELSE stage[t]]
  /\ verdict' = [t \in Message |-> IF t \in T THEN "none" ELSE verdict[t]]
  /\ \A t \in Message \ T : inc'[t] = inc[t] /\ held'[t] = held[t]
  /\ UNCHANGED force

Next ==
  \/ Change
  \/ \E t \in Message : Arrive(t) \/ Take(t) \/ Judge(t)
  \/ \E T \in SUBSET Message : Part(T)

Spec == Init /\ [][Next]_vars
=============================================================================
