------------------------------- MODULE SendOnce -------------------------------
(***************************************************************************)
(* What the bridge's pipeline relies on when it has a text sent: one       *)
(* call brings the text into the chat at most once. What the call          *)
(* reports says nothing about arrival: "sent" means that gowa has taken    *)
(* the text (README.md:302), "failed" may be an answer that was lost.      *)
(***************************************************************************)
EXTENDS Naturals

CONSTANT Sender    \* the goroutines that send

VARIABLES
  call,        \* call[s]: what has become of the call s makes, or made last
  delivered    \* delivered[s]: how often the text of an open call has arrived

vars == <<call, delivered>>

Init ==
  /\ call = [s \in Sender |-> "idle"]
  /\ delivered = [s \in Sender |-> 0]

Call(s) ==
  /\ call[s] # "open"
  /\ call' = [call EXCEPT ![s] = "open"]
  /\ UNCHANGED delivered

Deliver(s) ==
  /\ call[s] = "open" /\ delivered[s] = 0
  /\ delivered' = [delivered EXCEPT ![s] = 1]
  /\ UNCHANGED call

Return(s) ==
  /\ call[s] = "open"
  /\ \E report \in {"sent", "failed"} : call' = [call EXCEPT ![s] = report]
  /\ delivered' = [delivered EXCEPT ![s] = 0]

\* The process that made the calls is gone.
Abandon ==
  /\ call' = [s \in Sender |-> "idle"]
  /\ delivered' = [s \in Sender |-> 0]

Next == Abandon \/ \E s \in Sender : Call(s) \/ Deliver(s) \/ Return(s)

Spec == Init /\ [][Next]_vars
=============================================================================
