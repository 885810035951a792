----------------------------- MODULE AckedQueue -----------------------------
(***************************************************************************)
(* What a durable queue of acknowledged messages promises (the package     *)
(* comment of internal/pending), without goroutines, files or crashes: a   *)
(* message is owed from its record on, it is promised only when it is owed *)
(* or there is nothing left to do for it, and it stops being owed only     *)
(* when it is closed.  It promises less of a message of which two records  *)
(* were made at once: that one may stop being owed at any time.            *)
(***************************************************************************)
CONSTANT Messages

VARIABLES
  owed,      \* messages a restart would find
  promised,  \* messages acknowledged to the sender's side
  closed,    \* messages answered, refused, or never recordable
  risky      \* messages of which two records were made at once

vars == <<owed, promised, closed, risky>>

Init == owed = {} /\ promised = {} /\ closed = {} /\ risky = {}

Record(m) == owed' = owed \cup {m} /\ UNCHANGED <<promised, closed, risky>>

Risk(m) == risky' = risky \cup {m} /\ UNCHANGED <<owed, promised, closed>>

Lose(m) ==
  /\ m \in risky
  /\ owed' = owed \ {m}
  /\ UNCHANGED <<promised, closed, risky>>

Promise(m) ==
  /\ m \in owed \cup closed \cup risky
  /\ promised' = promised \cup {m}
  /\ UNCHANGED <<owed, closed, risky>>

\* Closing a message and releasing it may be one step (a refusal).
Close(m) ==
  /\ closed' = closed \cup {m}
  /\ owed' \in {owed, owed \ {m}}
  /\ UNCHANGED <<promised, risky>>

Next ==
  \E m \in Messages : Record(m) \/ Risk(m) \/ Lose(m) \/ Promise(m) \/ Close(m)

Spec == Init /\ [][Next]_vars

\* Nothing promised is lost but what was recorded twice at once.
NothingLost == promised \subseteq owed \cup closed \cup risky

=============================================================================
