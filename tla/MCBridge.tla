------------------------------ MODULE MCBridge ------------------------------
(***************************************************************************)
(* Small instances of Bridge for TLC.                                      *)
(***************************************************************************)
EXTENDS Bridge, TLC

CONSTANTS m1, m2, g, d, ana

\* Two messages of one person, in a group or in a direct chat.
OneGroup == [m \in Messages |-> g]
DirectChat == [m \in Messages |-> d]
OneMember == [m \in Messages |-> ana]

\* gowa posts the first message twice, the second once.
FirstTwice == [m \in Messages |-> IF m = m1 THEN 2 ELSE 1]
Once == [m \in Messages |-> 1]

\* Budgets that hold the named faults and no others.
Only(n) == [f \in Fault |-> IF f \in DOMAIN n THEN n[f] ELSE 0]

\* A crash with a fault of any kind, or both sends of a quoted reply.
Pairs == {Only([crash |-> 2]), Only([send |-> 2])}
         \cup {Only("crash" :> 1 @@ f :> 1) : f \in {"send", "disk", "policy"}}

\* For the liveness run: the disk works and the policy stays as it is.
CrashesAndSend == {Only([crash |-> 2]), Only([crash |-> 1, send |-> 1])}

\* For the runs that show one disagreement each.
OneSend == {Only([send |-> 1])}
OneCrash == {Only([crash |-> 1])}
=============================================================================
