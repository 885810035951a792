------------------------------- MODULE MCAlerts -------------------------------
(* A small instance: a sound stack and one of each kind of trouble. *)
EXTENDS Alerts

Sound == [bridge |-> "active", whatsapp |-> "connected", containers |-> "up",
          claude |-> "signed in", queue |-> "moving"]
MCPossible == {Sound, [Sound EXCEPT !.whatsapp = "disconnected"],
               [Sound EXCEPT !.bridge = "silent"]}
=============================================================================
