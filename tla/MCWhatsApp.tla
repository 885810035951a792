------------------------------ MODULE MCWhatsApp ------------------------------
(* Senders, requests and devices are interchangeable. *)
EXTENDS WhatsApp, TLC

Anyone == Permutations(Device) \cup Permutations(Sender) \cup Permutations(Request)
=============================================================================
