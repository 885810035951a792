----------------------------- MODULE MCLoginGate -----------------------------
(* Addresses and requests are interchangeable. *)
EXTENDS LoginGate, TLC

Anyone == Permutations(Client) \cup Permutations(Attempt)
=============================================================================
