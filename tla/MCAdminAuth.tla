----------------------------- MODULE MCAdminAuth -----------------------------
(***************************************************************************)
(* Any three operations of any kinds, at the same time.                    *)
(***************************************************************************)
EXTENDS AdminAuth, TLC

Anyone == Permutations(Op)

\* What an operation that has ended had read is of no consequence, and neither is
\* what it knew unless it left a session: states that differ in nothing else are
\* explored once.
Relevant ==
  <<file, damaged, pc, session, clock, accepted, proven,
    [o \in Op |-> IF Running(o) THEN <<kind[o], copy[o]>> ELSE None],
    [o \in Op |-> IF pc[o] = "end" /\ session[o] = None
                  THEN None ELSE <<knows[o], o \in disturbed>>]>>
=============================================================================
