-------------------------- MODULE MCSessionLifecycle --------------------------
(* Model values and symmetry for SessionLifecycle. *)
EXTENDS SessionLifecycle, TLC

CallSymmetry == Permutations(Calls)
=============================================================================
