----------------------------- MODULE MCReflection -----------------------------
(* Instances of Reflection for TLC: the daemon and one user, one persona. *)
EXTENDS Reflection

MCPool == <<"skeptical_self">>
=============================================================================
