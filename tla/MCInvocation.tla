---------------------------- MODULE MCInvocation ----------------------------
(* A small instance of Invocation for TLC. *)
EXTENDS Invocation

AllTargets == Target
=============================================================================
