-------------------------- MODULE MCFunctionEvent --------------------------
(* Small instances of FunctionEvent for TLC. *)
EXTENDS FunctionEvent

CONSTANTS e, f, o

\* An event that is edited from one type with a TTL to another without.
TwoEvents == { [type |-> e, ttl |-> TRUE], [type |-> f, ttl |-> FALSE] }

\* A trigger for e, and the same disabled.
SwitchedTriggers ==
  { [enabled |-> TRUE, types |-> {e}], [enabled |-> FALSE, types |-> {e}] }

Numbers == 1 .. 2
=============================================================================
