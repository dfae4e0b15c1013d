--------------------------- MODULE AttemptPromise ---------------------------
(***************************************************************************)
(* What FunctionJob takes for granted of its attempts to invoke one        *)
(* payload: each is counted, OCI runs the function at most once for it and *)
(* maybe after the attempt was given up, and the payload counts as         *)
(* succeeded only with an attempt that OCI ran to its end.                 *)
(***************************************************************************)
EXTENDS Naturals

CONSTANT MaxAttempts

VARIABLES
  attempts,  \* attempts that are over
  ran,       \* attempts OCI ran the function for, to its end
  outcome    \* "open", "Succeeded" or "Failed"

vars == <<attempts, ran, outcome>>

Init == attempts = 0 /\ ran = {} /\ outcome = "open"

Run ==
  /\ \E k \in 1 .. attempts + 1 : ran' = ran \union {k}
  /\ UNCHANGED <<attempts, outcome>>

Attempt ==
  /\ outcome = "open" /\ attempts < MaxAttempts /\ attempts' = attempts + 1
  /\ \/ attempts' \in ran /\ outcome' = "Succeeded"
     \/ outcome' = IF attempts' = MaxAttempts THEN "Failed" ELSE "open"
  /\ UNCHANGED ran

Next == Run \/ Attempt

Spec == Init /\ [][Next]_vars
=============================================================================
