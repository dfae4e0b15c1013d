---------------------------- MODULE JobPromise ----------------------------
(***************************************************************************)
(* What a FunctionJob promises its user, with no reconciler, cache or      *)
(* version in sight: every payload is delivered at least once before it is *)
(* recorded as done, what is recorded stays recorded while it is wanted,   *)
(* and the verdict is given once, Succeeded only for a complete record.    *)
(***************************************************************************)
CONSTANT Payloads

VARIABLES
  wanted,     \* the payloads the spec asks for
  delivered,  \* payloads that OCI has run and acknowledged
  recorded,   \* payloads the status records as succeeded
  verdict     \* "open", "Succeeded" or "Failed"

vars == <<wanted, delivered, recorded, verdict>>

Init ==
  /\ wanted \in SUBSET Payloads
  /\ delivered = {} /\ recorded = {} /\ verdict = "open"

\* Delivery may repeat: the promise is at least once.
Deliver ==
  /\ \E k \in Payloads : delivered' = delivered \union {k}
  /\ UNCHANGED <<wanted, recorded, verdict>>

Record ==
  /\ verdict = "open"
  /\ recorded' \in SUBSET delivered
  /\ recorded \intersect wanted \subseteq recorded'
  /\ \/ verdict' \in {"open", "Failed"}
     \/ wanted \subseteq recorded' /\ verdict' = "Succeeded"
  /\ UNCHANGED <<wanted, delivered>>

\* The user may change the spec at any time, also after the verdict.
Revise ==
  /\ wanted' \in SUBSET Payloads
  /\ UNCHANGED <<delivered, recorded, verdict>>

Next == Deliver \/ Record \/ Revise

Spec == Init /\ [][Next]_vars
=============================================================================
