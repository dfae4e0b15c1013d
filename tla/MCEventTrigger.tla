--------------------------- MODULE MCEventTrigger ---------------------------
(* Small instances of EventTrigger for TLC. *)
EXTENDS EventTrigger

CONSTANTS f, g, none, v, w, c, d

TriggerOf(mode, health, policy, comp, want) ==
  [mode |-> mode, health |-> health, policy |-> policy, comp |-> comp, want |-> want]

\* A trigger for an OCI event, the same after an edit of its condition, and
\* the same made to route FunctionEvents.
EditedSpecs ==
  { TriggerOf("oci", "ok", "Delete", c, v), TriggerOf("oci", "ok", "Retain", c, w),
    TriggerOf("functionevent", "ok", "Delete", c, v) }

\* A trigger that is rejected as well, before or after it got its finalizer.
AllSpecs == EditedSpecs \union
  { TriggerOf("mixed", "ok", "Delete", c, v), TriggerOf("oci", "badCondition", "Delete", c, v) }

\* A trigger that is moved to another compartment.
TwoCompartments ==
  { TriggerOf("oci", "ok", "Delete", c, v), TriggerOf("oci", "ok", "Delete", d, w) }

\* Any of these edits.
EverySpec == AllSpecs \union TwoCompartments

\* A trigger that is never edited.
OneSpec == { TriggerOf("oci", "ok", "Delete", c, v) }
=============================================================================
