------------------------ MODULE MCFunctionLifecycle ------------------------
(* Small instances of FunctionLifecycle for TLC. *)
EXTENDS FunctionLifecycle

CONSTANTS i, j, r, s

OfImage(p, im) == [mode |-> "Managed", policy |-> p, image |-> im, id |-> NoID]
OfID(f) == [mode |-> "Existing", policy |-> "Retain", image |-> i, id |-> f]

\* A Function that is never edited.
OneSpec == { OfImage("Delete", i) }

\* A Function that is switched between the modes.  Managed, it asks for another image
\* than a function of the users has.
SwitchedSpecs == { OfImage("Delete", j), OfID(1) }
=============================================================================
