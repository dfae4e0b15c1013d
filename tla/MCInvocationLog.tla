------------------------- MODULE MCInvocationLog -------------------------
(* Small instances of InvocationLog for TLC. *)
EXTENDS InvocationLog, TLC

CONSTANTS o, p, x, b, u, c, d, h, r, k, m, n, j, t

Log  == [on |-> TRUE, group |-> h, name |-> m, line |-> j]
Base == [mode |-> "Managed", policy |-> "Delete", id |-> NoID, name |-> x, net |-> u,
         conf |-> c, logging |-> Log]
Unlogged  == [Base EXCEPT !.logging.on = FALSE, !.policy = "Retain", !.conf = d]
Referring == [Base EXCEPT !.mode = "Existing", !.id = 1,
                          !.net = Unmanaged, !.logging.group = r, !.logging.name = n]
Adopting  == [Referring EXCEPT !.mode = "Managed", !.name = b, !.logging.group = h,
                               !.logging.name = k, !.logging.line = t]

\* An application of the users that has a log in one group and two in another.
TheirApp == 1 :> [state |-> "active", name |-> b, net |-> u, conf |-> d,
                  line |-> Unmanaged]
TheirLog(g, l) == [state |-> "active", group |-> g, name |-> l, source |-> 1, on |-> FALSE]
TheirLogs == 1 :> TheirLog(h, n) @@ 2 :> TheirLog(r, n) @@ 3 :> TheirLog(r, k)

\* One object with an application of its own, which is edited and may adopt the
\* users' application, and one that refers to that by its id, and not by its name.
TwoObjects == o :> {Base, Unlogged, Adopting} @@ p :> {Referring}

ASSUME NoRivals
=============================================================================
