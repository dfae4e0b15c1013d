------------------------ MODULE MCFunctionIdentity ------------------------
(* Small instances of FunctionIdentity for TLC. *)
EXTENDS FunctionIdentity, TLC

CONSTANTS f, g, a, m, n, i, j, u, v, q

Base == [kind |-> "managed", policy |-> "Delete", id |-> NoID, app |-> a, name |-> m,
         image |-> i, net |-> u, groups |-> Unmanaged]
Patched    == [Base EXCEPT !.policy = "Retain", !.image = j, !.groups = q]
Renamed    == [Base EXCEPT !.name = n]
Moved      == [Renamed EXCEPT !.net = v]
Unlocated  == [Renamed EXCEPT !.kind = "nowhere"]
Referring  == [Renamed EXCEPT !.kind = "existing", !.policy = "Retain", !.id = 1]

\* One Function that is not edited, and one that has the same names or its own, asks
\* for other subnets, or refers to an OCI function of the users, and is edited between
\* all these.
ManyShapes == f :> {Base}
              @@ g :> {Patched, Renamed, Moved, Unlocated, Referring}

\* A Function that refers to an OCI function, or manages one.
Switching == f :> {Referring, Base}
=============================================================================
