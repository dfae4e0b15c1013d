-------------------------- MODULE FunctionIdentity --------------------------
(***************************************************************************)
(* Which OCI function a Function object stands for: Functions that refer to *)
(* an OCI function by its id (mode Existing) and Functions that have one    *)
(* managed in an application they name themselves (the legacy managed mode). *)
(*                                                                         *)
(* The controller finds a managed function by name, stores its id in the   *)
(* status, and deletes by the stored id when there is one.  Names and modes *)
(* may be edited at any time, and two Functions may use the same names, so  *)
(* the id, the spec and what OCI holds can part ways.                      *)
(*                                                                         *)
(* One worker serves all Functions, one reconcile after the other.  It     *)
(* reads an informer cache and ends with one write, of the finalizer or of *)
(* the status, that the API server refuses when the object has changed     *)
(* since it was read.  A status carries times, so every live Function is   *)
(* reconciled again and again.                                             *)
(*                                                                         *)
(* Left out: Functions with an applicationRef, and the region of the OCI   *)
(* client (FunctionLifecycle has both); messages, conditions, times, events *)
(* and the back-off of a deletion; the fields of a function but its image; *)
(* specs that the CRD refuses; a missing lifecycle manager; an application *)
(* or a function somebody else deletes.                                    *)
(***************************************************************************)
EXTENDS Integers, FiniteSets

CONSTANTS
  Functions,      \* the Function objects
  AppNames, Names,\* display names of OCI applications, and of OCI functions
  Images, Nets, Groups,   \* images, subnet lists and NSG lists one may ask for
  Specs,          \* for each Function, the specs a user may give it
  UserFns,        \* OCI functions that are there before the operator is
  MaxApps, MaxFns,\* bounds: OCI applications, and ids of OCI functions in use
  MaxEdits,       \* bound: how often users edit a spec
  MaxMishaps,     \* bound: OCI calls that fail or whose reply is lost, and crashes
  MaxDisturbances \* bound: edits and mishaps together

Policies  == {"Delete", "Retain"}
AppIDs    == 1 .. MaxApps
FnIDs     == 1 .. MaxFns
NoID      == 0
Unmanaged == "unmanaged"

\* An Existing spec names an OCI function; a managed one says what it wants, or
\* lacks what locates the application, or lacks the subnets.
Kinds  == {"existing", "managed", "nowhere", "noSubnets"}
FnSpec == [kind : Kinds, policy : Policies, id : FnIDs \union {NoID},
           app : AppNames, name : Names, image : Images, net : Nets,
           groups : Groups \union {Unmanaged}]

ASSUME IdentityAssumption ==
  /\ Functions # {} /\ Specs \in [Functions -> SUBSET FnSpec]
  /\ \A f \in Functions : Specs[f] # {}
  /\ \A f \in Functions : \A s \in Specs[f] : s.kind = "existing" => s.id # NoID
  /\ Unmanaged \notin Groups
  /\ MaxApps \in Nat \ {0} /\ MaxFns \in Nat \ {0}
  /\ UserFns \subseteq FnIDs
  /\ {MaxEdits, MaxMishaps, MaxDisturbances} \subseteq Nat

VARIABLES
  func, fcache,    \* the Functions in the API server, and in the informer cache
  apps, fns,       \* what OCI holds
  pc, who,         \* what the worker is doing, and for which Function
  snap, moved,     \* the version it works on; the object has changed since
  aid, fid,        \* the OCI application and function it has resolved
  next,            \* the finalizer and the status it will write
  renamed,         \* history: Functions whose spec has named another function
  edits, mishaps   \* how much of the bounds is used

vars == <<func, fcache, apps, fns, pc, who, snap, moved, aid, fid, next, renamed,
          edits, mishaps>>

objects == <<func, fcache>>
cloud   == <<apps, fns>>
worker  == <<pc, who, snap, moved, aid, fid, next>>
-----------------------------------------------------------------------------
Newborn == {"creating", "active"}
States  == {"unborn", "deleted"} \union Newborn

Status  == [phase : {"", "Pending", "Ready", "Error", "Deleting", "DeleteFailed"},
            observed : Nat, fid : FnIDs \union {NoID}, aid : AppIDs \union {NoID}]
Object  == [stored : BOOLEAN, deleting : BOOLEAN, gen : Nat, spec : FnSpec,
            final : BOOLEAN, status : Status]

\* by: history, the Functions whose managed reconcile created or found it.
OCIFunction    == [state : States, app : AppIDs \union {NoID}, name : Names,
                   image : Images, by : SUBSET Functions]
OCIApplication == [state : {"unborn"} \union Newborn, name : AppNames, net : Nets,
                   groups : Groups \union {Unmanaged}]

LiveApp(a) == a \in AppIDs /\ apps[a].state \in Newborn
LiveFn(x)  == x \in FnIDs /\ fns[x].state \in Newborn

\* What a listing by name returns.
AppsNamed(n)   == {a \in AppIDs : LiveApp(a) /\ apps[a].name = n}
FnsNamed(a, n) == {x \in FnIDs : LiveFn(x) /\ fns[x].app = a /\ fns[x].name = n}

SomeFunction == CHOOSE f \in Functions : TRUE
SomeSpec     == CHOOSE s \in Specs[SomeFunction] : TRUE
NoStatus == [phase |-> "", observed |-> 0, fid |-> NoID, aid |-> NoID]
Nothing  == [final |-> FALSE, status |-> NoStatus]
NoObject == [stored |-> FALSE, deleting |-> FALSE, gen |-> 0, spec |-> SomeSpec,
             final |-> FALSE, status |-> NoStatus]

\* The functions of the users are in applications the operator does not know.
Init ==
  /\ func \in [Functions ->
               {[NoObject EXCEPT !.stored = TRUE, !.gen = 1, !.spec = s] :
                  s \in UNION {Specs[f] : f \in Functions}}]
  /\ \A f \in Functions : func[f].spec \in Specs[f]
  /\ fcache = func
  /\ apps = [a \in AppIDs |-> [state |-> "unborn", name |-> SomeSpec.app,
                               net |-> SomeSpec.net, groups |-> Unmanaged]]
  /\ fns = [x \in FnIDs |-> [state |-> IF x \in UserFns THEN "active" ELSE "unborn",
                             app |-> NoID, name |-> SomeSpec.name,
                             image |-> SomeSpec.image, by |-> {}]]
  /\ pc = "idle" /\ who = SomeFunction /\ snap = NoObject /\ moved = FALSE
  /\ aid = NoID /\ fid = NoID /\ next = Nothing
  /\ renamed = {}
  /\ edits = 0 /\ mishaps = 0

Calm == edits + mishaps < MaxDisturbances

Mishap == mishaps < MaxMishaps /\ Calm /\ mishaps' = mishaps + 1

\* A write the API server accepts; the cache lags by one version at most.
Publish(f, obj) ==
  /\ fcache[f] = func[f] /\ func' = [func EXCEPT ![f] = obj] /\ UNCHANGED fcache

Gone(obj) == [NoObject EXCEPT !.spec = obj.spec]

Return ==
  /\ pc' = "idle" /\ who' = SomeFunction /\ snap' = NoObject /\ moved' = FALSE
  /\ aid' = NoID /\ fid' = NoID /\ next' = Nothing
-----------------------------------------------------------------------------
(* The environment.                                                        *)

Touch(f, obj) ==
  /\ Publish(f, obj)
  /\ moved' = (moved \/ (pc # "idle" /\ who = f))
  /\ UNCHANGED <<cloud, pc, who, snap, aid, fid, next, mishaps>>

\* What decides which OCI function a spec means.
Named(s) == <<IF s.kind = "noSubnets" THEN "managed" ELSE s.kind, s.app, s.name>>

EditFunction(f) ==
  /\ func[f].stored /\ edits < MaxEdits /\ Calm
  /\ \E s \in Specs[f] \ {func[f].spec} :
       /\ Touch(f, [func[f] EXCEPT !.spec = s, !.gen = @ + 1])
       /\ renamed' = IF Named(s) = Named(func[f].spec) THEN renamed
                     ELSE renamed \union {f}
  /\ edits' = edits + 1

\* An object that is deleted stays, marked, as long as it has a finalizer.
DeleteObject(f) ==
  /\ func[f].stored /\ ~ func[f].deleting
  /\ Touch(f, IF func[f].final THEN [func[f] EXCEPT !.deleting = TRUE]
              ELSE Gone(func[f]))
  /\ UNCHANGED <<renamed, edits>>

\* OCI finishes what it creates.
Activate ==
  /\ \/ /\ \E a \in AppIDs : apps[a].state = "creating"
                             /\ apps' = [apps EXCEPT ![a].state = "active"]
        /\ UNCHANGED fns
     \/ /\ \E x \in FnIDs : fns[x].state = "creating"
                            /\ fns' = [fns EXCEPT ![x].state = "active"]
        /\ UNCHANGED apps
  /\ UNCHANGED <<objects, worker, renamed, edits, mishaps>>

Sync(f) ==
  /\ fcache[f] # func[f] /\ fcache' = [fcache EXCEPT ![f] = func[f]]
  /\ UNCHANGED <<func, cloud, worker, renamed, edits, mishaps>>

\* The process dies; the new one lists every object.
Crash ==
  /\ Mishap /\ fcache' = func /\ Return
  /\ UNCHANGED <<func, cloud, renamed, edits>>
-----------------------------------------------------------------------------
(* A reconcile starts: what it reads decides what it does.                 *)

keep == <<objects, renamed, edits>>

\* The reconcile of f starts and goes on with step p, about to write w.
Start(f, p, w) ==
  /\ pc = "idle" /\ pc' = p /\ who' = f
  /\ snap' = fcache[f] /\ moved' = (fcache[f] # func[f])
  /\ next' = w /\ UNCHANGED <<aid, fid>>
  /\ UNCHANGED <<keep, cloud, mishaps>>

Keep(obj) == [final |-> obj.final, status |-> obj.status]

\* The status is built anew: ids that are not given are lost.
Built(obj, phase, x, a) ==
  [final  |-> obj.final,
   status |-> [phase |-> phase, observed |-> obj.gen, fid |-> x, aid |-> a]]

Served(obj) == obj.stored /\ ~ obj.deleting

Managed(s) == s.kind # "existing"

\* Mutant: no finalizer is asked for.
WantsFinalizer_Never(obj) == FALSE

\* shouldHaveFunctionFinalizer.
WantsFinalizer(obj) == Managed(obj.spec) /\ obj.spec.policy = "Delete"

StartFinalizer(f) ==
  LET obj == fcache[f] IN
  /\ Served(obj) /\ obj.final # WantsFinalizer(obj)
  /\ Start(f, "write", [Keep(obj) EXCEPT !.final = WantsFinalizer(obj)])

\* What needs no call of OCI: mode Existing, and a spec that fails the validation.
StartSettled(f) ==
  LET obj == fcache[f] IN
  /\ Served(obj) /\ obj.final = WantsFinalizer(obj) /\ obj.spec.kind # "managed"
  /\ Start(f, "write", IF Managed(obj.spec) \/ obj.spec.policy = "Delete"
                       THEN Built(obj, "Error", NoID, NoID)
                       ELSE Built(obj, "Ready", obj.spec.id, NoID))

StartEnsure(f) ==
  LET obj == fcache[f] IN
  /\ Served(obj) /\ obj.final = WantsFinalizer(obj) /\ obj.spec.kind = "managed"
  /\ Start(f, "findApp", Nothing)

Deletes(obj) == Managed(obj.spec) /\ obj.spec.policy = "Delete"

BeingDeleted(obj) == obj.stored /\ obj.deleting /\ obj.final

StartRetain(f) ==
  LET obj == fcache[f] IN
  /\ BeingDeleted(obj) /\ ~ Deletes(obj)
  /\ Start(f, "write", [Keep(obj) EXCEPT !.final = FALSE])

Marked(obj) == [obj.status EXCEPT !.phase = "Deleting", !.observed = obj.gen]

\* A Function does not stay Ready while it is deleted.
NeedsMark(obj) == obj.status.phase # "DeleteFailed" /\ obj.status # Marked(obj)

StartDelete(f) ==
  LET obj == fcache[f] IN
  /\ BeingDeleted(obj) /\ Deletes(obj)
  /\ Start(f, IF NeedsMark(obj) THEN "mark" ELSE "target", Nothing)
-----------------------------------------------------------------------------
(* EnsureFunction, call by call.                                           *)

Goto(p)   == pc' = p /\ UNCHANGED <<who, snap, moved, aid, fid, next>>
Writes(w) == pc' = "write" /\ next' = w /\ UNCHANGED <<who, snap, moved, aid, fid>>

\* A call of OCI fails because OCI refuses it, or because of a mishap.
Refused(cond) == IF cond THEN UNCHANGED mishaps ELSE Mishap

\* The application is found or made.  While OCI creates it the Function waits.
WithApp(a, st) ==
  IF st = "active"
  THEN pc' = "findFn" /\ aid' = a /\ UNCHANGED <<who, snap, moved, fid, next>>
  ELSE Writes(Built(snap, "Pending", NoID, a))

\* OCI cannot change an application's subnets: the Function reports an error.
SubnetsDiffer(a) == apps[a].net # snap.spec.net

GroupsDiffer(a) ==
  snap.spec.groups # Unmanaged /\ apps[a].groups # snap.spec.groups

FindApp ==
  /\ pc = "findApp"
  /\ \/ \E a \in AppsNamed(snap.spec.app) :
          \/ SubnetsDiffer(a) /\ Writes(Built(snap, "Error", NoID, a))
          \/ /\ ~ SubnetsDiffer(a) /\ GroupsDiffer(a)
             /\ pc' = "updateApp" /\ aid' = a /\ UNCHANGED <<who, snap, moved, fid, next>>
          \/ ~ SubnetsDiffer(a) /\ ~ GroupsDiffer(a) /\ WithApp(a, apps[a].state)
     \/ AppsNamed(snap.spec.app) = {} /\ Goto("createApp")
  /\ UNCHANGED <<keep, cloud, mishaps>>

FindAppFails ==
  /\ pc = "findApp" /\ Mishap /\ Writes(Built(snap, "Error", NoID, NoID))
  /\ UNCHANGED <<keep, cloud>>

\* OCI may answer before it has finished, and refuses a name that is taken.
MakeApp(a, st) ==
  /\ AppsNamed(snap.spec.app) = {}
  /\ apps[a].state = "unborn" /\ \A b \in AppIDs : apps[b].state = "unborn" => a <= b
  /\ apps' = [apps EXCEPT ![a] = [state |-> st, name |-> snap.spec.app,
                                  net |-> snap.spec.net, groups |-> snap.spec.groups]]
  /\ UNCHANGED fns

CreateApp ==
  /\ pc = "createApp"
  /\ \E a \in AppIDs, st \in Newborn : MakeApp(a, st) /\ WithApp(a, st)
  /\ UNCHANGED <<keep, mishaps>>

CreateAppFails ==
  /\ pc = "createApp" /\ Mishap
  /\ UNCHANGED cloud \/ \E a \in AppIDs, st \in Newborn : MakeApp(a, st)
  /\ Writes(Built(snap, "Error", NoID, NoID))
  /\ UNCHANGED keep

ChangeApp ==
  apps' = [apps EXCEPT ![aid].groups = snap.spec.groups] /\ UNCHANGED fns

UpdateApp ==
  /\ pc = "updateApp"
  /\ ChangeApp /\ WithApp(aid, apps[aid].state)
  /\ UNCHANGED <<keep, mishaps>>

UpdateAppFails ==
  /\ pc = "updateApp" /\ Mishap
  /\ UNCHANGED cloud \/ ChangeApp
  /\ Writes(Built(snap, "Error", NoID, aid))
  /\ UNCHANGED keep

Settle(x, st) ==
  Writes(Built(snap, IF st = "active" THEN "Ready" ELSE "Pending", x, aid))

\* Mutant: the first function of the application is taken, whatever its name.
Candidates_Any(a) == {x \in FnIDs : LiveFn(x) /\ fns[x].app = a}

\* What ensureFunction takes for the function the spec describes.
Candidates(a) == FnsNamed(a, snap.spec.name)

FindFn ==
  /\ pc = "findFn"
  /\ \/ \E x \in Candidates(aid) :
          /\ fns' = [fns EXCEPT ![x].by = @ \union {who}]
          /\ IF fns[x].image # snap.spec.image
             THEN pc' = "updateFn" /\ fid' = x /\ UNCHANGED <<who, snap, moved, aid, next>>
             ELSE Settle(x, fns[x].state)
     \/ Candidates(aid) = {} /\ Goto("createFn") /\ UNCHANGED fns
  /\ UNCHANGED <<keep, apps, mishaps>>

FindFnFails ==
  /\ pc = "findFn" /\ Mishap /\ Writes(Built(snap, "Error", NoID, aid))
  /\ UNCHANGED <<keep, cloud>>

\* A fresh id: one that was never used, or that nothing remembers any more.
Remembered ==
  {fid, snap.status.fid, next.status.fid} \union
  {obj.status.fid : obj \in {func[f] : f \in Functions} \union {fcache[f] : f \in Functions}}

Fresh == {x \in FnIDs \ UserFns : ~ LiveFn(x) /\ x \notin Remembered}

MakeFn(x, st) ==
  /\ FnsNamed(aid, snap.spec.name) = {}
  /\ x \in Fresh /\ \A y \in Fresh : x <= y
  /\ fns' = [fns EXCEPT ![x] = [state |-> st, app |-> aid, name |-> snap.spec.name,
                                image |-> snap.spec.image, by |-> {who}]]
  /\ UNCHANGED apps

CreateFn ==
  /\ pc = "createFn"
  /\ \E x \in FnIDs, st \in Newborn : MakeFn(x, st) /\ Settle(x, st)
  /\ UNCHANGED <<keep, mishaps>>

CreateFnFails ==
  /\ pc = "createFn" /\ Mishap
  /\ UNCHANGED cloud \/ \E x \in FnIDs, st \in Newborn : MakeFn(x, st)
  /\ Writes(Built(snap, "Error", NoID, aid))
  /\ UNCHANGED keep

ChangeFn == fns' = [fns EXCEPT ![fid].image = snap.spec.image] /\ UNCHANGED apps

UpdateFn ==
  /\ pc = "updateFn" /\ LiveFn(fid)
  /\ ChangeFn /\ Settle(fid, fns[fid].state)
  /\ UNCHANGED <<keep, mishaps>>

UpdateFnFails ==
  /\ pc = "updateFn" /\ Refused(~ LiveFn(fid))
  /\ UNCHANGED cloud \/ (LiveFn(fid) /\ ChangeFn)
  /\ Writes(Built(snap, "Error", NoID, aid))
  /\ UNCHANGED keep
-----------------------------------------------------------------------------
(* The deletion of a managed Function.                                     *)

\* The deletion is announced; the reconcile goes on with what it has written.
Mark ==
  /\ pc = "mark" /\ ~ moved
  /\ LET obj == [func[who] EXCEPT !.status = Marked(snap)]
     IN  Publish(who, obj) /\ snap' = obj
  /\ pc' = "target" /\ UNCHANGED <<who, moved, aid, fid, next>>
  /\ UNCHANGED <<cloud, renamed, edits, mishaps>>

\* Mutant: the finalizer goes although OCI has failed.
Failed_Finalize == Writes([final |-> FALSE, status |-> snap.status])

Failed == Writes([final |-> snap.final,
                  status |-> [snap.status EXCEPT !.phase = "DeleteFailed",
                                                 !.observed = snap.gen]])
Finalized == Writes([final |-> FALSE, status |-> snap.status])

\* Where the function is looked for: by its id, in the application the status
\* names, or in the one the spec names.
Target ==
  /\ pc = "target"
  /\ \/ /\ snap.status.fid # NoID
        /\ pc' = "erase" /\ fid' = snap.status.fid /\ UNCHANGED aid
     \/ /\ snap.status.fid = NoID /\ snap.status.aid # NoID
        /\ pc' = "resolveFn" /\ aid' = snap.status.aid /\ UNCHANGED fid
     \/ /\ {snap.status.fid, snap.status.aid} = {NoID} /\ snap.spec.kind # "nowhere"
        /\ pc' = "resolveApp" /\ UNCHANGED <<aid, fid>>
  /\ UNCHANGED <<who, snap, moved, next, keep, cloud, mishaps>>

TargetUnknown ==
  /\ pc = "target"
  /\ {snap.status.fid, snap.status.aid} = {NoID} /\ snap.spec.kind = "nowhere"
  /\ Failed
  /\ UNCHANGED <<keep, cloud, mishaps>>

ResolveApp ==
  /\ pc = "resolveApp"
  /\ \/ \E a \in AppsNamed(snap.spec.app) :
          pc' = "resolveFn" /\ aid' = a /\ UNCHANGED <<who, snap, moved, fid, next>>
     \/ AppsNamed(snap.spec.app) = {} /\ Finalized
  /\ UNCHANGED <<keep, cloud, mishaps>>

\* Mutant: names are not compared.
Doomed_Any(a) == {x \in FnIDs : LiveFn(x) /\ fns[x].app = a}

\* What resolveFunctionForDelete takes for the function to delete.
Doomed(a) == FnsNamed(a, snap.spec.name)

ResolveFn ==
  /\ pc = "resolveFn"
  /\ \/ \E x \in Doomed(aid) :
          pc' = "erase" /\ fid' = x /\ UNCHANGED <<who, snap, moved, aid, next>>
     \/ Doomed(aid) = {} /\ Finalized
  /\ UNCHANGED <<keep, cloud, mishaps>>

EraseFn ==
  /\ fns' = IF LiveFn(fid) THEN [fns EXCEPT ![fid].state = "deleted"] ELSE fns
  /\ UNCHANGED apps

\* A function OCI does not know counts as deleted.
Erase ==
  /\ pc = "erase" /\ EraseFn /\ Finalized
  /\ UNCHANGED <<keep, mishaps>>

\* A call fails; a deletion that went through may have lost its reply.
DeletionFails ==
  /\ pc \in {"resolveApp", "resolveFn", "erase"} /\ Mishap
  /\ UNCHANGED cloud \/ (pc = "erase" /\ EraseFn)
  /\ Failed
  /\ UNCHANGED keep
-----------------------------------------------------------------------------
(* The reconcile ends.                                                     *)

Unwritten == next = Keep(snap)

Write ==
  /\ pc = "write"
  /\ IF Unwritten THEN UNCHANGED objects
     ELSE /\ ~ moved
          /\ Publish(who, IF func[who].deleting /\ ~ next.final THEN Gone(func[who])
                          ELSE [func[who] EXCEPT !.final = next.final,
                                                 !.status = next.status])
  /\ Return
  /\ UNCHANGED <<cloud, renamed, edits, mishaps>>

WriteRefused ==
  /\ \/ pc = "write" /\ ~ Unwritten
     \/ pc = "mark"
  /\ moved /\ Return
  /\ UNCHANGED <<keep, cloud, mishaps>>
-----------------------------------------------------------------------------
Environment ==
  \/ \E f \in Functions : EditFunction(f) \/ DeleteObject(f)
  \/ Crash

Begin(f) ==
  \/ StartFinalizer(f) \/ StartSettled(f) \/ StartEnsure(f)
  \/ StartRetain(f) \/ StartDelete(f)

Continue ==
  \/ FindApp \/ FindAppFails \/ CreateApp \/ CreateAppFails \/ UpdateApp \/ UpdateAppFails
  \/ FindFn \/ FindFnFails \/ CreateFn \/ CreateFnFails \/ UpdateFn \/ UpdateFnFails
  \/ Mark \/ Target \/ TargetUnknown \/ ResolveApp \/ ResolveFn \/ Erase \/ DeletionFails
  \/ Write \/ WriteRefused

Next ==
  \/ Environment \/ Activate
  \/ \E f \in Functions : Sync(f) \/ Begin(f)
  \/ Continue

Spec == Init /\ [][Next]_vars
-----------------------------------------------------------------------------
(* What the controller promises.                                           *)

\* A Function that is Ready for its spec points at the OCI function of this spec:
\* the one whose id it gives, or the one of the names it asks for, also after it
\* was renamed, switched between the modes, or reconciled from an old version.
ReadyNamesItsFunction ==
  \A f \in Functions :
    LET spec == func[f].spec
        x    == func[f].status.fid
    IN  func[f].status.phase = "Ready" /\ func[f].status.observed = func[f].gen =>
          IF spec.kind = "existing" THEN x = spec.id
          ELSE /\ x \in FnIDs /\ fns[x].state # "unborn" /\ fns[x].name = spec.name
               /\ fns[x].app \in AppIDs /\ apps[fns[x].app].name = spec.app

Place(s) == <<s.app, s.name>>

\* Names are not edited, and no other Function has those of this one.
Alone(f) ==
  renamed = {} /\ \A g \in Functions \ {f} : Place(func[g].spec) # Place(func[f].spec)

\* The operator deletes an OCI function only for a Function that has managed it:
\* what users made on their own, what a Function refers to by id, and what another
\* one manages, also in the same application, stays.  Nothing protects the OCI
\* function two Functions have in common.
DeletesOnlyOwn ==
  [][\A x \in FnIDs : LiveFn(x) /\ ~ LiveFn(x)' /\ Alone(who) => who \in fns[x].by]_vars

MeansDelete(obj) == obj.spec.kind # "existing" /\ obj.spec.policy = "Delete"

\* The OCI function of a Function with policy Delete is created under a finalizer
\* that is stored already: a deletion that comes in between waits for it.
CreatedUnderFinalizer ==
  [][\A x \in FnIDs : ~ LiveFn(x) /\ LiveFn(x)' /\ snap.spec.policy = "Delete" =>
       func[who].stored /\ func[who].final]_vars

\* A managed Function with policy Delete whose deletion waits for the finalizer
\* takes every OCI function it has created or adopted with it, also one whose id
\* was never stored, when its names were its own and never edited.
GoneWithObject ==
  [][\A f \in Functions :
       func[f].deleting /\ ~ func'[f].stored /\ MeansDelete(func[f]) /\ Alone(f) =>
         \A x \in FnIDs : f \in fns[x].by => ~ LiveFn(x)]_vars

\* An OCI function that was there before the operator outlives every Function.
UsersFnsKept == [][\A x \in UserFns : LiveFn(x) => LiveFn(x)']_vars
=============================================================================
