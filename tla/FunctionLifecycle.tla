------------------------- MODULE FunctionLifecycle -------------------------
(***************************************************************************)
(* The Function and FunctionApplication controllers: a Function, the        *)
(* FunctionApplication it refers to, the OCI application and functions kept *)
(* for them, and the one OCI client the two reconcilers share.             *)
(*                                                                         *)
(* The two controllers run side by side, one reconcile each at a time.     *)
(* Both read informer caches, and the Function's reads the application's   *)
(* object as well.  Each reconcile ends in one write, of a finalizer or of *)
(* the status, that the API server refuses when the object has changed     *)
(* since it was read.  Neither controller filters its watch, and a status  *)
(* carries times, so a live object is reconciled again and again, at the   *)
(* latest with the informer's resync: there is no workqueue here.          *)
(*                                                                         *)
(* Each call of the OCI client goes to the region that anybody set last.   *)
(*                                                                         *)
(* Left out: messages, conditions, times and recorded events; the fields   *)
(* of an OCI function but one (image), those of an application (an update  *)
(* that is refused is an error that keeps the id); invocation logs and     *)
(* mode Existing of the application (InvocationLog); Functions that name   *)
(* no application (FunctionIdentity); specs that fail the validation; a    *)
(* missing lifecycle manager (cmd/main.go installs one).                   *)
(***************************************************************************)
EXTENDS Integers, FiniteSets

CONSTANTS
  Images,         \* images a Function may ask for
  FnSpecs,        \* the specs a user may give the Function
  Regions,        \* OCI regions the shared client may be set to
  Home,           \* the region of the application
  ListsGone,      \* OCI answers a listing in a deleted application with nothing
  UserFns,        \* OCI functions that users made
  MaxApps, MaxFns,\* bounds: OCI applications and functions that there ever are
  MaxDisturbances,\* bound: edits and mishaps together
  MaxEdits,       \* bound: how often a user edits a spec
  MaxCreations,   \* bound: how often a user creates the FunctionApplication
  MaxMishaps,     \* bound: OCI calls that fail or whose reply is lost, and crashes
  MaxRaces        \* bound: times the region changes under a running reconcile

Policies == {"Delete", "Retain"}
AppIDs   == 1 .. MaxApps
FnIDs    == 1 .. MaxFns
NoID     == 0

\* A spec of mode Existing names an OCI function, one of mode Managed an image.
FnSpec == [mode : {"Managed"}, policy : Policies, image : Images, id : {NoID}]
          \union [mode : {"Existing"}, policy : Policies, image : Images, id : FnIDs]

ASSUME LifecycleAssumption ==
  /\ FnSpecs # {} /\ FnSpecs \subseteq FnSpec
  /\ Home \in Regions /\ ListsGone \in BOOLEAN /\ UserFns \subseteq FnIDs
  /\ {MaxApps, MaxFns} \subseteq Nat \ {0}
  /\ {MaxDisturbances, MaxEdits, MaxCreations, MaxMishaps, MaxRaces} \subseteq Nat

VARIABLES
  func, fcache,   \* the Function in the API server, and in the informer cache
  app, acache,    \* the FunctionApplication in the API server, and in the cache
  apps, fns,      \* OCI: the applications and the functions made for the two
  region,         \* the region the shared client is set to
  fpc,            \* what the Function's reconciler is doing
  fsnap,          \* the version of the Function it works on
  fmoved,         \* the Function has changed since that version
  fapp, ffound,   \* the OCI application and function it resolved
  fnext,          \* the finalizer and the status it will write
  apc, asnap, amoved, anext,   \* the same for the FunctionApplication's
  referred,       \* the Function was of mode Existing once
  edits, creations, mishaps, races   \* how much of the bounds is used

vars == <<func, fcache, app, acache, apps, fns, region, fpc, fsnap, fmoved, fapp,
          ffound, fnext, apc, asnap, amoved, anext, referred, edits, creations,
          mishaps, races>>

functionObject    == <<func, fcache>>
applicationObject == <<app, acache>>
cloud   == <<apps, fns>>
fworker == <<fpc, fsnap, fmoved, fapp, ffound, fnext>>
aworker == <<apc, asnap, amoved, anext>>
users   == <<referred, edits, creations>>
limits  == <<referred, edits, creations, races>>
-----------------------------------------------------------------------------
Newborn  == {"creating", "active"}
States   == {"unborn", "deleted"} \union Newborn

FnStatus  == [phase : {"", "Pending", "Ready", "Error", "Deleting", "DeleteFailed"},
              observed : Nat, fid : FnIDs \union {NoID}, aid : AppIDs \union {NoID}]
AppStatus == [phase : {"", "Pending", "Ready", "Error"}, aid : AppIDs \union {NoID}]

FnObject == [stored : BOOLEAN, deleting : BOOLEAN, gen : Nat, spec : FnSpecs,
             final : BOOLEAN, status : FnStatus]
AppObject == [stored : BOOLEAN, deleting : BOOLEAN, policy : Policies,
              final : BOOLEAN, status : AppStatus]

LiveApp(a) == a \in AppIDs /\ apps[a] \in Newborn
LiveFn(f)  == f \in FnIDs /\ fns[f].state \in Newborn
FnsIn(a)   == {f \in FnIDs : LiveFn(f) /\ fns[f].app = a}

SomeSpec    == CHOOSE s \in FnSpecs : TRUE
SomeImage   == CHOOSE im \in Images : TRUE
NoFnStatus  == [phase |-> "", observed |-> 0, fid |-> NoID, aid |-> NoID]
NoAppStatus == [phase |-> "", aid |-> NoID]
FnNothing   == [final |-> FALSE, status |-> NoFnStatus]
AppNothing  == [final |-> FALSE, status |-> NoAppStatus]

\* What a snapshot holds while no reconcile runs, and what is left of an object.
NoFunction == [stored |-> FALSE, deleting |-> FALSE, gen |-> 0,
               spec |-> SomeSpec,
               final |-> FALSE, status |-> NoFnStatus]
NoApplication == [stored |-> FALSE, deleting |-> FALSE, policy |-> "Retain",
                  final |-> FALSE, status |-> NoAppStatus]

\* Users may have made the application too, and one of their functions in it: they
\* have the names the operator looks for.  The others are elsewhere.
Init ==
  /\ \E s \in FnSpecs : func = [NoFunction EXCEPT !.stored = TRUE, !.gen = 1, !.spec = s]
  /\ app = NoApplication
  /\ fcache = func /\ acache = app
  /\ \E place \in {NoID, 1}, twin \in UserFns \union {NoID} :
       /\ apps = [a \in AppIDs |-> IF a = place THEN "active" ELSE "unborn"]
       /\ fns = [f \in FnIDs |->
                   [state |-> IF f \in UserFns THEN "active" ELSE "unborn",
                    app |-> IF f = twin THEN place ELSE NoID, image |-> SomeImage]]
  /\ region \in Regions
  /\ fpc = "idle" /\ fsnap = NoFunction /\ fmoved = FALSE
  /\ fapp = NoID /\ ffound = NoID /\ fnext = FnNothing
  /\ apc = "idle" /\ asnap = NoApplication /\ amoved = FALSE /\ anext = AppNothing
  /\ referred = (func.spec.mode = "Existing")
  /\ edits = 0 /\ creations = 0 /\ mishaps = 0 /\ races = 0

Calm == edits + mishaps < MaxDisturbances

Mishap == mishaps < MaxMishaps /\ Calm /\ mishaps' = mishaps + 1

\* Writes the API server accepts; the cache lags by one version at most.
PublishF(obj) == fcache = func /\ func' = obj /\ UNCHANGED fcache
PublishA(obj) == acache = app /\ app' = obj /\ UNCHANGED acache

\* What is left of a Function: what the user asked for last.
GoneFunction(obj) == [NoFunction EXCEPT !.spec = obj.spec]
-----------------------------------------------------------------------------
(* The environment.                                                        *)

TouchF(obj) ==
  /\ PublishF(obj)
  /\ fmoved' = (fpc # "idle")
  /\ UNCHANGED <<applicationObject, cloud, region, fpc, fsnap, fapp, ffound, fnext,
                 aworker, mishaps, races>>

TouchA(obj) ==
  /\ PublishA(obj)
  /\ amoved' = (apc # "idle")
  /\ UNCHANGED <<functionObject, cloud, region, fworker, apc, asnap, anext,
                 mishaps, races>>

EditFunction ==
  /\ func.stored /\ edits < MaxEdits /\ Calm
  /\ \E s \in FnSpecs \ {func.spec} :
       /\ TouchF([func EXCEPT !.spec = s, !.gen = @ + 1])
       /\ referred' = (referred \/ s.mode = "Existing")
  /\ edits' = edits + 1 /\ UNCHANGED creations

\* An object that is deleted stays, marked, as long as it has a finalizer.
DeleteFunctionObject ==
  /\ func.stored /\ ~ func.deleting
  /\ TouchF(IF func.final THEN [func EXCEPT !.deleting = TRUE] ELSE GoneFunction(func))
  /\ UNCHANGED users

CreateApplicationObject ==
  /\ ~ app.stored /\ creations < MaxCreations
  /\ \E p \in Policies : TouchA([NoApplication EXCEPT !.stored = TRUE, !.policy = p])
  /\ creations' = creations + 1 /\ UNCHANGED <<referred, edits>>

EditApplication ==
  /\ app.stored /\ edits < MaxEdits /\ Calm
  /\ \E p \in Policies \ {app.policy} : TouchA([app EXCEPT !.policy = p])
  /\ edits' = edits + 1 /\ UNCHANGED <<referred, creations>>

DeleteApplicationObject ==
  /\ app.stored /\ ~ app.deleting
  /\ TouchA(IF app.final THEN [app EXCEPT !.deleting = TRUE] ELSE NoApplication)
  /\ UNCHANGED users

\* OCI finishes what it creates.
Activate ==
  /\ \/ /\ \E a \in AppIDs : apps[a] = "creating" /\ apps' = [apps EXCEPT ![a] = "active"]
        /\ UNCHANGED fns
     \/ /\ \E f \in FnIDs : fns[f].state = "creating" /\ fns' = [fns EXCEPT ![f].state = "active"]
        /\ UNCHANGED apps
  /\ UNCHANGED <<functionObject, applicationObject, region, fworker, aworker, limits, mishaps>>

\* An idle reconciler takes up another object, in another region.
OtherReconcile ==
  /\ "idle" \in {fpc, apc}
  /\ region' \in Regions \ {region}
  /\ races' = IF {fpc, apc} = {"idle"} THEN races ELSE races + 1
  /\ races' <= MaxRaces
  /\ UNCHANGED <<functionObject, applicationObject, cloud, fworker, aworker, users, mishaps>>

SyncFunction ==
  /\ fcache # func /\ fcache' = func
  /\ UNCHANGED <<func, applicationObject, cloud, region, fworker, aworker, limits, mishaps>>

SyncApplication ==
  /\ acache # app /\ acache' = app
  /\ UNCHANGED <<app, functionObject, cloud, region, fworker, aworker, limits, mishaps>>

FReturn ==
  /\ fpc' = "idle" /\ fsnap' = NoFunction /\ fmoved' = FALSE
  /\ fapp' = NoID /\ ffound' = NoID /\ fnext' = FnNothing

AReturn == apc' = "idle" /\ asnap' = NoApplication /\ amoved' = FALSE /\ anext' = AppNothing

\* The process dies; the new one lists every object.
Crash ==
  /\ Mishap
  /\ fcache' = func /\ acache' = app
  /\ FReturn /\ AReturn
  /\ UNCHANGED <<func, app, cloud, region, users, races>>
-----------------------------------------------------------------------------
(* The Function's reconciler: what it reads decides what it does.          *)

fkeep == <<functionObject, applicationObject, aworker, limits>>

FStart == fpc = "idle" /\ fsnap' = fcache /\ fmoved' = (fcache # func)

\* It goes on to write w.
FDecide(w) ==
  /\ FStart
  /\ fpc' = "write" /\ fnext' = w /\ UNCHANGED <<fapp, ffound>>
  /\ UNCHANGED <<fkeep, cloud, region, mishaps>>

FKeep(obj) == [final |-> obj.final, status |-> obj.status]

\* The status is built anew: ids that are not given are lost.
FBuilt(obj, phase, f, a) ==
  [final  |-> obj.final,
   status |-> [phase |-> phase, observed |-> obj.gen, fid |-> f, aid |-> a]]

\* Mutant: an error is not tried again.
FServed_Once(obj) == obj.stored /\ ~ obj.deleting /\ obj.status.phase # "Error"

FServed(obj) == obj.stored /\ ~ obj.deleting

Managed(obj) == obj.spec.mode = "Managed"

\* shouldHaveFunctionFinalizer.
WantsFinalizer(obj) == Managed(obj) /\ obj.spec.policy = "Delete"

FStartFinalizer ==
  /\ FServed(fcache) /\ fcache.final # WantsFinalizer(fcache)
  /\ FDecide([FKeep(fcache) EXCEPT !.final = WantsFinalizer(fcache)])

\* resolveFunctionApplicationRef: the application can be used.
Usable(a) == a.stored /\ ~ a.deleting /\ a.status.phase = "Ready" /\ a.status.aid # NoID

FStartWaiting ==
  /\ FServed(fcache) /\ fcache.final = WantsFinalizer(fcache) /\ ~ Usable(acache)
  /\ FDecide(FBuilt(fcache, "Pending", NoID, acache.status.aid))

\* The function mode Existing stands for.
Referenced(obj) == obj.spec.id

\* Mode Existing needs no call of OCI, and refuses policy Delete.
FStartExisting ==
  /\ FServed(fcache) /\ fcache.final = WantsFinalizer(fcache) /\ Usable(acache)
  /\ ~ Managed(fcache)
  /\ FDecide(IF fcache.spec.policy = "Delete" THEN FBuilt(fcache, "Error", NoID, NoID)
             ELSE FBuilt(fcache, "Ready", Referenced(fcache), acache.status.aid))

FStartEnsure ==
  /\ FServed(fcache) /\ fcache.final = WantsFinalizer(fcache) /\ Usable(acache)
  /\ Managed(fcache) /\ FStart
  /\ fpc' = "find" /\ fapp' = acache.status.aid /\ region' = Home
  /\ UNCHANGED <<fkeep, cloud, ffound, fnext, mishaps>>

FBeingDeleted(obj) == obj.stored /\ obj.deleting

\* Mutant: neither the mode nor the policy is looked at.
FDeletes_Always(obj) == TRUE

FDeletes(obj) == Managed(obj) /\ obj.spec.policy = "Delete"

FStartRetain ==
  /\ FBeingDeleted(fcache) /\ ~ FDeletes(fcache)
  /\ FDecide([FKeep(fcache) EXCEPT !.final = FALSE])

\* Mutant: the status is built anew, without the ids.
FMarked_Anew(obj) == [phase |-> "Deleting", observed |-> obj.gen]

FMarked(obj) == [obj.status EXCEPT !.phase = "Deleting", !.observed = obj.gen]

\* Mutant: the status is left as it is until OCI has answered.
NeedsMark_Never(obj) == FALSE

\* A Function does not stay Ready while it is deleted.
NeedsMark(obj) == obj.status.phase # "DeleteFailed" /\ obj.status # FMarked(obj)

FStartDelete ==
  /\ FBeingDeleted(fcache) /\ FDeletes(fcache)
  /\ FStart
  /\ fpc' = IF NeedsMark(fcache) THEN "mark" ELSE "target"
  /\ UNCHANGED <<fkeep, cloud, region, fapp, ffound, fnext, mishaps>>
-----------------------------------------------------------------------------
(* EnsureFunctionInApplication and DeleteManagedFunction, call by call.    *)

\* The reconcile goes on to write w.
FWrites(w) == fpc' = "write" /\ fnext' = w /\ UNCHANGED <<fsnap, fmoved, fapp, ffound>>

\* OCI refuses a listing of application a: it knows none of this id in the
\* region the client is set to, or none any more.
ListRefused(a) == region # Home \/ (~ ListsGone /\ ~ LiveApp(a))

\* A call fails because OCI refuses it, or because of a mishap.
Refused(cond) == IF cond THEN UNCHANGED mishaps ELSE Mishap

FSettle(f, st) ==
  FWrites(FBuilt(fsnap, IF st = "active" THEN "Ready" ELSE "Pending", f, fapp))

FError == FWrites(FBuilt(fsnap, "Error", NoID, fapp))

NeedsUpdate(f) == fns[f].image # fsnap.spec.image

FFind ==
  /\ fpc = "find" /\ ~ ListRefused(fapp)
  /\ \/ \E f \in FnsIn(fapp) :
          IF NeedsUpdate(f)
          THEN fpc' = "update" /\ ffound' = f /\ UNCHANGED <<fsnap, fmoved, fapp, fnext>>
          ELSE FSettle(f, fns[f].state)
     \/ /\ FnsIn(fapp) = {}
        /\ fpc' = "create" /\ UNCHANGED <<fsnap, fmoved, fapp, ffound, fnext>>
  /\ UNCHANGED <<fkeep, cloud, region, mishaps>>

FFindFails ==
  /\ fpc = "find" /\ Refused(ListRefused(fapp)) /\ FError
  /\ UNCHANGED <<fkeep, cloud, region>>

CanCreateFn == region = Home /\ LiveApp(fapp) /\ FnsIn(fapp) = {}

\* OCI may answer before it has finished.
MakeFn(f, st) ==
  /\ fns[f].state = "unborn" /\ \A g \in FnIDs : fns[g].state = "unborn" => f <= g
  /\ fns' = [fns EXCEPT ![f] = [state |-> st, app |-> fapp, image |-> fsnap.spec.image]]
  /\ UNCHANGED apps

FCreate ==
  /\ fpc = "create" /\ CanCreateFn
  /\ \E f \in FnIDs, st \in Newborn : MakeFn(f, st) /\ FSettle(f, st)
  /\ UNCHANGED <<fkeep, region, mishaps>>

\* The create is refused, or it went through and its reply is lost.
FCreateFails ==
  /\ fpc = "create" /\ Refused(~ CanCreateFn) /\ FError
  /\ UNCHANGED cloud \/ (CanCreateFn /\ \E f \in FnIDs, st \in Newborn : MakeFn(f, st))
  /\ UNCHANGED <<fkeep, region>>

CanChangeFn == region = Home /\ LiveFn(ffound)

ChangeFn == fns' = [fns EXCEPT ![ffound].image = fsnap.spec.image] /\ UNCHANGED apps

FUpdate ==
  /\ fpc = "update" /\ CanChangeFn
  /\ ChangeFn /\ FSettle(ffound, fns[ffound].state)
  /\ UNCHANGED <<fkeep, region, mishaps>>

FUpdateFails ==
  /\ fpc = "update" /\ Refused(~ CanChangeFn) /\ FError
  /\ UNCHANGED cloud \/ (CanChangeFn /\ ChangeFn)
  /\ UNCHANGED <<fkeep, region>>

\* The deletion is announced in the status; the reconcile goes on with the
\* version it has written.
FMark ==
  /\ fpc = "mark" /\ ~ fmoved
  /\ LET obj == [func EXCEPT !.status = FMarked(fsnap)]
     IN  PublishF(obj) /\ fsnap' = obj
  /\ fpc' = "target"
  /\ UNCHANGED <<applicationObject, cloud, region, fmoved, fapp, ffound, fnext, aworker,
                 limits, mishaps>>

FDeleteFailed ==
  FWrites([final |-> fsnap.final,
           status |-> [fsnap.status EXCEPT !.phase = "DeleteFailed", !.observed = fsnap.gen]])

\* Mutant: only the status of the object without its finalizer is written.
FDeleted_Status == FWrites([final |-> fsnap.final, status |-> fsnap.status])

FDeleted == FWrites([final |-> FALSE, status |-> fsnap.status])

\* Neither id is known, so neither is the region: this is an error, each time.
FTargetUnknown ==
  /\ fpc = "target" /\ fsnap.status.fid = NoID /\ fsnap.status.aid = NoID
  /\ FDeleteFailed
  /\ UNCHANGED <<fkeep, cloud, region, mishaps>>

\* The function is deleted by its id, or looked up in its application first.
FTarget ==
  /\ fpc = "target" /\ {fsnap.status.fid, fsnap.status.aid} # {NoID}
  /\ fpc' = IF fsnap.status.fid # NoID THEN "erase" ELSE "lookup"
  /\ ffound' = fsnap.status.fid /\ fapp' = fsnap.status.aid /\ region' = Home
  /\ UNCHANGED <<fkeep, cloud, fsnap, fmoved, fnext, mishaps>>

\* Mutant: a function that is not active yet is overlooked.
ToDelete_Active(a) == {f \in FnsIn(a) : fns[f].state = "active"}

\* resolveFunctionForDelete: what is to be deleted in application a.
ToDelete(a) == FnsIn(a)

FLookup ==
  /\ fpc = "lookup" /\ ~ ListRefused(fapp)
  /\ \/ \E f \in ToDelete(fapp) :
          fpc' = "erase" /\ ffound' = f /\ UNCHANGED <<fsnap, fmoved, fapp, fnext>>
     \/ ToDelete(fapp) = {} /\ FDeleted
  /\ UNCHANGED <<fkeep, cloud, region, mishaps>>

FLookupFails ==
  /\ fpc = "lookup" /\ Refused(ListRefused(fapp)) /\ FDeleteFailed
  /\ UNCHANGED <<fkeep, cloud, region>>

Erase ==
  /\ fns' = IF region = Home /\ LiveFn(ffound)
            THEN [fns EXCEPT ![ffound].state = "deleted"] ELSE fns
  /\ UNCHANGED apps

\* deleteFunctionByID: a function OCI does not know in the region the client
\* is set to counts as deleted.
FErase ==
  /\ fpc = "erase" /\ Erase /\ FDeleted
  /\ UNCHANGED <<fkeep, region, mishaps>>

FEraseFails ==
  /\ fpc = "erase" /\ Mishap /\ FDeleteFailed
  /\ UNCHANGED cloud \/ Erase
  /\ UNCHANGED <<fkeep, region>>

FUnchanged == fnext = FKeep(fsnap)

\* An object that is being deleted goes with its finalizer.
FWrite ==
  /\ fpc = "write"
  /\ IF FUnchanged THEN UNCHANGED functionObject
     ELSE /\ ~ fmoved
          /\ PublishF(IF func.deleting /\ ~ fnext.final THEN GoneFunction(func)
                      ELSE [func EXCEPT !.final = fnext.final, !.status = fnext.status])
  /\ FReturn
  /\ UNCHANGED <<applicationObject, cloud, region, aworker, limits, mishaps>>

\* A conflict, or the object is gone.
FWriteRefused ==
  /\ fmoved /\ (fpc = "mark" \/ (fpc = "write" /\ ~ FUnchanged))
  /\ FReturn
  /\ UNCHANGED <<functionObject, applicationObject, cloud, region, aworker, limits, mishaps>>
-----------------------------------------------------------------------------
(* The FunctionApplication's reconciler.                                   *)

akeep == <<functionObject, applicationObject, fworker, limits>>

AStart == apc = "idle" /\ asnap' = acache /\ amoved' = (acache # app)

ADecide(w) ==
  /\ AStart
  /\ apc' = "write" /\ anext' = w
  /\ UNCHANGED <<akeep, cloud, region, mishaps>>

AKeep(obj) == [final |-> obj.final, status |-> obj.status]

ABuilt(obj, phase, a) == [final |-> obj.final, status |-> [phase |-> phase, aid |-> a]]

AServed(obj) == obj.stored /\ ~ obj.deleting

AStartFinalizer ==
  /\ AServed(acache) /\ acache.final # (acache.policy = "Delete")
  /\ ADecide([AKeep(acache) EXCEPT !.final = (acache.policy = "Delete")])

AStartEnsure ==
  /\ AServed(acache) /\ acache.final = (acache.policy = "Delete")
  /\ AStart
  /\ apc' = "find" /\ region' = Home
  /\ UNCHANGED <<akeep, cloud, anext, mishaps>>

ABeingDeleted(obj) == obj.stored /\ obj.deleting

AStartRetain ==
  /\ ABeingDeleted(acache) /\ acache.policy = "Retain"
  /\ ADecide([AKeep(acache) EXCEPT !.final = FALSE])

AFailed(obj) == ABuilt(obj, "Error", obj.status.aid)

\* The id is not known: this is an error, each time.
AStartUnknown ==
  /\ ABeingDeleted(acache) /\ acache.policy = "Delete" /\ acache.status.aid = NoID
  /\ ADecide(AFailed(acache))

AStartDelete ==
  /\ ABeingDeleted(acache) /\ acache.policy = "Delete" /\ acache.status.aid # NoID
  /\ AStart
  /\ apc' = "list" /\ region' = Home
  /\ UNCHANGED <<akeep, cloud, anext, mishaps>>
-----------------------------------------------------------------------------
(* EnsureApplication and DeleteApplication, call by call.                  *)

AWrites(w) == apc' = "write" /\ anext' = w /\ UNCHANGED <<asnap, amoved>>

ASettle(a, st) ==
  AWrites(ABuilt(asnap, IF st = "active" THEN "Ready" ELSE "Pending", a))

\* The applications of this name, as the region the client is set to has them.
Applications == IF region = Home THEN {a \in AppIDs : LiveApp(a)} ELSE {}

AFind ==
  /\ apc = "find"
  /\ \/ \E a \in Applications : ASettle(a, apps[a])
     \/ Applications = {} /\ apc' = "create" /\ UNCHANGED <<asnap, amoved, anext>>
  /\ UNCHANGED <<akeep, cloud, region, mishaps>>

\* A listing or a get that fails loses the id; an update that fails keeps it.
AFindFails ==
  /\ apc = "find" /\ Mishap
  /\ \E a \in Applications \union {NoID} : AWrites(ABuilt(asnap, "Error", a))
  /\ UNCHANGED <<akeep, cloud, region>>

\* Subnets belong to a region, and names are unique.
CanCreateApp == region = Home /\ \A a \in AppIDs : ~ LiveApp(a)

MakeApp(a, st) ==
  /\ apps[a] = "unborn" /\ \A b \in AppIDs : apps[b] = "unborn" => a <= b
  /\ apps' = [apps EXCEPT ![a] = st]
  /\ UNCHANGED fns

ACreate ==
  /\ apc = "create" /\ CanCreateApp
  /\ \E a \in AppIDs, st \in Newborn : MakeApp(a, st) /\ ASettle(a, st)
  /\ UNCHANGED <<akeep, region, mishaps>>

\* The create is refused, or it went through and its reply is lost.
ACreateFails ==
  /\ apc = "create" /\ Refused(~ CanCreateApp)
  /\ AWrites(ABuilt(asnap, "Error", NoID))
  /\ UNCHANGED cloud \/ (CanCreateApp /\ \E a \in AppIDs, st \in Newborn : MakeApp(a, st))
  /\ UNCHANGED <<akeep, region>>

\* An application that has functions is retained, and asked about again.
AList ==
  /\ apc = "list" /\ ~ ListRefused(asnap.status.aid)
  /\ IF FnsIn(asnap.status.aid) # {} THEN AWrites(AFailed(asnap))
     ELSE apc' = "delete" /\ UNCHANGED <<asnap, amoved, anext>>
  /\ UNCHANGED <<akeep, cloud, region, mishaps>>

AListFails ==
  /\ apc = "list" /\ Refused(ListRefused(asnap.status.aid)) /\ AWrites(AFailed(asnap))
  /\ UNCHANGED <<akeep, cloud, region>>

\* OCI keeps an application that has functions.
DeleteRefused == region = Home /\ FnsIn(asnap.status.aid) # {}

EraseApp ==
  /\ apps' = IF region = Home /\ LiveApp(asnap.status.aid)
             THEN [apps EXCEPT ![asnap.status.aid] = "deleted"] ELSE apps
  /\ UNCHANGED fns

\* An application OCI does not know where the client is set to counts as deleted.
ADelete ==
  /\ apc = "delete" /\ ~ DeleteRefused
  /\ EraseApp
  /\ AWrites([final |-> FALSE, status |-> asnap.status])
  /\ UNCHANGED <<akeep, region, mishaps>>

\* Mutant: the finalizer goes although the application could not be deleted.
ADeleteFailed_Finalize(obj) == [final |-> FALSE, status |-> obj.status]

\* What is written when the application could not be deleted.
ADeleteFailed(obj) == AFailed(obj)

ADeleteFails ==
  /\ apc = "delete" /\ Refused(DeleteRefused) /\ AWrites(ADeleteFailed(asnap))
  /\ UNCHANGED cloud \/ (~ DeleteRefused /\ EraseApp)
  /\ UNCHANGED <<akeep, region>>

AUnchanged == anext = AKeep(asnap)

AWrite ==
  /\ apc = "write"
  /\ IF AUnchanged THEN UNCHANGED applicationObject
     ELSE /\ ~ amoved
          /\ PublishA(IF app.deleting /\ ~ anext.final THEN NoApplication
                      ELSE [app EXCEPT !.final = anext.final, !.status = anext.status])
  /\ AReturn
  /\ UNCHANGED <<functionObject, cloud, region, fworker, limits, mishaps>>

AWriteRefused ==
  /\ apc = "write" /\ ~ AUnchanged /\ amoved
  /\ AReturn
  /\ UNCHANGED <<functionObject, applicationObject, cloud, region, fworker, limits, mishaps>>
-----------------------------------------------------------------------------
Environment ==
  \/ EditFunction \/ DeleteFunctionObject
  \/ CreateApplicationObject \/ EditApplication \/ DeleteApplicationObject
  \/ OtherReconcile \/ Crash

\* An idle reconciler takes up its object, a busy one goes on.
FunctionController ==
  \/ /\ fpc = "idle"
     /\ \/ FStartFinalizer \/ FStartWaiting \/ FStartExisting \/ FStartEnsure
        \/ FStartRetain \/ FStartDelete
  \/ /\ fpc # "idle"
     /\ \/ FFind \/ FFindFails \/ FCreate \/ FCreateFails \/ FUpdate \/ FUpdateFails
        \/ FMark \/ FTargetUnknown \/ FTarget \/ FLookup \/ FLookupFails
        \/ FErase \/ FEraseFails \/ FWrite \/ FWriteRefused

ApplicationController ==
  \/ /\ apc = "idle"
     /\ \/ AStartFinalizer \/ AStartEnsure \/ AStartRetain \/ AStartUnknown
        \/ AStartDelete
  \/ /\ apc # "idle"
     /\ \/ AFind \/ AFindFails \/ ACreate \/ ACreateFails
        \/ AList \/ AListFails \/ ADelete \/ ADeleteFails
        \/ AWrite \/ AWriteRefused

Next ==
  \/ Environment \/ Activate \/ SyncFunction \/ SyncApplication
  \/ FunctionController \/ ApplicationController

Spec == Init /\ [][Next]_vars

\* Both controllers and the informer always get to run again, and OCI finishes
\* what it creates.  Every step of a controller moves its reconciler on.
Fairness ==
  /\ WF_fpc(FunctionController) /\ WF_apc(ApplicationController)
  /\ WF_fcache(SyncFunction) /\ WF_acache(SyncApplication) /\ WF_cloud(Activate)

FairSpec == Spec /\ Fairness
-----------------------------------------------------------------------------
(* What the controllers promise.                                           *)

\* Every variable holds a value of its type.
TypeOK ==
  /\ {func, fcache, fsnap} \subseteq FnObject /\ {app, acache, asnap} \subseteq AppObject
  /\ apps \in [AppIDs -> States]
  /\ fns \in [FnIDs -> [state : States, app : AppIDs \union {NoID}, image : Images]]
  /\ region \in Regions
  /\ fpc \in {"idle", "find", "create", "update", "mark", "target", "lookup", "erase", "write"}
  /\ apc \in {"idle", "find", "create", "list", "delete", "write"}
  /\ {fmoved, amoved, referred} \subseteq BOOLEAN
  /\ fapp \in AppIDs \union {NoID} /\ ffound \in FnIDs \union {NoID}
  /\ fnext \in [final : BOOLEAN, status : FnStatus]
  /\ anext \in [final : BOOLEAN, status : AppStatus]
  /\ edits \in 0 .. MaxEdits /\ creations \in 0 .. MaxCreations
  /\ mishaps \in 0 .. MaxMishaps /\ races \in 0 .. MaxRaces

FnReady == func.status.phase = "Ready" /\ func.status.observed = func.gen

\* A managed Function that is Ready for its spec has an OCI function that runs
\* this image, also while it is being deleted: jobs and events are never sent to
\* a function that is gone, whatever was lost, refused or read late.  One of mode
\* Existing has the function of its spec, never one it had when it was managed, and
\* the operator has not deleted it.
ReadyIsBacked ==
  FnReady => IF func.spec.mode = "Existing"
             THEN /\ func.status.fid = func.spec.id
                  /\ fns[func.status.fid].state # "deleted"
             ELSE /\ LiveFn(func.status.fid)
                  /\ fns[func.status.fid].image = func.spec.image

AsksForDeletion(obj) == obj.spec.mode = "Managed" /\ obj.spec.policy = "Delete"

\* A managed Function with policy Delete whose deletion waits for the finalizer
\* leaves no OCI function behind, even one whose id was never stored.  One that was
\* of mode Existing in between has lost the id of what it had made.
FunctionGoneWithObject ==
  [][func.deleting /\ ~ func'.stored /\ AsksForDeletion(func) /\ ~ referred =>
       \A f \in FnIDs \ UserFns : ~ LiveFn(f)]_vars

\* So does a FunctionApplication with its OCI application.
ApplicationGoneWithObject ==
  [][app.deleting /\ ~ app'.stored /\ app.policy = "Delete" =>
       \A a \in AppIDs : ~ LiveApp(a)]_vars

\* OCI resources are deleted only for an object that is being deleted, by a
\* reconcile that read policy Delete, and mode Managed: Retain keeps them, also
\* when mode or policy are edited while the object waits for its finalizer.
RetainKeeps ==
  [][/\ \A f \in FnIDs : LiveFn(f) /\ ~ LiveFn(f)' =>
          func.deleting /\ AsksForDeletion(fsnap)
     /\ \A a \in AppIDs : LiveApp(a) /\ ~ LiveApp(a)' =>
          app.deleting /\ asnap.policy = "Delete"]_vars

\* If nobody deletes the two objects any more the Function becomes Ready, and
\* stays so: an error that asks for no requeue is not the end.  Mode Existing with
\* policy Delete is an error for good.
EventuallyReady ==
  <>[](/\ func.stored /\ ~ func.deleting /\ app.stored /\ ~ app.deleting
       /\ (func.spec.mode = "Existing" => func.spec.policy = "Retain")) => <>[]FnReady

\* A Function that is being deleted goes away, however often OCI fails first,
\* as long as its status knows where to look.
FunctionDeletionCompletes ==
  []<>~ (func.deleting /\ {func.status.fid, func.status.aid} # {NoID})

\* Every Function that is being deleted goes away: one that has no OCI
\* function yet has nothing to wait for.
FunctionDeletionAlwaysCompletes == func.deleting ~> ~ func.stored
=============================================================================
