----------------------- MODULE FunctionLifecycleProofs -----------------------
(***************************************************************************)
(* Proofs about FunctionLifecycle.                                          *)
(*                                                                         *)
(* The two reconcilers meet in OCI, in the region of their client and in    *)
(* the application's object.  The inductive invariant has therefore a part  *)
(* for each (FInv, AInv), which the steps of the other leave alone, and a   *)
(* part for what they share (CloudOK, KnownOK, RegionOK).                   *)
(*                                                                         *)
(* An object goes through versions.  Three of them are read: the stored     *)
(* one, the cached one, and the one a reconcile has begun with.             *)
(***************************************************************************)
EXTENDS FunctionLifecycle, TLAPS

\* Its deletion was asked for, or it is gone.
Going(o) == o.deleting \/ ~ o.stored

\* It is gone, or it is going and says so: it never says Ready again.
Doomed(o) == ~ o.stored \/ (o.deleting /\ o.status.phase \in {"Deleting", "DeleteFailed"})

\* What is being deleted is held by its finalizer, and what is gone says nothing.
FSound(o) == /\ o.deleting => o.stored /\ o.final
             /\ ~ o.stored => o.status = NoFnStatus

\* The versions of the Function follow each other: a deletion is not taken back.
FOrderOK ==
  /\ FSound(func) /\ FSound(fcache)
  /\ Going(fcache) => Going(func)
  /\ Doomed(fcache) => Doomed(func)
  /\ fpc # "idle" => /\ FSound(fsnap) /\ fsnap.stored
                     /\ Going(fsnap) => Going(fcache)
                     /\ FServed(fsnap) /\ fcache.deleting => func.deleting
                     /\ ~ fmoved => func = fsnap

\* Functions are deleted for a Function that is going, whoever reads it.
SomeDead == \E f \in FnIDs : fns[f].state = "deleted"

DeadOK == SomeDead => Doomed(func) /\ Going(fcache) /\ (fpc # "idle" => Going(fsnap))

\* What a status st of generation g and spec s says of the functions fn is true.
Backed(fn, s, g, st) ==
  st.phase = "Ready" /\ st.observed = g =>
    IF s.mode = "Existing"
    THEN st.fid = s.id /\ fn[st.fid].state # "deleted"
    ELSE st.fid \in FnIDs /\ fn[st.fid].state \in Newborn /\ fn[st.fid].image = s.image

\* A Function that is Ready has its function, and whoever reads an old version of it
\* reads the same spec.
BackedOK ==
  /\ func.status.observed <= func.gen
  /\ FnReady => fcache.spec = func.spec /\ (fpc # "idle" => fsnap.spec = func.spec)
  /\ Backed(fns, func.spec, func.gen, func.status)

\* Nothing is left for a deletion that reads version o.
FErased(o) ==
  IF o.status.fid # NoID THEN ~ LiveFn(o.status.fid)
  ELSE o.status.aid # NoID => FnsIn(o.status.aid) = {}

Deletion(o) == o.deleting /\ FDeletes(o)

\* Who reads the deletion of a Function that is gone already has nothing to delete.
FGuardOK ==
  races = 0 =>
    /\ Deletion(fcache) => func.deleting \/ FErased(fcache)
    /\ fpc # "idle" /\ Deletion(fsnap) => func.deleting \/ FErased(fsnap)

\* A function the operator has made, or found in the application.
Held(f) == f # NoID => fns[f].state # "unborn" /\ fns[f].app # NoID

\* No function the operator has made is left.
NoneLeft == \A f \in FnIDs \ UserFns : ~ LiveFn(f)

\* A Function that was managed all along knows only functions of the application;
\* and once one of them is deleted none is left.
FidsOK ==
  ~ referred =>
    /\ Managed(func) /\ Managed(fcache) /\ (fpc # "idle" => Managed(fsnap))
    /\ Held(func.status.fid) /\ Held(fcache.status.fid) /\ Held(fsnap.status.fid)
    /\ SomeDead => NoneLeft

Known(a) == a # NoID => apps[a] # "unborn"

\* The Function knows only applications that were there.
KnownOK == Known(func.status.aid) /\ Known(fcache.status.aid) /\ Known(fsnap.status.aid)

\* What the Function's reconciler relies on.
FWorkOK ==
  /\ fpc \in {"find", "create", "update"} =>
       FServed(fsnap) /\ Managed(fsnap) /\ fapp \in AppIDs /\ Known(fapp)
  /\ fpc \in {"mark", "target", "lookup", "erase"} => Deletion(fsnap)
  /\ fpc \in {"target", "lookup", "erase"} => Doomed(func)
  /\ fpc = "update" => LiveFn(ffound) /\ fns[ffound].app = fapp
  /\ fpc = "lookup" => /\ fsnap.status.fid = NoID
                       /\ fapp = fsnap.status.aid /\ fapp \in AppIDs
  /\ fpc = "erase" => /\ ffound \in FnIDs
                      /\ IF fsnap.status.fid # NoID THEN ffound = fsnap.status.fid
                         ELSE fsnap.status.aid \in AppIDs /\ ffound \in FnsIn(fsnap.status.aid)

\* What holds of w when it is about to be written.
FWritable(w) ==
  /\ fsnap.deleting => ~ w.final \/ w.status.phase = "DeleteFailed"
  /\ ~ fmoved => w.status.observed <= fsnap.gen /\ Backed(fns, fsnap.spec, fsnap.gen, w.status)
  /\ Known(w.status.aid)
  /\ ~ referred => Held(w.status.fid)
  /\ races = 0 /\ Deletion(fsnap) /\ ~ w.final => FErased(fsnap)
  /\ /\ races = 0 /\ (ListsGone => creations <= 1) /\ ~ referred
     /\ Deletion(fsnap) /\ ~ w.final
     => NoneLeft

FWriteOK == fpc = "write" => FWritable(fnext)

FVersionsOK == FOrderOK /\ DeadOK /\ BackedOK /\ FGuardOK /\ FidsOK /\ KnownOK

FInv == FVersionsOK /\ FWorkOK /\ FWriteOK

ASound(o) == /\ o.deleting => o.stored /\ o.final
             /\ ~ o.stored => o.status = NoAppStatus

\* The objects of one name follow each other: who reads the deletion of one may see
\* the next, which has no application yet.
AOrderOK ==
  /\ ASound(app) /\ ASound(acache)
  /\ acache.deleting /\ app.status.aid # NoID => app.deleting
  /\ apc # "idle" => /\ ASound(asnap) /\ asnap.stored
                     /\ ~ amoved => app = asnap
                     /\ asnap.deleting =>
                          /\ app.status.aid # NoID => app.deleting
                          /\ acache.status.aid # NoID => acache.deleting
                          /\ AServed(acache) => app.status.aid = NoID

NoLiveApp == \A a \in AppIDs : ~ LiveApp(a)

Dead(a) == a # NoID /\ apps[a] = "deleted"

\* An id stands for an application that was there, and that is the only one.
Meant(a) == a # NoID => apps[a] # "unborn" /\ (Dead(a) => NoLiveApp)

\* A dead application is known only to an object that is being deleted, and nobody
\* serves an older version of it.
AidsOK ==
  /\ Meant(app.status.aid) /\ Meant(acache.status.aid) /\ Meant(asnap.status.aid)
  /\ Dead(app.status.aid) => app.deleting
  /\ Dead(acache.status.aid) => acache.deleting
  /\ apc # "idle" /\ Dead(asnap.status.aid) => asnap.deleting
  /\ AServed(acache) => ~ Dead(app.status.aid)
  /\ apc # "idle" /\ AServed(asnap) => ~ Dead(app.status.aid) /\ ~ Dead(acache.status.aid)

\* What the FunctionApplication's reconciler relies on.
AWorkOK ==
  /\ apc \in {"find", "create"} => AServed(asnap)
  /\ apc \in {"list", "delete"} =>
       asnap.deleting /\ asnap.policy = "Delete" /\ asnap.status.aid # NoID

\* What holds of w when it is about to be written.
AWritable(w) ==
  /\ Meant(w.status.aid) /\ (Dead(w.status.aid) => asnap.deleting)
  /\ asnap.deleting /\ asnap.policy = "Delete" /\ ~ w.final /\ races = 0 => NoLiveApp

AWriteOK == apc = "write" => AWritable(anext)

\* Who reads a deletion has an object that is being deleted, or nothing to delete.
AGuardOK ==
  races = 0 =>
    /\ acache.deleting /\ acache.policy = "Delete" /\ LiveApp(acache.status.aid) => app.deleting
    /\ apc # "idle" /\ asnap.deleting /\ asnap.policy = "Delete" /\ LiveApp(asnap.status.aid)
         => app.deleting

\* While the object was created once, an application that is deleted was the last.
OnceOK ==
  /\ creations = 0 => ~ app.stored /\ ~ acache.stored /\ apc = "idle"
  /\ creations <= 1 =>
       /\ acache.deleting => ~ AServed(app)
       /\ apc # "idle" /\ asnap.deleting => ~ AServed(app) /\ ~ AServed(acache)
       /\ (\E a \in AppIDs : apps[a] = "deleted") =>
            /\ creations = 1 /\ NoLiveApp
            /\ ~ AServed(app) /\ ~ AServed(acache) /\ (apc # "idle" => ~ AServed(asnap))

AVersionsOK == AOrderOK /\ AidsOK /\ AGuardOK /\ OnceOK

AInv == AVersionsOK /\ AWorkOK /\ AWriteOK

\* Names are unique in OCI, and what is in an application keeps it alive.
CloudOK ==
  /\ \A a, b \in AppIDs : LiveApp(a) /\ LiveApp(b) => a = b
  /\ \A f, g \in FnIDs : LiveFn(f) /\ LiveFn(g) /\ fns[f].app = fns[g].app /\ fns[f].app # NoID
                           => f = g
  /\ \A f \in FnIDs : LiveFn(f) /\ fns[f].app # NoID => LiveApp(fns[f].app)
  /\ \A f \in FnIDs \ UserFns : fns[f].state # "unborn" => fns[f].app # NoID

FCalls == {"find", "create", "update", "lookup", "erase"}
ACalls == {"find", "create", "list", "delete"}

\* Unless the region changes under a running reconcile, calls go where they should.
RegionOK == races = 0 /\ (fpc \in FCalls \/ apc \in ACalls) => region = Home

Inv == TypeOK /\ FInv /\ AInv /\ CloudOK /\ RegionOK
-----------------------------------------------------------------------------
(* Types.                                                                  *)

FPCs == {"idle", "find", "create", "update", "mark", "target", "lookup", "erase", "write"}
APCs == {"idle", "find", "create", "list", "delete", "write"}

FnPlan  == [final : BOOLEAN, status : FnStatus]
AppPlan == [final : BOOLEAN, status : AppStatus]

LEMMA IDs == NoID \notin FnIDs /\ NoID \notin AppIDs /\ FnIDs \subseteq Nat /\ AppIDs \subseteq Nat
BY LifecycleAssumption DEF NoID, FnIDs, AppIDs

LEMMA Specs ==
  ASSUME NEW s \in FnSpecs
  PROVE  /\ s \in FnSpec /\ s.mode \in {"Managed", "Existing"} /\ s.policy \in Policies
         /\ s.image \in Images /\ s.id \in FnIDs \union {NoID}
         /\ s.mode = "Existing" => s.id \in FnIDs
BY LifecycleAssumption DEF FnSpec

LEMMA NothingTypes ==
  /\ SomeSpec \in FnSpecs /\ SomeImage \in Images
  /\ NoFnStatus \in FnStatus /\ NoAppStatus \in AppStatus
  /\ FnNothing \in FnPlan /\ AppNothing \in AppPlan
  /\ NoFunction \in FnObject /\ NoApplication \in AppObject
<1>1. SomeSpec \in FnSpecs
  BY LifecycleAssumption DEF SomeSpec
<1>2. NoFnStatus \in FnStatus /\ NoAppStatus \in AppStatus
  BY DEF NoFnStatus, FnStatus, NoAppStatus, AppStatus
<1>3. FnNothing \in FnPlan /\ AppNothing \in AppPlan
  BY <1>2 DEF FnNothing, FnPlan, AppNothing, AppPlan
<1>4. NoFunction \in FnObject /\ NoApplication \in AppObject
  BY <1>1, <1>2 DEF NoFunction, FnObject, NoApplication, AppObject, Policies
<1>5. SomeImage \in Images
  BY <1>1, Specs DEF SomeImage
<1>6. QED
  BY <1>1, <1>2, <1>3, <1>4, <1>5

LEMMA FnFields ==
  ASSUME NEW o \in FnObject
  PROVE  /\ o.stored \in BOOLEAN /\ o.deleting \in BOOLEAN /\ o.final \in BOOLEAN
         /\ o.gen \in Nat /\ o.spec \in FnSpecs /\ o.status \in FnStatus
         /\ o.status.observed \in Nat /\ o.status.fid \in FnIDs \union {NoID}
         /\ o.status.aid \in AppIDs \union {NoID}
BY DEF FnObject, FnStatus

LEMMA AppFields ==
  ASSUME NEW o \in AppObject
  PROVE  /\ o.stored \in BOOLEAN /\ o.deleting \in BOOLEAN /\ o.final \in BOOLEAN
         /\ o.policy \in Policies /\ o.status \in AppStatus
         /\ o.status.aid \in AppIDs \union {NoID}
BY DEF AppObject, AppStatus

\* The versions that the actions make of a version.
LEMMA FnEdited ==
  ASSUME NEW o \in FnObject, NEW s \in FnSpecs
  PROVE  [o EXCEPT !.spec = s, !.gen = @ + 1] \in FnObject
<1> DEFINE n == o.gen + 1
<1>1. n \in Nat
  BY FnFields
<1> HIDE DEF n
<1>2. [o EXCEPT !.spec = s, !.gen = n] \in FnObject
  BY <1>1 DEF FnObject
<1>3. QED
  BY <1>2 DEF n

LEMMA FnDeleted ==
  ASSUME NEW o \in FnObject
  PROVE  [o EXCEPT !.deleting = TRUE] \in FnObject /\ GoneFunction(o) \in FnObject
BY NothingTypes, FnFields DEF GoneFunction, FnObject

LEMMA FnWritten ==
  ASSUME NEW o \in FnObject, NEW st \in FnStatus, NEW fin \in BOOLEAN
  PROVE  /\ [o EXCEPT !.final = fin, !.status = st] \in FnObject
         /\ [o EXCEPT !.status = st] \in FnObject
BY DEF FnObject

LEMMA AppEdited ==
  ASSUME NEW o \in AppObject, NEW p \in Policies
  PROVE  /\ [NoApplication EXCEPT !.stored = TRUE, !.policy = p] \in AppObject
         /\ [o EXCEPT !.policy = p] \in AppObject
BY NothingTypes DEF AppObject

LEMMA AppDeleted ==
  ASSUME NEW o \in AppObject
  PROVE  [o EXCEPT !.deleting = TRUE] \in AppObject
BY DEF AppObject

LEMMA AppWritten ==
  ASSUME NEW o \in AppObject, NEW st \in AppStatus, NEW fin \in BOOLEAN
  PROVE  [o EXCEPT !.final = fin, !.status = st] \in AppObject
BY DEF AppObject

\* The writes a reconcile ends with.
LEMMA FnPlans ==
  ASSUME NEW o \in FnObject, NEW f \in FnIDs \union {NoID}, NEW a \in AppIDs \union {NoID},
         NEW fin \in BOOLEAN
  PROVE  /\ FKeep(o) \in FnPlan /\ [FKeep(o) EXCEPT !.final = fin] \in FnPlan
         /\ FBuilt(o, "Ready", f, a) \in FnPlan /\ FBuilt(o, "Pending", f, a) \in FnPlan
         /\ FBuilt(o, "Error", f, a) \in FnPlan
         /\ [final |-> FALSE, status |-> o.status] \in FnPlan
         /\ [final |-> o.final,
             status |-> [o.status EXCEPT !.phase = "DeleteFailed", !.observed = o.gen]] \in FnPlan
         /\ FMarked(o) \in FnStatus
<1>1. o.gen \in Nat /\ o.final \in BOOLEAN /\ o.status \in FnStatus
  BY FnFields
<1>2. /\ FBuilt(o, "Ready", f, a) \in FnPlan /\ FBuilt(o, "Pending", f, a) \in FnPlan
      /\ FBuilt(o, "Error", f, a) \in FnPlan
  BY <1>1 DEF FBuilt, FnPlan, FnStatus
<1>3. /\ FMarked(o) \in FnStatus
      /\ [o.status EXCEPT !.phase = "DeleteFailed", !.observed = o.gen] \in FnStatus
  BY <1>1 DEF FMarked, FnStatus
<1>4. FKeep(o) \in FnPlan /\ [FKeep(o) EXCEPT !.final = fin] \in FnPlan
  BY <1>1 DEF FKeep, FnPlan
<1>5. QED
  BY <1>1, <1>2, <1>3, <1>4 DEF FnPlan

LEMMA AppPlans ==
  ASSUME NEW o \in AppObject, NEW a \in AppIDs \union {NoID}, NEW fin \in BOOLEAN
  PROVE  /\ AKeep(o) \in AppPlan /\ [AKeep(o) EXCEPT !.final = fin] \in AppPlan
         /\ ABuilt(o, "Ready", a) \in AppPlan /\ ABuilt(o, "Pending", a) \in AppPlan
         /\ ABuilt(o, "Error", a) \in AppPlan
         /\ [final |-> FALSE, status |-> o.status] \in AppPlan
<1>1. o.final \in BOOLEAN /\ o.status \in AppStatus
  BY AppFields
<1>2. /\ ABuilt(o, "Ready", a) \in AppPlan /\ ABuilt(o, "Pending", a) \in AppPlan
      /\ ABuilt(o, "Error", a) \in AppPlan
  BY <1>1 DEF ABuilt, AppPlan, AppStatus
<1>3. AKeep(o) \in AppPlan /\ [AKeep(o) EXCEPT !.final = fin] \in AppPlan
  BY <1>1 DEF AKeep, AppPlan
<1>4. QED
  BY <1>1, <1>2, <1>3 DEF AppPlan

OCIFunction == [state : States, app : AppIDs \union {NoID}, image : Images]

ObjectsType == /\ func \in FnObject /\ fcache \in FnObject
               /\ app \in AppObject /\ acache \in AppObject
CloudType   == apps \in [AppIDs -> States] /\ fns \in [FnIDs -> OCIFunction]
FWorkerType == /\ fpc \in FPCs /\ fsnap \in FnObject /\ fmoved \in BOOLEAN /\ fnext \in FnPlan
               /\ fapp \in AppIDs \union {NoID} /\ ffound \in FnIDs \union {NoID}
AWorkerType == apc \in APCs /\ asnap \in AppObject /\ amoved \in BOOLEAN /\ anext \in AppPlan
CountsType  == /\ region \in Regions /\ referred \in BOOLEAN
               /\ edits \in 0 .. MaxEdits /\ creations \in 0 .. MaxCreations
               /\ mishaps \in 0 .. MaxMishaps /\ races \in 0 .. MaxRaces

LEMMA TypeParts == TypeOK <=> ObjectsType /\ CloudType /\ FWorkerType /\ AWorkerType /\ CountsType
BY DEF TypeOK, ObjectsType, CloudType, FWorkerType, AWorkerType, CountsType, OCIFunction,
       FPCs, APCs, FnPlan, AppPlan

LEMMA TypePartsNext ==
  TypeOK' <=> ObjectsType' /\ CloudType' /\ FWorkerType' /\ AWorkerType' /\ CountsType'
BY DEF TypeOK, ObjectsType, CloudType, FWorkerType, AWorkerType, CountsType, OCIFunction,
       FPCs, APCs, FnPlan, AppPlan

LEMMA TypeInit == Init => TypeOK
<1>1. SUFFICES ASSUME Init PROVE TypeOK
  OBVIOUS
<1>2. PICK s \in FnSpecs : func = [NoFunction EXCEPT !.stored = TRUE, !.gen = 1, !.spec = s]
  BY <1>1 DEF Init
<1>3. func \in FnObject
  BY <1>2, NothingTypes DEF FnObject
<1>4. ObjectsType /\ AWorkerType
  BY <1>1, <1>3, NothingTypes DEF Init, ObjectsType, AWorkerType, APCs
<1>5. FWorkerType
  BY <1>1, NothingTypes DEF Init, FWorkerType, FPCs
<1>6. CloudType
  <2>1. PICK place \in {NoID, 1}, twin \in UserFns \union {NoID} :
          /\ apps = [a \in AppIDs |-> IF a = place THEN "active" ELSE "unborn"]
          /\ fns = [f \in FnIDs |->
                      [state |-> IF f \in UserFns THEN "active" ELSE "unborn",
                       app |-> IF f = twin THEN place ELSE NoID, image |-> SomeImage]]
    BY <1>1 DEF Init
  <2>2. place \in AppIDs \union {NoID} /\ SomeImage \in Images
    BY LifecycleAssumption, NothingTypes DEF AppIDs
  <2>3. apps \in [AppIDs -> States]
    BY <2>1 DEF States, Newborn
  <2>4. fns \in [FnIDs -> OCIFunction]
    BY <2>1, <2>2 DEF OCIFunction, States, Newborn
  <2>5. QED
    BY <2>3, <2>4 DEF CloudType
<1>7. CountsType
  BY <1>1, LifecycleAssumption DEF Init, CountsType
<1>8. QED
  BY <1>4, <1>5, <1>6, <1>7, TypeParts

LEMMA MishapType ==
  ASSUME CountsType, Mishap \/ UNCHANGED mishaps, UNCHANGED <<limits, region>>
  PROVE  CountsType'
BY LifecycleAssumption DEF CountsType, Mishap, limits

LEMMA RefusedMishap ==
  ASSUME NEW cond, Refused(cond)
  PROVE  Mishap \/ UNCHANGED mishaps
BY DEF Refused

LEMMA FReturnType == ASSUME FReturn PROVE FWorkerType'
BY NothingTypes DEF FReturn, FWorkerType, FPCs

LEMMA AReturnType == ASSUME AReturn PROVE AWorkerType'
BY NothingTypes DEF AReturn, AWorkerType, APCs

LEMMA FWritesType ==
  ASSUME FWorkerType, NEW w \in FnPlan, FWrites(w)
  PROVE  FWorkerType'
BY DEF FWorkerType, FWrites, FPCs

LEMMA AWritesType ==
  ASSUME AWorkerType, NEW w \in AppPlan, AWrites(w)
  PROVE  AWorkerType'
BY DEF AWorkerType, AWrites, APCs

LEMMA MakeFnType ==
  ASSUME TypeOK, NEW f \in FnIDs, NEW st \in Newborn, MakeFn(f, st)
  PROVE  CloudType'
<1>1. fsnap.spec.image \in Images /\ fapp \in AppIDs \union {NoID} /\ st \in States
  BY TypeParts, FnFields, Specs DEF FWorkerType, States
<1>2. [state |-> st, app |-> fapp, image |-> fsnap.spec.image] \in OCIFunction
  BY <1>1 DEF OCIFunction
<1>3. QED
  BY <1>2, TypeParts DEF CloudType, MakeFn

LEMMA ChangeFnType ==
  ASSUME TypeOK, ChangeFn
  PROVE  CloudType'
<1>1. fsnap.spec.image \in Images
  BY TypeParts, FnFields, Specs DEF FWorkerType
<1>2. QED
  BY <1>1, TypeParts DEF CloudType, ChangeFn, OCIFunction

LEMMA EraseType ==
  ASSUME TypeOK, Erase
  PROVE  CloudType'
BY TypeParts DEF CloudType, Erase, OCIFunction, States

LEMMA MakeAppType ==
  ASSUME TypeOK, NEW a \in AppIDs, NEW st \in Newborn, MakeApp(a, st)
  PROVE  CloudType'
BY TypeParts DEF CloudType, MakeApp, States

LEMMA EraseAppType ==
  ASSUME TypeOK, EraseApp
  PROVE  CloudType'
BY TypeParts DEF CloudType, EraseApp, States

LEMMA ActivateType ==
  ASSUME TypeOK, Activate
  PROVE  CloudType'
BY TypeParts DEF CloudType, Activate, OCIFunction, States, Newborn

\* The environment keeps the types.
LEMMA TypeEnvironment ==
  ASSUME TypeOK, Environment \/ Activate \/ SyncFunction \/ SyncApplication
  PROVE  TypeOK'
<1>1. ObjectsType /\ CloudType /\ FWorkerType /\ AWorkerType /\ CountsType
  BY TypeParts
<1>2. ASSUME NEW o \in FnObject, TouchF(o)
      PROVE  /\ ObjectsType' /\ CloudType' /\ FWorkerType' /\ AWorkerType'
             /\ UNCHANGED <<mishaps, races, region>>
  BY <1>1, <1>2 DEF TouchF, PublishF, ObjectsType, CloudType, FWorkerType, AWorkerType,
                    applicationObject, cloud, aworker
<1>3. ASSUME NEW o \in AppObject, TouchA(o)
      PROVE  /\ ObjectsType' /\ CloudType' /\ FWorkerType' /\ AWorkerType'
             /\ UNCHANGED <<mishaps, races, region>>
  BY <1>1, <1>3 DEF TouchA, PublishA, ObjectsType, CloudType, FWorkerType, AWorkerType,
                    functionObject, cloud, fworker
<1>4. CASE EditFunction
  <2>1. PICK s \in FnSpecs : /\ TouchF([func EXCEPT !.spec = s, !.gen = @ + 1])
                             /\ referred' = (referred \/ s.mode = "Existing")
    BY <1>4 DEF EditFunction
  <2>2. [func EXCEPT !.spec = s, !.gen = @ + 1] \in FnObject
    BY <1>1, FnEdited DEF ObjectsType
  <2>3. ObjectsType' /\ CloudType' /\ FWorkerType' /\ AWorkerType' /\ UNCHANGED <<mishaps, races, region>>
    BY <1>2, <2>1, <2>2
  <2>4. CountsType'
    BY <1>1, <1>4, <2>1, <2>3, LifecycleAssumption DEF EditFunction, CountsType
  <2>5. QED
    BY <2>3, <2>4, TypePartsNext
<1>5. CASE DeleteFunctionObject
  <2> DEFINE new == IF func.final THEN [func EXCEPT !.deleting = TRUE] ELSE GoneFunction(func)
  <2>1. new \in FnObject /\ TouchF(new)
    BY <1>1, <1>5, FnDeleted DEF DeleteFunctionObject, ObjectsType
  <2>2. ObjectsType' /\ CloudType' /\ FWorkerType' /\ AWorkerType' /\ UNCHANGED <<mishaps, races, region>>
    BY <1>2, <2>1
  <2>3. CountsType'
    BY <1>1, <1>5, <2>2 DEF DeleteFunctionObject, CountsType, users
  <2>4. QED
    BY <2>2, <2>3, TypePartsNext
<1>6. CASE CreateApplicationObject \/ EditApplication \/ DeleteApplicationObject
  <2>1. app \in AppObject
    BY <1>1 DEF ObjectsType
  <2>2. CreateApplicationObject \/ EditApplication => \E o \in AppObject : TouchA(o)
    BY <2>1, AppEdited DEF CreateApplicationObject, EditApplication
  <2>3. DeleteApplicationObject => \E o \in AppObject : TouchA(o)
    BY <2>1, AppDeleted, NothingTypes DEF DeleteApplicationObject
  <2>4. \E o \in AppObject : TouchA(o)
    BY <1>6, <2>2, <2>3
  <2>5. ObjectsType' /\ CloudType' /\ FWorkerType' /\ AWorkerType' /\ UNCHANGED <<mishaps, races, region>>
    BY <1>3, <2>4
  <2>6. /\ creations' = creations \/ (creations < MaxCreations /\ creations' = creations + 1)
        /\ edits' = edits \/ (edits < MaxEdits /\ edits' = edits + 1)
    BY <1>6 DEF CreateApplicationObject, EditApplication, DeleteApplicationObject, users
  <2>7. creations' \in 0 .. MaxCreations /\ edits' \in 0 .. MaxEdits
    BY <1>1, <2>6, LifecycleAssumption DEF CountsType
  <2>8. referred' = referred
    BY <1>6 DEF CreateApplicationObject, EditApplication, DeleteApplicationObject, users
  <2>9. CountsType'
    BY <1>1, <2>5, <2>7, <2>8 DEF CountsType
  <2>10. QED
    BY <2>5, <2>9, TypePartsNext
<1>7. CASE OtherReconcile
  <2>1. CountsType'
    BY <1>1, <1>7, LifecycleAssumption DEF OtherReconcile, CountsType, users
  <2>2. ObjectsType' /\ CloudType' /\ FWorkerType' /\ AWorkerType'
    BY <1>1, <1>7 DEF OtherReconcile, functionObject, applicationObject, cloud, fworker, aworker,
                      ObjectsType, CloudType, FWorkerType, AWorkerType
  <2>3. QED
    BY <2>1, <2>2, TypePartsNext
<1>8. CASE Crash
  <2>1. CountsType'
    BY <1>1, <1>8, MishapType DEF Crash, limits, users
  <2>2. ObjectsType' /\ CloudType'
    BY <1>1, <1>8 DEF Crash, cloud, ObjectsType, CloudType
  <2>3. QED
    BY <1>8, <2>1, <2>2, FReturnType, AReturnType, TypePartsNext DEF Crash
<1>9. CASE Activate
  <2>1. ObjectsType' /\ FWorkerType' /\ AWorkerType' /\ CountsType'
    BY <1>1, <1>9 DEF Activate, functionObject, applicationObject, fworker, aworker, limits,
                      ObjectsType, FWorkerType, AWorkerType, CountsType
  <2>2. QED
    BY <1>9, <2>1, ActivateType, TypePartsNext
<1>10. CASE SyncFunction \/ SyncApplication
  BY <1>1, <1>10, TypePartsNext
     DEF SyncFunction, SyncApplication, functionObject, applicationObject, cloud, fworker, aworker,
         limits, ObjectsType, CloudType, FWorkerType, AWorkerType, CountsType
<1>11. QED
  BY <1>4, <1>5, <1>6, <1>7, <1>8, <1>9, <1>10 DEF Environment

\* A step of the Function's reconciler that leaves the rest alone.
LEMMA TypeFStep ==
  ASSUME TypeOK, FWorkerType', CloudType', UNCHANGED <<fkeep, region>>, Mishap \/ UNCHANGED mishaps
  PROVE  TypeOK'
<1>1. ObjectsType /\ AWorkerType /\ CountsType
  BY TypeParts
<1>2. ObjectsType' /\ AWorkerType'
  BY <1>1 DEF fkeep, functionObject, applicationObject, aworker, ObjectsType, AWorkerType
<1>3. CountsType'
  BY <1>1, MishapType DEF fkeep
<1>4. QED
  BY <1>2, <1>3, TypePartsNext

LEMMA TypeFWrite ==
  ASSUME TypeOK, NEW w \in FnPlan, FWrites(w), CloudType', UNCHANGED <<fkeep, region>>,
         Mishap \/ UNCHANGED mishaps
  PROVE  TypeOK'
BY TypeFStep, FWritesType, TypeParts

LEMMA TypeFDecide ==
  ASSUME TypeOK, NEW w \in FnPlan, FDecide(w)
  PROVE  TypeOK'
<1>1. FWorkerType'
  BY TypeParts DEF FDecide, FStart, FWorkerType, FPCs, ObjectsType
<1>2. CloudType'
  BY TypeParts DEF FDecide, CloudType, cloud
<1>3. QED
  BY <1>1, <1>2, TypeFStep DEF FDecide

LEMMA TypeAStep ==
  ASSUME TypeOK, AWorkerType', CloudType', UNCHANGED <<akeep, region>>, Mishap \/ UNCHANGED mishaps
  PROVE  TypeOK'
<1>1. ObjectsType /\ FWorkerType /\ CountsType
  BY TypeParts
<1>2. ObjectsType' /\ FWorkerType'
  BY <1>1 DEF akeep, functionObject, applicationObject, fworker, ObjectsType, FWorkerType
<1>3. CountsType'
  BY <1>1, MishapType DEF akeep
<1>4. QED
  BY <1>2, <1>3, TypePartsNext

LEMMA TypeAWrite ==
  ASSUME TypeOK, NEW w \in AppPlan, AWrites(w), CloudType', UNCHANGED <<akeep, region>>,
         Mishap \/ UNCHANGED mishaps
  PROVE  TypeOK'
BY TypeAStep, AWritesType, TypeParts

LEMMA TypeADecide ==
  ASSUME TypeOK, NEW w \in AppPlan, ADecide(w)
  PROVE  TypeOK'
<1>1. AWorkerType'
  BY TypeParts DEF ADecide, AStart, AWorkerType, APCs, ObjectsType
<1>2. CloudType'
  BY TypeParts DEF ADecide, CloudType, cloud
<1>3. QED
  BY <1>1, <1>2, TypeAStep DEF ADecide
-----------------------------------------------------------------------------
(* Each reconciler leaves alone what the other relies on.                  *)

LEMMA AStays ==
  ASSUME AInv, UNCHANGED <<applicationObject, aworker, apps, creations>>, races' = 0 => races = 0
  PROVE  AInv'
<1> USE DEF applicationObject, aworker
<1>1. AOrderOK'
  BY DEF AInv, AVersionsOK, AOrderOK
<1>2. AidsOK'
  BY DEF AInv, AVersionsOK, AidsOK, Meant, Dead, NoLiveApp, LiveApp
<1>3. AGuardOK'
  BY DEF AInv, AVersionsOK, AGuardOK, LiveApp
<1>4. OnceOK'
  BY DEF AInv, AVersionsOK, OnceOK, NoLiveApp, LiveApp
<1>5. AWorkOK'
  BY DEF AInv, AWorkOK
<1>6. AWriteOK'
  BY DEF AInv, AWriteOK, AWritable, Meant, Dead, NoLiveApp, LiveApp
<1>7. QED
  BY <1>1, <1>2, <1>3, <1>4, <1>5, <1>6 DEF AInv, AVersionsOK

\* No application becomes unborn again.
StillBorn == \A a \in AppIDs : apps[a] # "unborn" => apps'[a] # "unborn"

LEMMA FStays ==
  ASSUME TypeOK, FInv, UNCHANGED <<functionObject, fworker, fns, referred>>, StillBorn,
         races' = 0 => races = 0, creations' <= 1 => creations <= 1
  PROVE  FInv'
<1> USE DEF functionObject, fworker
<1>1. /\ func.status.aid \in AppIDs \union {NoID} /\ fcache.status.aid \in AppIDs \union {NoID}
      /\ fsnap.status.aid \in AppIDs \union {NoID} /\ fnext.status.aid \in AppIDs \union {NoID}
  BY TypeParts, FnFields DEF ObjectsType, FWorkerType, FnPlan, FnStatus
<1>2. FOrderOK' /\ BackedOK'
  BY DEF FInv, FVersionsOK, FOrderOK, BackedOK, Backed, FnReady
<1>3. DeadOK'
  BY DEF FInv, FVersionsOK, DeadOK, SomeDead
<1>4. FGuardOK'
  BY DEF FInv, FVersionsOK, FGuardOK, FErased, LiveFn, FnsIn
<1>5. FidsOK'
  BY DEF FInv, FVersionsOK, FidsOK, Held, SomeDead, NoneLeft, LiveFn
<1>6. KnownOK'
  BY <1>1 DEF FInv, FVersionsOK, KnownOK, Known, StillBorn
<1>7. FWorkOK'
  BY <1>1 DEF FInv, FWorkOK, Known, StillBorn, LiveFn, FnsIn
<1>8. ASSUME FWritable(fnext) PROVE FWritable(fnext)'
  <2>1. Known(fnext.status.aid)'
    BY <1>1, <1>8 DEF FWritable, Known, StillBorn
  <2>2. FErased(fsnap) => FErased(fsnap)'
    BY DEF FErased, LiveFn, FnsIn
  <2>3. NoneLeft => NoneLeft'
    BY DEF NoneLeft, LiveFn
  <2>4. QED
    BY <1>8, <2>1, <2>2, <2>3 DEF FWritable, Backed, Held
<1>9. QED
  BY <1>2, <1>3, <1>4, <1>5, <1>6, <1>7, <1>8 DEF FInv, FVersionsOK, FWriteOK
-----------------------------------------------------------------------------
(* The Function's reconciler.                                              *)

\* What a step that changes the functions has to see to.
FnsFine ==
  /\ CloudOK'
  /\ SomeDead' => Doomed(func) /\ Going(fcache) /\ Going(fsnap)
  /\ Backed(fns', func.spec, func.gen, func.status)
  /\ \A f \in FnIDs : fns[f].state # "unborn" => fns'[f].state # "unborn" /\ fns'[f].app = fns[f].app
  /\ races = 0 => /\ Deletion(fcache) => func.deleting \/ FErased(fcache)'
                  /\ Deletion(fsnap) => func.deleting \/ FErased(fsnap)'
  /\ ~ referred /\ SomeDead' => NoneLeft'

LEMMA SameFns ==
  ASSUME Inv, UNCHANGED cloud, fpc # "idle", UNCHANGED <<fcache, fsnap>>
  PROVE  FnsFine
<1> USE DEF Inv, FInv, FVersionsOK, cloud
<1>1. CloudOK'
  BY DEF CloudOK, LiveApp, LiveFn
<1>2. SomeDead' => SomeDead
  BY DEF SomeDead
<1>3. NoneLeft => NoneLeft'
  BY DEF NoneLeft, LiveFn
<1>4. FGuardOK /\ (FErased(fcache) => FErased(fcache)') /\ (FErased(fsnap) => FErased(fsnap)')
  BY DEF FErased, LiveFn, FnsIn
<1>5. QED
  BY <1>1, <1>2, <1>3, <1>4 DEF FnsFine, DeadOK, BackedOK, Backed, FGuardOK, FidsOK

LEMMA FCallVersions ==
  ASSUME Inv, UNCHANGED <<fkeep, apps, fsnap, fmoved>>, fpc # "idle", fpc' # "idle", FnsFine
  PROVE  FVersionsOK' /\ AInv'
<1> USE DEF Inv, FInv, FVersionsOK, fkeep, functionObject, limits
<1>1. FOrderOK'
  BY DEF FOrderOK
<1>2. DeadOK'
  BY DEF FnsFine, DeadOK
<1>3. BackedOK'
  BY DEF FnsFine, BackedOK, FnReady
<1>4. FGuardOK'
  BY DEF FnsFine, FGuardOK
<1>5. FidsOK'
  <2>1. /\ func.status.fid \in FnIDs \union {NoID} /\ fcache.status.fid \in FnIDs \union {NoID}
        /\ fsnap.status.fid \in FnIDs \union {NoID}
    BY TypeParts, FnFields DEF ObjectsType, FWorkerType
  <2>2. \A f \in FnIDs \union {NoID} : Held(f) => Held(f)'
    BY DEF FnsFine, Held
  <2>3. QED
    BY <2>1, <2>2 DEF FnsFine, FidsOK
<1>6. KnownOK'
  BY DEF KnownOK, Known
<1>7. AInv'
  BY AStays
<1>8. QED
  BY <1>1, <1>2, <1>3, <1>4, <1>5, <1>6, <1>7

\* A call after which the reconcile goes on to write.
LEMMA FWritesInv ==
  ASSUME Inv, NEW w \in FnPlan, FWrites(w), fpc # "idle", UNCHANGED <<fkeep, apps, region>>,
         Mishap \/ UNCHANGED mishaps, CloudType', FnsFine, FWritable(fnext)'
  PROVE  Inv'
<1>1. TypeOK'
  BY TypeFWrite DEF Inv
<1>2. FVersionsOK' /\ AInv'
  BY FCallVersions DEF FWrites
<1>3. FWorkOK' /\ FWriteOK'
  BY DEF FWrites, FWorkOK, FWriteOK
<1>4. RegionOK'
  BY DEF Inv, RegionOK, FCalls, FWrites, fkeep, aworker, limits
<1>5. QED
  BY <1>1, <1>2, <1>3, <1>4 DEF Inv, FInv, FnsFine

\* A call after which there is another one.
LEMMA FGoesOnInv ==
  ASSUME Inv, TypeOK', UNCHANGED <<fkeep, cloud, fsnap, fmoved>>, fpc # "idle", fpc' # "idle",
         fpc' # "write", FWorkOK', RegionOK'
  PROVE  Inv'
<1>1. FnsFine
  BY SameFns DEF fkeep, functionObject
<1>2. FVersionsOK' /\ AInv'
  BY <1>1, FCallVersions DEF cloud
<1>3. QED
  BY <1>1, <1>2 DEF Inv, FInv, FWriteOK, FnsFine

\* A reconcile that begins.
LEMMA FStartVersions ==
  ASSUME Inv, FStart, UNCHANGED <<fkeep, cloud>>, fcache.stored, fpc' # "idle"
  PROVE  FVersionsOK' /\ AInv' /\ CloudOK'
<1> USE DEF Inv, FInv, FVersionsOK, fkeep, functionObject, limits, cloud, FStart
<1>1. FOrderOK'
  BY DEF FOrderOK, FServed, Going
<1>2. DeadOK'
  BY DEF DeadOK, SomeDead
<1>3. BackedOK'
  BY DEF BackedOK, FnReady, Backed
<1>4. FGuardOK'
  BY DEF FGuardOK, FErased, LiveFn, FnsIn
<1>5. FidsOK'
  BY DEF FidsOK, Held, SomeDead, NoneLeft, LiveFn
<1>6. KnownOK'
  BY DEF KnownOK, Known
<1>7. AInv'
  BY AStays
<1>8. CloudOK'
  BY DEF CloudOK, LiveApp, LiveFn
<1>9. QED
  BY <1>1, <1>2, <1>3, <1>4, <1>5, <1>6, <1>7, <1>8

\* Nothing was deleted while a Function is served.
LEMMA NothingDead ==
  ASSUME Inv, fpc # "idle", FServed(fsnap)
  PROVE  ~ SomeDead
BY DEF Inv, FInv, FVersionsOK, DeadOK, FServed, Going

LEMMA MakeFnFine ==
  ASSUME Inv, fpc = "create", CanCreateFn, UNCHANGED <<func, fcache, fsnap>>,
         NEW f \in FnIDs, NEW st \in Newborn, MakeFn(f, st)
  PROVE  /\ FnsFine
         /\ fns'[f].state = st /\ fns'[f].image = fsnap.spec.image /\ fns'[f].app = fapp
<1> USE DEF Inv
<1>1. FServed(fsnap) /\ fapp \in AppIDs /\ fapp # NoID
  BY IDs DEF FInv, FWorkOK
<1>2. /\ fns[f].state = "unborn" /\ apps' = apps
      /\ fns' = [fns EXCEPT ![f] = [state |-> st, app |-> fapp, image |-> fsnap.spec.image]]
  BY DEF MakeFn
<1>3. /\ fns'[f].state = st /\ fns'[f].image = fsnap.spec.image /\ fns'[f].app = fapp
      /\ \A g \in FnIDs : g # f => fns'[g] = fns[g]
  BY <1>2, TypeParts DEF CloudType
<1>4. LiveApp(fapp) /\ FnsIn(fapp) = {}
  BY DEF CanCreateFn
<1>5. ~ SomeDead'
  <2>1. ~ SomeDead
    BY <1>1, NothingDead
  <2>2. QED
    BY <1>3, <2>1 DEF SomeDead, Newborn
<1>6. CloudOK'
  <2>1. \A g \in FnIDs : LiveFn(g)' => g = f \/ LiveFn(g)
    BY <1>3 DEF LiveFn
  <2>2. \A g \in FnIDs : LiveFn(g) /\ fns[g].app = fapp => FALSE
    BY <1>4 DEF FnsIn
  <2>3. \A a, b \in AppIDs : LiveApp(a)' /\ LiveApp(b)' => a = b
    BY <1>2 DEF CloudOK, LiveApp
  <2>4. \A g, h \in FnIDs : /\ LiveFn(g)' /\ LiveFn(h)'
                            /\ fns'[g].app = fns'[h].app /\ fns'[g].app # NoID
                            => g = h
    BY <1>3, <2>1, <2>2 DEF CloudOK
  <2>5. \A g \in FnIDs : LiveFn(g)' /\ fns'[g].app # NoID => LiveApp(fns[g].app)'
    BY <1>2, <1>3, <1>4, <2>1 DEF CloudOK, LiveApp
  <2>6. \A g \in FnIDs \ UserFns : fns'[g].state # "unborn" => fns'[g].app # NoID
    BY <1>1, <1>3 DEF CloudOK
  <2>7. QED
    BY <2>3, <2>4, <2>5, <2>6 DEF CloudOK
<1>7. Backed(fns', func.spec, func.gen, func.status)
  <2>1. Backed(fns, func.spec, func.gen, func.status)
    BY DEF FInv, FVersionsOK, BackedOK
  <2>2. func.spec.mode = "Existing" => func.spec.id \in FnIDs
    BY TypeParts, FnFields, Specs DEF ObjectsType
  <2>3. QED
    BY <1>2, <1>3, <2>1, <2>2 DEF Backed, Newborn
<1>8. \A g \in FnIDs : fns[g].state # "unborn" => fns'[g].state # "unborn" /\ fns'[g].app = fns[g].app
  BY <1>2, <1>3
<1>9. races = 0 => /\ Deletion(fcache) => func.deleting \/ FErased(fcache)'
                   /\ Deletion(fsnap) => func.deleting \/ FErased(fsnap)'
  BY <1>1 DEF FInv, FVersionsOK, FOrderOK, FServed, Deletion
<1>10. QED
  BY <1>3, <1>5, <1>6, <1>7, <1>8, <1>9 DEF FnsFine

LEMMA ChangeFnFine ==
  ASSUME Inv, fpc = "update", ChangeFn, UNCHANGED <<func, fcache, fsnap>>
  PROVE  /\ FnsFine /\ ffound \in FnIDs /\ fns'[ffound].app = fapp
         /\ fns'[ffound].state = fns[ffound].state /\ fns'[ffound].state \in Newborn
         /\ fns'[ffound].image = fsnap.spec.image
<1> USE DEF Inv
<1>1. /\ FServed(fsnap) /\ ffound \in FnIDs /\ fns[ffound].state \in Newborn
      /\ fns[ffound].app = fapp
  BY DEF FInv, FWorkOK, LiveFn
<1>2. apps' = apps /\ fns' = [fns EXCEPT ![ffound].image = fsnap.spec.image]
  BY DEF ChangeFn
<1>3. /\ \A g \in FnIDs : fns'[g].state = fns[g].state /\ fns'[g].app = fns[g].app
      /\ \A g \in FnIDs : fns'[g].image = IF g = ffound THEN fsnap.spec.image ELSE fns[g].image
  BY <1>1, <1>2, TypeParts DEF CloudType, OCIFunction
<1>4. ~ SomeDead'
  BY <1>1, <1>3, NothingDead DEF SomeDead
<1>5. CloudOK'
  BY <1>2, <1>3 DEF CloudOK, LiveApp, LiveFn
<1>6. Backed(fns', func.spec, func.gen, func.status)
  <2>1. Backed(fns, func.spec, func.gen, func.status) /\ (FnReady => fsnap.spec = func.spec)
    BY DEF FInv, FVersionsOK, BackedOK
  <2>2. func.spec.mode = "Existing" => func.spec.id \in FnIDs
    BY TypeParts, FnFields, Specs DEF ObjectsType
  <2>3. QED
    BY <1>3, <2>1, <2>2 DEF Backed, FnReady
<1>7. races = 0 => /\ Deletion(fcache) => func.deleting \/ FErased(fcache)'
                   /\ Deletion(fsnap) => func.deleting \/ FErased(fsnap)'
  BY <1>1 DEF FInv, FVersionsOK, FOrderOK, FServed, Deletion
<1>8. QED
  BY <1>1, <1>3, <1>4, <1>5, <1>6, <1>7 DEF FnsFine

\* What the reconciler deletes by id is a function it has made or found, if the
\* Function was managed all along.
LEMMA FoundHeld ==
  ASSUME Inv, fpc = "erase", ~ referred
  PROVE  ffound \in FnIDs /\ fns[ffound].state # "unborn" /\ fns[ffound].app # NoID
<1>1. /\ ffound \in FnIDs
      /\ IF fsnap.status.fid # NoID THEN ffound = fsnap.status.fid
         ELSE fsnap.status.aid \in AppIDs /\ ffound \in FnsIn(fsnap.status.aid)
  BY DEF Inv, FInv, FWorkOK
<1>2. Held(fsnap.status.fid)
  BY DEF Inv, FInv, FVersionsOK, FidsOK
<1>3. QED
  BY <1>1, <1>2, IDs DEF Held, FnsIn, LiveFn, Newborn

LEMMA EraseFine ==
  ASSUME Inv, fpc = "erase", Erase, UNCHANGED <<func, fcache, fsnap>>
  PROVE  /\ FnsFine
         /\ region = Home => FErased(fsnap)' /\ (~ referred => NoneLeft')
<1> USE DEF Inv
<1>1. /\ Deletion(fsnap) /\ Doomed(func) /\ ffound \in FnIDs
      /\ IF fsnap.status.fid # NoID THEN ffound = fsnap.status.fid
         ELSE fsnap.status.aid \in AppIDs /\ ffound \in FnsIn(fsnap.status.aid)
  BY DEF FInv, FWorkOK
<1>2. /\ apps' = apps
      /\ \A g \in FnIDs : fns'[g].app = fns[g].app /\ fns'[g].image = fns[g].image
      /\ \A g \in FnIDs : g # ffound => fns'[g].state = fns[g].state
      /\ fns'[ffound].state = fns[ffound].state \/ (LiveFn(ffound) /\ fns'[ffound].state = "deleted")
      /\ region = Home /\ LiveFn(ffound) => fns'[ffound].state = "deleted"
  BY <1>1, TypeParts DEF Erase, CloudType, OCIFunction
<1>3. \A g \in FnIDs : LiveFn(g)' => LiveFn(g) /\ fns'[g].state = fns[g].state
  BY <1>2 DEF LiveFn, Newborn
<1>4. CloudOK'
  <2>1. \A a \in AppIDs : LiveApp(a)' <=> LiveApp(a)
    BY <1>2 DEF LiveApp
  <2>2. \A g \in FnIDs : fns'[g].state # "unborn" => fns[g].state # "unborn"
    BY <1>2 DEF LiveFn, Newborn
  <2>3. \A g, h \in FnIDs : /\ LiveFn(g)' /\ LiveFn(h)'
                            /\ fns'[g].app = fns'[h].app /\ fns'[g].app # NoID
                            => g = h
    BY <1>2, <1>3 DEF CloudOK
  <2>4. \A g \in FnIDs : LiveFn(g)' /\ fns'[g].app # NoID => LiveApp(fns[g].app)'
    BY <1>2, <1>3 DEF CloudOK, LiveApp
  <2>5. \A g \in FnIDs \ UserFns : fns'[g].state # "unborn" => fns'[g].app # NoID
    BY <1>2, <2>2 DEF CloudOK
  <2>6. QED
    BY <2>1, <2>3, <2>4, <2>5 DEF CloudOK
<1>5. Doomed(func) /\ Going(fcache) /\ Going(fsnap)
  BY <1>1 DEF FInv, FVersionsOK, FOrderOK, Deletion, Going
<1>6. Backed(fns', func.spec, func.gen, func.status)
  <2>1. func.status.phase # "Ready"
    <3>1. ~ func.stored => func.status = NoFnStatus
      BY DEF FInv, FVersionsOK, FOrderOK, FSound
    <3>2. NoFnStatus.phase = ""
      BY DEF NoFnStatus
    <3>3. QED
      BY <1>1, <3>1, <3>2 DEF Doomed
  <2>2. QED
    BY <2>1 DEF Backed
<1>7. \A g \in FnIDs : fns[g].state # "unborn" => fns'[g].state # "unborn" /\ fns'[g].app = fns[g].app
  BY <1>2
<1>8. races = 0 => /\ Deletion(fcache) => func.deleting \/ FErased(fcache)'
                   /\ Deletion(fsnap) => func.deleting \/ FErased(fsnap)'
  <2>1. FErased(fcache) => FErased(fcache)'
    BY <1>2, <1>3 DEF FErased, FnsIn, LiveFn
  <2>2. FErased(fsnap) => FErased(fsnap)'
    BY <1>2, <1>3 DEF FErased, FnsIn, LiveFn
  <2>3. QED
    BY <2>1, <2>2 DEF FInv, FVersionsOK, FGuardOK
<1>9. ASSUME ~ referred, SomeDead' PROVE NoneLeft'
  <2>1. CASE SomeDead
    BY <1>3, <1>9, <2>1 DEF FInv, FVersionsOK, FidsOK, NoneLeft
  <2>2. CASE ~ SomeDead
    <3>1. LiveFn(ffound) /\ fns'[ffound].state = "deleted"
      BY <1>2, <1>9, <2>2 DEF SomeDead
    <3>2. \A g \in FnIDs \ UserFns : LiveFn(g) => g = ffound
      <4>1. TAKE g \in FnIDs \ UserFns
      <4>2. HAVE LiveFn(g)
      <4>3. fns[g].app # NoID /\ fns[ffound].app # NoID
        BY <1>9, <4>2, FoundHeld DEF CloudOK, LiveFn, Newborn
      <4>4. LiveApp(fns[g].app) /\ LiveApp(fns[ffound].app)
        BY <1>1, <3>1, <4>2, <4>3 DEF CloudOK
      <4>5. fns[g].app = fns[ffound].app
        BY <4>4 DEF CloudOK, LiveApp
      <4>6. QED
        BY <1>1, <3>1, <4>2, <4>3, <4>5 DEF CloudOK
    <3>3. QED
      BY <1>3, <3>1, <3>2 DEF NoneLeft, LiveFn, Newborn
  <2>3. QED
    BY <2>1, <2>2
<1>10. FnsFine
  BY <1>4, <1>5, <1>6, <1>7, <1>8, <1>9 DEF FnsFine
<1>11. ASSUME region = Home
       PROVE  FErased(fsnap)' /\ (~ referred => NoneLeft')
  <2>1. fns'[ffound].state \notin Newborn
    BY <1>1, <1>2, <1>11 DEF LiveFn, Newborn
  <2>2. FErased(fsnap)'
    <3>1. CASE fsnap.status.fid # NoID
      BY <1>1, <2>1, <3>1 DEF FErased, LiveFn
    <3>2. CASE fsnap.status.fid = NoID
      <4>1. \A g \in FnIDs : LiveFn(g) /\ fns[g].app = fsnap.status.aid => g = ffound
        BY <1>1, <3>2, IDs DEF FnsIn, CloudOK
      <4>2. \A g \in FnIDs : ~ (LiveFn(g)' /\ fns'[g].app = fsnap.status.aid)
        BY <1>2, <1>3, <2>1, <4>1 DEF LiveFn
      <4>3. QED
        BY <3>2, <4>2 DEF FErased, FnsIn
    <3>3. QED
      BY <3>1, <3>2
  <2>3. ~ referred => SomeDead'
    <3>1. ~ referred => fns'[ffound].state # "unborn"
      BY <1>7, FoundHeld
    <3>2. fns'[ffound].state \in States
      BY <1>1, EraseType, TypeParts DEF CloudType, OCIFunction
    <3>3. QED
      BY <1>1, <2>1, <3>1, <3>2 DEF SomeDead, States
  <2>4. QED
    BY <1>9, <2>2, <2>3
<1>12. QED
  BY <1>10, <1>11

\* The writes of a reconcile, and what has to be known for each.
LEMMA SettledWritable ==
  ASSUME Inv, FServed(fsnap), Managed(fsnap), UNCHANGED <<fsnap, fmoved, apps, limits>>,
         fapp \in AppIDs, Known(fapp), NEW f \in FnIDs, fns'[f].image = fsnap.spec.image,
         fns'[f].state \in Newborn, fns'[f].app = fapp,
         fnext' = FBuilt(fsnap, "Ready", f, fapp) \/ fnext' = FBuilt(fsnap, "Pending", f, fapp)
  PROVE  FWritable(fnext)'
<1>1. /\ fnext'.final = fsnap.final /\ fnext'.status.observed = fsnap.gen
      /\ fnext'.status.fid = f /\ fnext'.status.aid = fapp
  BY DEF FBuilt
<1>2. ~ fsnap.deleting /\ fsnap.spec.mode # "Existing" /\ fsnap.gen \in Nat
  BY TypeParts, FnFields DEF FServed, Managed, Inv, FWorkerType
<1>3. Backed(fns', fsnap.spec, fsnap.gen, fnext'.status)
  BY <1>1, <1>2 DEF Backed
<1>4. Known(fnext.status.aid)'
  BY <1>1 DEF Known
<1>5. Held(fnext.status.fid)'
  BY <1>1, IDs DEF Held, Newborn
<1>6. QED
  BY <1>1, <1>2, <1>3, <1>4, <1>5 DEF FWritable, Deletion

\* A status of another phase than Ready claims nothing of the functions.
LEMMA OtherWritable ==
  ASSUME Inv, ~ fsnap'.deleting, fsnap' \in FnObject,
         NEW ph \in {"Pending", "Error"}, NEW a, Known(a)', fnext' = FBuilt(fsnap', ph, NoID, a)
  PROVE  FWritable(fnext)'
<1>1. /\ fnext'.final = fsnap'.final /\ fnext'.status.observed = fsnap'.gen
      /\ fnext'.status.fid = NoID /\ fnext'.status.aid = a /\ fnext'.status.phase = ph
  BY DEF FBuilt
<1>2. fsnap'.gen \in Nat
  BY FnFields
<1>3. ph # "Ready"
  OBVIOUS
<1>4. Backed(fns', fsnap'.spec, fsnap'.gen, fnext'.status)
  BY <1>1, <1>3 DEF Backed
<1>5. Known(fnext.status.aid)' /\ Held(fnext.status.fid)'
  BY <1>1 DEF Known, Held
<1>6. QED
  BY <1>1, <1>2, <1>4, <1>5 DEF FWritable, Deletion

LEMMA DeleteFailedWritable ==
  ASSUME Inv, Deletion(fsnap), UNCHANGED <<fsnap, fmoved, apps, limits>>, FnsFine, fpc # "idle",
         fnext' = [final |-> fsnap.final,
                   status |-> [fsnap.status EXCEPT !.phase = "DeleteFailed", !.observed = fsnap.gen]]
  PROVE  FWritable(fnext)'
<1>1. fsnap.status \in FnStatus /\ fsnap.gen \in Nat /\ fsnap.status.fid \in FnIDs \union {NoID}
  BY TypeParts, FnFields DEF Inv, FWorkerType
<1>2. /\ fnext'.final = fsnap.final /\ fnext'.status.observed = fsnap.gen
      /\ fnext'.status.fid = fsnap.status.fid /\ fnext'.status.aid = fsnap.status.aid
      /\ fnext'.status.phase = "DeleteFailed"
  BY <1>1 DEF FnStatus
<1>3. fsnap.final
  BY DEF Inv, FInv, FVersionsOK, FOrderOK, FSound, Deletion
<1>4. Backed(fns', fsnap.spec, fsnap.gen, fnext'.status)
  BY <1>2 DEF Backed
<1>5. Known(fsnap.status.aid) /\ (~ referred => Held(fsnap.status.fid))
  BY DEF Inv, FInv, FVersionsOK, KnownOK, FidsOK
<1>6. Known(fnext.status.aid)' /\ (~ referred => Held(fnext.status.fid)')
  BY <1>1, <1>2, <1>5 DEF Known, Held, FnsFine
<1>7. QED
  BY <1>1, <1>2, <1>3, <1>4, <1>6 DEF FWritable, limits

\* The finalizer goes when nothing is left.
LEMMA DeletedWritable ==
  ASSUME Inv, Deletion(fsnap), UNCHANGED <<fsnap, fmoved, apps, limits>>, FnsFine, fpc # "idle",
         fnext' = [final |-> FALSE, status |-> fsnap.status], Doomed(func),
         races = 0 => FErased(fsnap)',
         races = 0 /\ (ListsGone => creations <= 1) /\ ~ referred => NoneLeft'
  PROVE  FWritable(fnext)'
<1>1. /\ fsnap.status \in FnStatus /\ fsnap.gen \in Nat /\ fsnap.status.fid \in FnIDs \union {NoID}
      /\ fnext'.final = FALSE /\ fnext'.status = fsnap.status
  BY TypeParts, FnFields DEF Inv, FWorkerType
<1>2. Known(fsnap.status.aid) /\ (~ referred => Held(fsnap.status.fid))
  BY DEF Inv, FInv, FVersionsOK, KnownOK, FidsOK
<1>3. Known(fnext.status.aid)' /\ (~ referred => Held(fnext.status.fid)')
  BY <1>1, <1>2 DEF Known, Held, FnsFine
<1>4. ASSUME ~ fmoved
      PROVE  fsnap.status.observed <= fsnap.gen /\ Backed(fns', fsnap.spec, fsnap.gen, fsnap.status)
  <2>1. func = fsnap
    BY <1>4 DEF Inv, FInv, FVersionsOK, FOrderOK
  <2>2. QED
    BY <2>1 DEF Inv, FInv, FVersionsOK, BackedOK, FnsFine
<1>5. QED
  BY <1>1, <1>3, <1>4 DEF FWritable, limits

\* Of what is kept, and only the finalizer changes.
LEMMA KeptWritable ==
  ASSUME Inv, FStart, UNCHANGED <<fkeep, cloud>>, NEW fin \in BOOLEAN,
         fnext' = [FKeep(fcache) EXCEPT !.final = fin],
         fcache.deleting => ~ FDeletes(fcache) /\ ~ fin
  PROVE  FWritable(fnext)'
<1> USE DEF FStart, fkeep, cloud, functionObject, limits
<1>1. fcache \in FnObject /\ fcache.status.fid \in FnIDs \union {NoID}
  BY TypeParts, FnFields DEF Inv, ObjectsType
<1>2. fnext'.final = fin /\ fnext'.status = fcache.status
  BY DEF FKeep
<1>3. fcache.deleting => ~ fnext'.final
  BY <1>2
<1>4. Known(fcache.status.aid) /\ (~ referred => Held(fcache.status.fid))
  BY DEF Inv, FInv, FVersionsOK, KnownOK, FidsOK
<1>5. Known(fnext.status.aid)' /\ (~ referred => Held(fnext.status.fid)')
  BY <1>2, <1>4 DEF Known, Held
<1>6. ASSUME ~ fmoved'
      PROVE  /\ fcache.status.observed <= fcache.gen
             /\ Backed(fns, fcache.spec, fcache.gen, fcache.status)
  BY <1>6 DEF Inv, FInv, FVersionsOK, BackedOK
<1>7. QED
  BY <1>2, <1>3, <1>5, <1>6 DEF FWritable, Deletion

\* A reconcile that begins, and goes on to write.
LEMMA FDecideInv ==
  ASSUME Inv, NEW w \in FnPlan, FDecide(w), fcache.stored, FWritable(fnext)'
  PROVE  Inv'
<1>1. TypeOK'
  BY TypeFDecide DEF Inv
<1>2. FVersionsOK' /\ AInv' /\ CloudOK'
  BY FStartVersions DEF FDecide
<1>3. FWorkOK' /\ FWriteOK'
  BY DEF FDecide, FWorkOK, FWriteOK
<1>4. RegionOK'
  BY DEF Inv, RegionOK, FCalls, FDecide, fkeep, aworker, limits
<1>5. QED
  BY <1>1, <1>2, <1>3, <1>4 DEF Inv, FInv

LEMMA CacheTypes ==
  ASSUME Inv
  PROVE  /\ fcache \in FnObject /\ fcache.gen \in Nat /\ fcache.status.aid \in AppIDs \union {NoID}
         /\ fcache.spec \in FnSpec /\ fcache.spec \in FnSpecs
         /\ fcache.spec.mode \in {"Managed", "Existing"}
         /\ acache.status.aid \in AppIDs \union {NoID} /\ NoID \in FnIDs \union {NoID}
         /\ NoID \in AppIDs \union {NoID}
<1>1. fcache \in FnObject /\ acache \in AppObject
  BY TypeParts DEF Inv, ObjectsType
<1>2. QED
  BY <1>1, FnFields, AppFields, Specs

LEMMA InvFStartFinalizer == ASSUME Inv, FStartFinalizer PROVE Inv'
<1> DEFINE fin == WantsFinalizer(fcache)
           w == [FKeep(fcache) EXCEPT !.final = fin]
<1>1. fin \in BOOLEAN /\ w \in FnPlan
  BY CacheTypes, FnPlans DEF WantsFinalizer
<1>2. FDecide(w) /\ fcache.stored /\ ~ fcache.deleting
  BY DEF FStartFinalizer, FServed
<1>3. fnext' = w /\ FStart /\ UNCHANGED <<fkeep, cloud>>
  BY <1>2 DEF FDecide
<1>4. FWritable(fnext)'
  <2>1. PICK b \in BOOLEAN : b = fin
    BY <1>1
  <2>2. fnext' = [FKeep(fcache) EXCEPT !.final = b]
    BY <1>3, <2>1
  <2>3. QED
    BY <1>2, <1>3, <2>2, KeptWritable
<1>5. QED
  BY <1>1, <1>2, <1>4, FDecideInv

LEMMA InvFStartRetain == ASSUME Inv, FStartRetain PROVE Inv'
<1> DEFINE w == [FKeep(fcache) EXCEPT !.final = FALSE]
<1>1. w \in FnPlan
  BY CacheTypes, FnPlans
<1>2. FDecide(w) /\ fcache.stored /\ ~ FDeletes(fcache)
  BY DEF FStartRetain, FBeingDeleted
<1>3. fnext' = w /\ FStart /\ UNCHANGED <<fkeep, cloud>>
  BY <1>2 DEF FDecide
<1>4. FWritable(fnext)'
  BY <1>2, <1>3, KeptWritable
<1>5. QED
  BY <1>1, <1>2, <1>4, FDecideInv

\* The application's object names only applications that were there.
LEMMA AcacheKnown == ASSUME Inv PROVE Known(acache.status.aid)
BY DEF Inv, AInv, AVersionsOK, AidsOK, Meant, Known

LEMMA InvFStartWaiting == ASSUME Inv, FStartWaiting PROVE Inv'
<1> DEFINE w == FBuilt(fcache, "Pending", NoID, acache.status.aid)
<1>1. w \in FnPlan
  BY CacheTypes, FnPlans
<1>2. FDecide(w) /\ fcache.stored /\ ~ fcache.deleting
  BY DEF FStartWaiting, FServed
<1>3. fnext' = w /\ fsnap' = fcache /\ apps' = apps
  BY <1>2 DEF FDecide, FStart, cloud
<1>4. FWritable(fnext)'
  <2>1. PICK a \in AppIDs \union {NoID} : a = acache.status.aid
    BY CacheTypes
  <2>2. Known(a)'
    BY <1>3, <2>1, AcacheKnown DEF Known
  <2>3. fnext' = FBuilt(fsnap', "Pending", NoID, a) /\ ~ fsnap'.deleting /\ fsnap' \in FnObject
    BY <1>2, <1>3, <2>1, CacheTypes
  <2>4. QED
    BY <2>2, <2>3, OtherWritable
<1>5. QED
  BY <1>1, <1>2, <1>4, FDecideInv

LEMMA InvFStartExisting == ASSUME Inv, FStartExisting PROVE Inv'
<1>1. fcache.stored /\ ~ fcache.deleting /\ ~ Managed(fcache) /\ fcache.spec.mode = "Existing"
  BY CacheTypes DEF FStartExisting, FServed, Managed
<1>2. fcache.spec.id \in FnIDs
  BY <1>1, CacheTypes, Specs
<1>3. CASE fcache.spec.policy = "Delete"
  <2> DEFINE w == FBuilt(fcache, "Error", NoID, NoID)
  <2>1. w \in FnPlan /\ FDecide(w)
    BY <1>3, CacheTypes, FnPlans DEF FStartExisting
  <2>2. fnext' = w /\ fsnap' = fcache
    BY <2>1 DEF FDecide, FStart
  <2>3. Known(NoID)'
    BY DEF Known
  <2>4. FWritable(fnext)'
    BY <1>1, <2>2, <2>3, OtherWritable, CacheTypes
  <2>5. QED
    BY <1>1, <2>1, <2>4, FDecideInv
<1>4. CASE fcache.spec.policy # "Delete"
  <2> DEFINE w == FBuilt(fcache, "Ready", fcache.spec.id, acache.status.aid)
  <2>1. w \in FnPlan /\ FDecide(w)
    BY <1>2, <1>4, CacheTypes, FnPlans DEF FStartExisting, Referenced
  <2>2. fnext' = w /\ fsnap' = fcache /\ apps' = apps /\ fns' = fns /\ referred' = referred
    BY <2>1 DEF FDecide, FStart, cloud, fkeep, limits
  <2>3. /\ fnext'.status.observed = fcache.gen /\ fnext'.status.fid = fcache.spec.id
        /\ fnext'.status.aid = acache.status.aid
    BY <2>2 DEF FBuilt
  <2>4. fns[fcache.spec.id].state # "deleted"
    BY <1>1, <1>2 DEF Inv, FInv, FVersionsOK, DeadOK, SomeDead, Going
  <2>5. Backed(fns', fsnap'.spec, fsnap'.gen, fnext'.status)
    BY <1>1, <2>2, <2>3, <2>4 DEF Backed
  <2>6. Known(fnext.status.aid)'
    BY <2>2, <2>3, AcacheKnown DEF Known
  <2>7. referred'
    BY <1>1, <2>2 DEF Inv, FInv, FVersionsOK, FidsOK
  <2>8. FWritable(fnext)'
    BY <1>1, <2>2, <2>3, <2>5, <2>6, <2>7, CacheTypes DEF FWritable, Deletion
  <2>9. QED
    BY <1>1, <2>1, <2>8, FDecideInv
<1>5. QED
  BY <1>3, <1>4

LEMMA InvFStartEnsure == ASSUME Inv, FStartEnsure PROVE Inv'
<1>1. /\ FServed(fcache) /\ Usable(acache) /\ Managed(fcache) /\ FStart
      /\ fpc' = "find" /\ fapp' = acache.status.aid /\ region' = Home
      /\ UNCHANGED <<fkeep, cloud, ffound, fnext, mishaps>>
  BY DEF FStartEnsure
<1>2. fcache.stored
  BY <1>1 DEF FServed
<1>3. FVersionsOK' /\ AInv' /\ CloudOK'
  BY <1>1, <1>2, FStartVersions
<1>4. FWorkOK'
  <2>1. fapp' \in AppIDs
    BY <1>1, CacheTypes DEF Usable
  <2>2. Known(fapp)'
    BY <1>1, AcacheKnown DEF Known, cloud
  <2>3. FServed(fsnap)' /\ Managed(fsnap)'
    BY <1>1 DEF FStart, FServed, Managed
  <2>4. QED
    BY <1>1, <2>1, <2>2, <2>3 DEF FWorkOK
<1>5. FWriteOK' /\ RegionOK'
  BY <1>1 DEF FWriteOK, RegionOK
<1>6. TypeOK'
  <2>1. ObjectsType' /\ AWorkerType' /\ CloudType'
    BY <1>1, TypeParts DEF Inv, fkeep, functionObject, applicationObject, aworker, cloud,
                           ObjectsType, AWorkerType, CloudType
  <2>2. FWorkerType'
    BY <1>1, TypeParts, CacheTypes DEF Inv, FStart, FWorkerType, FPCs
  <2>3. CountsType'
    BY <1>1, TypeParts, LifecycleAssumption DEF Inv, fkeep, limits, CountsType
  <2>4. QED
    BY <2>1, <2>2, <2>3, TypePartsNext
<1>7. QED
  BY <1>3, <1>4, <1>5, <1>6 DEF Inv, FInv

LEMMA InvFStartDelete == ASSUME Inv, FStartDelete PROVE Inv'
<1>1. /\ fcache.stored /\ fcache.deleting /\ FDeletes(fcache) /\ FStart
      /\ fpc' = IF NeedsMark(fcache) THEN "mark" ELSE "target"
      /\ UNCHANGED <<fkeep, cloud, region, fapp, ffound, fnext, mishaps>>
  BY DEF FStartDelete, FBeingDeleted
<1>2. FVersionsOK' /\ AInv' /\ CloudOK'
  BY <1>1, FStartVersions
<1>3. Deletion(fsnap)'
  BY <1>1 DEF FStart, Deletion, FDeletes, Managed
<1>4. fpc' = "target" => Doomed(func)'
  <2>1. SUFFICES ASSUME ~ NeedsMark(fcache) PROVE Doomed(func)'
    BY <1>1
  <2>2. fcache.status.phase = "DeleteFailed" \/ fcache.status = FMarked(fcache)
    BY <2>1 DEF NeedsMark
  <2>3. FMarked(fcache).phase = "Deleting"
    BY CacheTypes, FnFields DEF FMarked, FnStatus
  <2>4. Doomed(fcache)
    BY <1>1, <2>2, <2>3 DEF Doomed
  <2>5. Doomed(func) /\ func' = func
    BY <1>1, <2>4 DEF Inv, FInv, FVersionsOK, FOrderOK, fkeep, functionObject
  <2>6. QED
    BY <2>5 DEF Doomed
<1>5. FWorkOK' /\ FWriteOK'
  BY <1>1, <1>3, <1>4 DEF FWorkOK, FWriteOK
<1>6. RegionOK'
  BY <1>1 DEF Inv, RegionOK, FCalls, fkeep, aworker, limits
<1>7. TypeOK'
  <2>1. FWorkerType' /\ CloudType'
    BY <1>1, TypeParts DEF Inv, FStart, FWorkerType, FPCs, ObjectsType, CloudType, cloud
  <2>2. QED
    BY <1>1, <2>1, TypeFStep DEF Inv
<1>8. QED
  BY <1>2, <1>5, <1>6, <1>7 DEF Inv, FInv

LEMMA WorkTypes ==
  ASSUME Inv
  PROVE  /\ fsnap \in FnObject /\ fsnap.status.fid \in FnIDs \union {NoID}
         /\ fsnap.status.aid \in AppIDs \union {NoID} /\ fapp \in AppIDs \union {NoID}
         /\ NoID \in FnIDs \union {NoID} /\ CloudType /\ FWorkerType
<1>1. fsnap \in FnObject /\ fapp \in AppIDs \union {NoID} /\ CloudType /\ FWorkerType
  BY TypeParts DEF Inv, FWorkerType
<1>2. QED
  BY <1>1, FnFields

\* An error, after whatever became of the functions.
LEMMA FErrorInv ==
  ASSUME Inv, fpc \in {"find", "create", "update"}, FError, UNCHANGED <<fkeep, apps, region>>,
         Mishap \/ UNCHANGED mishaps, CloudType', FnsFine
  PROVE  Inv'
<1> DEFINE w == FBuilt(fsnap, "Error", NoID, fapp)
<1>1. w \in FnPlan /\ FWrites(w) /\ fpc # "idle"
  BY WorkTypes, FnPlans DEF FError
<1>2. ~ fsnap.deleting /\ Known(fapp)
  BY DEF Inv, FInv, FWorkOK, FServed
<1>3. fnext' = w /\ fsnap' = fsnap
  BY <1>1 DEF FWrites
<1>4. FWritable(fnext)'
  <2>1. PICK a \in AppIDs \union {NoID} : a = fapp
    BY WorkTypes
  <2>2. Known(a)'
    BY <1>2, <2>1 DEF Known
  <2>3. fnext' = FBuilt(fsnap', "Error", NoID, a) /\ ~ fsnap'.deleting /\ fsnap' \in FnObject
    BY <1>2, <1>3, <2>1, WorkTypes
  <2>4. QED
    BY <2>2, <2>3, OtherWritable
<1>5. QED
  BY <1>1, <1>4, FWritesInv

\* The function f is as the spec wants it.
LEMMA FSettleInv ==
  ASSUME Inv, fpc \in {"find", "create", "update"}, NEW f \in FnIDs, NEW st, FSettle(f, st),
         UNCHANGED <<fkeep, apps, region, mishaps>>, CloudType', FnsFine,
         fns'[f].image = fsnap.spec.image, fns'[f].state \in Newborn, fns'[f].app = fapp
  PROVE  Inv'
<1> DEFINE w == FBuilt(fsnap, IF st = "active" THEN "Ready" ELSE "Pending", f, fapp)
<1>1. w \in FnPlan /\ FWrites(w) /\ fpc # "idle"
  BY WorkTypes, FnPlans DEF FSettle
<1>2. FServed(fsnap) /\ Managed(fsnap) /\ fapp \in AppIDs /\ Known(fapp)
  BY DEF Inv, FInv, FWorkOK
<1>3. /\ fnext' = FBuilt(fsnap, "Ready", f, fapp) \/ fnext' = FBuilt(fsnap, "Pending", f, fapp)
      /\ UNCHANGED <<fsnap, fmoved, limits>>
  BY <1>1 DEF FWrites, fkeep
<1>4. FWritable(fnext)'
  BY <1>2, <1>3, SettledWritable
<1>5. QED
  BY <1>1, <1>4, FWritesInv

\* A call is followed by another one.
LEMMA FNextInv ==
  ASSUME Inv, UNCHANGED <<fkeep, cloud, region, mishaps, fsnap, fmoved, fnext>>, fpc \in FCalls,
         fpc' \in FCalls, fapp' \in AppIDs \union {NoID}, ffound' \in FnIDs \union {NoID}, FWorkOK'
  PROVE  Inv'
<1>1. FWorkerType' /\ CloudType'
  BY TypeParts DEF Inv, FWorkerType, FPCs, FCalls, CloudType, cloud
<1>2. TypeOK'
  BY <1>1, TypeFStep DEF Inv
<1>3. RegionOK'
  BY DEF Inv, RegionOK, fkeep, aworker, limits
<1>4. fpc # "idle" /\ fpc' # "idle" /\ fpc' # "write"
  BY DEF FCalls
<1>5. QED
  BY <1>2, <1>3, <1>4, FGoesOnInv

LEMMA InvFFind == ASSUME Inv, FFind PROVE Inv'
<1>1. /\ fpc = "find" /\ UNCHANGED <<fkeep, cloud, region, mishaps>>
      /\ FServed(fsnap) /\ Managed(fsnap) /\ fapp \in AppIDs /\ Known(fapp)
  BY DEF FFind, Inv, FInv, FWorkOK
<1>2. ASSUME NEW f \in FnsIn(fapp), NeedsUpdate(f),
             fpc' = "update", ffound' = f, UNCHANGED <<fsnap, fmoved, fapp, fnext>>
      PROVE  Inv'
  <2>1. f \in FnIDs /\ LiveFn(f) /\ fns[f].app = fapp
    BY DEF FnsIn
  <2>2. LiveFn(ffound)' /\ fns'[ffound'].app = fapp'
    BY <1>1, <1>2, <2>1 DEF LiveFn, cloud
  <2>3. FWorkOK'
    BY <1>1, <1>2, <2>2 DEF FWorkOK, FServed, Managed, Known, cloud
  <2>4. QED
    BY <1>1, <1>2, <2>1, <2>3, FNextInv, WorkTypes DEF FCalls
<1>3. ASSUME NEW f \in FnsIn(fapp), ~ NeedsUpdate(f), FSettle(f, fns[f].state)
      PROVE  Inv'
  <2>1. f \in FnIDs /\ fns[f].state \in Newborn /\ fns[f].app = fapp
        /\ fns[f].image = fsnap.spec.image
    BY <1>3 DEF FnsIn, LiveFn, NeedsUpdate
  <2>2. fns' = fns /\ CloudType' /\ UNCHANGED <<fcache, fsnap, apps>>
    BY <1>1, <1>3, WorkTypes DEF cloud, CloudType, fkeep, functionObject, FSettle, FWrites
  <2>3. FnsFine
    BY <1>1, <2>2, SameFns
  <2>4. QED
    BY <1>1, <1>3, <2>1, <2>2, <2>3, FSettleInv
<1>4. ASSUME fpc' = "create", UNCHANGED <<fsnap, fmoved, fapp, ffound, fnext>>
      PROVE  Inv'
  <2>1. FWorkOK'
    BY <1>1, <1>4 DEF FWorkOK, FServed, Managed, Known, cloud
  <2>2. fapp' \in AppIDs \union {NoID} /\ ffound' \in FnIDs \union {NoID}
    BY <1>4, WorkTypes DEF FWorkerType
  <2>3. QED
    BY <1>1, <1>4, <2>1, <2>2, FNextInv DEF FCalls
<1>5. QED
  BY <1>2, <1>3, <1>4 DEF FFind

LEMMA InvFFindFails == ASSUME Inv, FFindFails PROVE Inv'
<1>1. /\ fpc = "find" /\ FError /\ UNCHANGED <<fkeep, cloud, region>>
      /\ Mishap \/ UNCHANGED mishaps
  BY RefusedMishap DEF FFindFails
<1>2. CloudType' /\ UNCHANGED <<fcache, fsnap, apps>>
  BY <1>1, WorkTypes DEF cloud, CloudType, fkeep, functionObject, FError, FWrites
<1>3. FnsFine
  BY <1>1, <1>2, SameFns
<1>4. QED
  BY <1>1, <1>2, <1>3, FErrorInv

LEMMA InvFCreate == ASSUME Inv, FCreate PROVE Inv'
<1>1. fpc = "create" /\ CanCreateFn /\ UNCHANGED <<fkeep, region, mishaps>>
  BY DEF FCreate
<1>2. PICK f \in FnIDs, st \in Newborn : MakeFn(f, st) /\ FSettle(f, st)
  BY DEF FCreate
<1>3. CloudType' /\ UNCHANGED <<func, fcache, fsnap, apps>>
  BY <1>1, <1>2, MakeFnType DEF Inv, MakeFn, fkeep, functionObject, FSettle, FWrites
<1>4. FnsFine /\ fns'[f].state = st /\ fns'[f].image = fsnap.spec.image /\ fns'[f].app = fapp
  BY <1>1, <1>2, <1>3, MakeFnFine
<1>5. QED
  BY <1>1, <1>2, <1>3, <1>4, FSettleInv

LEMMA InvFCreateFails == ASSUME Inv, FCreateFails PROVE Inv'
<1>1. /\ fpc = "create" /\ FError /\ UNCHANGED <<fkeep, region>>
      /\ Mishap \/ UNCHANGED mishaps
  BY RefusedMishap DEF FCreateFails
<1>2. UNCHANGED <<func, fcache, fsnap>>
  BY <1>1 DEF fkeep, functionObject, FError, FWrites
<1>3. CASE UNCHANGED cloud
  <2>1. CloudType' /\ UNCHANGED apps
    BY <1>3, WorkTypes DEF cloud, CloudType
  <2>2. FnsFine
    BY <1>1, <1>2, <1>3, SameFns
  <2>3. QED
    BY <1>1, <2>1, <2>2, FErrorInv
<1>4. CASE CanCreateFn /\ \E f \in FnIDs, st \in Newborn : MakeFn(f, st)
  <2>1. PICK f \in FnIDs, st \in Newborn : MakeFn(f, st)
    BY <1>4
  <2>2. CloudType' /\ UNCHANGED apps
    BY <2>1, MakeFnType DEF Inv, MakeFn
  <2>3. FnsFine
    BY <1>1, <1>2, <1>4, <2>1, MakeFnFine
  <2>4. QED
    BY <1>1, <2>2, <2>3, FErrorInv
<1>5. QED
  BY <1>3, <1>4 DEF FCreateFails

LEMMA InvFUpdate == ASSUME Inv, FUpdate PROVE Inv'
<1>1. /\ fpc = "update" /\ ChangeFn /\ FSettle(ffound, fns[ffound].state)
      /\ UNCHANGED <<fkeep, region, mishaps>>
  BY DEF FUpdate
<1>2. CloudType' /\ UNCHANGED <<func, fcache, fsnap, apps>>
  BY <1>1, ChangeFnType DEF Inv, ChangeFn, fkeep, functionObject, FSettle, FWrites
<1>3. /\ FnsFine /\ ffound \in FnIDs /\ fns'[ffound].app = fapp
      /\ fns'[ffound].state \in Newborn /\ fns'[ffound].image = fsnap.spec.image
  BY <1>1, <1>2, ChangeFnFine
<1>4. PICK f \in FnIDs : f = ffound
  BY <1>3
<1>5. QED
  BY <1>1, <1>2, <1>3, <1>4, FSettleInv

LEMMA InvFUpdateFails == ASSUME Inv, FUpdateFails PROVE Inv'
<1>1. /\ fpc = "update" /\ FError /\ UNCHANGED <<fkeep, region>>
      /\ Mishap \/ UNCHANGED mishaps
  BY RefusedMishap DEF FUpdateFails
<1>2. UNCHANGED <<func, fcache, fsnap>>
  BY <1>1 DEF fkeep, functionObject, FError, FWrites
<1>3. CASE UNCHANGED cloud
  <2>1. CloudType' /\ UNCHANGED apps
    BY <1>3, WorkTypes DEF cloud, CloudType
  <2>2. FnsFine
    BY <1>1, <1>2, <1>3, SameFns
  <2>3. QED
    BY <1>1, <2>1, <2>2, FErrorInv
<1>4. CASE ChangeFn
  <2>1. CloudType' /\ UNCHANGED apps
    BY <1>4, ChangeFnType DEF Inv, ChangeFn
  <2>2. FnsFine
    BY <1>1, <1>2, <1>4, ChangeFnFine
  <2>3. QED
    BY <1>1, <2>1, <2>2, FErrorInv
<1>5. QED
  BY <1>3, <1>4 DEF FUpdateFails

\* A deletion that fails, whatever became of the functions.
LEMMA FDeleteFailedInv ==
  ASSUME Inv, fpc \in {"target", "lookup", "erase"}, FDeleteFailed, UNCHANGED <<fkeep, apps, region>>,
         Mishap \/ UNCHANGED mishaps, CloudType', FnsFine
  PROVE  Inv'
<1> DEFINE w == [final |-> fsnap.final,
                 status |-> [fsnap.status EXCEPT !.phase = "DeleteFailed", !.observed = fsnap.gen]]
<1>1. w \in FnPlan /\ FWrites(w) /\ fpc # "idle"
  BY WorkTypes, FnPlans DEF FDeleteFailed
<1>2. fnext' = w /\ UNCHANGED <<fsnap, fmoved, limits>> /\ Deletion(fsnap)
  BY <1>1 DEF FWrites, fkeep, Inv, FInv, FWorkOK
<1>3. FWritable(fnext)'
  BY <1>1, <1>2, DeleteFailedWritable
<1>4. QED
  BY <1>1, <1>3, FWritesInv

\* A deletion that is done.
LEMMA FDeletedInv ==
  ASSUME Inv, fpc \in {"lookup", "erase"}, FDeleted, UNCHANGED <<fkeep, apps, region>>,
         Mishap \/ UNCHANGED mishaps, CloudType', FnsFine, races = 0 => FErased(fsnap)',
         races = 0 /\ (ListsGone => creations <= 1) /\ ~ referred => NoneLeft'
  PROVE  Inv'
<1> DEFINE w == [final |-> FALSE, status |-> fsnap.status]
<1>1. w \in FnPlan /\ FWrites(w) /\ fpc # "idle"
  BY WorkTypes, FnPlans DEF FDeleted
<1>2. fnext' = w /\ UNCHANGED <<fsnap, fmoved, limits>> /\ Deletion(fsnap) /\ Doomed(func)
  BY <1>1 DEF FWrites, fkeep, Inv, FInv, FWorkOK
<1>3. FWritable(fnext)'
  BY <1>1, <1>2, DeletedWritable
<1>4. QED
  BY <1>1, <1>3, FWritesInv

LEMMA InvFTargetUnknown == ASSUME Inv, FTargetUnknown PROVE Inv'
<1>1. fpc = "target" /\ FDeleteFailed /\ UNCHANGED <<fkeep, cloud, region, mishaps>>
  BY DEF FTargetUnknown
<1>2. CloudType' /\ UNCHANGED <<fcache, fsnap, apps>>
  BY <1>1, WorkTypes DEF cloud, CloudType, fkeep, functionObject, FDeleteFailed, FWrites
<1>3. FnsFine
  BY <1>1, <1>2, SameFns
<1>4. QED
  BY <1>1, <1>2, <1>3, FDeleteFailedInv

LEMMA InvFTarget == ASSUME Inv, FTarget PROVE Inv'
<1>1. /\ fpc = "target" /\ {fsnap.status.fid, fsnap.status.aid} # {NoID}
      /\ fpc' = IF fsnap.status.fid # NoID THEN "erase" ELSE "lookup"
      /\ ffound' = fsnap.status.fid /\ fapp' = fsnap.status.aid /\ region' = Home
      /\ UNCHANGED <<fkeep, cloud, fsnap, fmoved, fnext, mishaps>>
  BY DEF FTarget
<1>2. Deletion(fsnap) /\ Doomed(func)
  BY <1>1 DEF Inv, FInv, FWorkOK
<1>3. FWorkOK'
  <2>1. Deletion(fsnap)' /\ Doomed(func)'
    BY <1>1, <1>2 DEF Deletion, FDeletes, Managed, Doomed, fkeep, functionObject
  <2>2. CASE fsnap.status.fid # NoID
    <3>1. fsnap.status.fid \in FnIDs
      BY <2>2, WorkTypes
    <3>2. QED
      BY <1>1, <2>1, <2>2, <3>1 DEF FWorkOK
  <2>3. CASE fsnap.status.fid = NoID
    <3>1. fsnap.status.aid \in AppIDs
      BY <1>1, <2>3, WorkTypes
    <3>2. QED
      BY <1>1, <2>1, <2>3, <3>1 DEF FWorkOK
  <2>4. QED
    BY <2>2, <2>3
<1>4. TypeOK'
  <2>1. ObjectsType' /\ AWorkerType' /\ CloudType'
    BY <1>1, TypeParts DEF Inv, fkeep, functionObject, applicationObject, aworker, cloud,
                           ObjectsType, AWorkerType, CloudType
  <2>2. FWorkerType'
    BY <1>1, WorkTypes DEF FWorkerType, FPCs
  <2>3. CountsType'
    BY <1>1, TypeParts, LifecycleAssumption DEF Inv, fkeep, limits, CountsType
  <2>4. QED
    BY <2>1, <2>2, <2>3, TypePartsNext
<1>5. RegionOK'
  BY <1>1 DEF RegionOK
<1>6. fpc # "idle" /\ fpc' # "idle" /\ fpc' # "write"
  BY <1>1
<1>7. QED
  BY <1>1, <1>3, <1>4, <1>5, <1>6, FGoesOnInv

\* An application in which OCI lists no function is the only one that may have had some.
LEMMA NothingListed ==
  ASSUME Inv, fpc = "lookup", ~ ListRefused(fapp), FnsIn(fapp) = {}, ListsGone => creations <= 1
  PROVE  NoneLeft
<1>1. fapp = fsnap.status.aid /\ fapp \in AppIDs /\ Known(fsnap.status.aid)
  BY DEF Inv, FInv, FVersionsOK, KnownOK, FWorkOK
<1>2. apps[fapp] # "unborn" /\ apps[fapp] \in States
  BY <1>1, IDs, WorkTypes DEF Known, CloudType
<1>3. SUFFICES ASSUME NEW f \in FnIDs \ UserFns, LiveFn(f) PROVE FALSE
  BY DEF NoneLeft
<1>4. fns[f].app # NoID /\ LiveApp(fns[f].app)
  BY <1>3 DEF Inv, CloudOK, LiveFn, Newborn
<1>5. fns[f].app # fapp
  BY <1>3 DEF FnsIn
<1>6. ~ LiveApp(fapp)
  BY <1>4, <1>5 DEF Inv, CloudOK, LiveApp
<1>7. apps[fapp] = "deleted"
  BY <1>1, <1>2, <1>6 DEF LiveApp, States
<1>8. creations <= 1
  BY <1>6 DEF ListRefused
<1>9. NoLiveApp
  BY <1>1, <1>7, <1>8 DEF Inv, AInv, AVersionsOK, OnceOK
<1>10. QED
  BY <1>4, <1>9 DEF NoLiveApp, LiveApp

LEMMA InvFLookup == ASSUME Inv, FLookup PROVE Inv'
<1>1. /\ fpc = "lookup" /\ ~ ListRefused(fapp) /\ UNCHANGED <<fkeep, cloud, region, mishaps>>
      /\ Deletion(fsnap) /\ Doomed(func) /\ fsnap.status.fid = NoID
      /\ fapp = fsnap.status.aid /\ fapp \in AppIDs
  BY DEF FLookup, Inv, FInv, FWorkOK
<1>2. ASSUME NEW f \in FnsIn(fapp), fpc' = "erase", ffound' = f, UNCHANGED <<fsnap, fmoved, fapp, fnext>>
      PROVE  Inv'
  <2>1. f \in FnIDs
    BY DEF FnsIn
  <2>2. Deletion(fsnap)' /\ Doomed(func)'
    BY <1>1, <1>2 DEF Deletion, FDeletes, Managed, Doomed, fkeep, functionObject
  <2>3. f \in FnsIn(fsnap.status.aid)'
    BY <1>1, <1>2 DEF FnsIn, LiveFn, cloud
  <2>4. FWorkOK'
    BY <1>1, <1>2, <2>1, <2>2, <2>3 DEF FWorkOK
  <2>5. QED
    BY <1>1, <1>2, <2>1, <2>4, FNextInv, WorkTypes DEF FCalls
<1>3. ASSUME FnsIn(fapp) = {}, FDeleted
      PROVE  Inv'
  <2>1. CloudType' /\ UNCHANGED <<fcache, fsnap, apps, fns>>
    BY <1>1, <1>3, WorkTypes DEF cloud, CloudType, fkeep, functionObject, FDeleted, FWrites
  <2>2. FnsFine
    BY <1>1, <2>1, SameFns
  <2>3. FErased(fsnap)'
    BY <1>1, <1>3, <2>1 DEF FErased, FnsIn, LiveFn
  <2>4. (ListsGone => creations <= 1) => NoneLeft'
    BY <1>1, <1>3, <2>1, NothingListed DEF NoneLeft, LiveFn
  <2>5. QED
    BY <1>1, <1>3, <2>1, <2>2, <2>3, <2>4, FDeletedInv
<1>4. QED
  BY <1>2, <1>3 DEF FLookup, ToDelete

LEMMA InvFLookupFails == ASSUME Inv, FLookupFails PROVE Inv'
<1>1. /\ fpc = "lookup" /\ FDeleteFailed /\ UNCHANGED <<fkeep, cloud, region>>
      /\ Mishap \/ UNCHANGED mishaps
  BY RefusedMishap DEF FLookupFails
<1>2. CloudType' /\ UNCHANGED <<fcache, fsnap, apps>>
  BY <1>1, WorkTypes DEF cloud, CloudType, fkeep, functionObject, FDeleteFailed, FWrites
<1>3. FnsFine
  BY <1>1, <1>2, SameFns
<1>4. QED
  BY <1>1, <1>2, <1>3, FDeleteFailedInv

LEMMA InvFErase == ASSUME Inv, FErase PROVE Inv'
<1>1. fpc = "erase" /\ Erase /\ FDeleted /\ UNCHANGED <<fkeep, region, mishaps>>
  BY DEF FErase
<1>2. CloudType' /\ UNCHANGED <<func, fcache, fsnap, apps>>
  BY <1>1, EraseType DEF Inv, Erase, fkeep, functionObject, FDeleted, FWrites
<1>3. FnsFine /\ (region = Home => FErased(fsnap)' /\ (~ referred => NoneLeft'))
  BY <1>1, <1>2, EraseFine
<1>4. races = 0 => region = Home
  BY <1>1 DEF Inv, RegionOK, FCalls
<1>5. QED
  BY <1>1, <1>2, <1>3, <1>4, FDeletedInv

LEMMA InvFEraseFails == ASSUME Inv, FEraseFails PROVE Inv'
<1>1. fpc = "erase" /\ FDeleteFailed /\ UNCHANGED <<fkeep, region>> /\ Mishap
  BY DEF FEraseFails
<1>2. UNCHANGED <<func, fcache, fsnap>>
  BY <1>1 DEF fkeep, functionObject, FDeleteFailed, FWrites
<1>3. CASE UNCHANGED cloud
  <2>1. CloudType' /\ UNCHANGED apps
    BY <1>3, WorkTypes DEF cloud, CloudType
  <2>2. FnsFine
    BY <1>1, <1>2, <1>3, SameFns
  <2>3. QED
    BY <1>1, <2>1, <2>2, FDeleteFailedInv
<1>4. CASE Erase
  <2>1. CloudType' /\ UNCHANGED apps
    BY <1>4, EraseType DEF Inv, Erase
  <2>2. FnsFine
    BY <1>1, <1>2, <1>4, EraseFine
  <2>3. QED
    BY <1>1, <2>1, <2>2, FDeleteFailedInv
<1>5. QED
  BY <1>3, <1>4 DEF FEraseFails
-----------------------------------------------------------------------------
(* The Function's reconciler writes.                                       *)

\* The reconcile is over, and the Function is the version it was or is new.
LEMMA FReturned ==
  ASSUME Inv, FReturn, UNCHANGED <<func, fns, apps, referred>>,
         fcache' = fcache \/ fcache' = func, races' = 0 => races = 0
  PROVE  FInv'
<1> USE DEF Inv, FInv, FVersionsOK, FReturn
<1>1. FOrderOK'
  BY DEF FOrderOK
<1>2. DeadOK'
  BY DEF DeadOK, SomeDead, Doomed, Going
<1>3. BackedOK'
  BY DEF BackedOK, FnReady, Backed
<1>4. FGuardOK'
  BY DEF FGuardOK, FErased, LiveFn, FnsIn, Deletion
<1>5. NoFunction.status.fid = NoID /\ NoFunction.status.aid = NoID
  BY DEF NoFunction, NoFnStatus
<1>6. FidsOK'
  BY <1>5 DEF FidsOK, Held, SomeDead, NoneLeft, LiveFn
<1>7. KnownOK'
  BY <1>5 DEF KnownOK, Known
<1>8. FWorkOK' /\ FWriteOK'
  BY DEF FWorkOK, FWriteOK
<1>9. QED
  BY <1>1, <1>2, <1>3, <1>4, <1>6, <1>7, <1>8

LEMMA FLeavesInv ==
  ASSUME Inv, FReturn, FInv', ObjectsType',
         UNCHANGED <<applicationObject, cloud, region, aworker, limits, mishaps>>
  PROVE  Inv'
<1>1. TypeOK'
  <2>1. CloudType' /\ AWorkerType' /\ CountsType'
    BY TypeParts DEF Inv, cloud, aworker, limits, CloudType, AWorkerType, CountsType
  <2>2. QED
    BY <2>1, FReturnType, TypePartsNext
<1>2. AInv'
  BY AStays DEF Inv, cloud, limits
<1>3. CloudOK'
  BY DEF Inv, CloudOK, LiveApp, LiveFn, cloud
<1>4. RegionOK'
  BY DEF Inv, RegionOK, FReturn, FCalls, aworker, limits
<1>5. QED
  BY <1>1, <1>2, <1>3, <1>4 DEF Inv

LEMMA InvFWriteRefused == ASSUME Inv, FWriteRefused PROVE Inv'
<1>1. FReturn /\ UNCHANGED <<functionObject, applicationObject, cloud, region, aworker, limits, mishaps>>
  BY DEF FWriteRefused
<1>2. FInv'
  BY <1>1, FReturned DEF functionObject, cloud, limits
<1>3. ObjectsType'
  BY <1>1, TypeParts DEF Inv, ObjectsType, functionObject, applicationObject
<1>4. QED
  BY <1>1, <1>2, <1>3, FLeavesInv

LEMMA MarkedStatus ==
  ASSUME NEW o \in FnObject
  PROVE  /\ FMarked(o) \in FnStatus
         /\ FMarked(o).phase = "Deleting" /\ FMarked(o).observed = o.gen
         /\ FMarked(o).fid = o.status.fid /\ FMarked(o).aid = o.status.aid
<1>1. o.gen \in Nat /\ o.status \in FnStatus
  BY FnFields
<1> DEFINE Phases == {"", "Pending", "Ready", "Error", "Deleting", "DeleteFailed"}
<1>2. /\ FnStatus = [phase : Phases, observed : Nat, fid : FnIDs \union {NoID},
                     aid : AppIDs \union {NoID}]
      /\ "Deleting" \in Phases
  BY Zenon DEF FnStatus
<1> HIDE DEF Phases
<1>3. QED
  BY <1>1, <1>2 DEF FMarked

LEMMA NothingSaid ==
  /\ NoFnStatus.observed = 0 /\ NoFnStatus.fid = NoID /\ NoFnStatus.aid = NoID
  /\ NoFnStatus.phase # "Ready"
<1>1. NoFnStatus.observed = 0 /\ NoFnStatus.fid = NoID /\ NoFnStatus.aid = NoID
  BY DEF NoFnStatus
<1>2. NoFnStatus.phase = ""
  BY DEF NoFnStatus
<1>3. NoFnStatus.phase # "Ready"
  BY <1>2, Zenon
<1>4. QED
  BY <1>1, <1>3

\* The deletion is announced: from now on the Function is not Ready any more.
LEMMA InvFMark == ASSUME Inv, FMark PROVE Inv'
<1> DEFINE obj == [func EXCEPT !.status = FMarked(fsnap)]
<1>1. /\ fpc = "mark" /\ ~ fmoved /\ fcache = func /\ func' = obj /\ UNCHANGED fcache
      /\ fsnap' = obj /\ fpc' = "target"
      /\ UNCHANGED <<applicationObject, cloud, region, fmoved, fapp, ffound, fnext, aworker,
                     limits, mishaps>>
  BY DEF FMark, PublishF
<1>2. /\ func = fsnap /\ Deletion(fsnap) /\ fsnap.stored /\ fsnap.deleting /\ fsnap.final
  BY <1>1 DEF Inv, FInv, FVersionsOK, FOrderOK, FSound, FWorkOK, Deletion
<1>3. /\ func' \in FnObject /\ func'.stored /\ func'.deleting /\ func'.final
      /\ func'.gen = func.gen /\ func'.spec = func.spec
      /\ func'.status = FMarked(fsnap)
  <2>1. FMarked(fsnap) \in FnStatus /\ func \in FnObject
    BY <1>2, WorkTypes, MarkedStatus
  <2>2. func' \in FnObject
    <3>1. PICK st \in FnStatus : st = FMarked(fsnap)
      BY <2>1
    <3>2. func' = [func EXCEPT !.status = st]
      BY <1>1, <3>1
    <3>3. QED
      BY <2>1, <3>2, FnWritten, Zenon
  <2>3. QED
    BY <1>1, <1>2, <2>1, <2>2 DEF FnObject
<1>4. /\ func'.status.phase = "Deleting" /\ func'.status.observed = func'.gen
      /\ func'.status.fid = func.status.fid /\ func'.status.aid = func.status.aid
  BY <1>2, <1>3, WorkTypes, MarkedStatus
<1>5. FOrderOK'
  BY <1>1, <1>2, <1>3, <1>4 DEF FOrderOK, FSound, Going, Doomed, FServed
<1>6. DeadOK'
  BY <1>1, <1>2, <1>3, <1>4 DEF DeadOK, Going, Doomed
<1>7. BackedOK'
  <2>1. func'.gen \in Nat
    BY <1>3, FnFields
  <2>2. func'.status.observed <= func'.gen
    BY <1>4, <2>1
  <2>3. func'.status.phase # "Ready"
    BY <1>4
  <2>4. QED
    BY <2>2, <2>3 DEF BackedOK, FnReady, Backed
<1>8. FGuardOK'
  BY <1>3 DEF FGuardOK
<1>9. FidsOK' /\ KnownOK'
  BY <1>1, <1>2, <1>3, <1>4
     DEF Inv, FInv, FVersionsOK, FidsOK, KnownOK, Held, Known, Managed, SomeDead, NoneLeft, LiveFn,
         cloud, limits
<1>10. Deletion(fsnap)'
  BY <1>1, <1>2, <1>3 DEF Deletion, FDeletes, Managed
<1>11. FWorkOK' /\ FWriteOK'
  BY <1>1, <1>3, <1>4, <1>10 DEF FWorkOK, FWriteOK, Doomed
<1>12. RegionOK'
  BY <1>1 DEF Inv, RegionOK, FCalls, aworker, limits
<1>13. AInv' /\ CloudOK'
  <2>1. AInv'
    BY <1>1, AStays DEF Inv, cloud, limits
  <2>2. CloudOK'
    BY <1>1 DEF Inv, CloudOK, LiveApp, LiveFn, cloud
  <2>3. QED
    BY <2>1, <2>2
<1>14. TypeOK'
  <2>1. ObjectsType'
    BY <1>1, <1>3, TypeParts DEF Inv, ObjectsType, applicationObject
  <2>2. FWorkerType'
    BY <1>1, <1>3, TypeParts DEF Inv, FWorkerType, FPCs
  <2>3. CloudType' /\ AWorkerType' /\ CountsType'
    BY <1>1, TypeParts DEF Inv, CloudType, AWorkerType, CountsType, cloud, aworker, limits
  <2>4. QED
    BY <2>1, <2>2, <2>3, TypePartsNext
<1>15. QED
  BY <1>5, <1>6, <1>7, <1>8, <1>9, <1>11, <1>12, <1>13, <1>14 DEF Inv, FInv, FVersionsOK

LEMMA InvFWrite == ASSUME Inv, FWrite PROVE Inv'
<1>1. /\ fpc = "write" /\ FReturn
      /\ UNCHANGED <<applicationObject, cloud, region, aworker, limits, mishaps>>
  BY DEF FWrite
<1>2. CASE UNCHANGED functionObject
  <2>1. FInv'
    BY <1>1, <1>2, FReturned DEF functionObject, cloud, limits
  <2>2. ObjectsType'
    BY <1>1, <1>2, TypeParts DEF Inv, ObjectsType, functionObject, applicationObject
  <2>3. QED
    BY <1>1, <2>1, <2>2, FLeavesInv
<1>3. CASE /\ ~ fmoved /\ fcache = func /\ UNCHANGED fcache
           /\ func' = IF func.deleting /\ ~ fnext.final THEN GoneFunction(func)
                      ELSE [func EXCEPT !.final = fnext.final, !.status = fnext.status]
  <2>1. /\ func = fsnap /\ fsnap \in FnObject /\ FWritable(fnext) /\ fnext \in FnPlan
        /\ fsnap.stored /\ FSound(fsnap)
    BY <1>1, <1>3, WorkTypes
       DEF Inv, FInv, FVersionsOK, FOrderOK, FWriteOK, FWorkerType
  <2>2. NoFunction.status.fid = NoID /\ NoFunction.status.aid = NoID
    BY NothingSaid DEF NoFunction
  <2>3. FWorkOK' /\ FWriteOK'
    BY <1>1 DEF FReturn, FWorkOK, FWriteOK
  <2>4. CASE func.deleting /\ ~ fnext.final
    <3>1. func' = GoneFunction(func) /\ func' \in FnObject
      BY <1>3, <2>1, <2>4, FnDeleted
    <3>2. /\ ~ func'.stored /\ ~ func'.deleting /\ func'.status = NoFnStatus /\ func'.gen = 0
          /\ func'.spec = func.spec
      BY <3>1, NothingTypes DEF GoneFunction, NoFunction, FnObject
    <3>3. /\ func'.status.phase # "Ready" /\ func'.status.observed = 0
          /\ func'.status.fid = NoID /\ func'.status.aid = NoID
      BY <3>2, NothingSaid
    <3>4. FOrderOK' /\ DeadOK'
      BY <1>1, <1>3, <2>1, <2>4, <3>2 DEF FOrderOK, FSound, Going, Doomed, FReturn, DeadOK
    <3>5. BackedOK'
      <4>1. func'.status.observed <= func'.gen
        BY <3>2, <3>3
      <4>2. func'.status.phase # "Ready"
        BY <3>3
      <4>3. QED
        BY <4>1, <4>2 DEF BackedOK, FnReady, Backed
    <3>6. FGuardOK'
      <4>1. races = 0 /\ Deletion(fsnap) => FErased(fsnap)
        BY <2>1, <2>4 DEF FWritable
      <4>2. FErased(fsnap) => FErased(fcache)'
        BY <1>1, <1>3, <2>1 DEF FErased, LiveFn, FnsIn, cloud
      <4>3. Deletion(fcache)' => Deletion(fsnap)
        BY <1>3, <2>1 DEF Deletion, FDeletes, Managed
      <4>4. QED
        BY <1>1, <4>1, <4>2, <4>3 DEF FGuardOK, FReturn, limits
    <3>7. FidsOK' /\ KnownOK'
      BY <1>1, <1>3, <2>1, <2>2, <3>2, <3>3
         DEF Inv, FInv, FVersionsOK, FidsOK, KnownOK, Held, Known, Managed, SomeDead, NoneLeft,
             LiveFn, cloud, limits, FReturn
    <3>8. FInv'
      BY <2>3, <3>4, <3>5, <3>6, <3>7 DEF FInv, FVersionsOK
    <3>9. ObjectsType'
      BY <1>1, <1>3, <3>1, TypeParts DEF Inv, ObjectsType, applicationObject
    <3>10. QED
      BY <1>1, <3>8, <3>9, FLeavesInv
  <2>5. CASE ~ (func.deleting /\ ~ fnext.final)
    <3>1. fnext.final \in BOOLEAN /\ fnext.status \in FnStatus
      BY <2>1 DEF FnPlan
    <3>2. func' = [func EXCEPT !.final = fnext.final, !.status = fnext.status]
      BY <1>3, <2>5
    <3>3. func' \in FnObject
      <4>1. PICK fin \in BOOLEAN, st \in FnStatus : fin = fnext.final /\ st = fnext.status
        BY <3>1
      <4>2. func' = [func EXCEPT !.final = fin, !.status = st]
        BY <3>2, <4>1
      <4>3. func \in FnObject
        BY <2>1
      <4>4. QED
        BY <4>2, <4>3, FnWritten, Zenon
    <3>4. /\ func'.stored = func.stored /\ func'.deleting = func.deleting
          /\ func'.gen = func.gen /\ func'.spec = func.spec
          /\ func'.final = fnext.final /\ func'.status = fnext.status
      BY <2>1, <3>2 DEF FnObject
    <3>5. FOrderOK'
      <4>1. FSound(func)'
        BY <2>1, <2>5, <3>4 DEF FSound
      <4>2. Doomed(func) => Doomed(func)'
        BY <2>1, <2>5, <3>4 DEF Doomed, FWritable
      <4>3. Going(func) => Going(func)'
        BY <3>4 DEF Going
      <4>4. QED
        BY <1>1, <1>3, <4>1, <4>2, <4>3 DEF Inv, FInv, FVersionsOK, FOrderOK, FReturn, FSound, Going, Doomed
    <3>6. DeadOK'
      BY <1>1, <1>3, <3>5 DEF Inv, FInv, FVersionsOK, DeadOK, FOrderOK, FReturn, SomeDead, cloud, Going,
                              Doomed, FWritable
    <3>7. BackedOK'
      <4>1. /\ func'.status.observed <= func'.gen
            /\ Backed(fns', func'.spec, func'.gen, func'.status)
        BY <1>1, <1>3, <2>1, <3>4 DEF FWritable, cloud
      <4>2. QED
        BY <1>1, <1>3, <3>4, <4>1 DEF BackedOK, FReturn
    <3>8. FGuardOK'
      BY <1>1, <1>3, <3>4 DEF FGuardOK, FReturn, Deletion
    <3>9. FidsOK' /\ KnownOK'
      BY <1>1, <1>3, <2>1, <2>2, <3>4
         DEF Inv, FInv, FVersionsOK, FidsOK, KnownOK, Held, Known, Managed, SomeDead, NoneLeft,
             LiveFn, cloud, limits, FReturn, FWritable
    <3>10. FInv'
      BY <2>3, <3>5, <3>6, <3>7, <3>8, <3>9 DEF FInv, FVersionsOK
    <3>11. ObjectsType'
      BY <1>1, <1>3, <3>3, TypeParts DEF Inv, ObjectsType, applicationObject
    <3>12. QED
      BY <1>1, <3>10, <3>11, FLeavesInv
  <2>6. QED
    BY <2>4, <2>5
<1>4. QED
  BY <1>2, <1>3 DEF FWrite, PublishF
-----------------------------------------------------------------------------
(* The environment.                                                        *)

\* A user touches the Function: what the reconciler works on is an old version now.
LEMMA TouchFInv ==
  ASSUME Inv, TypeOK', NEW obj \in FnObject, TouchF(obj), UNCHANGED creations,
         func.stored, FSound(obj), func.deleting => obj.deleting,
         Going(func) => Going(obj), Doomed(func) => Doomed(obj),
         obj.status = func.status \/ obj.status = NoFnStatus,
         obj.status.observed <= obj.gen,
         obj.status.phase = "Ready" /\ obj.status.observed = obj.gen =>
           obj.spec = func.spec /\ FnReady,
         referred => referred', ~ referred' => Managed(obj)
  PROVE  Inv'
<1>1. /\ fcache = func /\ func' = obj /\ fcache' = fcache /\ fmoved' = (fpc # "idle")
      /\ UNCHANGED <<applicationObject, cloud, region, fpc, fsnap, fapp, ffound, fnext,
                     aworker, mishaps, races>>
  BY DEF TouchF, PublishF
<1> USE DEF Inv, FInv, FVersionsOK, cloud
<1>2. FOrderOK'
  BY <1>1 DEF FOrderOK, FSound, Going, Doomed, FServed
<1>3. DeadOK'
  BY <1>1 DEF DeadOK, SomeDead, Doomed, Going
<1>4. BackedOK'
  <2>1. CASE obj.status.phase = "Ready" /\ obj.status.observed = obj.gen
    <3>1. /\ obj.spec = func.spec /\ FnReady /\ fcache.spec = func.spec
          /\ fpc # "idle" => fsnap.spec = func.spec
          /\ Backed(fns, func.spec, func.gen, func.status)
      BY <2>1 DEF BackedOK
    <3>2. obj.status = func.status
      BY <2>1, NothingSaid
    <3>3. obj.gen = func.gen
      BY <2>1, <3>1, <3>2 DEF FnReady
    <3>4. QED
      BY <1>1, <3>1, <3>2, <3>3 DEF BackedOK
  <2>2. CASE ~ (obj.status.phase = "Ready" /\ obj.status.observed = obj.gen)
    BY <1>1, <2>2 DEF BackedOK, Backed, FnReady
  <2>3. QED
    BY <2>1, <2>2
<1>5. FGuardOK'
  BY <1>1 DEF FGuardOK, FErased, LiveFn, FnsIn, Deletion
<1>6. FidsOK' /\ KnownOK'
  BY <1>1, NothingSaid DEF FidsOK, KnownOK, Held, Known, SomeDead, NoneLeft, LiveFn, Managed
<1>7. FWorkOK'
  BY <1>1 DEF FWorkOK, LiveFn, FnsIn, Known, Doomed
<1>8. FWriteOK'
  <2>1. SUFFICES ASSUME FWritable(fnext), fpc # "idle" PROVE FWritable(fnext)'
    BY <1>1 DEF FWriteOK
  <2>2. FErased(fsnap) => FErased(fsnap)'
    BY <1>1 DEF FErased, LiveFn, FnsIn
  <2>3. NoneLeft => NoneLeft'
    BY <1>1 DEF NoneLeft, LiveFn
  <2>4. QED
    BY <1>1, <2>1, <2>2, <2>3 DEF FWritable, Held, Known
<1>9. AInv'
  BY <1>1, AStays
<1>10. CloudOK'
  BY <1>1 DEF CloudOK, LiveApp, LiveFn
<1>11. RegionOK'
  BY <1>1 DEF RegionOK, aworker
<1>12. QED
  BY <1>2, <1>3, <1>4, <1>5, <1>6, <1>7, <1>8, <1>9, <1>10, <1>11

LEMMA InvEditFunction == ASSUME Inv, EditFunction PROVE Inv'
<1>1. PICK s \in FnSpecs : /\ TouchF([func EXCEPT !.spec = s, !.gen = @ + 1])
                           /\ referred' = (referred \/ s.mode = "Existing")
  BY Zenon DEF EditFunction
<1>2. PICK obj : obj = [func EXCEPT !.spec = s, !.gen = @ + 1]
  OBVIOUS
<1>3. func \in FnObject /\ func.gen \in Nat /\ func.stored /\ creations' = creations
  BY TypeParts, FnFields DEF EditFunction, Inv, ObjectsType
<1>4. obj \in FnObject
  BY <1>2, <1>3, FnEdited, Zenon
<1>5. /\ obj.stored = func.stored /\ obj.deleting = func.deleting /\ obj.final = func.final
      /\ obj.gen = func.gen + 1 /\ obj.spec = s /\ obj.status = func.status
  BY <1>2, <1>3 DEF FnObject
<1>6. TypeOK'
  BY TypeEnvironment DEF Inv, Environment
<1>7. FSound(func) /\ func.status.observed <= func.gen /\ func.status.observed \in Nat
  BY <1>3, FnFields DEF Inv, FInv, FVersionsOK, FOrderOK, BackedOK
<1>8. FSound(obj) /\ (Going(func) => Going(obj)) /\ (Doomed(func) => Doomed(obj))
  BY <1>3, <1>5, <1>7 DEF FSound, Going, Doomed
<1>9. obj.status.observed < obj.gen
  BY <1>3, <1>5, <1>7
<1>10. obj.status.observed <= obj.gen /\ obj.status.observed # obj.gen
  BY <1>4, <1>9, FnFields
<1>11. ~ referred' => Managed(obj)
  BY <1>1, <1>5, Specs DEF Managed
<1>12. (referred => referred') /\ TouchF(obj)
  BY <1>1, <1>2
<1>13. QED
  BY <1>3, <1>4, <1>5, <1>6, <1>8, <1>10, <1>11, <1>12, TouchFInv

LEMMA InvDeleteFunctionObject == ASSUME Inv, DeleteFunctionObject PROVE Inv'
<1>1. /\ func.stored /\ ~ func.deleting /\ UNCHANGED users
      /\ TouchF(IF func.final THEN [func EXCEPT !.deleting = TRUE] ELSE GoneFunction(func))
  BY DEF DeleteFunctionObject
<1>2. func \in FnObject /\ UNCHANGED <<creations, referred>>
  BY <1>1, TypeParts DEF Inv, ObjectsType, users
<1>3. TypeOK'
  BY TypeEnvironment DEF Inv, Environment
<1>4. ~ Going(func) /\ ~ Doomed(func) /\ (~ referred => Managed(func))
      /\ func.status.observed <= func.gen
  BY <1>1 DEF Going, Doomed, Inv, FInv, FVersionsOK, FidsOK, BackedOK
<1>5. CASE func.final
  <2>1. PICK obj : obj = [func EXCEPT !.deleting = TRUE]
    OBVIOUS
  <2>2. TouchF(obj) /\ obj \in FnObject
    BY <1>1, <1>2, <1>5, <2>1, FnDeleted, Zenon
  <2>3. /\ obj.stored = func.stored /\ obj.deleting /\ obj.final = func.final
        /\ obj.gen = func.gen /\ obj.spec = func.spec /\ obj.status = func.status
    BY <1>2, <2>1 DEF FnObject
  <2>4. FSound(obj) /\ (~ referred' => Managed(obj)) /\ obj.status.observed <= obj.gen
    BY <1>1, <1>2, <1>4, <1>5, <2>3 DEF FSound, Managed
  <2>5. obj.status.phase = "Ready" /\ obj.status.observed = obj.gen =>
          obj.spec = func.spec /\ FnReady
    BY <2>3 DEF FnReady
  <2>6. QED
    BY <1>1, <1>2, <1>3, <1>4, <2>2, <2>3, <2>4, <2>5, TouchFInv
<1>6. CASE ~ func.final
  <2>1. PICK obj : obj = GoneFunction(func)
    OBVIOUS
  <2>2. TouchF(obj) /\ obj \in FnObject
    BY <1>1, <1>2, <1>6, <2>1, FnDeleted, Zenon
  <2>3. /\ ~ obj.stored /\ ~ obj.deleting /\ obj.gen = 0 /\ obj.spec = func.spec
        /\ obj.status = NoFnStatus
    BY <2>1, NothingTypes DEF GoneFunction, NoFunction, FnObject
  <2>4. FSound(obj) /\ (~ referred' => Managed(obj))
    BY <1>2, <1>4, <2>3 DEF FSound, Managed
  <2>5. obj.status.observed <= obj.gen /\ obj.status.phase # "Ready"
    BY <2>3, NothingSaid
  <2>6. QED
    BY <1>1, <1>2, <1>3, <1>4, <2>2, <2>3, <2>4, <2>5, TouchFInv
<1>7. QED
  BY <1>5, <1>6

\* A user touches the FunctionApplication.
LEMMA TouchAInv ==
  ASSUME Inv, TypeOK', NEW obj, TouchA(obj), AInv', UNCHANGED referred,
         creations' <= 1 => creations <= 1
  PROVE  Inv'
<1>1. UNCHANGED <<functionObject, cloud, region, fworker, apc, asnap, anext, mishaps, races>>
  BY DEF TouchA
<1>2. StillBorn /\ UNCHANGED fns
  BY <1>1 DEF StillBorn, cloud
<1>3. FInv'
  BY <1>1, <1>2, FStays DEF Inv
<1>4. CloudOK'
  BY <1>1 DEF Inv, CloudOK, LiveApp, LiveFn, cloud
<1>5. RegionOK'
  BY <1>1 DEF Inv, RegionOK, fworker
<1>6. QED
  BY <1>3, <1>4, <1>5 DEF Inv

LEMMA AppTypes ==
  ASSUME Inv
  PROVE  /\ app \in AppObject /\ acache \in AppObject /\ asnap \in AppObject
         /\ app.status.aid \in AppIDs \union {NoID} /\ acache.status.aid \in AppIDs \union {NoID}
         /\ asnap.status.aid \in AppIDs \union {NoID} /\ creations \in Nat
         /\ NoAppStatus.aid = NoID /\ CloudType /\ AWorkerType
<1>1. app \in AppObject /\ acache \in AppObject /\ asnap \in AppObject /\ CloudType /\ AWorkerType
  BY TypeParts DEF Inv, ObjectsType, AWorkerType
<1>2. creations \in Nat
  BY TypeParts, LifecycleAssumption DEF Inv, CountsType
<1>3. NoAppStatus.aid = NoID
  BY DEF NoAppStatus
<1>4. QED
  BY <1>1, <1>2, <1>3, AppFields

LEMMA InvEditApplication == ASSUME Inv, EditApplication PROVE Inv'
<1>1. PICK p \in Policies : TouchA([app EXCEPT !.policy = p])
  BY Zenon DEF EditApplication
<1>2. UNCHANGED <<referred, creations>>
  BY DEF EditApplication
<1>3. PICK obj : obj = [app EXCEPT !.policy = p]
  OBVIOUS
<1>4. /\ obj.stored = app.stored /\ obj.deleting = app.deleting /\ obj.final = app.final
      /\ obj.status = app.status
  BY <1>3, AppTypes DEF AppObject
<1>5. /\ app' = obj /\ acache = app /\ amoved' = (apc # "idle")
      /\ UNCHANGED <<acache, apc, asnap, anext, apps, races>>
  BY <1>1, <1>3 DEF TouchA, PublishA, cloud
<1> USE DEF Inv, AInv, AVersionsOK
<1>6. AOrderOK'
  BY <1>4, <1>5 DEF AOrderOK, ASound, AServed
<1>7. AidsOK'
  BY <1>4, <1>5 DEF AidsOK, Meant, Dead, NoLiveApp, LiveApp, AServed
<1>8. AGuardOK'
  BY <1>4, <1>5 DEF AGuardOK, LiveApp
<1>9. OnceOK'
  BY <1>2, <1>4, <1>5 DEF OnceOK, NoLiveApp, LiveApp, AServed
<1>10. AWorkOK' /\ AWriteOK'
  BY <1>5 DEF AWorkOK, AServed, AWriteOK, AWritable, Meant, Dead, NoLiveApp, LiveApp
<1>11. TypeOK'
  BY TypeEnvironment DEF Environment
<1>12. QED
  BY <1>1, <1>2, <1>3, <1>6, <1>7, <1>8, <1>9, <1>10, <1>11, TouchAInv

LEMMA InvCreateApplicationObject == ASSUME Inv, CreateApplicationObject PROVE Inv'
<1>1. PICK p \in Policies : TouchA([NoApplication EXCEPT !.stored = TRUE, !.policy = p])
  BY Zenon DEF CreateApplicationObject
<1>2. ~ app.stored /\ creations' = creations + 1 /\ UNCHANGED referred
  BY DEF CreateApplicationObject
<1>3. PICK obj : obj = [NoApplication EXCEPT !.stored = TRUE, !.policy = p]
  OBVIOUS
<1>4. obj.stored /\ ~ obj.deleting /\ ~ obj.final /\ obj.status = NoAppStatus
  BY <1>3, NothingTypes DEF NoApplication, AppObject
<1>5. /\ app' = obj /\ acache = app /\ amoved' = (apc # "idle")
      /\ UNCHANGED <<acache, apc, asnap, anext, apps, races>>
  BY <1>1, <1>3 DEF TouchA, PublishA, cloud
<1> USE DEF Inv, AInv, AVersionsOK
<1>6. app.status = NoAppStatus /\ ~ app.deleting /\ NoAppStatus.aid = NoID
  BY <1>2, AppTypes DEF AOrderOK, ASound
<1>7. AOrderOK'
  BY <1>2, <1>4, <1>5, <1>6 DEF AOrderOK, ASound, AServed
<1>8. AidsOK'
  BY <1>2, <1>4, <1>5, <1>6 DEF AidsOK, Meant, Dead, NoLiveApp, LiveApp, AServed
<1>9. AGuardOK'
  BY <1>4, <1>5, <1>6 DEF AGuardOK, LiveApp
<1>10. OnceOK'
  <2>1. creations' # 0 /\ (creations' <= 1 => creations = 0)
    BY <1>2, AppTypes
  <2>2. creations = 0 => apc = "idle" /\ ~ acache.stored /\ ~ acache.deleting
                         /\ ~ \E a \in AppIDs : apps[a] = "deleted"
    BY <1>5, <1>6 DEF OnceOK
  <2>3. QED
    BY <1>5, <2>1, <2>2 DEF OnceOK
<1>11. AWorkOK' /\ AWriteOK'
  BY <1>5 DEF AWorkOK, AServed, AWriteOK, AWritable, Meant, Dead, NoLiveApp, LiveApp
<1>12. TypeOK'
  BY TypeEnvironment DEF Environment
<1>13. creations' <= 1 => creations <= 1
  BY <1>2, AppTypes
<1>14. QED
  BY <1>1, <1>2, <1>3, <1>7, <1>8, <1>9, <1>10, <1>11, <1>12, <1>13, TouchAInv

LEMMA InvDeleteApplicationObject == ASSUME Inv, DeleteApplicationObject PROVE Inv'
<1>1. /\ app.stored /\ ~ app.deleting /\ UNCHANGED users
      /\ TouchA(IF app.final THEN [app EXCEPT !.deleting = TRUE] ELSE NoApplication)
  BY DEF DeleteApplicationObject
<1>2. PICK obj : obj = IF app.final THEN [app EXCEPT !.deleting = TRUE] ELSE NoApplication
  OBVIOUS
<1>3. \/ obj.stored /\ obj.deleting /\ obj.final /\ obj.status = app.status
      \/ ~ obj.stored /\ ~ obj.deleting /\ obj.status = NoAppStatus
  <2>1. CASE app.final
    <3>1. obj = [app EXCEPT !.deleting = TRUE]
      BY <1>2, <2>1
    <3>2. obj.stored = app.stored /\ obj.deleting /\ obj.final = app.final /\ obj.status = app.status
      BY <3>1, AppTypes DEF AppObject
    <3>3. QED
      BY <1>1, <2>1, <3>2
  <2>2. CASE ~ app.final
    BY <1>2, <2>2 DEF NoApplication
  <2>3. QED
    BY <2>1, <2>2
<1>4. /\ app' = obj /\ acache = app /\ amoved' = (apc # "idle")
      /\ UNCHANGED <<acache, apc, asnap, anext, apps, races, referred, creations>>
  BY <1>1, <1>2 DEF TouchA, PublishA, cloud, users
<1> USE DEF Inv, AInv, AVersionsOK
<1>5. AOrderOK'
  BY <1>1, <1>3, <1>4, AppTypes DEF AOrderOK, ASound, AServed
<1>6. AidsOK'
  BY <1>1, <1>3, <1>4, AppTypes DEF AidsOK, Meant, Dead, NoLiveApp, LiveApp, AServed
<1>7. AGuardOK'
  BY <1>1, <1>3, <1>4 DEF AGuardOK, LiveApp
<1>8. OnceOK'
  BY <1>1, <1>3, <1>4 DEF OnceOK, NoLiveApp, LiveApp, AServed
<1>9. AWorkOK' /\ AWriteOK'
  BY <1>4 DEF AWorkOK, AServed, AWriteOK, AWritable, Meant, Dead, NoLiveApp, LiveApp
<1>10. TypeOK'
  BY TypeEnvironment DEF Environment
<1>11. TouchA(obj)
  BY <1>1, <1>2
<1>12. QED
  BY <1>4, <1>5, <1>6, <1>7, <1>8, <1>9, <1>10, <1>11, TouchAInv

\* What is about to be written.
LEMMA PlanIDs ==
  ASSUME Inv
  PROVE  fnext.status.fid \in FnIDs \union {NoID} /\ anext.status.aid \in AppIDs \union {NoID}
<1>1. fnext.status \in FnStatus /\ anext.status \in AppStatus
  BY TypeParts DEF Inv, FWorkerType, AWorkerType, FnPlan, AppPlan
<1> DEFINE FPhases == {"", "Pending", "Ready", "Error", "Deleting", "DeleteFailed"}
           APhases == {"", "Pending", "Ready", "Error"}
<1>2. /\ FnStatus = [phase : FPhases, observed : Nat, fid : FnIDs \union {NoID},
                     aid : AppIDs \union {NoID}]
      /\ AppStatus = [phase : APhases, aid : AppIDs \union {NoID}]
  BY Zenon DEF FnStatus, AppStatus
<1> HIDE DEF FPhases, APhases
<1>3. QED
  BY <1>1, <1>2

\* OCI finishes what it creates: nothing appears and nothing goes.
LEMMA AppActivated ==
  ASSUME Inv, NEW a \in AppIDs, apps[a] = "creating", apps' = [apps EXCEPT ![a] = "active"],
         UNCHANGED <<fns, functionObject, applicationObject, fworker, aworker, limits>>
  PROVE  FInv' /\ AInv' /\ CloudOK'
<1>1. \A b \in AppIDs : /\ (apps'[b] \in Newborn <=> apps[b] \in Newborn)
                         /\ (apps'[b] = "unborn" <=> apps[b] = "unborn")
                         /\ (apps'[b] = "deleted" <=> apps[b] = "deleted")
  BY AppTypes DEF CloudType, Newborn
<1>2. NoLiveApp' <=> NoLiveApp
  BY <1>1 DEF NoLiveApp, LiveApp
<1> USE DEF Inv, AInv, AVersionsOK, applicationObject, aworker, limits
<1>3. AOrderOK' /\ AWorkOK'
  BY DEF AOrderOK, AWorkOK
<1>4. AidsOK'
  BY <1>1, <1>2, AppTypes DEF AidsOK, Meant, Dead
<1>5. AGuardOK'
  BY <1>1, AppTypes DEF AGuardOK, LiveApp
<1>6. OnceOK'
  BY <1>1, <1>2 DEF OnceOK
<1>7. AWriteOK'
  <2>1. anext.status.aid \in AppIDs \union {NoID}
    BY PlanIDs
  <2>2. QED
    BY <1>1, <1>2, <2>1 DEF AWriteOK, AWritable, Meant, Dead
<1>8. FInv'
  <2>1. StillBorn
    BY <1>1 DEF StillBorn
  <2>2. QED
    BY <2>1, FStays
<1>9. CloudOK'
  BY <1>1 DEF CloudOK, LiveApp, LiveFn
<1>10. QED
  BY <1>3, <1>4, <1>5, <1>6, <1>7, <1>8, <1>9

LEMMA FnActivated ==
  ASSUME Inv, NEW f \in FnIDs, fns[f].state = "creating",
         fns' = [fns EXCEPT ![f].state = "active"],
         UNCHANGED <<apps, functionObject, applicationObject, fworker, aworker, limits>>
  PROVE  FInv' /\ AInv' /\ CloudOK'
<1>1. \A g \in FnIDs : /\ fns'[g].state = (IF g = f THEN "active" ELSE fns[g].state)
                        /\ fns'[g].app = fns[g].app /\ fns'[g].image = fns[g].image
  BY AppTypes DEF CloudType, OCIFunction
<1>2. \A g \in FnIDs : /\ (fns'[g].state \in Newborn <=> fns[g].state \in Newborn)
                        /\ (fns'[g].state = "unborn" <=> fns[g].state = "unborn")
                        /\ (fns'[g].state = "deleted" <=> fns[g].state = "deleted")
                        /\ fns'[g].app = fns[g].app /\ fns'[g].image = fns[g].image
  BY <1>1 DEF Newborn
<1>3. SomeDead' <=> SomeDead
  BY <1>2 DEF SomeDead
<1>4. NoneLeft' <=> NoneLeft
  BY <1>2 DEF NoneLeft, LiveFn
<1> USE DEF Inv, FInv, FVersionsOK, functionObject, fworker, limits
<1>5. func.status.fid \in FnIDs \union {NoID} /\ fcache.status.fid \in FnIDs \union {NoID}
  BY TypeParts, FnFields DEF ObjectsType
<1>6. fsnap.status.fid \in FnIDs \union {NoID} /\ ffound \in FnIDs \union {NoID}
  BY WorkTypes DEF FWorkerType
<1>7. fnext.status.fid \in FnIDs \union {NoID}
  BY PlanIDs
<1>8. /\ func.spec.mode = "Existing" => func.spec.id \in FnIDs
      /\ fsnap.spec.mode = "Existing" => fsnap.spec.id \in FnIDs
  BY TypeParts, FnFields, Specs DEF ObjectsType, FWorkerType
<1>9. FOrderOK'
  BY DEF FOrderOK
<1>10. DeadOK'
  BY <1>3 DEF DeadOK, Doomed, Going
<1>11. Backed(fns, func.spec, func.gen, func.status) => Backed(fns', func.spec, func.gen, func.status)
  BY <1>2, <1>5, <1>8 DEF Backed
<1>12. BackedOK'
  BY <1>11 DEF BackedOK, FnReady
<1>13. FErased(fcache) => FErased(fcache)'
  BY <1>2 DEF FErased, LiveFn, FnsIn
<1>14. FErased(fsnap) => FErased(fsnap)'
  BY <1>2 DEF FErased, LiveFn, FnsIn
<1>15. FGuardOK'
  BY <1>13, <1>14 DEF FGuardOK, Deletion
<1>16. FidsOK' /\ KnownOK'
  BY <1>2, <1>3, <1>4, <1>5, <1>6 DEF FidsOK, KnownOK, Known, Held, Managed
<1>17. FWorkOK'
  BY <1>2, <1>6 DEF FWorkOK, Known, LiveFn, FnsIn, Deletion, Doomed
<1>18. FWriteOK'
  <2>1. SUFFICES ASSUME FWritable(fnext) PROVE FWritable(fnext)'
    BY DEF FWriteOK
  <2>2. Backed(fns, fsnap.spec, fsnap.gen, fnext.status) => Backed(fns', fsnap.spec, fsnap.gen, fnext.status)
    BY <1>2, <1>7, <1>8 DEF Backed
  <2>3. Held(fnext.status.fid) => Held(fnext.status.fid)'
    BY <1>2, <1>7 DEF Held
  <2>4. QED
    BY <1>4, <1>14, <2>1, <2>2, <2>3 DEF FWritable, Known
<1>19. AInv'
  BY AStays
<1>20. CloudOK'
  BY <1>2 DEF CloudOK, LiveApp, LiveFn
<1>21. QED
  BY <1>9, <1>10, <1>12, <1>15, <1>16, <1>17, <1>18, <1>19, <1>20

LEMMA InvActivate == ASSUME Inv, Activate PROVE Inv'
<1>1. UNCHANGED <<functionObject, applicationObject, region, fworker, aworker, limits, mishaps>>
  BY DEF Activate
<1>2. FInv' /\ AInv' /\ CloudOK'
  BY <1>1, AppActivated, FnActivated DEF Activate
<1>3. RegionOK'
  BY <1>1 DEF Inv, RegionOK, fworker, aworker, limits
<1>4. TypeOK'
  BY TypeEnvironment DEF Inv
<1>5. QED
  BY <1>2, <1>3, <1>4 DEF Inv

LEMMA InvOtherReconcile == ASSUME Inv, OtherReconcile PROVE Inv'
<1>1. /\ races' = IF {fpc, apc} = {"idle"} THEN races ELSE races + 1
      /\ UNCHANGED <<functionObject, applicationObject, cloud, fworker, aworker, users, mishaps>>
  BY DEF OtherReconcile
<1>2. races \in Nat
  BY TypeParts, LifecycleAssumption DEF Inv, CountsType
<1>3. races' = 0 => races = 0 /\ {fpc, apc} = {"idle"}
  BY <1>1, <1>2
<1>4. StillBorn /\ UNCHANGED <<fns, apps, referred, creations>>
  BY <1>1 DEF StillBorn, cloud, users
<1>5. FInv' /\ AInv'
  BY <1>1, <1>3, <1>4, FStays, AStays DEF Inv
<1>6. CloudOK'
  BY <1>4 DEF Inv, CloudOK, LiveApp, LiveFn
<1>7. RegionOK'
  BY <1>1, <1>3 DEF RegionOK, FCalls, ACalls, fworker, aworker
<1>8. TypeOK'
  BY TypeEnvironment DEF Inv, Environment
<1>9. QED
  BY <1>5, <1>6, <1>7, <1>8 DEF Inv

LEMMA InvSyncFunction == ASSUME Inv, SyncFunction PROVE Inv'
<1>1. /\ fcache' = func
      /\ UNCHANGED <<func, applicationObject, cloud, region, fworker, aworker, limits, mishaps>>
  BY DEF SyncFunction
<1> USE DEF Inv, FInv, FVersionsOK, cloud, fworker, limits
<1>2. FOrderOK' /\ DeadOK'
  BY <1>1 DEF FOrderOK, DeadOK, SomeDead, Going
<1>3. BackedOK'
  BY <1>1 DEF BackedOK, FnReady, Backed
<1>4. FGuardOK'
  BY <1>1 DEF FGuardOK, FErased, LiveFn, FnsIn, Deletion
<1>5. FidsOK' /\ KnownOK'
  BY <1>1 DEF FidsOK, KnownOK, Held, Known, SomeDead, NoneLeft, LiveFn
<1>6. FWorkOK'
  BY <1>1 DEF FWorkOK, LiveFn, FnsIn, Known
<1>7. FWriteOK'
  <2>1. SUFFICES ASSUME FWritable(fnext) PROVE FWritable(fnext)'
    BY <1>1 DEF FWriteOK
  <2>2. FErased(fsnap) => FErased(fsnap)'
    BY <1>1 DEF FErased, LiveFn, FnsIn
  <2>3. NoneLeft => NoneLeft'
    BY <1>1 DEF NoneLeft, LiveFn
  <2>4. QED
    BY <1>1, <2>1, <2>2, <2>3 DEF FWritable, Held, Known, Backed
<1>8. AInv'
  BY <1>1, AStays
<1>9. CloudOK' /\ RegionOK'
  BY <1>1 DEF CloudOK, LiveApp, LiveFn, RegionOK, aworker
<1>10. TypeOK'
  BY TypeEnvironment
<1>11. QED
  BY <1>2, <1>3, <1>4, <1>5, <1>6, <1>7, <1>8, <1>9, <1>10

LEMMA InvSyncApplication == ASSUME Inv, SyncApplication PROVE Inv'
<1>1. /\ acache' = app
      /\ UNCHANGED <<app, functionObject, cloud, region, fworker, aworker, limits, mishaps>>
  BY DEF SyncApplication
<1> USE DEF Inv, AInv, AVersionsOK, cloud, aworker, limits
<1>2. AOrderOK'
  BY <1>1 DEF AOrderOK, AServed
<1>3. AidsOK'
  BY <1>1 DEF AidsOK, Meant, Dead, NoLiveApp, LiveApp, AServed
<1>4. AGuardOK'
  BY <1>1 DEF AGuardOK, LiveApp
<1>5. OnceOK'
  BY <1>1 DEF OnceOK, NoLiveApp, LiveApp, AServed
<1>6. AWorkOK' /\ AWriteOK'
  BY <1>1 DEF AWorkOK, AWriteOK, AWritable, Meant, Dead, NoLiveApp, LiveApp
<1>7. FInv'
  <2>1. StillBorn
    BY <1>1 DEF StillBorn
  <2>2. QED
    BY <1>1, <2>1, FStays
<1>8. CloudOK' /\ RegionOK'
  BY <1>1 DEF CloudOK, LiveApp, LiveFn, RegionOK, fworker
<1>9. TypeOK'
  BY TypeEnvironment
<1>10. QED
  BY <1>2, <1>3, <1>4, <1>5, <1>6, <1>7, <1>8, <1>9

\* The application's reconcile is over.
LEMMA AReturned ==
  ASSUME Inv, AReturn, UNCHANGED <<app, apps, creations>>, acache' = acache \/ acache' = app,
         races' = 0 => races = 0
  PROVE  AInv'
<1> USE DEF Inv, AInv, AVersionsOK, AReturn
<1>1. AOrderOK'
  BY DEF AOrderOK
<1>2. NoApplication.status.aid = NoID
  BY AppTypes DEF NoApplication
<1>3. AidsOK'
  BY <1>2 DEF AidsOK, Meant, Dead, NoLiveApp, LiveApp, AServed
<1>4. AGuardOK'
  BY DEF AGuardOK, LiveApp
<1>5. OnceOK'
  BY DEF OnceOK, NoLiveApp, LiveApp, AServed
<1>6. AWorkOK' /\ AWriteOK'
  BY DEF AWorkOK, AWriteOK
<1>7. QED
  BY <1>1, <1>3, <1>4, <1>5, <1>6

LEMMA InvCrash == ASSUME Inv, Crash PROVE Inv'
<1>1. /\ fcache' = func /\ acache' = app /\ FReturn /\ AReturn
      /\ UNCHANGED <<func, app, cloud, region, users, races>>
  BY DEF Crash
<1>2. FInv'
  BY <1>1, FReturned DEF cloud, users
<1>3. AInv'
  BY <1>1, AReturned DEF cloud, users
<1>4. CloudOK'
  BY <1>1 DEF Inv, CloudOK, LiveApp, LiveFn, cloud
<1>5. RegionOK'
  BY <1>1 DEF RegionOK, FReturn, AReturn, FCalls, ACalls
<1>6. TypeOK'
  BY TypeEnvironment DEF Inv, Environment
<1>7. QED
  BY <1>2, <1>3, <1>4, <1>5, <1>6 DEF Inv
-----------------------------------------------------------------------------
(* The FunctionApplication's reconciler.                                   *)

\* A reconcile that begins.
LEMMA AStartVersions ==
  ASSUME Inv, AStart, UNCHANGED <<akeep, cloud>>, acache.stored
  PROVE  AVersionsOK' /\ FInv' /\ CloudOK'
<1> USE DEF Inv, AInv, AVersionsOK, akeep, applicationObject, limits, cloud, AStart
<1>1. AOrderOK'
  BY DEF AOrderOK, AServed
<1>2. AidsOK'
  BY DEF AidsOK, Meant, Dead, NoLiveApp, LiveApp, AServed
<1>3. AGuardOK'
  BY DEF AGuardOK, LiveApp
<1>4. OnceOK'
  BY DEF OnceOK, NoLiveApp, LiveApp, AServed
<1>5. FInv'
  <2>1. StillBorn
    BY DEF StillBorn
  <2>2. QED
    BY <2>1, FStays
<1>6. CloudOK'
  BY DEF CloudOK, LiveApp, LiveFn
<1>7. QED
  BY <1>1, <1>2, <1>3, <1>4, <1>5, <1>6

\* A reconcile that begins, and goes on to write what keeps the id.
LEMMA ADecideInv ==
  ASSUME Inv, NEW w \in AppPlan, ADecide(w), acache.stored, w.status.aid = acache.status.aid,
         acache.deleting /\ acache.policy = "Delete" => w.final
  PROVE  Inv'
<1>1. /\ AStart /\ UNCHANGED <<akeep, cloud>> /\ apc' = "write" /\ anext' = w
      /\ region' = region /\ asnap' = acache
  BY DEF ADecide, AStart
<1>2. AVersionsOK' /\ FInv' /\ CloudOK'
  BY <1>1, AStartVersions
<1>3. AWritable(anext)'
  BY <1>1 DEF Inv, AInv, AVersionsOK, AidsOK, AWritable, Meant, Dead, NoLiveApp, LiveApp, cloud
<1>4. AWorkOK' /\ AWriteOK'
  BY <1>1, <1>3 DEF AWorkOK, AWriteOK
<1>5. RegionOK'
  BY <1>1 DEF Inv, RegionOK, ACalls, akeep, fworker, limits
<1>6. TypeOK'
  BY TypeADecide DEF Inv
<1>7. QED
  BY <1>2, <1>4, <1>5, <1>6 DEF Inv, AInv

\* What is kept of an application, and what an error keeps.
LEMMA AKept ==
  ASSUME NEW o \in AppObject, NEW fin \in BOOLEAN
  PROVE  /\ [AKeep(o) EXCEPT !.final = fin] \in AppPlan
         /\ [AKeep(o) EXCEPT !.final = fin].status.aid = o.status.aid
         /\ AFailed(o) \in AppPlan /\ AFailed(o).status.aid = o.status.aid
         /\ AFailed(o).final = o.final
<1>1. [AKeep(o) EXCEPT !.final = fin] = [final |-> fin, status |-> o.status]
  BY DEF AKeep
<1>2. AFailed(o).status.aid = o.status.aid /\ AFailed(o).final = o.final
  BY DEF AFailed, ABuilt
<1>3. o.status \in AppStatus /\ o.status.aid \in AppIDs \union {NoID}
  BY AppFields
<1>4. AFailed(o) \in AppPlan
  BY <1>3, AppPlans DEF AFailed
<1>5. [AKeep(o) EXCEPT !.final = fin] \in AppPlan
  BY <1>1, <1>3 DEF AppPlan
<1>6. QED
  BY <1>1, <1>2, <1>4, <1>5

LEMMA InvAStartFinalizer == ASSUME Inv, AStartFinalizer PROVE Inv'
<1> DEFINE fin == acache.policy = "Delete"
           w == [AKeep(acache) EXCEPT !.final = fin]
<1>1. fin \in BOOLEAN /\ acache \in AppObject
  BY AppTypes
<1>2. w \in AppPlan /\ w.status.aid = acache.status.aid
  BY <1>1, AKept
<1>3. ADecide(w) /\ acache.stored /\ ~ acache.deleting
  BY DEF AStartFinalizer, AServed
<1>4. QED
  BY <1>2, <1>3, ADecideInv

LEMMA InvAStartRetain == ASSUME Inv, AStartRetain PROVE Inv'
<1> DEFINE w == [AKeep(acache) EXCEPT !.final = FALSE]
<1>1. w \in AppPlan /\ w.status.aid = acache.status.aid
  BY AppTypes, AKept
<1>2. ADecide(w) /\ acache.stored /\ acache.policy = "Retain"
  BY DEF AStartRetain, ABeingDeleted
<1>3. QED
  BY <1>1, <1>2, ADecideInv

LEMMA InvAStartUnknown == ASSUME Inv, AStartUnknown PROVE Inv'
<1> DEFINE w == AFailed(acache)
<1>1. ADecide(w) /\ acache.stored /\ acache.deleting
  BY DEF AStartUnknown, ABeingDeleted
<1>2. acache.final
  BY <1>1 DEF Inv, AInv, AVersionsOK, AOrderOK, ASound
<1>3. w \in AppPlan /\ w.status.aid = acache.status.aid /\ w.final
  BY <1>2, AppTypes, AKept
<1>4. QED
  BY <1>1, <1>3, ADecideInv

\* A reconcile that begins, and goes on to call OCI in the region of the application.
LEMMA ACallsInv ==
  ASSUME Inv, AStart, UNCHANGED <<akeep, cloud, anext, mishaps>>, region' = Home, acache.stored,
         apc' \in {"find", "list"}, AWorkOK'
  PROVE  Inv'
<1>1. AVersionsOK' /\ FInv' /\ CloudOK'
  BY AStartVersions
<1>2. AWriteOK' /\ RegionOK'
  BY DEF AWriteOK, RegionOK
<1>3. TypeOK'
  <2>1. ObjectsType' /\ FWorkerType' /\ CloudType'
    BY TypeParts DEF Inv, akeep, functionObject, applicationObject, fworker, cloud,
                     ObjectsType, FWorkerType, CloudType
  <2>2. AWorkerType'
    BY TypeParts DEF Inv, AStart, AWorkerType, APCs, ObjectsType
  <2>3. CountsType'
    BY TypeParts, LifecycleAssumption DEF Inv, akeep, limits, CountsType
  <2>4. QED
    BY <2>1, <2>2, <2>3, TypePartsNext
<1>4. QED
  BY <1>1, <1>2, <1>3 DEF Inv, AInv

LEMMA InvAStartEnsure == ASSUME Inv, AStartEnsure PROVE Inv'
<1>1. /\ AServed(acache) /\ AStart /\ apc' = "find" /\ region' = Home
      /\ UNCHANGED <<akeep, cloud, anext, mishaps>>
  BY DEF AStartEnsure
<1>2. AWorkOK' /\ acache.stored
  BY <1>1 DEF AWorkOK, AServed, AStart
<1>3. QED
  BY <1>1, <1>2, ACallsInv

LEMMA InvAStartDelete == ASSUME Inv, AStartDelete PROVE Inv'
<1>1. /\ acache.stored /\ acache.deleting /\ acache.policy = "Delete" /\ acache.status.aid # NoID
      /\ AStart /\ apc' = "list" /\ region' = Home /\ UNCHANGED <<akeep, cloud, anext, mishaps>>
  BY DEF AStartDelete, ABeingDeleted
<1>2. AWorkOK'
  BY <1>1 DEF AWorkOK, AStart
<1>3. QED
  BY <1>1, <1>2, ACallsInv

\* What a step that changes the applications has to see to.
AppsFine == CloudOK' /\ StillBorn /\ AVersionsOK'

LEMMA SameApps ==
  ASSUME Inv, UNCHANGED <<akeep, cloud, asnap, amoved>>, apc # "idle", apc' # "idle"
  PROVE  AppsFine
<1> USE DEF Inv, AInv, AVersionsOK, akeep, applicationObject, limits, cloud
<1>1. AOrderOK'
  BY DEF AOrderOK
<1>2. AidsOK'
  BY DEF AidsOK, Meant, Dead, NoLiveApp, LiveApp
<1>3. AGuardOK'
  BY DEF AGuardOK, LiveApp
<1>4. OnceOK'
  BY DEF OnceOK, NoLiveApp, LiveApp
<1>5. CloudOK' /\ StillBorn
  BY DEF CloudOK, LiveApp, LiveFn, StillBorn
<1>6. QED
  BY <1>1, <1>2, <1>3, <1>4, <1>5 DEF AppsFine

\* A call after which the reconcile goes on to write.
LEMMA AWritesInv ==
  ASSUME Inv, NEW w \in AppPlan, AWrites(w), apc # "idle", UNCHANGED <<akeep, fns, region>>,
         Mishap \/ UNCHANGED mishaps, CloudType', AppsFine, AWritable(anext)'
  PROVE  Inv'
<1>1. TypeOK'
  BY TypeAWrite DEF Inv
<1>2. FInv'
  BY FStays DEF AppsFine, Inv, akeep, limits
<1>3. AWorkOK' /\ AWriteOK'
  BY DEF AWrites, AWorkOK, AWriteOK
<1>4. RegionOK'
  BY DEF Inv, RegionOK, ACalls, AWrites, akeep, fworker, limits
<1>5. QED
  BY <1>1, <1>2, <1>3, <1>4 DEF Inv, AInv, AppsFine

\* A call that is followed by another one.
LEMMA ANextInv ==
  ASSUME Inv, UNCHANGED <<akeep, cloud, region, mishaps, asnap, amoved, anext>>, apc \in ACalls,
         apc' \in {"create", "delete"}, AWorkOK'
  PROVE  Inv'
<1>1. apc # "idle"
  BY DEF ACalls
<1>2. AppsFine
  BY <1>1, SameApps
<1>3. FInv'
  BY <1>2, FStays DEF AppsFine, Inv, akeep, limits, cloud
<1>4. AWriteOK'
  BY DEF AWriteOK
<1>5. RegionOK'
  BY DEF Inv, RegionOK, ACalls, akeep, fworker, limits
<1>6. TypeOK'
  <2>1. AWorkerType' /\ CloudType'
    BY AppTypes DEF AWorkerType, APCs, CloudType, cloud
  <2>2. QED
    BY <2>1, TypeAStep DEF Inv
<1>7. QED
  BY <1>2, <1>3, <1>4, <1>5, <1>6 DEF Inv, AInv, AppsFine

\* Nobody knows a dead application while a served object is worked on.
LEMMA NoneDead ==
  ASSUME Inv, apc # "idle", AServed(asnap)
  PROVE  ~ Dead(app.status.aid) /\ ~ Dead(acache.status.aid) /\ ~ Dead(asnap.status.aid)
BY DEF Inv, AInv, AVersionsOK, AidsOK, AServed

LEMMA MakeAppFine ==
  ASSUME Inv, apc = "create", CanCreateApp, UNCHANGED <<akeep, asnap, amoved>>, apc' # "idle",
         NEW a \in AppIDs, NEW st \in Newborn, MakeApp(a, st)
  PROVE  AppsFine /\ apps'[a] = st
<1> USE DEF Inv, AInv, AVersionsOK, akeep, applicationObject, limits
<1>1. AServed(asnap) /\ NoLiveApp
  BY DEF AWorkOK, CanCreateApp, NoLiveApp
<1>2. /\ apps[a] = "unborn" /\ apps'[a] = st /\ fns' = fns
      /\ \A b \in AppIDs : b # a => apps'[b] = apps[b]
  BY AppTypes DEF MakeApp, CloudType
<1>3. AOrderOK'
  BY DEF AOrderOK
<1>4. AidsOK'
  <2>1. \A b \in AppIDs \union {NoID} : Meant(b) /\ ~ Dead(b) =>
          (b # NoID => apps'[b] # "unborn") /\ ~ (b # NoID /\ apps'[b] = "deleted")
    BY <1>2 DEF Meant, Dead, Newborn
  <2>2. ~ Dead(app.status.aid) /\ ~ Dead(acache.status.aid) /\ ~ Dead(asnap.status.aid)
    BY <1>1, NoneDead
  <2>3. QED
    BY <2>1, <2>2, AppTypes DEF AidsOK, Meant, Dead
<1>5. AGuardOK'
  <2>1. \A b \in AppIDs \union {NoID} : Meant(b) /\ b \in AppIDs /\ apps'[b] \in Newborn => LiveApp(b)
    BY <1>2, IDs DEF Meant, LiveApp
  <2>2. Meant(acache.status.aid) /\ Meant(asnap.status.aid)
    BY DEF AidsOK
  <2>3. QED
    BY <2>1, <2>2, AppTypes DEF AGuardOK, LiveApp
<1>6. OnceOK'
  BY <1>1, <1>2 DEF OnceOK, Newborn
<1>7. CloudOK'
  <2>1. \A b \in AppIDs : LiveApp(b)' => b = a
    BY <1>1, <1>2 DEF NoLiveApp, LiveApp
  <2>2. \A f \in FnIDs : LiveFn(f)' => LiveFn(f)
    BY <1>2 DEF LiveFn
  <2>3. \A f \in FnIDs : LiveFn(f)' /\ fns'[f].app # NoID => FALSE
    BY <1>1, <1>2, <2>2 DEF CloudOK, NoLiveApp, LiveApp
  <2>4. QED
    BY <1>2, <2>1, <2>2, <2>3 DEF CloudOK
<1>8. StillBorn
  BY <1>2 DEF StillBorn
<1>9. QED
  BY <1>2, <1>3, <1>4, <1>5, <1>6, <1>7, <1>8 DEF AppsFine

\* An application that is deleted had no functions, and was the only one.
LEMMA EraseAppFine ==
  ASSUME Inv, apc = "delete", ~ DeleteRefused, EraseApp, UNCHANGED <<akeep, asnap, amoved>>,
         apc' # "idle"
  PROVE  /\ AppsFine
         /\ region = Home => NoLiveApp'
<1> DEFINE id == asnap.status.aid
<1> USE DEF Inv, AInv, AVersionsOK, akeep, applicationObject, limits
<1>1. asnap.deleting /\ asnap.policy = "Delete" /\ id # NoID /\ id \in AppIDs /\ ~ AServed(asnap)
  BY AppTypes DEF AWorkOK, AServed
<1>2. /\ fns' = fns
      /\ \A b \in AppIDs : b # id => apps'[b] = apps[b]
      /\ apps'[id] = apps[id] \/ (region = Home /\ LiveApp(id) /\ apps'[id] = "deleted")
      /\ region = Home /\ LiveApp(id) => apps'[id] = "deleted"
  BY <1>1, AppTypes DEF EraseApp, CloudType
<1>3. region = Home => NoLiveApp'
  <2>1. SUFFICES ASSUME region = Home, NEW b \in AppIDs, LiveApp(b)' PROVE FALSE
    BY DEF NoLiveApp
  <2>2. CASE LiveApp(id)
    <3>1. apps'[id] = "deleted"
      BY <1>2, <2>1, <2>2
    <3>2. b # id /\ LiveApp(b)
      BY <1>2, <2>1, <3>1 DEF LiveApp, Newborn
    <3>3. QED
      BY <1>1, <2>2, <3>2 DEF CloudOK
  <2>3. CASE ~ LiveApp(id)
    <3>1. LiveApp(b)
      BY <1>2, <2>1, <2>3 DEF LiveApp
    <3>2. b # id
      BY <2>3, <3>1
    <3>3. apps[id] \in States
      BY <1>1, AppTypes DEF CloudType
    <3>4. apps[id] # "unborn" /\ (Dead(id) => NoLiveApp)
      BY <1>1 DEF AidsOK, Meant
    <3>5. Dead(id)
      BY <1>1, <2>3, <3>3, <3>4 DEF Dead, LiveApp, States
    <3>6. QED
      BY <3>1, <3>4, <3>5 DEF NoLiveApp
  <2>4. QED
    BY <2>2, <2>3
<1>4. CASE apps'[id] = apps[id]
  <2>1. \A b \in AppIDs : apps'[b] = apps[b]
    BY <1>2, <1>4
  <2>2. apps' = apps
    BY <2>1, AppTypes, EraseAppType DEF CloudType
  <2>3. AppsFine
    BY <1>2, <2>2, SameApps DEF cloud
  <2>4. QED
    BY <1>3, <2>3
<1>5. CASE region = Home /\ LiveApp(id) /\ apps'[id] = "deleted"
  <2>1. NoLiveApp'
    BY <1>3, <1>5
  <2>2. AOrderOK'
    BY DEF AOrderOK
  <2>3. AidsOK'
    <3>1. \A b \in AppIDs \union {NoID} : Meant(b) => (b # NoID => apps'[b] # "unborn")
      BY <1>2 DEF Meant, Dead
    <3>2. /\ app.status.aid # NoID => app.deleting
          /\ acache.status.aid # NoID => acache.deleting
          /\ AServed(acache) => app.status.aid = NoID
      BY <1>1 DEF AOrderOK
    <3>3. Meant(app.status.aid) /\ Meant(acache.status.aid) /\ Meant(asnap.status.aid)
      BY DEF AidsOK
    <3>4. /\ Meant(app.status.aid)' /\ Meant(acache.status.aid)' /\ Meant(asnap.status.aid)'
      BY <2>1, <3>1, <3>3, AppTypes DEF Meant, Dead
    <3>5. QED
      BY <1>1, <3>2, <3>4 DEF AidsOK, Dead, AServed
  <2>4. AGuardOK'
    BY <2>1, AppTypes DEF AGuardOK, NoLiveApp, LiveApp
  <2>5. OnceOK'
    <3>1. creations # 0 /\ (creations <= 1 => creations = 1)
      BY AppTypes DEF OnceOK
    <3>2. creations <= 1 => ~ AServed(app) /\ ~ AServed(acache)
      BY <1>1 DEF OnceOK
    <3>3. QED
      BY <1>1, <2>1, <3>1, <3>2 DEF OnceOK, AServed
  <2>6. CloudOK'
    <3>1. FnsIn(id) = {}
      BY <1>5 DEF DeleteRefused
    <3>2. \A b \in AppIDs : LiveApp(b)' => LiveApp(b)
      BY <2>1 DEF NoLiveApp
    <3>3. \A f \in FnIDs : LiveFn(f)' <=> LiveFn(f)
      BY <1>2 DEF LiveFn
    <3>4. \A f \in FnIDs : LiveFn(f) /\ fns[f].app # NoID => FALSE
      BY <1>1, <1>5, <3>1 DEF CloudOK, FnsIn, LiveApp
    <3>5. QED
      BY <1>2, <3>2, <3>3, <3>4 DEF CloudOK
  <2>7. StillBorn
    BY <1>2, <1>5 DEF StillBorn
  <2>8. QED
    BY <2>1, <2>2, <2>3, <2>4, <2>5, <2>6, <2>7 DEF AppsFine
<1>6. QED
  BY <1>2, <1>4, <1>5

\* What is written while an object is served names an application there is, or none.
LEMMA ServedWritable ==
  ASSUME AServed(asnap), asnap' = asnap, NEW a \in AppIDs \union {NoID}, NEW ph,
         a # NoID => apps'[a] \in Newborn, anext' = ABuilt(asnap, ph, a)
  PROVE  AWritable(anext)'
<1>1. anext'.status.aid = a
  BY DEF ABuilt
<1>2. QED
  BY <1>1 DEF AWritable, Meant, Dead, Newborn, AServed

LEMMA InvAFind == ASSUME Inv, AFind PROVE Inv'
<1>1. apc = "find" /\ AServed(asnap) /\ UNCHANGED <<akeep, cloud, region, mishaps>>
  BY DEF AFind, Inv, AInv, AWorkOK
<1>2. ASSUME NEW a \in Applications, ASettle(a, apps[a])
      PROVE  Inv'
  <2>1. a \in AppIDs /\ apps[a] \in Newborn
    BY DEF Applications, LiveApp
  <2>2. PICK ph \in {"Ready", "Pending"} : AWrites(ABuilt(asnap, ph, a))
    BY <1>2 DEF ASettle
  <2>3. PICK w : w = ABuilt(asnap, ph, a)
    OBVIOUS
  <2>4. w \in AppPlan /\ AWrites(w)
    BY <2>1, <2>2, <2>3, AppTypes, AppPlans
  <2>5. anext' = ABuilt(asnap, ph, a) /\ asnap' = asnap /\ amoved' = amoved /\ apc' # "idle"
    BY <2>2 DEF AWrites
  <2>6. apps'[a] \in Newborn /\ CloudType' /\ UNCHANGED fns
    BY <1>1, <2>1, AppTypes DEF cloud, CloudType
  <2>7. AWritable(anext)'
    BY <1>1, <2>1, <2>5, <2>6, ServedWritable
  <2>8. AppsFine
    BY <1>1, <2>5, SameApps
  <2>9. QED
    BY <1>1, <2>4, <2>6, <2>7, <2>8, AWritesInv
<1>3. ASSUME apc' = "create", UNCHANGED <<asnap, amoved, anext>>
      PROVE  Inv'
  <2>1. AWorkOK'
    BY <1>1, <1>3 DEF AWorkOK, AServed
  <2>2. QED
    BY <1>1, <1>3, <2>1, ANextInv DEF ACalls
<1>4. QED
  BY <1>2, <1>3 DEF AFind

LEMMA InvAFindFails == ASSUME Inv, AFindFails PROVE Inv'
<1>1. apc = "find" /\ AServed(asnap) /\ Mishap /\ UNCHANGED <<akeep, cloud, region>>
  BY DEF AFindFails, Inv, AInv, AWorkOK
<1>2. PICK a \in Applications \union {NoID} : AWrites(ABuilt(asnap, "Error", a))
  BY DEF AFindFails
<1>3. a \in AppIDs \union {NoID} /\ (a # NoID => apps[a] \in Newborn)
  BY DEF Applications, LiveApp
<1>4. PICK w : w = ABuilt(asnap, "Error", a)
  OBVIOUS
<1>5. w \in AppPlan /\ AWrites(w)
  BY <1>2, <1>3, <1>4, AppTypes, AppPlans
<1>6. anext' = ABuilt(asnap, "Error", a) /\ asnap' = asnap /\ amoved' = amoved /\ apc' # "idle"
  BY <1>2 DEF AWrites
<1>7. (a # NoID => apps'[a] \in Newborn) /\ CloudType' /\ UNCHANGED fns
  BY <1>1, <1>3, AppTypes DEF cloud, CloudType
<1>8. AWritable(anext)'
  BY <1>1, <1>3, <1>6, <1>7, ServedWritable
<1>9. AppsFine
  BY <1>1, <1>6, SameApps
<1>10. QED
  BY <1>1, <1>5, <1>7, <1>8, <1>9, AWritesInv

LEMMA InvACreate == ASSUME Inv, ACreate PROVE Inv'
<1>1. apc = "create" /\ CanCreateApp /\ AServed(asnap) /\ UNCHANGED <<akeep, region, mishaps>>
  BY DEF ACreate, Inv, AInv, AWorkOK
<1>2. PICK a \in AppIDs, st \in Newborn : MakeApp(a, st) /\ ASettle(a, st)
  BY DEF ACreate
<1>3. PICK ph \in {"Ready", "Pending"} : AWrites(ABuilt(asnap, ph, a))
  BY <1>2 DEF ASettle
<1>4. PICK w : w = ABuilt(asnap, ph, a)
  OBVIOUS
<1>5. w \in AppPlan /\ AWrites(w)
  BY <1>3, <1>4, AppTypes, AppPlans
<1>6. anext' = ABuilt(asnap, ph, a) /\ asnap' = asnap /\ amoved' = amoved /\ apc' # "idle"
  BY <1>3 DEF AWrites
<1>7. AppsFine /\ apps'[a] = st
  BY <1>1, <1>2, <1>6, MakeAppFine
<1>8. CloudType' /\ UNCHANGED fns
  BY <1>2, MakeAppType DEF Inv, MakeApp
<1>9. AWritable(anext)'
  BY <1>1, <1>6, <1>7, ServedWritable
<1>10. QED
  BY <1>1, <1>5, <1>7, <1>8, <1>9, AWritesInv

LEMMA InvACreateFails == ASSUME Inv, ACreateFails PROVE Inv'
<1>1. /\ apc = "create" /\ AServed(asnap) /\ UNCHANGED <<akeep, region>>
      /\ AWrites(ABuilt(asnap, "Error", NoID)) /\ (Mishap \/ UNCHANGED mishaps)
  BY RefusedMishap DEF ACreateFails, Inv, AInv, AWorkOK
<1>2. PICK w : w = ABuilt(asnap, "Error", NoID)
  OBVIOUS
<1>3. w \in AppPlan /\ AWrites(w)
  BY <1>1, <1>2, AppTypes, AppPlans
<1>4. anext' = ABuilt(asnap, "Error", NoID) /\ asnap' = asnap /\ amoved' = amoved /\ apc' # "idle"
  BY <1>1 DEF AWrites
<1>5. AWritable(anext)'
  BY <1>1, <1>4, ServedWritable
<1>6. CASE UNCHANGED cloud
  <2>1. AppsFine
    BY <1>1, <1>4, <1>6, SameApps
  <2>2. CloudType' /\ UNCHANGED fns
    BY <1>6, AppTypes DEF cloud, CloudType
  <2>3. QED
    BY <1>1, <1>3, <1>5, <2>1, <2>2, AWritesInv
<1>7. CASE CanCreateApp /\ \E a \in AppIDs, st \in Newborn : MakeApp(a, st)
  <2>1. PICK a \in AppIDs, st \in Newborn : MakeApp(a, st)
    BY <1>7
  <2>2. AppsFine
    BY <1>1, <1>4, <1>7, <2>1, MakeAppFine
  <2>3. CloudType' /\ UNCHANGED fns
    BY <2>1, MakeAppType DEF Inv, MakeApp
  <2>4. QED
    BY <1>1, <1>3, <1>5, <2>2, <2>3, AWritesInv
<1>8. QED
  BY <1>6, <1>7 DEF ACreateFails

\* A deletion that fails keeps the finalizer, and is tried again.
LEMMA AFailedInv ==
  ASSUME Inv, apc \in {"list", "delete"}, AWrites(AFailed(asnap)), UNCHANGED <<akeep, fns, region>>,
         Mishap \/ UNCHANGED mishaps, CloudType', AppsFine
  PROVE  Inv'
<1>1. PICK w : w = AFailed(asnap)
  OBVIOUS
<1>2. w \in AppPlan /\ AWrites(w) /\ w.status.aid = asnap.status.aid /\ w.final = asnap.final
  BY <1>1, AppTypes, AKept
<1>3. anext' = w /\ asnap' = asnap /\ apc' = "write"
  BY <1>2 DEF AWrites
<1>4. asnap.deleting /\ asnap.final
  BY DEF Inv, AInv, AVersionsOK, AOrderOK, ASound, AWorkOK
<1>5. Meant(asnap.status.aid)'
  BY DEF AppsFine, AVersionsOK, AidsOK
<1>6. AWritable(anext)'
  BY <1>2, <1>3, <1>4, <1>5 DEF AWritable, Meant, Dead, NoLiveApp, LiveApp
<1>7. QED
  BY <1>2, <1>6, AWritesInv

LEMMA InvAList == ASSUME Inv, AList PROVE Inv'
<1>1. apc = "list" /\ UNCHANGED <<akeep, cloud, region, mishaps>>
  BY DEF AList
<1>2. CASE AWrites(AFailed(asnap))
  <2>1. CloudType' /\ UNCHANGED fns /\ UNCHANGED <<asnap, amoved>> /\ apc' # "idle"
    BY <1>1, <1>2, AppTypes DEF cloud, CloudType, AWrites
  <2>2. AppsFine
    BY <1>1, <2>1, SameApps
  <2>3. QED
    BY <1>1, <1>2, <2>1, <2>2, AFailedInv
<1>3. CASE apc' = "delete" /\ UNCHANGED <<asnap, amoved, anext>>
  <2>1. AWorkOK'
    BY <1>1, <1>3 DEF Inv, AInv, AWorkOK
  <2>2. QED
    BY <1>1, <1>3, <2>1, ANextInv DEF ACalls
<1>4. QED
  BY <1>2, <1>3 DEF AList

LEMMA InvAListFails == ASSUME Inv, AListFails PROVE Inv'
<1>1. /\ apc = "list" /\ AWrites(AFailed(asnap)) /\ UNCHANGED <<akeep, cloud, region>>
      /\ Mishap \/ UNCHANGED mishaps
  BY RefusedMishap DEF AListFails
<1>2. CloudType' /\ UNCHANGED fns /\ UNCHANGED <<asnap, amoved>> /\ apc' # "idle"
  BY <1>1, AppTypes DEF cloud, CloudType, AWrites
<1>3. AppsFine
  BY <1>1, <1>2, SameApps
<1>4. QED
  BY <1>1, <1>2, <1>3, AFailedInv

LEMMA InvADelete == ASSUME Inv, ADelete PROVE Inv'
<1> DEFINE w == [final |-> FALSE, status |-> asnap.status]
<1>1. /\ apc = "delete" /\ ~ DeleteRefused /\ EraseApp /\ AWrites(w)
      /\ UNCHANGED <<akeep, region, mishaps>>
  BY DEF ADelete
<1>2. w \in AppPlan
  BY AppTypes, AppPlans
<1>3. anext' = w /\ UNCHANGED <<asnap, amoved>> /\ apc' = "write"
  BY <1>1 DEF AWrites
<1>4. AppsFine /\ (region = Home => NoLiveApp')
  BY <1>1, <1>3, EraseAppFine
<1>5. CloudType' /\ UNCHANGED fns
  BY <1>1, EraseAppType DEF Inv, EraseApp
<1>6. races = 0 => region = Home
  BY <1>1 DEF Inv, RegionOK, ACalls
<1>7. AWritable(anext)'
  <2>1. asnap.deleting /\ races' = races
    BY <1>1 DEF Inv, AInv, AWorkOK, akeep, limits
  <2>2. Meant(asnap.status.aid)'
    BY <1>4 DEF AppsFine, AVersionsOK, AidsOK
  <2>3. anext'.status = asnap.status /\ asnap' = asnap
    BY <1>3
  <2>4. Meant(anext.status.aid)'
    BY <2>2, <2>3 DEF Meant, Dead, NoLiveApp, LiveApp
  <2>5. QED
    BY <1>4, <1>6, <2>1, <2>3, <2>4 DEF AWritable
<1>8. QED
  BY <1>1, <1>2, <1>4, <1>5, <1>7, AWritesInv

LEMMA InvADeleteFails == ASSUME Inv, ADeleteFails PROVE Inv'
<1>1. /\ apc = "delete" /\ AWrites(AFailed(asnap)) /\ UNCHANGED <<akeep, region>>
      /\ Mishap \/ UNCHANGED mishaps
  BY RefusedMishap DEF ADeleteFails, ADeleteFailed
<1>2. UNCHANGED <<asnap, amoved>> /\ apc' # "idle"
  BY <1>1 DEF AWrites
<1>3. CASE UNCHANGED cloud
  <2>1. CloudType' /\ UNCHANGED fns
    BY <1>3, AppTypes DEF cloud, CloudType
  <2>2. AppsFine
    BY <1>1, <1>2, <1>3, SameApps
  <2>3. QED
    BY <1>1, <2>1, <2>2, AFailedInv
<1>4. CASE ~ DeleteRefused /\ EraseApp
  <2>1. CloudType' /\ UNCHANGED fns
    BY <1>4, EraseAppType DEF Inv, EraseApp
  <2>2. AppsFine
    BY <1>1, <1>2, <1>4, EraseAppFine
  <2>3. QED
    BY <1>1, <2>1, <2>2, AFailedInv
<1>5. QED
  BY <1>3, <1>4 DEF ADeleteFails

\* The application's reconcile is over, and the Function's is where it was.
LEMMA ALeavesInv ==
  ASSUME Inv, AReturn, AInv', ObjectsType',
         UNCHANGED <<functionObject, cloud, region, fworker, limits, mishaps>>
  PROVE  Inv'
<1>1. TypeOK'
  <2>1. CloudType' /\ FWorkerType' /\ CountsType'
    BY TypeParts DEF Inv, cloud, fworker, limits, CloudType, FWorkerType, CountsType
  <2>2. QED
    BY <2>1, AReturnType, TypePartsNext
<1>2. FInv'
  <2>1. StillBorn
    BY DEF StillBorn, cloud
  <2>2. QED
    BY <2>1, FStays DEF Inv, cloud, limits
<1>3. CloudOK' /\ RegionOK'
  BY DEF Inv, CloudOK, LiveApp, LiveFn, cloud, RegionOK, AReturn, ACalls, fworker, limits
<1>4. QED
  BY <1>1, <1>2, <1>3 DEF Inv

LEMMA InvAWriteRefused == ASSUME Inv, AWriteRefused PROVE Inv'
<1>1. AReturn /\ UNCHANGED <<functionObject, applicationObject, cloud, region, fworker, limits, mishaps>>
  BY DEF AWriteRefused
<1>2. AInv'
  BY <1>1, AReturned DEF applicationObject, cloud, limits
<1>3. ObjectsType'
  BY <1>1, TypeParts DEF Inv, ObjectsType, functionObject, applicationObject
<1>4. QED
  BY <1>1, <1>2, <1>3, ALeavesInv

LEMMA InvAWrite == ASSUME Inv, AWrite PROVE Inv'
<1>1. /\ apc = "write" /\ AReturn
      /\ UNCHANGED <<functionObject, cloud, region, fworker, limits, mishaps>>
  BY DEF AWrite
<1>2. CASE UNCHANGED applicationObject
  <2>1. AInv'
    BY <1>1, <1>2, AReturned DEF applicationObject, cloud, limits
  <2>2. ObjectsType'
    BY <1>1, <1>2, TypeParts DEF Inv, ObjectsType, functionObject, applicationObject
  <2>3. QED
    BY <1>1, <2>1, <2>2, ALeavesInv
<1>3. CASE /\ ~ amoved /\ acache = app /\ UNCHANGED acache
           /\ app' = IF app.deleting /\ ~ anext.final THEN NoApplication
                     ELSE [app EXCEPT !.final = anext.final, !.status = anext.status]
  <2>1. /\ app = asnap /\ asnap.stored /\ ASound(asnap) /\ AWritable(anext)
        /\ anext.final \in BOOLEAN /\ anext.status \in AppStatus
        /\ UNCHANGED <<apps, races, creations>> /\ apc' = "idle"
        /\ asnap'.status.aid = NoID
    <3>1. AWritable(anext) /\ anext \in AppPlan /\ app = asnap /\ asnap.stored /\ ASound(asnap)
      BY <1>1, <1>3, AppTypes DEF Inv, AInv, AVersionsOK, AOrderOK, AWriteOK, AWorkerType
    <3>2. asnap'.status.aid = NoID
      BY <1>1, AppTypes DEF AReturn, NoApplication
    <3>3. QED
      BY <1>1, <3>1, <3>2 DEF AppPlan, AReturn, cloud, limits
  <2>2. PICK fin \in BOOLEAN, st \in AppStatus : fin = anext.final /\ st = anext.status
    BY <2>1
  <2>3. \/ /\ app.deleting /\ ~ anext.final
           /\ ~ app'.stored /\ ~ app'.deleting /\ app'.status = NoAppStatus
        \/ /\ ~ (app.deleting /\ ~ anext.final)
           /\ app'.stored /\ app'.deleting = app.deleting /\ app'.final = anext.final
           /\ app'.status = anext.status
    <3>1. CASE app.deleting /\ ~ anext.final
      BY <1>3, <3>1 DEF NoApplication
    <3>2. CASE ~ (app.deleting /\ ~ anext.final)
      <4>1. app' = [app EXCEPT !.final = fin, !.status = st]
        BY <1>3, <2>2, <3>2
      <4>2. /\ app'.stored = app.stored /\ app'.deleting = app.deleting /\ app'.final = fin
            /\ app'.status = st
        BY <4>1, AppTypes DEF AppObject
      <4>3. QED
        BY <2>1, <2>2, <3>2, <4>2
    <3>3. QED
      BY <3>1, <3>2
  <2>4. app' \in AppObject
    <3>1. CASE app.deleting /\ ~ anext.final
      BY <1>3, <3>1, NothingTypes
    <3>2. CASE ~ (app.deleting /\ ~ anext.final)
      <4>1. app' = [app EXCEPT !.final = fin, !.status = st]
        BY <1>3, <2>2, <3>2
      <4>2. QED
        BY <4>1, AppTypes, AppWritten, Zenon
    <3>3. QED
      BY <3>1, <3>2
  <2> USE DEF Inv, AInv, AVersionsOK
  <2>5. AOrderOK'
    BY <1>3, <2>1, <2>3, AppTypes DEF AOrderOK, ASound
  <2>6. AidsOK'
    BY <1>3, <2>1, <2>3, AppTypes DEF AidsOK, AWritable, Meant, Dead, NoLiveApp, LiveApp, AServed
  <2>7. AGuardOK'
    BY <1>3, <2>1, <2>3, AppTypes DEF AGuardOK, AWritable, NoLiveApp, LiveApp
  <2>8. OnceOK'
    BY <1>1, <1>3, <2>1, <2>3 DEF OnceOK, NoLiveApp, LiveApp, AServed
  <2>9. AWorkOK' /\ AWriteOK'
    BY <2>1 DEF AWorkOK, AWriteOK
  <2>10. ObjectsType'
    BY <1>1, <1>3, <2>4, TypeParts DEF ObjectsType, functionObject
  <2>11. QED
    BY <1>1, <2>5, <2>6, <2>7, <2>8, <2>9, <2>10, ALeavesInv
<1>4. QED
  BY <1>2, <1>3 DEF AWrite, PublishA
-----------------------------------------------------------------------------
(* The invariant.                                                          *)

LEMMA InitInv == Init => Inv
<1>1. SUFFICES ASSUME Init PROVE Inv
  OBVIOUS
<1>2. TypeOK
  BY <1>1, TypeInit
<1>3. PICK s \in FnSpecs : func = [NoFunction EXCEPT !.stored = TRUE, !.gen = 1, !.spec = s]
  BY <1>1, Zenon DEF Init
<1>4. /\ func.stored /\ ~ func.deleting /\ func.gen = 1 /\ func.spec = s /\ func.status = NoFnStatus
  BY <1>3, NothingTypes DEF NoFunction, FnObject
<1>5. /\ fcache = func /\ app = NoApplication /\ acache = app
      /\ fpc = "idle" /\ fsnap = NoFunction /\ apc = "idle" /\ asnap = NoApplication
      /\ referred = (func.spec.mode = "Existing") /\ creations = 0
  BY <1>1 DEF Init
<1>6. PICK place \in {NoID, 1}, twin \in UserFns \union {NoID} :
        /\ apps = [a \in AppIDs |-> IF a = place THEN "active" ELSE "unborn"]
        /\ fns = [f \in FnIDs |->
                    [state |-> IF f \in UserFns THEN "active" ELSE "unborn",
                     app |-> IF f = twin THEN place ELSE NoID, image |-> SomeImage]]
  BY <1>1 DEF Init
<1>7. \A a \in AppIDs : apps[a] = IF a = place THEN "active" ELSE "unborn"
  BY <1>6
<1>8. \A f \in FnIDs : /\ fns[f].state = (IF f \in UserFns THEN "active" ELSE "unborn")
                       /\ fns[f].app = (IF f = twin THEN place ELSE NoID)
  BY <1>6
<1>9. ~ SomeDead /\ ~ \E a \in AppIDs : apps[a] = "deleted"
  BY <1>7, <1>8 DEF SomeDead
<1>10. /\ NoFunction.status = NoFnStatus /\ ~ NoApplication.stored /\ ~ NoApplication.deleting
       /\ NoApplication.status = NoAppStatus /\ NoAppStatus.aid = NoID
  BY DEF NoFunction, NoApplication, NoAppStatus
<1>11. FInv
  <2>1. FOrderOK
    BY <1>4, <1>5 DEF FOrderOK, FSound, Going, Doomed
  <2>2. DeadOK
    BY <1>9 DEF DeadOK
  <2>3. BackedOK
    <3>1. func.status.observed <= func.gen /\ func.status.phase # "Ready"
      BY <1>4, NothingSaid
    <3>2. QED
      BY <3>1 DEF BackedOK, FnReady, Backed
  <2>4. FGuardOK
    BY <1>4, <1>5 DEF FGuardOK, Deletion
  <2>5. FidsOK
    <3>1. ~ referred => Managed(func)
      BY <1>4, <1>5, Specs DEF Managed
    <3>2. QED
      BY <1>4, <1>5, <1>9, <1>10, <3>1, NothingSaid DEF FidsOK, Held
  <2>6. KnownOK
    BY <1>4, <1>5, <1>10, NothingSaid DEF KnownOK, Known
  <2>7. FWorkOK /\ FWriteOK
    BY <1>5 DEF FWorkOK, FWriteOK
  <2>8. QED
    BY <2>1, <2>2, <2>3, <2>4, <2>5, <2>6, <2>7 DEF FInv, FVersionsOK
<1>12. AInv
  <2>1. AOrderOK /\ AidsOK /\ AGuardOK
    BY <1>5, <1>10 DEF AOrderOK, ASound, AidsOK, Meant, Dead, AServed, AGuardOK
  <2>2. OnceOK
    BY <1>5, <1>9, <1>10 DEF OnceOK
  <2>3. AWorkOK /\ AWriteOK
    BY <1>5 DEF AWorkOK, AWriteOK
  <2>4. QED
    BY <2>1, <2>2, <2>3 DEF AInv, AVersionsOK
<1>13. CloudOK
  <2>1. \A a \in AppIDs : LiveApp(a) => a = place
    BY <1>7 DEF LiveApp, Newborn
  <2>2. \A f \in FnIDs : fns[f].app # NoID => f = twin /\ fns[f].app = place /\ place = 1
    BY <1>8
  <2>3. 1 \in AppIDs
    BY LifecycleAssumption DEF AppIDs
  <2>4. place = 1 => LiveApp(place)
    BY <1>7, <2>3 DEF LiveApp, Newborn
  <2>5. \A f \in FnIDs \ UserFns : fns[f].state = "unborn"
    BY <1>8
  <2>6. QED
    BY <2>1, <2>2, <2>3, <2>4, <2>5 DEF CloudOK
<1>14. RegionOK
  BY <1>5 DEF RegionOK, FCalls, ACalls
<1>15. QED
  BY <1>2, <1>11, <1>12, <1>13, <1>14 DEF Inv

LEMMA Stutter == ASSUME Inv, UNCHANGED vars PROVE Inv'
<1>1. UNCHANGED <<functionObject, applicationObject, cloud, region, fworker, aworker, limits, mishaps>>
  BY DEF vars, functionObject, applicationObject, cloud, fworker, aworker, limits
<1>2. AInv'
  BY <1>1, AStays DEF Inv, cloud, limits
<1>3. FInv'
  <2>1. StillBorn
    BY <1>1 DEF StillBorn, cloud
  <2>2. QED
    BY <1>1, <2>1, FStays DEF Inv, cloud, limits
<1>4. CloudOK' /\ RegionOK'
  BY <1>1 DEF Inv, CloudOK, LiveApp, LiveFn, cloud, RegionOK, fworker, aworker, limits
<1>5. TypeOK'
  <2>1. edits' = edits
    BY DEF vars
  <2>2. QED
    BY <1>1, <2>1, TypeParts, TypePartsNext
       DEF Inv, ObjectsType, CloudType, FWorkerType, AWorkerType, CountsType,
           functionObject, applicationObject, cloud, fworker, aworker, limits
<1>6. QED
  BY <1>2, <1>3, <1>4, <1>5 DEF Inv

LEMMA InvFunctionController == ASSUME Inv, FunctionController PROVE Inv'
<1>1. CASE FStartFinalizer
  BY <1>1, InvFStartFinalizer
<1>2. CASE FStartWaiting
  BY <1>2, InvFStartWaiting
<1>3. CASE FStartExisting
  BY <1>3, InvFStartExisting
<1>4. CASE FStartEnsure
  BY <1>4, InvFStartEnsure
<1>5. CASE FStartRetain
  BY <1>5, InvFStartRetain
<1>6. CASE FStartDelete
  BY <1>6, InvFStartDelete
<1>7. CASE FFind
  BY <1>7, InvFFind
<1>8. CASE FFindFails
  BY <1>8, InvFFindFails
<1>9. CASE FCreate
  BY <1>9, InvFCreate
<1>10. CASE FCreateFails
  BY <1>10, InvFCreateFails
<1>11. CASE FUpdate
  BY <1>11, InvFUpdate
<1>12. CASE FUpdateFails
  BY <1>12, InvFUpdateFails
<1>13. CASE FMark
  BY <1>13, InvFMark
<1>14. CASE FTargetUnknown
  BY <1>14, InvFTargetUnknown
<1>15. CASE FTarget
  BY <1>15, InvFTarget
<1>16. CASE FLookup
  BY <1>16, InvFLookup
<1>17. CASE FLookupFails
  BY <1>17, InvFLookupFails
<1>18. CASE FErase
  BY <1>18, InvFErase
<1>19. CASE FEraseFails
  BY <1>19, InvFEraseFails
<1>20. CASE FWrite
  BY <1>20, InvFWrite
<1>21. CASE FWriteRefused
  BY <1>21, InvFWriteRefused
<1>22. QED
  BY <1>1, <1>2, <1>3, <1>4, <1>5, <1>6, <1>7, <1>8, <1>9, <1>10, <1>11, <1>12, <1>13, <1>14,
     <1>15, <1>16, <1>17, <1>18, <1>19, <1>20, <1>21 DEF FunctionController

LEMMA InvApplicationController == ASSUME Inv, ApplicationController PROVE Inv'
<1>1. CASE AStartFinalizer
  BY <1>1, InvAStartFinalizer
<1>2. CASE AStartEnsure
  BY <1>2, InvAStartEnsure
<1>3. CASE AStartRetain
  BY <1>3, InvAStartRetain
<1>4. CASE AStartUnknown
  BY <1>4, InvAStartUnknown
<1>5. CASE AStartDelete
  BY <1>5, InvAStartDelete
<1>6. CASE AFind
  BY <1>6, InvAFind
<1>7. CASE AFindFails
  BY <1>7, InvAFindFails
<1>8. CASE ACreate
  BY <1>8, InvACreate
<1>9. CASE ACreateFails
  BY <1>9, InvACreateFails
<1>10. CASE AList
  BY <1>10, InvAList
<1>11. CASE AListFails
  BY <1>11, InvAListFails
<1>12. CASE ADelete
  BY <1>12, InvADelete
<1>13. CASE ADeleteFails
  BY <1>13, InvADeleteFails
<1>14. CASE AWrite
  BY <1>14, InvAWrite
<1>15. CASE AWriteRefused
  BY <1>15, InvAWriteRefused
<1>16. QED
  BY <1>1, <1>2, <1>3, <1>4, <1>5, <1>6, <1>7, <1>8, <1>9, <1>10, <1>11, <1>12, <1>13, <1>14,
     <1>15 DEF ApplicationController

LEMMA InvNext == Inv /\ [Next]_vars => Inv'
<1>1. SUFFICES ASSUME Inv, [Next]_vars PROVE Inv'
  OBVIOUS
<1>2. CASE Environment
  BY <1>1, <1>2, InvEditFunction, InvDeleteFunctionObject, InvCreateApplicationObject,
     InvEditApplication, InvDeleteApplicationObject, InvOtherReconcile, InvCrash DEF Environment
<1>3. CASE Activate \/ SyncFunction \/ SyncApplication
  BY <1>1, <1>3, InvActivate, InvSyncFunction, InvSyncApplication
<1>4. CASE FunctionController
  BY <1>1, <1>4, InvFunctionController
<1>5. CASE ApplicationController
  BY <1>1, <1>5, InvApplicationController
<1>6. CASE UNCHANGED vars
  BY <1>1, <1>6, Stutter
<1>7. QED
  BY <1>1, <1>2, <1>3, <1>4, <1>5, <1>6 DEF Next

\* The invariant holds for every number of applications and functions, every set of
\* specs, and every bound on what goes wrong.
THEOREM Invariance == Spec => []Inv
BY InitInv, InvNext, PTL DEF Spec
-----------------------------------------------------------------------------
(* What the controllers promise.                                           *)

\* Every variable holds a value of its type, whatever the two reconcilers, the users
\* and OCI do.
THEOREM TypeCorrect == Spec => []TypeOK
<1>1. Inv => TypeOK
  BY DEF Inv
<1>2. QED
  BY <1>1, Invariance, PTL

\* A Function that is Ready for its spec has the function it needs, with the image of
\* the spec, whatever was lost, refused or read late, and in whatever region the
\* client was: while it is served, edited, and deleted (function_controller.go).
THEOREM ReadyBacked == Spec => []ReadyIsBacked
<1>1. Inv => ReadyIsBacked
  BY DEF Inv, FInv, FVersionsOK, BackedOK, Backed, FnReady, ReadyIsBacked, LiveFn
<1>2. QED
  BY <1>1, Invariance, PTL

\* Who changes what.
LEMMA EnvironmentChanges ==
  ASSUME Environment \/ Activate \/ SyncFunction \/ SyncApplication
  PROVE  /\ func' = func \/ EditFunction \/ DeleteFunctionObject
         /\ app' = app \/ CreateApplicationObject \/ EditApplication \/ DeleteApplicationObject
         /\ UNCHANGED cloud \/ Activate
<1>1. ASSUME NEW o, TouchF(o) PROVE UNCHANGED <<app, cloud>>
  BY <1>1 DEF TouchF, applicationObject
<1>2. ASSUME NEW o, TouchA(o) PROVE UNCHANGED <<func, cloud>>
  BY <1>2 DEF TouchA, functionObject
<1>3. CASE EditFunction
  BY <1>1, <1>3, Zenon DEF EditFunction
<1>4. CASE DeleteFunctionObject
  BY <1>1, <1>4, Zenon DEF DeleteFunctionObject
<1>5. CASE CreateApplicationObject
  BY <1>2, <1>5, Zenon DEF CreateApplicationObject
<1>6. CASE EditApplication
  BY <1>2, <1>6, Zenon DEF EditApplication
<1>7. CASE DeleteApplicationObject
  BY <1>2, <1>7, Zenon DEF DeleteApplicationObject
<1>8. CASE OtherReconcile
  BY <1>8 DEF OtherReconcile, functionObject, applicationObject
<1>9. CASE Crash
  BY <1>9 DEF Crash
<1>10. CASE Activate
  BY <1>10 DEF Activate, functionObject, applicationObject
<1>11. CASE SyncFunction \/ SyncApplication
  BY <1>11 DEF SyncFunction, SyncApplication, functionObject, applicationObject
<1>12. QED
  BY <1>3, <1>4, <1>5, <1>6, <1>7, <1>8, <1>9, <1>10, <1>11 DEF Environment

LEMMA FunctionControllerChanges ==
  ASSUME FunctionController
  PROVE  /\ app' = app /\ apps' = apps
         /\ func' = func \/ FMark \/ FWrite
         /\ \/ fns' = fns \/ (\E f \in FnIDs, st \in Newborn : MakeFn(f, st))
            \/ ChangeFn \/ (fpc = "erase" /\ Erase)
<1> USE DEF fkeep, functionObject, applicationObject, cloud
<1>1. CASE FStartFinalizer \/ FStartWaiting \/ FStartExisting \/ FStartRetain
  <2>1. \E w : FDecide(w)
    BY <1>1 DEF FStartFinalizer, FStartWaiting, FStartExisting, FStartRetain
  <2>2. QED
    BY <2>1 DEF FDecide
<1>2. CASE FStartEnsure \/ FStartDelete
  BY <1>2 DEF FStartEnsure, FStartDelete
<1>3. CASE FFind \/ FFindFails \/ FTargetUnknown \/ FTarget \/ FLookup \/ FLookupFails
  BY <1>3 DEF FFind, FFindFails, FTargetUnknown, FTarget, FLookup, FLookupFails
<1>4. CASE FCreate
  BY <1>4 DEF FCreate, MakeFn
<1>5. CASE FCreateFails
  BY <1>5 DEF FCreateFails, MakeFn
<1>6. CASE FUpdate
  BY <1>6 DEF FUpdate, ChangeFn
<1>7. CASE FUpdateFails
  BY <1>7 DEF FUpdateFails, ChangeFn
<1>8. CASE FErase
  BY <1>8 DEF FErase, Erase
<1>9. CASE FEraseFails
  BY <1>9 DEF FEraseFails, Erase
<1>10. CASE FMark
  BY <1>10 DEF FMark
<1>11. CASE FWrite \/ FWriteRefused
  BY <1>11 DEF FWrite, FWriteRefused
<1>12. QED
  BY <1>1, <1>2, <1>3, <1>4, <1>5, <1>6, <1>7, <1>8, <1>9, <1>10, <1>11 DEF FunctionController

LEMMA ApplicationControllerChanges ==
  ASSUME ApplicationController
  PROVE  /\ func' = func /\ fns' = fns
         /\ app' = app \/ AWrite
         /\ \/ apps' = apps \/ (\E a \in AppIDs, st \in Newborn : MakeApp(a, st))
            \/ (apc = "delete" /\ EraseApp)
<1> USE DEF akeep, functionObject, applicationObject, cloud
<1>1. CASE AStartFinalizer \/ AStartRetain \/ AStartUnknown
  <2>1. \E w : ADecide(w)
    BY <1>1 DEF AStartFinalizer, AStartRetain, AStartUnknown
  <2>2. QED
    BY <2>1 DEF ADecide
<1>2. CASE AStartEnsure \/ AStartDelete
  BY <1>2 DEF AStartEnsure, AStartDelete
<1>3. CASE AFind \/ AFindFails \/ AList \/ AListFails
  BY <1>3 DEF AFind, AFindFails, AList, AListFails
<1>4. CASE ACreate
  BY <1>4 DEF ACreate, MakeApp
<1>5. CASE ACreateFails
  BY <1>5 DEF ACreateFails, MakeApp
<1>6. CASE ADelete
  BY <1>6 DEF ADelete, EraseApp
<1>7. CASE ADeleteFails
  BY <1>7 DEF ADeleteFails, EraseApp
<1>8. CASE AWrite \/ AWriteRefused
  BY <1>8 DEF AWrite, AWriteRefused
<1>9. QED
  BY <1>1, <1>2, <1>3, <1>4, <1>5, <1>6, <1>7, <1>8 DEF ApplicationController

LEMMA Changes ==
  ASSUME [Next]_vars
  PROVE  /\ func' = func \/ EditFunction \/ DeleteFunctionObject \/ FMark \/ FWrite
         /\ \/ app' = app \/ CreateApplicationObject \/ EditApplication
            \/ DeleteApplicationObject \/ AWrite
         /\ \/ fns' = fns \/ Activate \/ (\E f \in FnIDs, st \in Newborn : MakeFn(f, st))
            \/ ChangeFn \/ (fpc = "erase" /\ Erase)
         /\ \/ apps' = apps \/ Activate \/ (\E a \in AppIDs, st \in Newborn : MakeApp(a, st))
            \/ (apc = "delete" /\ EraseApp)
<1>1. CASE Environment \/ Activate \/ SyncFunction \/ SyncApplication
  BY <1>1, EnvironmentChanges DEF cloud
<1>2. CASE FunctionController
  BY <1>2, FunctionControllerChanges
<1>3. CASE ApplicationController
  BY <1>3, ApplicationControllerChanges
<1>4. CASE UNCHANGED vars
  BY <1>4 DEF vars
<1>5. QED
  BY <1>1, <1>2, <1>3, <1>4 DEF Next

\* A Function goes for good, if it had a finalizer, only by the write that takes it.
LEMMA FunctionGoes ==
  ASSUME Inv, [Next]_vars, func.deleting, ~ func'.stored
  PROVE  fpc = "write" /\ func = fsnap /\ ~ fnext.final /\ FWritable(fnext)
<1>1. func.stored /\ func \in FnObject
  BY TypeParts DEF Inv, FInv, FVersionsOK, FOrderOK, FSound, ObjectsType
<1>2. CASE func' = func
  BY <1>1, <1>2
<1>3. CASE EditFunction
  <2>1. PICK s \in FnSpecs : TouchF([func EXCEPT !.spec = s, !.gen = @ + 1])
    BY <1>3, Zenon DEF EditFunction
  <2>2. func' = [func EXCEPT !.spec = s, !.gen = @ + 1]
    BY <2>1 DEF TouchF, PublishF
  <2>3. func'.stored = func.stored
    BY <1>1, <2>2 DEF FnObject
  <2>4. QED
    BY <1>1, <2>3
<1>4. CASE DeleteFunctionObject
  BY <1>4 DEF DeleteFunctionObject
<1>5. CASE FMark
  <2>1. func' = [func EXCEPT !.status = FMarked(fsnap)]
    BY <1>5 DEF FMark, PublishF
  <2>2. func'.stored = func.stored
    BY <1>1, <2>1 DEF FnObject
  <2>3. QED
    BY <1>1, <2>2
<1>6. CASE FWrite
  <2>1. fpc = "write" /\ FWritable(fnext)
    BY <1>6 DEF FWrite, Inv, FInv, FWriteOK
  <2>2. CASE UNCHANGED functionObject
    BY <1>1, <2>2 DEF functionObject
  <2>3. CASE /\ ~ fmoved
             /\ func' = IF func.deleting /\ ~ fnext.final THEN GoneFunction(func)
                        ELSE [func EXCEPT !.final = fnext.final, !.status = fnext.status]
    <3>1. CASE fnext.final
      <4>1. func' = [func EXCEPT !.final = fnext.final, !.status = fnext.status]
        BY <2>3, <3>1
      <4>2. func'.stored = func.stored
        BY <1>1, <4>1 DEF FnObject
      <4>3. QED
        BY <1>1, <4>2
    <3>2. CASE ~ fnext.final
      <4>1. func = fsnap
        BY <2>1, <2>3 DEF Inv, FInv, FVersionsOK, FOrderOK
      <4>2. QED
        BY <2>1, <3>2, <4>1
    <3>3. QED
      BY <3>1, <3>2
  <2>4. QED
    BY <1>6, <2>2, <2>3 DEF FWrite, PublishF
<1>7. QED
  BY <1>2, <1>3, <1>4, <1>5, <1>6, Changes

\* So does a FunctionApplication.
LEMMA ApplicationGoes ==
  ASSUME Inv, [Next]_vars, app.deleting, ~ app'.stored
  PROVE  apc = "write" /\ app = asnap /\ ~ anext.final /\ AWritable(anext)
<1>1. app.stored /\ app \in AppObject
  BY AppTypes DEF Inv, AInv, AVersionsOK, AOrderOK, ASound
<1>2. CASE app' = app
  BY <1>1, <1>2
<1>3. CASE CreateApplicationObject \/ DeleteApplicationObject
  BY <1>1, <1>3 DEF CreateApplicationObject, DeleteApplicationObject
<1>4. CASE EditApplication
  <2>1. PICK p \in Policies : TouchA([app EXCEPT !.policy = p])
    BY <1>4, Zenon DEF EditApplication
  <2>2. app' = [app EXCEPT !.policy = p]
    BY <2>1 DEF TouchA, PublishA
  <2>3. app'.stored = app.stored
    BY <1>1, <2>2 DEF AppObject
  <2>4. QED
    BY <1>1, <2>3
<1>5. CASE AWrite
  <2>1. apc = "write" /\ AWritable(anext)
    BY <1>5 DEF AWrite, Inv, AInv, AWriteOK
  <2>2. CASE UNCHANGED applicationObject
    BY <1>1, <2>2 DEF applicationObject
  <2>3. CASE /\ ~ amoved
             /\ app' = IF app.deleting /\ ~ anext.final THEN NoApplication
                       ELSE [app EXCEPT !.final = anext.final, !.status = anext.status]
    <3>1. CASE anext.final
      <4>1. app' = [app EXCEPT !.final = anext.final, !.status = anext.status]
        BY <2>3, <3>1
      <4>2. app'.stored = app.stored
        BY <1>1, <4>1 DEF AppObject
      <4>3. QED
        BY <1>1, <4>2
    <3>2. CASE ~ anext.final
      <4>1. app = asnap
        BY <2>1, <2>3 DEF Inv, AInv, AVersionsOK, AOrderOK
      <4>2. QED
        BY <2>1, <3>2, <4>1
    <3>3. QED
      BY <3>1, <3>2
  <2>4. QED
    BY <1>5, <2>2, <2>3 DEF AWrite, PublishA
<1>6. QED
  BY <1>2, <1>3, <1>4, <1>5, Changes

\* A managed Function whose deletion waits for the finalizer leaves no OCI function
\* behind (deleteFunction, resolveFunctionForDelete), as long as no other reconcile
\* moves the shared client to another region meanwhile, and OCI does not answer for a
\* deleted application as for an empty one, or there was one application object only.
THEOREM FunctionGone ==
  Spec /\ [](races = 0 /\ (ListsGone => creations <= 1)) => FunctionGoneWithObject
<1> DEFINE Gone == func.deleting /\ ~ func'.stored /\ AsksForDeletion(func) /\ ~ referred =>
                     \A f \in FnIDs \ UserFns : ~ LiveFn(f)
           Calm1 == races = 0 /\ (ListsGone => creations <= 1)
<1>1. Inv /\ Calm1 /\ [Next]_vars => [Gone]_vars
  <2>1. SUFFICES ASSUME Inv, Calm1, [Next]_vars, func.deleting, ~ func'.stored,
                        AsksForDeletion(func), ~ referred
                 PROVE  \A f \in FnIDs \ UserFns : ~ LiveFn(f)
    OBVIOUS
  <2>2. func = fsnap /\ ~ fnext.final /\ FWritable(fnext)
    BY <2>1, FunctionGoes
  <2>3. Deletion(fsnap)
    BY <2>1, <2>2 DEF Deletion, FDeletes, Managed, AsksForDeletion
  <2>4. NoneLeft
    BY <2>1, <2>2, <2>3 DEF FWritable
  <2>5. QED
    BY <2>4 DEF NoneLeft
<1>2. Spec /\ []Calm1 => [][Gone]_vars
  BY <1>1, Invariance, PTL DEF Spec
<1>3. QED
  BY <1>2 DEF FunctionGoneWithObject

\* So does a FunctionApplication with policy Delete leave no OCI application
\* (DeleteApplication), if no other reconcile moves the shared client meanwhile: not
\* when a create or a deletion went through unheard, and not when the object was
\* deleted and created again.
THEOREM ApplicationGone ==
  Spec /\ [](races = 0) => ApplicationGoneWithObject
<1> DEFINE Gone == app.deleting /\ ~ app'.stored /\ app.policy = "Delete" =>
                     \A a \in AppIDs : ~ LiveApp(a)
           Calm1 == races = 0
<1>1. Inv /\ Calm1 /\ [Next]_vars => [Gone]_vars
  <2>1. SUFFICES ASSUME Inv, Calm1, [Next]_vars, app.deleting, ~ app'.stored, app.policy = "Delete"
                 PROVE  \A a \in AppIDs : ~ LiveApp(a)
    OBVIOUS
  <2>2. app = asnap /\ ~ anext.final /\ AWritable(anext)
    BY <2>1, ApplicationGoes
  <2>3. NoLiveApp
    BY <2>1, <2>2 DEF AWritable
  <2>4. QED
    BY <2>3 DEF NoLiveApp
<1>2. Spec /\ []Calm1 => [][Gone]_vars
  BY <1>1, Invariance, PTL DEF Spec
<1>3. QED
  BY <1>2 DEF ApplicationGoneWithObject

\* A function that goes was named, or found, for a Function that asks for its deletion.
LEMMA FunctionKilled ==
  ASSUME Inv, races = 0, [Next]_vars, NEW f \in FnIDs, LiveFn(f), ~ LiveFn(f)'
  PROVE  func.deleting /\ AsksForDeletion(fsnap)
<1>1. /\ fns[f].state \in Newborn /\ fns'[f].state \notin Newborn
      /\ fns[f].state # "unborn" /\ fns[f].state # "deleted"
  BY DEF LiveFn, Newborn
<1>2. CASE Activate
  <2>1. CASE UNCHANGED fns
    BY <1>1, <2>1
  <2>2. CASE \E g \in FnIDs : /\ fns[g].state = "creating"
                              /\ fns' = [fns EXCEPT ![g].state = "active"]
    BY <1>1, <2>2, AppTypes DEF CloudType, OCIFunction, Newborn
  <2>3. QED
    BY <1>2, <2>1, <2>2 DEF Activate
<1>3. CASE \E g \in FnIDs, st \in Newborn : MakeFn(g, st)
  <2>1. PICK g \in FnIDs, st \in Newborn : MakeFn(g, st)
    BY <1>3
  <2>2. f # g
    BY <1>1, <2>1 DEF MakeFn
  <2>3. fns'[f] = fns[f]
    BY <2>1, <2>2, AppTypes DEF MakeFn, CloudType
  <2>4. QED
    BY <1>1, <2>3
<1>4. CASE ChangeFn
  <2>1. fns'[f].state = fns[f].state
    BY <1>4, AppTypes DEF ChangeFn, CloudType, OCIFunction
  <2>2. QED
    BY <1>1, <2>1
<1>5. CASE fpc = "erase" /\ Erase
  <2>1. /\ Deletion(fsnap) /\ ffound \in FnIDs
        /\ IF fsnap.status.fid # NoID THEN ffound = fsnap.status.fid
           ELSE fsnap.status.aid \in AppIDs /\ ffound \in FnsIn(fsnap.status.aid)
    BY <1>5 DEF Inv, FInv, FWorkOK
  <2>2. LiveFn(ffound)
    BY <1>1, <1>5, AppTypes DEF Erase, CloudType, OCIFunction, Newborn
  <2>3. ~ FErased(fsnap)
    BY <2>1, <2>2, IDs DEF FErased
  <2>4. func.deleting
    BY <1>5, <2>1, <2>3 DEF Inv, FInv, FVersionsOK, FGuardOK
  <2>5. QED
    BY <2>1, <2>4 DEF Deletion, FDeletes, Managed, AsksForDeletion
<1>6. CASE fns' = fns
  BY <1>1, <1>6
<1>7. QED
  BY <1>2, <1>3, <1>4, <1>5, <1>6, Changes

LEMMA ApplicationKilled ==
  ASSUME Inv, races = 0, [Next]_vars, NEW a \in AppIDs, LiveApp(a), ~ LiveApp(a)'
  PROVE  app.deleting /\ asnap.policy = "Delete"
<1>1. apps[a] \in Newborn /\ apps'[a] \notin Newborn /\ apps[a] # "unborn"
  BY DEF LiveApp, Newborn
<1>2. CASE Activate
  BY <1>1, <1>2, AppTypes DEF Activate, CloudType, Newborn
<1>3. CASE \E b \in AppIDs, st \in Newborn : MakeApp(b, st)
  BY <1>1, <1>3, AppTypes DEF MakeApp, CloudType
<1>4. CASE apc = "delete" /\ EraseApp
  <2>1. asnap.deleting /\ asnap.policy = "Delete"
    BY <1>4 DEF Inv, AInv, AWorkOK
  <2>2. LiveApp(asnap.status.aid)
    BY <1>1, <1>4 DEF EraseApp
  <2>3. QED
    BY <1>4, <2>1, <2>2 DEF Inv, AInv, AVersionsOK, AGuardOK
<1>5. CASE apps' = apps
  BY <1>1, <1>5
<1>6. QED
  BY <1>2, <1>3, <1>4, <1>5, Changes

\* OCI resources go only for an object that is being deleted, by a reconcile that read
\* policy Delete (and mode Managed), if no other reconcile moves the shared client
\* meanwhile: an old version of the object may be read, and its deletion done again,
\* but then there is nothing left that it would delete.
THEOREM Retained == Spec /\ [](races = 0) => RetainKeeps
<1> DEFINE Keeps == /\ \A f \in FnIDs : LiveFn(f) /\ ~ LiveFn(f)' =>
                         func.deleting /\ AsksForDeletion(fsnap)
                    /\ \A a \in AppIDs : LiveApp(a) /\ ~ LiveApp(a)' =>
                         app.deleting /\ asnap.policy = "Delete"
           Calm1 == races = 0
<1>1. Inv /\ Calm1 /\ [Next]_vars => [Keeps]_vars
  BY FunctionKilled, ApplicationKilled
<1>2. Spec /\ []Calm1 => [][Keeps]_vars
  BY <1>1, Invariance, PTL DEF Spec
<1>3. QED
  BY <1>2 DEF RetainKeeps
=============================================================================
