------------------------ MODULE FunctionIdentityProofs ------------------------
(***************************************************************************)
(* Proofs about FunctionIdentity.                                           *)
(*                                                                         *)
(* The inductive invariant says what every version of a Function that is    *)
(* about may claim of OCI: the stored one, the cached one, the one the      *)
(* worker reads, and the one it is about to write.  The operators that say  *)
(* it take what OCI holds as parameters, so that one lemma carries a claim  *)
(* from a state to the next.                                                *)
(***************************************************************************)
EXTENDS FunctionIdentity, TLAPS

PCs == {"idle", "write", "findApp", "createApp", "updateApp", "findFn", "createFn", "updateFn",
        "mark", "target", "resolveApp", "resolveFn", "erase"}

Plan == [final : BOOLEAN, status : Status]

TypeOK ==
  /\ func \in [Functions -> Object] /\ fcache \in [Functions -> Object]
  /\ apps \in [AppIDs -> OCIApplication] /\ fns \in [FnIDs -> OCIFunction]
  /\ pc \in PCs /\ who \in Functions /\ snap \in Object /\ moved \in BOOLEAN
  /\ aid \in AppIDs \union {NoID} /\ fid \in FnIDs \union {NoID}
  /\ next \in Plan
  /\ renamed \subseteq Functions /\ edits \in Nat /\ mishaps \in Nat

\* Among the applications ap, a is the one of that name.
AppIs(ap, a, name) == a \in AppIDs /\ ap[a].state \in Newborn /\ ap[a].name = name

\* Among the functions fn of ap, x is or was the one of the names s asks for.
FnIs(ap, fn, x, s) ==
  /\ x \in FnIDs /\ fn[x].state # "unborn"
  /\ fn[x].name = s.name /\ AppIs(ap, fn[x].app, s.app)

\* What a version that is Ready says is true.
ReadyOK(ap, fn, o) ==
  o.status.phase = "Ready" /\ o.status.observed = o.gen =>
    IF o.spec.kind = "existing" THEN o.status.fid = o.spec.id
                                ELSE FnIs(ap, fn, o.status.fid, o.spec)

\* The ids a version of f stores are those of its own names.
IdsOK(ap, fn, f, o) ==
  Managed(o.spec) =>
    /\ o.status.fid # NoID => f \in fn[o.status.fid].by
    /\ o.status.aid # NoID => AppIs(ap, o.status.aid, o.spec.app)

\* A version o of f, when ren names are edited and the stored spec is own.
VersionOK(ap, fn, ren, own, f, o) ==
  /\ o.status.observed <= o.gen
  /\ ReadyOK(ap, fn, o)
  /\ ren = {} => Named(o.spec) = Named(own) /\ IdsOK(ap, fn, f, o)

\* What the worker is about to store.
Proposal == [snap EXCEPT !.final = next.final, !.status = next.status]

VersionsOK ==
  /\ \A f \in Functions : /\ VersionOK(apps, fns, renamed, func[f].spec, f, func[f])
                          /\ VersionOK(apps, fns, renamed, func[f].spec, f, fcache[f])
  /\ pc # "idle" => VersionOK(apps, fns, renamed, func[who].spec, who, snap)
  /\ pc = "write" => VersionOK(apps, fns, renamed, func[who].spec, who, Proposal)

\* Names are unique, and a function in an application of the operator was made for a
\* Function or found by one.
Unique(ap, fn) ==
  /\ \A a, b \in AppIDs : /\ ap[a].state \in Newborn /\ ap[b].state \in Newborn
                          /\ ap[a].name = ap[b].name
                          => a = b
  /\ \A x, y \in FnIDs : /\ fn[x].state \in Newborn /\ fn[y].state \in Newborn
                         /\ fn[x].app \in AppIDs
                         /\ fn[x].app = fn[y].app /\ fn[x].name = fn[y].name
                         => x = y
  /\ \A x \in FnIDs : fn[x].app \in AppIDs => fn[x].by # {}

\* While no names are edited, a function has the names of each Function it is for.
Owned(ap, fn, ren, obj) ==
  ren = {} => \A x \in FnIDs : \A f \in fn[x].by : FnIs(ap, fn, x, obj[f].spec)

CloudOK == Unique(apps, fns) /\ Owned(apps, fns, renamed, func)

\* Past: its deletion was asked for, or it is gone.
Past(o) == o.deleting \/ ~ o.stored

\* A version under a finalizer that is to stay.
Promised(o) == Served(o) /\ o.final /\ WantsFinalizer(o)

\* A version c is followed by o: a deletion is not taken back, a finalizer stays, and
\* what is gone is not being deleted.
Follows(c, o) ==
  /\ Past(c) => Past(o)
  /\ o.deleting => o.stored
  /\ Promised(c) => o.stored /\ o.final

OrderOK ==
  /\ \A f \in Functions : Follows(fcache[f], func[f])
  /\ pc # "idle" => /\ Past(snap) => Past(fcache[who])
                    /\ Promised(snap) => func[who].stored /\ func[who].final
                    /\ ~ moved => func[who] = snap

\* Nothing is left of f in OCI.
Erased(fn, f) == \A x \in FnIDs : f \in fn[x].by => fn[x].state \notin Newborn

EnsurePCs == {"findApp", "createApp", "updateApp", "findFn", "createFn", "updateFn"}
DeletePCs == {"mark", "target", "resolveApp", "resolveFn", "erase"}

WorkerOK ==
  /\ pc \in EnsurePCs => /\ Served(snap) /\ snap.spec.kind = "managed"
                         /\ snap.final = WantsFinalizer(snap)
  /\ pc \in DeletePCs => BeingDeleted(snap) /\ Deletes(snap)
  /\ pc \in {"updateApp", "findFn", "createFn", "updateFn"} => AppIs(apps, aid, snap.spec.app)
  /\ pc = "updateFn" => FnIs(apps, fns, fid, snap.spec) /\ fns[fid].app = aid /\ who \in fns[fid].by
  /\ pc = "resolveFn" /\ renamed = {} => AppIs(apps, aid, snap.spec.app)
  /\ pc = "erase" => /\ fid \in FnIDs
                     /\ renamed = {} => FnIs(apps, fns, fid, snap.spec) /\ fns[fid].by # {}
  /\ pc = "write" => /\ Promised(snap) => next.final
                     /\ Past(snap) /\ ~ next.final /\ Deletes(snap) /\ Alone(who)
                          => Erased(fns, who)

\* Once a function of f is deleted all are, and f goes on being deleted.
ErasedFor(fn) ==
  \A f \in Functions : \A x \in FnIDs :
    Alone(f) /\ f \in fn[x].by /\ fn[x].state \notin Newborn =>
      /\ Erased(fn, f)
      /\ Past(fcache[f]) /\ (pc # "idle" /\ who = f => Past(snap))

ErasedOK == ErasedFor(fns)

Inv == TypeOK /\ VersionsOK /\ CloudOK /\ OrderOK /\ WorkerOK /\ ErasedOK
-----------------------------------------------------------------------------
(* Types.                                                                  *)

LEMMA ConstantsOK ==
  /\ SomeFunction \in Functions /\ SomeSpec \in FnSpec
  /\ \A f \in Functions : Specs[f] \subseteq FnSpec
<1>1. SomeFunction \in Functions
  BY IdentityAssumption DEF SomeFunction
<1>2. \A f \in Functions : Specs[f] \subseteq FnSpec
  BY IdentityAssumption
<1>3. SomeSpec \in Specs[SomeFunction]
  BY <1>1, IdentityAssumption DEF SomeSpec
<1>4. QED
  BY <1>1, <1>2, <1>3

LEMMA NothingType ==
  NoStatus \in Status /\ Nothing \in Plan /\ NoObject \in Object /\ NoID \notin FnIDs /\ NoID \notin AppIDs
<1>1. NoStatus \in Status
  BY DEF NoStatus, Status
<1>2. Nothing \in Plan
  BY <1>1 DEF Nothing, Plan
<1>3. NoObject \in Object
  BY <1>1, ConstantsOK DEF NoObject, Object
<1>4. NoID \notin FnIDs /\ NoID \notin AppIDs
  BY IdentityAssumption DEF NoID, FnIDs, AppIDs
<1>5. QED
  BY <1>1, <1>2, <1>3, <1>4

LEMMA ObjectFields ==
  ASSUME NEW o \in Object
  PROVE  /\ o.stored \in BOOLEAN /\ o.deleting \in BOOLEAN /\ o.final \in BOOLEAN
         /\ o.gen \in Nat /\ o.spec \in FnSpec /\ o.status \in Status
         /\ o.status.observed \in Nat /\ o.status.fid \in FnIDs \union {NoID}
         /\ o.status.aid \in AppIDs \union {NoID}
BY DEF Object, Status

\* The versions the actions make of a version.
LEMMA ObjectMade ==
  ASSUME NEW o \in Object, NEW s \in FnSpec, NEW st \in Status, NEW fin \in BOOLEAN
  PROVE  /\ [o EXCEPT !.spec = s, !.gen = @ + 1] \in Object
         /\ [o EXCEPT !.deleting = TRUE] \in Object
         /\ Gone(o) \in Object
         /\ [o EXCEPT !.final = fin, !.status = st] \in Object
         /\ [o EXCEPT !.status = st] \in Object
<1>1. Gone(o) \in Object
  BY NothingType DEF Gone, Object
<1>2. [o EXCEPT !.spec = s, !.gen = @ + 1] \in Object
  <2> DEFINE n == o.gen + 1
  <2>1. n \in Nat
    BY ObjectFields
  <2> HIDE DEF n
  <2>2. [o EXCEPT !.spec = s, !.gen = n] \in Object
    BY <2>1 DEF Object
  <2>3. QED
    BY <2>2 DEF n
<1>3. /\ [o EXCEPT !.deleting = TRUE] \in Object
      /\ [o EXCEPT !.final = fin, !.status = st] \in Object
      /\ [o EXCEPT !.status = st] \in Object
  BY DEF Object
<1>4. QED
  BY <1>1, <1>2, <1>3

\* The writes a reconcile ends with.
LEMMA PlanMade ==
  ASSUME NEW o \in Object, NEW x \in FnIDs \union {NoID}, NEW a \in AppIDs \union {NoID},
         NEW fin \in BOOLEAN
  PROVE  /\ Keep(o) \in Plan /\ [Keep(o) EXCEPT !.final = fin] \in Plan
         /\ Built(o, "Ready", x, a) \in Plan /\ Built(o, "Pending", x, a) \in Plan
         /\ Built(o, "Error", x, a) \in Plan
         /\ [final |-> FALSE, status |-> o.status] \in Plan
         /\ [final |-> o.final,
             status |-> [o.status EXCEPT !.phase = "DeleteFailed", !.observed = o.gen]] \in Plan
         /\ Marked(o) \in Status
<1>1. o.gen \in Nat /\ o.final \in BOOLEAN /\ o.status \in Status
  BY ObjectFields
<1>2. /\ Built(o, "Ready", x, a) \in Plan /\ Built(o, "Pending", x, a) \in Plan
      /\ Built(o, "Error", x, a) \in Plan
  BY <1>1 DEF Built, Plan, Status
<1>3. /\ Marked(o) \in Status
      /\ [o.status EXCEPT !.phase = "DeleteFailed", !.observed = o.gen] \in Status
  BY <1>1 DEF Marked, Status
<1>4. Keep(o) \in Plan /\ [Keep(o) EXCEPT !.final = fin] \in Plan
  BY <1>1 DEF Keep, Plan
<1>5. QED
  BY <1>1, <1>2, <1>3, <1>4 DEF Plan
-----------------------------------------------------------------------------
(* What OCI holds changes.                                                 *)

\* What is kept of the applications, and of the functions whose ids are in X.
Kept(ap, fn, ap2, fn2, X) ==
  /\ \A a \in AppIDs :
       ap[a].state \in Newborn => ap2[a].state \in Newborn /\ ap2[a].name = ap[a].name
  /\ \A x \in FnIDs :
       x \in X => /\ fn2[x].app = fn[x].app /\ fn2[x].name = fn[x].name
                  /\ fn[x].by \subseteq fn2[x].by
                  /\ fn[x].state # "unborn" => fn2[x].state # "unborn"

LEMMA KeptNames ==
  ASSUME NEW ap, NEW fn, NEW ap2, NEW fn2, NEW X, Kept(ap, fn, ap2, fn2, X)
  PROVE  /\ \A a, name : AppIs(ap, a, name) => AppIs(ap2, a, name)
         /\ \A x \in X : \A s : FnIs(ap, fn, x, s) => FnIs(ap2, fn2, x, s)
<1>1. \A a, name : AppIs(ap, a, name) => AppIs(ap2, a, name)
  BY DEF Kept, AppIs
<1>2. ASSUME NEW x \in X, NEW s, FnIs(ap, fn, x, s)
      PROVE  FnIs(ap2, fn2, x, s)
  BY <1>1, <1>2 DEF Kept, FnIs
<1>3. QED
  BY <1>1, <1>2

\* What a version says stays true while its function is kept.
LEMMA VersionKept ==
  ASSUME NEW ap, NEW fn, NEW ap2, NEW fn2, NEW X, Kept(ap, fn, ap2, fn2, X),
         NEW ren, NEW own, NEW ren2, NEW own2,
         ren2 = {} => ren = {} /\ Named(own2) = Named(own),
         NEW f, NEW o \in Object, VersionOK(ap, fn, ren, own, f, o), o.status.fid \in X
  PROVE  VersionOK(ap2, fn2, ren2, own2, f, o)
<1>1. o.status.observed <= o.gen
  BY DEF VersionOK
<1>2. ReadyOK(ap2, fn2, o)
  BY KeptNames DEF VersionOK, ReadyOK
<1>3. ren2 = {} => Named(o.spec) = Named(own2)
  BY DEF VersionOK
<1>4. ASSUME ren2 = {}, Managed(o.spec)
      PROVE  /\ o.status.fid # NoID => f \in fn2[o.status.fid].by
             /\ o.status.aid # NoID => AppIs(ap2, o.status.aid, o.spec.app)
  <2>1. /\ o.status.fid # NoID => f \in fn[o.status.fid].by
        /\ o.status.aid # NoID => AppIs(ap, o.status.aid, o.spec.app)
    BY <1>4 DEF VersionOK, IdsOK
  <2>2. o.status.fid # NoID => fn[o.status.fid].by \subseteq fn2[o.status.fid].by
    BY ObjectFields DEF Kept
  <2>3. QED
    BY <2>1, <2>2, KeptNames
<1>5. QED
  BY <1>1, <1>2, <1>3, <1>4 DEF VersionOK, IdsOK

\* What a step that changes OCI, and no Function, has to see to.
CloudFine ==
  /\ apps' \in [AppIDs -> OCIApplication] /\ fns' \in [FnIDs -> OCIFunction]
  /\ Kept(apps, fns, apps', fns', Remembered)
  /\ Unique(apps', fns') /\ Owned(apps', fns', renamed, func)
  /\ ErasedFor(fns')

\* A step that changes neither names nor who a function is for, and deletes none.
LEMMA TameFine ==
  ASSUME Inv, apps' \in [AppIDs -> OCIApplication], fns' \in [FnIDs -> OCIFunction],
         \A a \in AppIDs : /\ apps'[a].state \in Newborn <=> apps[a].state \in Newborn
                           /\ apps'[a].name = apps[a].name,
         \A x \in FnIDs : /\ fns'[x].app = fns[x].app /\ fns'[x].name = fns[x].name
                          /\ fns'[x].by = fns[x].by
                          /\ fns'[x].state \in Newborn <=> fns[x].state \in Newborn
                          /\ fns'[x].state = "unborn" <=> fns[x].state = "unborn"
  PROVE  CloudFine
<1>1. Kept(apps, fns, apps', fns', Remembered) /\ Kept(apps, fns, apps', fns', FnIDs)
  BY DEF Kept
<1>2. Unique(apps', fns')
  BY DEF Inv, CloudOK, Unique
<1>3. Owned(apps', fns', renamed, func)
  BY <1>1, KeptNames DEF Inv, CloudOK, Owned
<1>4. ErasedFor(fns')
  BY DEF Inv, ErasedOK, ErasedFor, Erased
<1>5. QED
  BY <1>1, <1>2, <1>3, <1>4 DEF CloudFine

LEMMA SameFine ==
  ASSUME Inv, UNCHANGED cloud
  PROVE  CloudFine
<1>1. apps' \in [AppIDs -> OCIApplication] /\ fns' \in [FnIDs -> OCIFunction]
  BY DEF cloud, Inv, TypeOK
<1>2. QED
  BY <1>1, TameFine DEF cloud

LEMMA ActivateFine ==
  ASSUME Inv, Activate
  PROVE  CloudFine
<1>1. CASE UNCHANGED fns /\ \E a \in AppIDs : apps[a].state = "creating"
                                             /\ apps' = [apps EXCEPT ![a].state = "active"]
  <2>1. PICK a \in AppIDs : apps[a].state = "creating"
                            /\ apps' = [apps EXCEPT ![a].state = "active"]
    BY <1>1
  <2>2. apps' \in [AppIDs -> OCIApplication] /\ fns' \in [FnIDs -> OCIFunction]
    BY <1>1, <2>1 DEF Inv, TypeOK, OCIApplication, Newborn
  <2>3. \A b \in AppIDs : /\ apps'[b].state \in Newborn <=> apps[b].state \in Newborn
                          /\ apps'[b].name = apps[b].name
    BY <2>1 DEF Inv, TypeOK, OCIApplication, Newborn
  <2>4. QED
    BY <1>1, <2>2, <2>3, TameFine
<1>2. CASE UNCHANGED apps /\ \E x \in FnIDs : fns[x].state = "creating"
                                             /\ fns' = [fns EXCEPT ![x].state = "active"]
  <2>1. PICK x \in FnIDs : fns[x].state = "creating"
                           /\ fns' = [fns EXCEPT ![x].state = "active"]
    BY <1>2
  <2>2. apps' \in [AppIDs -> OCIApplication] /\ fns' \in [FnIDs -> OCIFunction]
    BY <1>2, <2>1 DEF Inv, TypeOK, OCIFunction, States, Newborn
  <2>3. \A y \in FnIDs : /\ fns'[y].app = fns[y].app /\ fns'[y].name = fns[y].name
                         /\ fns'[y].by = fns[y].by
                         /\ fns'[y].state \in Newborn <=> fns[y].state \in Newborn
                         /\ fns'[y].state = "unborn" <=> fns[y].state = "unborn"
    BY <2>1 DEF Inv, TypeOK, OCIFunction, Newborn
  <2>4. QED
    BY <1>2, <2>2, <2>3, TameFine
<1>3. QED
  BY <1>1, <1>2 DEF Activate

LEMMA MakeAppFine ==
  ASSUME Inv, NEW a \in AppIDs, NEW st \in Newborn, MakeApp(a, st)
  PROVE  /\ CloudFine /\ AppIs(apps', a, snap.spec.app)
<1>1. /\ apps[a].state = "unborn" /\ fns' = fns
      /\ apps' = [apps EXCEPT ![a] = [state |-> st, name |-> snap.spec.app,
                                      net |-> snap.spec.net, groups |-> snap.spec.groups]]
      /\ \A b \in AppIDs : ~ (apps[b].state \in Newborn /\ apps[b].name = snap.spec.app)
  BY DEF MakeApp, AppsNamed, LiveApp
<1>2. apps' \in [AppIDs -> OCIApplication] /\ fns' \in [FnIDs -> OCIFunction]
  <2>1. snap.spec \in FnSpec
    BY ObjectFields DEF Inv, TypeOK
  <2>2. QED
    BY <1>1, <2>1 DEF Inv, TypeOK, OCIApplication, FnSpec
<1>3. /\ \A b \in AppIDs \ {a} : apps'[b] = apps[b]
      /\ apps'[a].state = st /\ apps'[a].name = snap.spec.app
      /\ apps[a].state \notin Newborn
  BY <1>1 DEF Inv, TypeOK, Newborn
<1>4. Kept(apps, fns, apps', fns', Remembered) /\ Kept(apps, fns, apps', fns', FnIDs)
  BY <1>1, <1>3 DEF Kept
<1>5. Unique(apps', fns')
  <2>1. \A b, c \in AppIDs : /\ apps'[b].state \in Newborn /\ apps'[c].state \in Newborn
                             /\ apps'[b].name = apps'[c].name
                             => b = c
    BY <1>1, <1>3 DEF Inv, CloudOK, Unique
  <2>2. QED
    BY <1>1, <2>1 DEF Inv, CloudOK, Unique
<1>6. Owned(apps', fns', renamed, func)
  BY <1>1, <1>4, KeptNames DEF Inv, CloudOK, Owned
<1>7. ErasedFor(fns')
  BY <1>1 DEF Inv, ErasedOK
<1>8. QED
  BY <1>2, <1>3, <1>4, <1>5, <1>6, <1>7 DEF CloudFine, AppIs

LEMMA ChangeAppFine ==
  ASSUME Inv, ChangeApp, aid \in AppIDs
  PROVE  CloudFine
<1>1. apps' = [apps EXCEPT ![aid].groups = snap.spec.groups] /\ fns' = fns
  BY DEF ChangeApp
<1>2. apps' \in [AppIDs -> OCIApplication] /\ fns' \in [FnIDs -> OCIFunction]
  <2>1. snap.spec \in FnSpec
    BY ObjectFields DEF Inv, TypeOK
  <2>2. QED
    BY <1>1, <2>1 DEF Inv, TypeOK, OCIApplication, FnSpec
<1>3. \A b \in AppIDs : apps'[b].state = apps[b].state /\ apps'[b].name = apps[b].name
  BY <1>1 DEF Inv, TypeOK, OCIApplication
<1>4. QED
  BY <1>1, <1>2, <1>3, TameFine

LEMMA ChangeFnFine ==
  ASSUME Inv, ChangeFn, fid \in FnIDs
  PROVE  CloudFine /\ \A x \in FnIDs : /\ fns'[x].app = fns[x].app /\ fns'[x].name = fns[x].name
                                       /\ fns'[x].by = fns[x].by /\ fns'[x].state = fns[x].state
<1>1. fns' = [fns EXCEPT ![fid].image = snap.spec.image] /\ apps' = apps
  BY DEF ChangeFn
<1>2. apps' \in [AppIDs -> OCIApplication] /\ fns' \in [FnIDs -> OCIFunction]
  <2>1. snap.spec \in FnSpec
    BY ObjectFields DEF Inv, TypeOK
  <2>2. QED
    BY <1>1, <2>1 DEF Inv, TypeOK, OCIFunction, FnSpec
<1>3. \A x \in FnIDs : /\ fns'[x].app = fns[x].app /\ fns'[x].name = fns[x].name
                       /\ fns'[x].by = fns[x].by /\ fns'[x].state = fns[x].state
  BY <1>1 DEF Inv, TypeOK, OCIFunction
<1>4. QED
  BY <1>1, <1>2, <1>3, TameFine

\* The worker's version names what the stored one names, while no names are edited.
LEMMA SameNames ==
  ASSUME Inv, NEW f \in Functions, NEW o, VersionOK(apps, fns, renamed, func[f].spec, f, o),
         renamed = {}
  PROVE  /\ o.spec.app = func[f].spec.app /\ o.spec.name = func[f].spec.name
         /\ Place(o.spec) = Place(func[f].spec)
         /\ Managed(o.spec) <=> Managed(func[f].spec)
<1>1. Named(o.spec) = Named(func[f].spec)
  BY DEF VersionOK
<1>2. QED
  BY <1>1 DEF Named, Place, Managed

\* A function of f is created or found while nothing of f was deleted yet.
LEMMA NothingErased ==
  ASSUME Inv, pc \in EnsurePCs, NEW x \in FnIDs, who \in fns[x].by, Alone(who)
  PROVE  fns[x].state \in Newborn
<1>1. who \in Functions /\ pc # "idle" /\ ~ Past(snap)
  BY DEF Inv, TypeOK, WorkerOK, EnsurePCs, Past, Served
<1>2. QED
  BY <1>1 DEF Inv, ErasedOK, ErasedFor

\* x, live, is for the worker's Function from now on.
LEMMA GainFine ==
  ASSUME Inv, pc \in EnsurePCs, UNCHANGED apps, fns' \in [FnIDs -> OCIFunction],
         NEW x \in FnIDs, fns'[x].state \in Newborn, FnIs(apps, fns', x, snap.spec),
         \A y \in FnIDs \ {x} : fns'[y] = fns[y],
         Kept(apps, fns, apps, fns', Remembered), Unique(apps, fns'),
         \/ fns'[x].by = {who}
         \/ /\ fns'[x].by = fns[x].by \union {who}
            /\ fns'[x].name = fns[x].name /\ fns'[x].app = fns[x].app
            /\ fns[x].state \in Newborn
  PROVE  CloudFine /\ who \in fns'[x].by
<1>1. VersionOK(apps, fns, renamed, func[who].spec, who, snap) /\ who \in Functions
  BY DEF Inv, VersionsOK, TypeOK, EnsurePCs
<1>2. Owned(apps, fns', renamed, func)
  <2> SUFFICES ASSUME renamed = {}, NEW y \in FnIDs, NEW f \in fns'[y].by
               PROVE  FnIs(apps, fns', y, func[f].spec)
    BY DEF Owned
  <2>1. CASE y # x
    BY <2>1 DEF Inv, CloudOK, Owned, FnIs
  <2>2. CASE y = x /\ f = who
    BY <1>1, <2>2, SameNames DEF FnIs
  <2>3. CASE y = x /\ f # who
    <3>1. FnIs(apps, fns, x, func[f].spec)
      BY <2>3 DEF Inv, CloudOK, Owned
    <3>2. fns'[x].state # "unborn"
      BY DEF FnIs
    <3>3. QED
      BY <2>3, <3>1, <3>2 DEF FnIs
  <2>4. QED
    BY <2>1, <2>2, <2>3
<1>3. ErasedFor(fns')
  <2> SUFFICES ASSUME NEW f \in Functions, NEW y \in FnIDs, Alone(f), f \in fns'[y].by,
                      fns'[y].state \notin Newborn
               PROVE  /\ Erased(fns', f)
                      /\ Past(fcache[f]) /\ (pc # "idle" /\ who = f => Past(snap))
    BY DEF ErasedFor
  <2>1. y # x /\ f \in fns[y].by /\ fns[y].state \notin Newborn
    OBVIOUS
  <2>2. f # who
    BY <2>1, NothingErased
  <2>3. /\ Erased(fns, f) /\ Past(fcache[f])
    BY <2>1 DEF Inv, ErasedOK, ErasedFor
  <2>4. f \notin fns'[x].by
    <3>1. ASSUME f \in fns[x].by, fns[x].state \in Newborn PROVE FALSE
      BY <2>3, <3>1 DEF Erased
    <3>2. QED
      BY <2>2, <3>1
  <2>5. Erased(fns', f)
    BY <2>3, <2>4 DEF Erased
  <2>6. QED
    BY <2>2, <2>3, <2>5
<1>4. QED
  BY <1>2, <1>3 DEF CloudFine, Inv, TypeOK

LEMMA AdoptFine ==
  ASSUME Inv, pc = "findFn", NEW x \in Candidates(aid), UNCHANGED apps,
         fns' = [fns EXCEPT ![x].by = @ \union {who}]
  PROVE  /\ CloudFine /\ who \in fns'[x].by
         /\ FnIs(apps, fns', x, snap.spec) /\ fns'[x].app = aid
<1>1. /\ x \in FnIDs /\ fns[x].state \in Newborn /\ fns[x].app = aid /\ fns[x].name = snap.spec.name
  BY DEF Candidates, FnsNamed, LiveFn
<1>2. AppIs(apps, aid, snap.spec.app) /\ pc \in EnsurePCs
  BY DEF Inv, WorkerOK, EnsurePCs
<1>3. fns' \in [FnIDs -> OCIFunction]
  <2>1. fns[x].by \union {who} \in SUBSET Functions
    BY <1>1 DEF Inv, TypeOK, OCIFunction
  <2>2. QED
    BY <1>1, <2>1 DEF Inv, TypeOK, OCIFunction
<1>4. /\ \A y \in FnIDs \ {x} : fns'[y] = fns[y]
      /\ fns'[x].by = fns[x].by \union {who} /\ fns'[x].state = fns[x].state
      /\ fns'[x].name = fns[x].name /\ fns'[x].app = fns[x].app
  BY <1>1 DEF Inv, TypeOK, OCIFunction
<1>5. fns[x].state # "unborn"
  BY <1>1 DEF Newborn
<1>6. FnIs(apps, fns', x, snap.spec)
  BY <1>1, <1>2, <1>4, <1>5 DEF FnIs
<1>7. Kept(apps, fns, apps, fns', Remembered)
  BY <1>4 DEF Kept
<1>8. Unique(apps, fns')
  <2>1. \A y \in FnIDs : /\ fns'[y].state = fns[y].state /\ fns'[y].app = fns[y].app
                         /\ fns'[y].name = fns[y].name /\ fns[y].by \subseteq fns'[y].by
    BY <1>4
  <2>2. QED
    BY <2>1 DEF Inv, CloudOK, Unique
<1>9. QED
  BY <1>1, <1>2, <1>3, <1>4, <1>6, <1>7, <1>8, GainFine

LEMMA MakeFnFine ==
  ASSUME Inv, pc = "createFn", NEW x \in FnIDs, NEW st \in Newborn, MakeFn(x, st)
  PROVE  /\ CloudFine /\ who \in fns'[x].by
         /\ FnIs(apps, fns', x, snap.spec) /\ fns'[x].app = aid /\ UNCHANGED apps
<1>1. /\ \A y \in FnIDs : ~ (/\ fns[y].state \in Newborn
                             /\ fns[y].app = aid /\ fns[y].name = snap.spec.name)
      /\ x \notin Remembered /\ apps' = apps
      /\ fns' = [fns EXCEPT ![x] = [state |-> st, app |-> aid, name |-> snap.spec.name,
                                    image |-> snap.spec.image, by |-> {who}]]
  BY DEF MakeFn, FnsNamed, LiveFn, Fresh
<1>2. AppIs(apps, aid, snap.spec.app) /\ pc \in EnsurePCs /\ who \in Functions
  BY DEF Inv, WorkerOK, EnsurePCs, TypeOK
<1>3. fns' \in [FnIDs -> OCIFunction]
  <2>1. snap.spec \in FnSpec
    BY ObjectFields DEF Inv, TypeOK
  <2>2. QED
    BY <1>1, <1>2, <2>1 DEF Inv, TypeOK, OCIFunction, FnSpec, States, AppIs
<1>4. /\ \A y \in FnIDs \ {x} : fns'[y] = fns[y]
      /\ fns'[x].by = {who} /\ fns'[x].state = st
      /\ fns'[x].name = snap.spec.name /\ fns'[x].app = aid
  BY <1>1 DEF Inv, TypeOK
<1>5. st # "unborn"
  BY DEF Newborn
<1>6. FnIs(apps, fns', x, snap.spec)
  BY <1>2, <1>4, <1>5 DEF FnIs
<1>7. Kept(apps, fns, apps, fns', Remembered)
  BY <1>1, <1>4 DEF Kept
<1>8. Unique(apps, fns')
  BY <1>1, <1>4 DEF Inv, CloudOK, Unique
<1>9. QED
  BY <1>1, <1>2, <1>3, <1>4, <1>6, <1>7, <1>8, GainFine

\* The function that is deleted was for the worker's Function, if that one is alone.
LEMMA EraserOwns ==
  ASSUME Inv, pc = "erase", Alone(who)
  PROVE  who \in fns[fid].by
<1>1. /\ fid \in FnIDs /\ who \in Functions /\ renamed = {}
      /\ FnIs(apps, fns, fid, snap.spec) /\ fns[fid].by # {}
  BY DEF Inv, WorkerOK, TypeOK, Alone
<1>2. PICK f \in fns[fid].by : FnIs(apps, fns, fid, func[f].spec)
  BY <1>1 DEF Inv, CloudOK, Owned
<1>3. f \in Functions
  BY <1>1, <1>2 DEF Inv, TypeOK, OCIFunction
<1>4. Place(func[f].spec) = Place(snap.spec)
  BY <1>1, <1>2 DEF FnIs, AppIs, Place
<1>5. Place(func[who].spec) = Place(snap.spec)
  BY <1>1, SameNames DEF Inv, VersionsOK
<1>6. f = who
  BY <1>3, <1>4, <1>5 DEF Alone
<1>7. QED
  BY <1>2, <1>6

\* Then nothing is left of it.
LEMMA EraseFine ==
  ASSUME Inv, pc = "erase", EraseFn
  PROVE  CloudFine /\ (Alone(who) => Erased(fns', who))
<1>1. /\ fid \in FnIDs /\ apps' = apps /\ who \in Functions
      /\ renamed = {} => FnIs(apps, fns, fid, snap.spec) /\ fns[fid].by # {}
      /\ BeingDeleted(snap)
  BY DEF Inv, WorkerOK, EraseFn, TypeOK, DeletePCs
<1>2. /\ fns' \in [FnIDs -> OCIFunction]
      /\ \A x \in FnIDs \ {fid} : fns'[x] = fns[x]
      /\ fns'[fid].app = fns[fid].app /\ fns'[fid].name = fns[fid].name
      /\ fns'[fid].by = fns[fid].by /\ fns'[fid].state \notin Newborn
      /\ fns'[fid].state = "unborn" <=> fns[fid].state = "unborn"
  <2>1. CASE fns[fid].state \in Newborn
    <3>1. fns' = [fns EXCEPT ![fid].state = "deleted"]
      BY <1>1, <2>1 DEF EraseFn, LiveFn
    <3>2. QED
      BY <1>1, <2>1, <3>1 DEF Inv, TypeOK, OCIFunction, States, Newborn
  <2>2. CASE fns[fid].state \notin Newborn
    <3>1. fns' = fns
      BY <1>1, <2>2 DEF EraseFn, LiveFn
    <3>2. QED
      BY <1>1, <2>2, <3>1 DEF Inv, TypeOK
  <2>3. QED
    BY <2>1, <2>2
<1>3. Kept(apps, fns, apps, fns', Remembered) /\ Kept(apps, fns, apps, fns', FnIDs)
  BY <1>2 DEF Kept
<1>4. Unique(apps, fns')
  BY <1>1, <1>2 DEF Inv, CloudOK, Unique
<1>5. Owned(apps, fns', renamed, func)
  BY <1>2, <1>3, KeptNames DEF Inv, CloudOK, Owned
<1>6. Alone(who) => who \in fns[fid].by
  BY EraserOwns
<1>7. Alone(who) => Erased(fns', who)
  <2> SUFFICES ASSUME Alone(who), NEW x \in FnIDs, who \in fns'[x].by,
                      fns'[x].state \in Newborn
               PROVE  FALSE
    BY DEF Erased
  <2>1. x # fid /\ who \in fns[x].by /\ fns[x].state \in Newborn /\ who \in fns[fid].by
    BY <1>2, <1>6
  <2>2. FnIs(apps, fns, x, func[who].spec) /\ FnIs(apps, fns, fid, func[who].spec)
    BY <1>1, <2>1 DEF Inv, CloudOK, Owned, Alone
  <2>3. fns[x].app = fns[fid].app /\ fns[x].name = fns[fid].name /\ fns[x].app \in AppIDs
    BY <2>2 DEF FnIs, AppIs, Inv, CloudOK, Unique
  <2>4. CASE fns[fid].state \in Newborn
    BY <1>1, <2>1, <2>3, <2>4 DEF Inv, CloudOK, Unique
  <2>5. CASE fns[fid].state \notin Newborn
    BY <1>1, <2>1, <2>5 DEF Inv, ErasedOK, ErasedFor, Erased
  <2>6. QED
    BY <2>4, <2>5
<1>8. ErasedFor(fns')
  <2> SUFFICES ASSUME NEW f \in Functions, NEW y \in FnIDs, Alone(f), f \in fns'[y].by,
                      fns'[y].state \notin Newborn
               PROVE  /\ Erased(fns', f)
                      /\ Past(fcache[f]) /\ (pc # "idle" /\ who = f => Past(snap))
    BY DEF ErasedFor
  <2>1. f \in fns[y].by
    BY <1>2
  <2>2. CASE fns[y].state \notin Newborn
    <3>1. Erased(fns, f) /\ Past(fcache[f]) /\ (pc # "idle" /\ who = f => Past(snap))
      BY <2>1, <2>2 DEF Inv, ErasedOK, ErasedFor
    <3>2. Erased(fns', f)
      BY <1>2, <3>1 DEF Erased
    <3>3. QED
      BY <3>1, <3>2
  <2>3. CASE fns[y].state \in Newborn
    <3>1. y = fid /\ renamed = {}
      BY <1>2, <2>3 DEF Alone
    <3>2. FnIs(apps, fns, fid, func[f].spec) /\ FnIs(apps, fns, fid, snap.spec)
      BY <1>1, <2>1, <3>1 DEF Inv, CloudOK, Owned
    <3>3. Place(func[f].spec) = Place(snap.spec)
      BY <3>2 DEF FnIs, AppIs, Place
    <3>4. Place(func[who].spec) = Place(snap.spec)
      BY <1>1, <3>1, SameNames DEF Inv, VersionsOK
    <3>5. f = who
      BY <1>1, <3>3, <3>4 DEF Alone
    <3>6. Past(snap) /\ Past(fcache[who])
      BY <1>1 DEF BeingDeleted, Past, Inv, OrderOK
    <3>7. QED
      BY <1>7, <3>5, <3>6
  <2>4. QED
    BY <2>2, <2>3
<1>9. apps' \in [AppIDs -> OCIApplication]
  BY <1>1 DEF Inv, TypeOK
<1>10. QED
  BY <1>1, <1>2, <1>3, <1>4, <1>5, <1>7, <1>8, <1>9 DEF CloudFine
-----------------------------------------------------------------------------
(* The worker goes on.                                                     *)

Rest == UNCHANGED <<func, fcache, renamed, edits, who, snap, moved>>

\* What a step of a reconcile that stores nothing sees to.
MoveOK ==
  /\ Rest /\ mishaps' \in Nat /\ pc # "idle" /\ pc' # "idle"
  /\ CloudFine
  /\ pc' \in PCs /\ next' \in Plan
  /\ aid' \in AppIDs \union {NoID} /\ fid' \in FnIDs \union {NoID}
  /\ pc' = "write" => VersionOK(apps', fns', renamed, func[who].spec, who,
                                [snap EXCEPT !.final = next'.final, !.status = next'.status])
  /\ WorkerOK'

\* What the worker reads stays a true version.
LEMMA SnapKept ==
  ASSUME Inv, pc # "idle", CloudFine
  PROVE  VersionOK(apps', fns', renamed, func[who].spec, who, snap)
<1>1. snap.status.fid \in Remembered
  BY DEF Remembered
<1>2. /\ snap \in Object /\ VersionOK(apps, fns, renamed, func[who].spec, who, snap)
      /\ Kept(apps, fns, apps', fns', Remembered)
  BY DEF Inv, TypeOK, VersionsOK, CloudFine
<1>3. QED
  BY <1>1, <1>2, VersionKept

LEMMA WritesOK ==
  ASSUME Inv, pc # "idle", CloudFine, Rest, mishaps' \in Nat,
         aid' \in AppIDs \union {NoID}, fid' \in FnIDs \union {NoID},
         NEW w \in Plan, pc' = "write", next' = w,
         VersionOK(apps', fns', renamed, func[who].spec, who,
                   [snap EXCEPT !.final = w.final, !.status = w.status]),
         Promised(snap) => w.final,
         Past(snap) /\ ~ w.final /\ Deletes(snap) /\ Alone(who) => Erased(fns', who)
  PROVE  MoveOK
<1>1. Alone(who)' <=> Alone(who)
  BY DEF Rest, Alone
<1>2. WorkerOK'
  BY <1>1 DEF WorkerOK, EnsurePCs, DeletePCs, Rest
<1>3. pc' \in PCs
  BY DEF PCs
<1>4. QED
  BY <1>2, <1>3 DEF MoveOK

\* EnsureFunction ends with a status that is built anew.
LEMMA BuiltOK ==
  ASSUME Inv, pc \in EnsurePCs, CloudFine, Rest, mishaps' \in Nat,
         aid' \in AppIDs \union {NoID}, fid' \in FnIDs \union {NoID},
         NEW ph \in {"Ready", "Pending", "Error"},
         NEW x \in FnIDs \union {NoID}, NEW a \in AppIDs \union {NoID},
         pc' = "write", next' = Built(snap, ph, x, a),
         ph = "Ready" => x # NoID,
         x # NoID => who \in fns'[x].by /\ FnIs(apps', fns', x, snap.spec),
         a # NoID => AppIs(apps', a, snap.spec.app)
  PROVE  MoveOK
<1> DEFINE w == Built(snap, ph, x, a)
<1> DEFINE o == [snap EXCEPT !.final = w.final, !.status = w.status]
<1>1. /\ pc # "idle" /\ snap \in Object /\ snap.spec.kind = "managed"
      /\ Served(snap)
  BY DEF Inv, TypeOK, WorkerOK, EnsurePCs
<1>2. w \in Plan
  BY <1>1, PlanMade
<1>3. /\ o.spec = snap.spec /\ o.gen = snap.gen /\ o.status.observed = snap.gen
      /\ o.status.phase = ph /\ o.status.fid = x /\ o.status.aid = a
      /\ w.final = snap.final
  BY <1>1 DEF Built, Object
<1>4. snap.gen \in Nat
  BY <1>1, ObjectFields
<1>5. VersionOK(apps', fns', renamed, func[who].spec, who, o)
  <2> HIDE DEF o
  <2>1. o.status.observed <= o.gen
    BY <1>3, <1>4
  <2>2. ReadyOK(apps', fns', o)
    BY <1>1, <1>3 DEF ReadyOK
  <2>3. IdsOK(apps', fns', who, o)
    BY <1>3 DEF IdsOK
  <2>4. renamed = {} => Named(o.spec) = Named(func[who].spec)
    BY <1>1, <1>3 DEF Inv, VersionsOK, VersionOK
  <2>5. QED
    BY <2>1, <2>2, <2>3, <2>4 DEF VersionOK
<1>6. ~ Past(snap) /\ (Promised(snap) => w.final)
  BY <1>1, <1>3 DEF Past, Served, Promised
<1> HIDE DEF w
<1>7. QED
  BY <1>1, <1>2, <1>5, <1>6, WritesOK DEF w

\* A deletion that fails stores so, and keeps the finalizer.
LEMMA FailedOK ==
  ASSUME Inv, pc \in DeletePCs, CloudFine, Rest, mishaps' \in Nat, UNCHANGED <<aid, fid>>, Failed
  PROVE  MoveOK
<1>1. PICK w : w = [final |-> snap.final,
                    status |-> [snap.status EXCEPT !.phase = "DeleteFailed",
                                                   !.observed = snap.gen]]
  OBVIOUS
<1>2. PICK o : o = [snap EXCEPT !.final = w.final, !.status = w.status]
  OBVIOUS
<1>3. pc # "idle" /\ snap \in Object /\ w \in Plan /\ BeingDeleted(snap)
  BY <1>1, PlanMade DEF Inv, TypeOK, WorkerOK, DeletePCs
<1>4. /\ o.spec = snap.spec /\ o.gen = snap.gen /\ o.status.observed = snap.gen
      /\ o.status.phase = "DeleteFailed" /\ o.status.fid = snap.status.fid
      /\ o.status.aid = snap.status.aid /\ w.final
  BY <1>1, <1>2, <1>3 DEF Object, Status, BeingDeleted
<1>5. VersionOK(apps', fns', renamed, func[who].spec, who, snap)
  BY <1>3, SnapKept
<1>6. VersionOK(apps', fns', renamed, func[who].spec, who, o)
  <2>1. o.status.observed <= o.gen
    <3>1. snap.gen \in Nat
      BY <1>3, ObjectFields
    <3>2. o.status.observed = snap.gen /\ o.gen = snap.gen
      BY <1>4
    <3>3. QED
      BY <3>1, <3>2
  <2>2. ReadyOK(apps', fns', o)
    BY <1>4 DEF ReadyOK
  <2>3. QED
    BY <1>4, <1>5, <2>1, <2>2 DEF VersionOK, IdsOK
<1>7. pc' = "write" /\ next' = w /\ aid' \in AppIDs \union {NoID} /\ fid' \in FnIDs \union {NoID}
  BY <1>1 DEF Failed, Writes, Inv, TypeOK
<1>8. VersionOK(apps', fns', renamed, func[who].spec, who,
                [snap EXCEPT !.final = w.final, !.status = w.status])
  BY <1>2, <1>6
<1>9. QED
  BY <1>3, <1>4, <1>7, <1>8, WritesOK

\* A deletion ends when nothing is left of the Function.
LEMMA FinalizedOK ==
  ASSUME Inv, pc \in DeletePCs, CloudFine, Rest, mishaps' \in Nat, UNCHANGED <<aid, fid>>,
         Finalized, Alone(who) => Erased(fns', who)
  PROVE  MoveOK
<1>1. PICK w : w = [final |-> FALSE, status |-> snap.status]
  OBVIOUS
<1>2. PICK o : o = [snap EXCEPT !.final = w.final, !.status = w.status]
  OBVIOUS
<1>3. pc # "idle" /\ snap \in Object /\ w \in Plan /\ BeingDeleted(snap)
  BY <1>1, PlanMade DEF Inv, TypeOK, WorkerOK, DeletePCs
<1>4. o.spec = snap.spec /\ o.gen = snap.gen /\ o.status = snap.status
  BY <1>1, <1>2, <1>3 DEF Object
<1>5. VersionOK(apps', fns', renamed, func[who].spec, who, snap)
  BY <1>3, SnapKept
<1>6. VersionOK(apps', fns', renamed, func[who].spec, who, o)
  BY <1>4, <1>5 DEF VersionOK, ReadyOK, IdsOK
<1>7. pc' = "write" /\ next' = w /\ aid' \in AppIDs \union {NoID} /\ fid' \in FnIDs \union {NoID}
  BY <1>1 DEF Finalized, Writes, Inv, TypeOK
<1>8. VersionOK(apps', fns', renamed, func[who].spec, who,
                [snap EXCEPT !.final = w.final, !.status = w.status])
  BY <1>2, <1>6
<1>9. ~ Promised(snap)
  BY <1>3 DEF Promised, Served, BeingDeleted
<1>10. QED
  BY <1>3, <1>7, <1>8, <1>9, WritesOK

\* The worker goes on to its next call.
LEMMA GoesOn ==
  ASSUME Inv, pc # "idle", CloudFine, Rest, mishaps' \in Nat, UNCHANGED next,
         pc' \in PCs \ {"idle", "write"},
         aid' \in AppIDs \union {NoID}, fid' \in FnIDs \union {NoID}, WorkerOK'
  PROVE  MoveOK
BY DEF MoveOK, Inv, TypeOK

LEMMA EnsureGoesOn ==
  ASSUME Inv, pc \in EnsurePCs, CloudFine, Rest, mishaps' \in Nat, UNCHANGED next,
         pc' \in EnsurePCs, aid' \in AppIDs \union {NoID}, fid' \in FnIDs \union {NoID},
         pc' # "findApp" /\ pc' # "createApp" => AppIs(apps', aid', snap.spec.app),
         pc' = "updateFn" => /\ FnIs(apps', fns', fid', snap.spec) /\ fns'[fid'].app = aid'
                             /\ who \in fns'[fid'].by
  PROVE  MoveOK
<1>1. /\ Served(snap) /\ snap.spec.kind = "managed" /\ snap.final = WantsFinalizer(snap)
      /\ pc # "idle"
  BY DEF Inv, WorkerOK, EnsurePCs
<1>2. pc' \in PCs \ {"idle", "write"}
  BY DEF PCs, EnsurePCs
<1>3. WorkerOK'
  BY <1>1 DEF WorkerOK, Rest, EnsurePCs, DeletePCs
<1>4. QED
  BY <1>1, <1>2, <1>3, GoesOn

LEMMA DeleteGoesOn ==
  ASSUME Inv, pc \in DeletePCs, CloudFine, Rest, mishaps' \in Nat, UNCHANGED next,
         pc' \in {"resolveApp", "resolveFn", "erase"},
         aid' \in AppIDs \union {NoID}, fid' \in FnIDs \union {NoID},
         pc' = "resolveFn" /\ renamed = {} => AppIs(apps', aid', snap.spec.app),
         pc' = "erase" => /\ fid' \in FnIDs
                          /\ renamed = {} => FnIs(apps', fns', fid', snap.spec)
                                             /\ fns'[fid'].by # {}
  PROVE  MoveOK
<1>1. BeingDeleted(snap) /\ Deletes(snap) /\ pc # "idle"
  BY DEF Inv, WorkerOK, DeletePCs
<1>2. pc' \in PCs \ {"idle", "write"}
  BY DEF PCs
<1>3. WorkerOK'
  BY <1>1 DEF WorkerOK, Rest, EnsurePCs, DeletePCs
<1>4. QED
  BY <1>1, <1>2, <1>3, GoesOn

LEMMA WithAppOK ==
  ASSUME Inv, pc \in EnsurePCs, CloudFine, UNCHANGED keep, mishaps' \in Nat,
         NEW a \in AppIDs, NEW st, AppIs(apps', a, snap.spec.app), WithApp(a, st)
  PROVE  MoveOK
<1>1. aid \in AppIDs \union {NoID} /\ fid \in FnIDs \union {NoID}
  BY DEF Inv, TypeOK
<1>2. CASE st = "active"
  <2>1. /\ pc' = "findFn" /\ aid' = a /\ UNCHANGED <<fid, next>> /\ Rest
    BY <1>2 DEF WithApp, keep, objects, Rest
  <2>2. QED
    BY <1>1, <2>1, EnsureGoesOn DEF EnsurePCs
<1>3. CASE st # "active"
  <2>1. /\ pc' = "write" /\ next' = Built(snap, "Pending", NoID, a)
        /\ UNCHANGED <<aid, fid>> /\ Rest
    BY <1>3 DEF WithApp, Writes, keep, objects, Rest
  <2>2. QED
    BY <1>1, <2>1, BuiltOK
<1>4. QED
  BY <1>2, <1>3

\* A call fails, and the Function reports an error.
LEMMA ErrorOK ==
  ASSUME Inv, pc \in EnsurePCs, CloudFine, UNCHANGED keep, mishaps' \in Nat,
         NEW a \in AppIDs \union {NoID}, a # NoID => AppIs(apps', a, snap.spec.app),
         Writes(Built(snap, "Error", NoID, a))
  PROVE  MoveOK
<1>1. /\ pc' = "write" /\ next' = Built(snap, "Error", NoID, a)
      /\ UNCHANGED <<aid, fid>> /\ Rest
  BY DEF Writes, keep, objects, Rest
<1>2. aid' \in AppIDs \union {NoID} /\ fid' \in FnIDs \union {NoID}
  BY <1>1 DEF Inv, TypeOK
<1>3. QED
  BY <1>1, <1>2, BuiltOK

LEMMA MishapType ==
  ASSUME Inv, UNCHANGED mishaps \/ Mishap
  PROVE  mishaps' \in Nat
BY DEF Mishap, Inv, TypeOK

LEMMA FindAppOK ==
  ASSUME Inv, FindApp \/ FindAppFails
  PROVE  MoveOK
<1>1. /\ pc = "findApp" /\ pc \in EnsurePCs /\ UNCHANGED cloud /\ UNCHANGED keep
      /\ mishaps' \in Nat
  BY MishapType DEF FindApp, FindAppFails, EnsurePCs
<1>2. CloudFine /\ UNCHANGED apps
  BY <1>1, SameFine DEF cloud
<1>3. ASSUME NEW a \in AppsNamed(snap.spec.app)
      PROVE  a \in AppIDs /\ AppIs(apps', a, snap.spec.app)
  BY <1>2 DEF AppsNamed, LiveApp, AppIs
<1>4. fid \in FnIDs \union {NoID} /\ aid \in AppIDs \union {NoID}
  BY DEF Inv, TypeOK
<1>5. CASE \E a \in AppsNamed(snap.spec.app) : Writes(Built(snap, "Error", NoID, a))
  BY <1>1, <1>2, <1>3, <1>5, ErrorOK
<1>6. CASE \E a \in AppsNamed(snap.spec.app) :
             pc' = "updateApp" /\ aid' = a /\ UNCHANGED <<who, snap, moved, fid, next>>
  <2>1. PICK a \in AppsNamed(snap.spec.app) :
          pc' = "updateApp" /\ aid' = a /\ UNCHANGED <<who, snap, moved, fid, next>>
    BY <1>6
  <2>2. Rest
    BY <1>1, <2>1 DEF Rest, keep, objects
  <2>3. QED
    BY <1>1, <1>2, <1>3, <1>4, <2>1, <2>2, EnsureGoesOn DEF EnsurePCs
<1>7. CASE \E a \in AppsNamed(snap.spec.app) : WithApp(a, apps[a].state)
  BY <1>1, <1>2, <1>3, <1>7, WithAppOK
<1>8. CASE Goto("createApp")
  <2>1. Rest /\ pc' = "createApp" /\ UNCHANGED <<aid, fid, next>>
    BY <1>1, <1>8 DEF Rest, keep, objects, Goto
  <2>2. QED
    BY <1>1, <1>2, <1>4, <2>1, EnsureGoesOn DEF EnsurePCs
<1>9. CASE Writes(Built(snap, "Error", NoID, NoID))
  BY <1>1, <1>2, <1>9, ErrorOK
<1>10. QED
  BY <1>5, <1>6, <1>7, <1>8, <1>9 DEF FindApp, FindAppFails

LEMMA CreateAppOK ==
  ASSUME Inv, CreateApp \/ CreateAppFails
  PROVE  MoveOK
<1>1. pc \in EnsurePCs /\ UNCHANGED keep /\ mishaps' \in Nat
  BY MishapType DEF CreateApp, CreateAppFails, EnsurePCs
<1>2. ASSUME NEW a \in AppIDs, NEW st \in Newborn, MakeApp(a, st)
      PROVE  CloudFine /\ AppIs(apps', a, snap.spec.app)
  BY <1>2, MakeAppFine
<1>3. CASE CreateApp
  <2>1. PICK a \in AppIDs, st \in Newborn : MakeApp(a, st) /\ WithApp(a, st)
    BY <1>3 DEF CreateApp
  <2>2. QED
    BY <1>1, <1>2, <2>1, WithAppOK
<1>4. CASE CreateAppFails
  <2>1. CloudFine
    BY <1>2, <1>4, SameFine DEF CreateAppFails
  <2>2. Writes(Built(snap, "Error", NoID, NoID))
    BY <1>4 DEF CreateAppFails
  <2>3. QED
    BY <1>1, <2>1, <2>2, ErrorOK
<1>5. QED
  BY <1>3, <1>4

LEMMA UpdateAppOK ==
  ASSUME Inv, UpdateApp \/ UpdateAppFails
  PROVE  MoveOK
<1>1. pc \in EnsurePCs /\ UNCHANGED keep /\ mishaps' \in Nat /\ AppIs(apps, aid, snap.spec.app)
  BY MishapType DEF UpdateApp, UpdateAppFails, EnsurePCs, Inv, WorkerOK
<1>2. aid \in AppIDs
  BY <1>1 DEF AppIs
<1>3. CloudFine
  BY <1>2, SameFine, ChangeAppFine DEF UpdateApp, UpdateAppFails
<1>4. AppIs(apps', aid, snap.spec.app)
  BY <1>1, <1>3, KeptNames DEF CloudFine
<1>5. CASE UpdateApp
  BY <1>1, <1>2, <1>3, <1>4, <1>5, WithAppOK DEF UpdateApp
<1>6. CASE UpdateAppFails
  BY <1>1, <1>2, <1>3, <1>4, <1>6, ErrorOK DEF UpdateAppFails
<1>7. QED
  BY <1>5, <1>6

\* EnsureFunction has found, made or changed x.
LEMMA SettleOK ==
  ASSUME Inv, pc \in {"findFn", "createFn", "updateFn"}, CloudFine, UNCHANGED keep,
         mishaps' \in Nat, NEW x \in FnIDs, NEW st, FnIs(apps', fns', x, snap.spec),
         who \in fns'[x].by, AppIs(apps', aid, snap.spec.app), Settle(x, st)
  PROVE  MoveOK
<1>1. PICK ph \in {"Ready", "Pending", "Error"} : ph = IF st = "active" THEN "Ready" ELSE "Pending"
  OBVIOUS
<1>2. /\ pc' = "write" /\ next' = Built(snap, ph, x, aid)
      /\ UNCHANGED <<aid, fid>> /\ Rest
  BY <1>1 DEF Settle, Writes, keep, objects, Rest
<1>3. /\ aid \in AppIDs /\ fid \in FnIDs \union {NoID} /\ x # NoID /\ pc \in EnsurePCs
  BY NothingType DEF Inv, TypeOK, AppIs, EnsurePCs
<1>4. QED
  BY <1>2, <1>3, BuiltOK

LEMMA FindFnOK ==
  ASSUME Inv, FindFn \/ FindFnFails
  PROVE  MoveOK
<1>1. /\ pc = "findFn" /\ pc \in EnsurePCs /\ UNCHANGED keep /\ mishaps' \in Nat
      /\ AppIs(apps, aid, snap.spec.app) /\ UNCHANGED apps
  BY MishapType DEF FindFn, FindFnFails, EnsurePCs, Inv, WorkerOK, cloud
<1>2. aid \in AppIDs /\ fid \in FnIDs \union {NoID}
  BY <1>1 DEF AppIs, Inv, TypeOK
<1>3. CASE \E x \in Candidates(aid) :
             /\ fns' = [fns EXCEPT ![x].by = @ \union {who}]
             /\ IF fns[x].image # snap.spec.image
                THEN pc' = "updateFn" /\ fid' = x /\ UNCHANGED <<who, snap, moved, aid, next>>
                ELSE Settle(x, fns[x].state)
  <2>1. PICK x \in Candidates(aid) :
          /\ fns' = [fns EXCEPT ![x].by = @ \union {who}]
          /\ \/ pc' = "updateFn" /\ fid' = x /\ UNCHANGED <<who, snap, moved, aid, next>>
             \/ Settle(x, fns[x].state)
    BY <1>3
  <2>2. x \in FnIDs
    BY DEF Candidates, FnsNamed
  <2>3. /\ CloudFine /\ who \in fns'[x].by
        /\ FnIs(apps', fns', x, snap.spec) /\ fns'[x].app = aid
    BY <1>1, <2>1, AdoptFine
  <2>4. CASE Settle(x, fns[x].state)
    BY <1>1, <2>2, <2>3, <2>4, SettleOK
  <2>5. CASE pc' = "updateFn" /\ fid' = x /\ UNCHANGED <<who, snap, moved, aid, next>>
    <3>1. Rest
      BY <1>1, <2>5 DEF Rest, keep, objects
    <3>2. QED
      BY <1>1, <1>2, <2>2, <2>3, <2>5, <3>1, EnsureGoesOn DEF EnsurePCs
  <2>6. QED
    BY <2>1, <2>4, <2>5
<1>4. CASE Goto("createFn") /\ UNCHANGED fns
  <2>1. CloudFine
    BY <1>1, <1>4, SameFine DEF cloud
  <2>2. Rest /\ pc' = "createFn" /\ UNCHANGED <<aid, fid, next>>
    BY <1>1, <1>4 DEF Rest, keep, objects, Goto
  <2>3. QED
    BY <1>1, <1>2, <2>1, <2>2, EnsureGoesOn DEF EnsurePCs
<1>5. CASE FindFnFails
  <2>1. CloudFine
    BY <1>5, SameFine DEF FindFnFails
  <2>2. QED
    BY <1>1, <1>2, <1>5, <2>1, ErrorOK DEF FindFnFails
<1>6. QED
  BY <1>3, <1>4, <1>5 DEF FindFn

LEMMA CreateFnOK ==
  ASSUME Inv, CreateFn \/ CreateFnFails
  PROVE  MoveOK
<1>1. /\ pc = "createFn" /\ pc \in EnsurePCs /\ UNCHANGED keep /\ mishaps' \in Nat
      /\ AppIs(apps, aid, snap.spec.app)
  BY MishapType DEF CreateFn, CreateFnFails, EnsurePCs, Inv, WorkerOK
<1>2. aid \in AppIDs
  BY <1>1 DEF AppIs
<1>3. ASSUME NEW x \in FnIDs, NEW st \in Newborn, MakeFn(x, st)
      PROVE  /\ CloudFine /\ who \in fns'[x].by
             /\ FnIs(apps', fns', x, snap.spec) /\ UNCHANGED apps
  BY <1>1, <1>3, MakeFnFine
<1>4. CASE CreateFn
  <2>1. PICK x \in FnIDs, st \in Newborn : MakeFn(x, st) /\ Settle(x, st)
    BY <1>4 DEF CreateFn
  <2>2. QED
    BY <1>1, <1>3, <2>1, SettleOK
<1>5. CASE CreateFnFails
  <2>1. CloudFine /\ UNCHANGED apps
    BY <1>3, <1>5, SameFine DEF CreateFnFails, cloud
  <2>2. Writes(Built(snap, "Error", NoID, aid))
    BY <1>5 DEF CreateFnFails
  <2>3. QED
    BY <1>1, <1>2, <2>1, <2>2, ErrorOK
<1>6. QED
  BY <1>4, <1>5

LEMMA UpdateFnOK ==
  ASSUME Inv, UpdateFn \/ UpdateFnFails
  PROVE  MoveOK
<1>1. /\ pc = "updateFn" /\ pc \in EnsurePCs /\ UNCHANGED keep
      /\ AppIs(apps, aid, snap.spec.app)
      /\ FnIs(apps, fns, fid, snap.spec) /\ who \in fns[fid].by
  BY DEF UpdateFn, UpdateFnFails, EnsurePCs, Inv, WorkerOK
<1>2. aid \in AppIDs /\ fid \in FnIDs
  BY <1>1 DEF AppIs, FnIs
<1>3. mishaps' \in Nat
  BY MishapType DEF UpdateFn, UpdateFnFails, Refused
<1>4. CloudFine
  BY <1>2, SameFine, ChangeFnFine DEF UpdateFn, UpdateFnFails
<1>5. fid \in Remembered
  BY DEF Remembered
<1>6. AppIs(apps', aid, snap.spec.app) /\ FnIs(apps', fns', fid, snap.spec) /\ who \in fns'[fid].by
  BY <1>1, <1>2, <1>4, <1>5, KeptNames DEF CloudFine, Kept
<1>7. CASE UpdateFn
  BY <1>1, <1>2, <1>3, <1>4, <1>6, <1>7, SettleOK DEF UpdateFn
<1>8. CASE UpdateFnFails
  BY <1>1, <1>2, <1>3, <1>4, <1>6, <1>8, ErrorOK DEF UpdateFnFails
<1>9. QED
  BY <1>7, <1>8

\* A function of the worker's Function has the names the worker reads.
LEMMA OwnNames ==
  ASSUME Inv, pc # "idle", renamed = {}, NEW x \in FnIDs, who \in fns[x].by
  PROVE  FnIs(apps, fns, x, snap.spec)
<1>1. FnIs(apps, fns, x, func[who].spec)
  BY DEF Inv, CloudOK, Owned
<1>2. snap.spec.app = func[who].spec.app /\ snap.spec.name = func[who].spec.name
  BY SameNames DEF Inv, VersionsOK, TypeOK
<1>3. QED
  BY <1>1, <1>2 DEF FnIs

LEMMA TargetOK ==
  ASSUME Inv, Target \/ TargetUnknown
  PROVE  MoveOK
<1>1. /\ pc = "target" /\ pc \in DeletePCs /\ UNCHANGED <<func, fcache, renamed, edits, cloud>>
      /\ UNCHANGED mishaps /\ mishaps' \in Nat
  BY DEF Target, TargetUnknown, DeletePCs, keep, objects, Inv, TypeOK
<1>2. CloudFine /\ UNCHANGED <<apps, fns>>
  BY <1>1, SameFine DEF cloud
<1>3. /\ snap \in Object /\ who \in Functions /\ Managed(snap.spec)
      /\ snap.status.fid \in FnIDs \union {NoID} /\ snap.status.aid \in AppIDs \union {NoID}
      /\ aid \in AppIDs \union {NoID} /\ fid \in FnIDs \union {NoID}
  BY <1>1, ObjectFields DEF Inv, TypeOK, WorkerOK, Deletes, DeletePCs
<1>4. renamed = {} => IdsOK(apps, fns, who, snap)
  BY <1>1 DEF Inv, VersionsOK, VersionOK
<1>5. CASE TargetUnknown
  <2>1. Rest /\ Failed /\ UNCHANGED <<aid, fid>>
    BY <1>1, <1>5 DEF TargetUnknown, Rest, Failed, Writes
  <2>2. QED
    BY <1>1, <1>2, <2>1, FailedOK
<1>6. CASE Target
  <2>1. Rest /\ UNCHANGED next
    BY <1>1, <1>6 DEF Target, Rest
  <2>2. CASE snap.status.fid # NoID /\ pc' = "erase" /\ fid' = snap.status.fid /\ UNCHANGED aid
    <3>1. fid' \in FnIDs
      BY <1>3, <2>2
    <3>2. renamed = {} => FnIs(apps', fns', fid', snap.spec) /\ fns'[fid'].by # {}
      <4> SUFFICES ASSUME renamed = {}
                   PROVE  FnIs(apps', fns', fid', snap.spec) /\ fns'[fid'].by # {}
        OBVIOUS
      <4>1. who \in fns[fid'].by
        BY <1>3, <1>4, <2>2 DEF IdsOK
      <4>2. FnIs(apps, fns, fid', snap.spec)
        BY <1>1, <3>1, <4>1, OwnNames
      <4>3. QED
        BY <1>2, <4>1, <4>2
    <3>3. QED
      BY <1>1, <1>2, <1>3, <2>1, <2>2, <3>1, <3>2, DeleteGoesOn
  <2>3. CASE snap.status.aid # NoID /\ pc' = "resolveFn" /\ aid' = snap.status.aid /\ UNCHANGED fid
    <3>1. renamed = {} => AppIs(apps', aid', snap.spec.app)
      BY <1>2, <1>3, <1>4, <2>3 DEF IdsOK
    <3>2. QED
      BY <1>1, <1>2, <1>3, <2>1, <2>3, <3>1, DeleteGoesOn
  <2>4. CASE pc' = "resolveApp" /\ UNCHANGED <<aid, fid>>
    BY <1>1, <1>2, <1>3, <2>1, <2>4, DeleteGoesOn
  <2>5. QED
    BY <1>6, <2>2, <2>3, <2>4 DEF Target
<1>7. QED
  BY <1>5, <1>6

LEMMA ResolveAppOK ==
  ASSUME Inv, ResolveApp
  PROVE  MoveOK
<1>1. /\ pc = "resolveApp" /\ pc \in DeletePCs /\ UNCHANGED <<func, fcache, renamed, edits, cloud>>
      /\ mishaps' \in Nat
  BY DEF ResolveApp, DeletePCs, keep, objects, Inv, TypeOK
<1>2. CloudFine /\ UNCHANGED <<apps, fns>>
  BY <1>1, SameFine DEF cloud
<1>3. aid \in AppIDs \union {NoID} /\ fid \in FnIDs \union {NoID}
  BY DEF Inv, TypeOK
<1>4. CASE \E a \in AppsNamed(snap.spec.app) :
             pc' = "resolveFn" /\ aid' = a /\ UNCHANGED <<who, snap, moved, fid, next>>
  <2>1. PICK a \in AppsNamed(snap.spec.app) :
          pc' = "resolveFn" /\ aid' = a /\ UNCHANGED <<who, snap, moved, fid, next>>
    BY <1>4
  <2>2. a \in AppIDs /\ AppIs(apps', a, snap.spec.app) /\ Rest
    BY <1>1, <1>2, <2>1 DEF AppsNamed, LiveApp, AppIs, Rest
  <2>3. QED
    BY <1>1, <1>2, <1>3, <2>1, <2>2, DeleteGoesOn
<1>5. CASE AppsNamed(snap.spec.app) = {} /\ Finalized
  <2>1. Rest /\ UNCHANGED <<aid, fid>>
    BY <1>1, <1>5 DEF Finalized, Writes, Rest
  <2>2. ASSUME Alone(who), NEW x \in FnIDs, who \in fns[x].by
        PROVE  FALSE
    <3>1. FnIs(apps, fns, x, snap.spec)
      BY <1>1, <2>2, OwnNames DEF Alone
    <3>2. fns[x].app \in AppsNamed(snap.spec.app)
      BY <3>1 DEF FnIs, AppIs, AppsNamed, LiveApp
    <3>3. QED
      BY <1>5, <3>2
  <2>3. Alone(who) => Erased(fns', who)
    BY <1>2, <2>2 DEF Erased
  <2>4. QED
    BY <1>1, <1>2, <1>5, <2>1, <2>3, FinalizedOK
<1>6. QED
  BY <1>4, <1>5 DEF ResolveApp

LEMMA ResolveFnOK ==
  ASSUME Inv, ResolveFn
  PROVE  MoveOK
<1>1. /\ pc = "resolveFn" /\ pc \in DeletePCs /\ UNCHANGED <<func, fcache, renamed, edits, cloud>>
      /\ mishaps' \in Nat
      /\ renamed = {} => AppIs(apps, aid, snap.spec.app)
  BY DEF ResolveFn, DeletePCs, keep, objects, Inv, TypeOK, WorkerOK
<1>2. CloudFine /\ UNCHANGED <<apps, fns>>
  BY <1>1, SameFine DEF cloud
<1>3. aid \in AppIDs \union {NoID} /\ fid \in FnIDs \union {NoID}
  BY DEF Inv, TypeOK
<1>4. CASE \E x \in Doomed(aid) :
             pc' = "erase" /\ fid' = x /\ UNCHANGED <<who, snap, moved, aid, next>>
  <2>1. PICK x \in Doomed(aid) :
          pc' = "erase" /\ fid' = x /\ UNCHANGED <<who, snap, moved, aid, next>>
    BY <1>4
  <2>2. /\ x \in FnIDs /\ fns[x].state \in Newborn /\ fns[x].app = aid
        /\ fns[x].name = snap.spec.name
    BY <2>1 DEF Doomed, FnsNamed, LiveFn
  <2>3. renamed = {} => FnIs(apps', fns', x, snap.spec) /\ fns'[x].by # {}
    <3> SUFFICES ASSUME renamed = {}
                 PROVE  FnIs(apps', fns', x, snap.spec) /\ fns'[x].by # {}
      OBVIOUS
    <3>1. AppIs(apps, fns[x].app, snap.spec.app)
      BY <1>1, <2>2
    <3>2. fns[x].by # {}
      BY <2>2, <3>1 DEF AppIs, Inv, CloudOK, Unique
    <3>3. fns[x].state # "unborn"
      BY <2>2 DEF Newborn
    <3>4. QED
      BY <1>2, <2>2, <3>1, <3>2, <3>3 DEF FnIs
  <2>4. Rest
    BY <1>1, <2>1 DEF Rest
  <2>5. QED
    BY <1>1, <1>2, <1>3, <2>1, <2>2, <2>3, <2>4, DeleteGoesOn
<1>5. CASE Doomed(aid) = {} /\ Finalized
  <2>1. Rest /\ UNCHANGED <<aid, fid>>
    BY <1>1, <1>5 DEF Finalized, Writes, Rest
  <2>2. ASSUME Alone(who), NEW x \in FnIDs, who \in fns[x].by, fns[x].state \in Newborn
        PROVE  FALSE
    <3>1. FnIs(apps, fns, x, snap.spec) /\ AppIs(apps, aid, snap.spec.app)
      BY <1>1, <2>2, OwnNames DEF Alone
    <3>2. fns[x].app = aid /\ fns[x].name = snap.spec.name
      BY <3>1 DEF FnIs, AppIs, Inv, CloudOK, Unique
    <3>3. x \in Doomed(aid)
      BY <2>2, <3>2 DEF Doomed, FnsNamed, LiveFn
    <3>4. QED
      BY <1>5, <3>3
  <2>3. Alone(who) => Erased(fns', who)
    BY <1>2, <2>2 DEF Erased
  <2>4. QED
    BY <1>1, <1>2, <1>5, <2>1, <2>3, FinalizedOK
<1>6. QED
  BY <1>4, <1>5 DEF ResolveFn

LEMMA EraseOK ==
  ASSUME Inv, Erase
  PROVE  MoveOK
<1>1. /\ pc = "erase" /\ pc \in DeletePCs /\ EraseFn /\ Finalized
      /\ UNCHANGED <<func, fcache, renamed, edits>> /\ mishaps' \in Nat
  BY DEF Erase, DeletePCs, keep, objects, Inv, TypeOK
<1>2. Rest /\ UNCHANGED <<aid, fid>>
  BY <1>1 DEF Finalized, Writes, Rest
<1>3. QED
  BY <1>1, <1>2, EraseFine, FinalizedOK

LEMMA DeletionFailsOK ==
  ASSUME Inv, DeletionFails
  PROVE  MoveOK
<1>1. /\ pc \in DeletePCs /\ Failed /\ UNCHANGED <<func, fcache, renamed, edits>>
      /\ mishaps' \in Nat
      /\ UNCHANGED cloud \/ (pc = "erase" /\ EraseFn)
  BY MishapType DEF DeletionFails, DeletePCs, keep, objects
<1>2. Rest /\ UNCHANGED <<aid, fid>>
  BY <1>1 DEF Failed, Writes, Rest
<1>3. CloudFine
  BY <1>1, SameFine, EraseFine
<1>4. QED
  BY <1>1, <1>2, <1>3, FailedOK

\* A step of a reconcile that stores nothing.
LEMMA MoveStep ==
  ASSUME Inv, Continue, ~ Mark, ~ Write, ~ WriteRefused
  PROVE  MoveOK
BY FindAppOK, CreateAppOK, UpdateAppOK, FindFnOK, CreateFnOK, UpdateFnOK, TargetOK,
   ResolveAppOK, ResolveFnOK, EraseOK, DeletionFailsOK DEF Continue

LEMMA MoveInv ==
  ASSUME Inv, MoveOK
  PROVE  Inv'
<1>1. /\ UNCHANGED <<func, fcache, renamed, edits, who, snap, moved>> /\ pc # "idle"
      /\ Kept(apps, fns, apps', fns', Remembered)
  BY DEF MoveOK, Rest, CloudFine
<1>2. TypeOK'
  BY <1>1 DEF MoveOK, CloudFine, Inv, TypeOK
<1>3. VersionsOK'
  <2>1. ASSUME NEW f \in Functions
        PROVE  /\ VersionOK(apps', fns', renamed, func[f].spec, f, func[f])
               /\ VersionOK(apps', fns', renamed, func[f].spec, f, fcache[f])
    <3>1. /\ func[f] \in Object /\ func[f].status.fid \in Remembered
          /\ fcache[f] \in Object /\ fcache[f].status.fid \in Remembered
      BY DEF Inv, TypeOK, Remembered
    <3>2. /\ VersionOK(apps, fns, renamed, func[f].spec, f, func[f])
          /\ VersionOK(apps, fns, renamed, func[f].spec, f, fcache[f])
      BY DEF Inv, VersionsOK
    <3>3. QED
      BY <1>1, <3>1, <3>2, VersionKept
  <2>2. VersionOK(apps', fns', renamed, func[who].spec, who, snap)
    BY <1>1, SnapKept DEF MoveOK
  <2>3. QED
    BY <1>1, <2>1, <2>2 DEF VersionsOK, MoveOK, Proposal
<1>4. CloudOK'
  BY <1>1 DEF MoveOK, CloudFine, CloudOK
<1>5. OrderOK'
  BY <1>1 DEF Inv, OrderOK
<1>6. ErasedOK'
  BY <1>1 DEF MoveOK, CloudFine, ErasedOK, ErasedFor, Alone
<1>7. QED
  BY <1>2, <1>3, <1>4, <1>5, <1>6 DEF Inv, MoveOK
-----------------------------------------------------------------------------
(* Objects are stored, read and cached; OCI stays as it is.                *)

NamesStay ==
  renamed' = {} => /\ renamed = {}
                   /\ \A f \in Functions : Named(func'[f].spec) = Named(func[f].spec)

LEMMA StayOK ==
  ASSUME Inv, UNCHANGED cloud, NamesStay
  PROVE  /\ CloudOK'
         /\ \A f \in Functions : Alone(f)' => Alone(f)
         /\ \A f \in Functions, o \in Object :
              VersionOK(apps, fns, renamed, func[f].spec, f, o) =>
              VersionOK(apps', fns', renamed', func'[f].spec, f, o)
<1>1. apps' = apps /\ fns' = fns
  BY DEF cloud
<1>2. ASSUME renamed' = {}, NEW f \in Functions
      PROVE  /\ func'[f].spec.app = func[f].spec.app /\ func'[f].spec.name = func[f].spec.name
  BY <1>2 DEF NamesStay, Named
<1>3. CloudOK'
  <2>1. Unique(apps', fns')
    BY <1>1 DEF Inv, CloudOK
  <2>2. ASSUME renamed' = {}, NEW x \in FnIDs, NEW f \in fns[x].by
        PROVE  FnIs(apps, fns, x, func'[f].spec)
    <3>1. f \in Functions
      BY <2>2 DEF Inv, TypeOK, OCIFunction
    <3>2. FnIs(apps, fns, x, func[f].spec)
      BY <2>2 DEF NamesStay, Inv, CloudOK, Owned
    <3>3. QED
      BY <1>2, <2>2, <3>1, <3>2 DEF FnIs
  <2>3. QED
    BY <1>1, <2>1, <2>2 DEF CloudOK, Owned
<1>4. ASSUME NEW f \in Functions, Alone(f)'
      PROVE  Alone(f)
  BY <1>2, <1>4 DEF Alone, Place, NamesStay
<1>5. ASSUME NEW f \in Functions, NEW o \in Object,
             VersionOK(apps, fns, renamed, func[f].spec, f, o)
      PROVE  VersionOK(apps, fns, renamed', func'[f].spec, f, o)
  BY <1>5 DEF VersionOK, NamesStay
<1>6. QED
  BY <1>1, <1>3, <1>4, <1>5

\* A version obj of f is stored.
LEMMA StoreOK ==
  ASSUME Inv, UNCHANGED <<cloud, fcache>>, NEW f \in Functions, NEW obj \in Object,
         func' = [func EXCEPT ![f] = obj],
         renamed' = {} => renamed = {} /\ Named(obj.spec) = Named(func[f].spec),
         VersionOK(apps, fns, renamed', obj.spec, f, obj), Follows(fcache[f], obj)
  PROVE  /\ func' \in [Functions -> Object] /\ NamesStay
         /\ \A g \in Functions :
              /\ VersionOK(apps', fns', renamed', func'[g].spec, g, func'[g])
              /\ VersionOK(apps', fns', renamed', func'[g].spec, g, fcache'[g])
              /\ Follows(fcache'[g], func'[g])
<1>1. func' \in [Functions -> Object] /\ func'[f] = obj
      /\ \A g \in Functions \ {f} : func'[g] = func[g]
  BY DEF Inv, TypeOK
<1>2. NamesStay
  BY <1>1 DEF NamesStay
<1>3. apps' = apps /\ fns' = fns /\ fcache' = fcache
  BY DEF cloud
<1>4. ASSUME NEW g \in Functions
      PROVE  /\ VersionOK(apps', fns', renamed', func'[g].spec, g, func'[g])
             /\ VersionOK(apps', fns', renamed', func'[g].spec, g, fcache[g])
             /\ Follows(fcache[g], func'[g])
  <2>1. func[g] \in Object /\ fcache[g] \in Object
    BY DEF Inv, TypeOK
  <2>2. /\ VersionOK(apps', fns', renamed', func'[g].spec, g, func[g])
        /\ VersionOK(apps', fns', renamed', func'[g].spec, g, fcache[g])
    BY <1>2, <2>1, StayOK DEF Inv, VersionsOK
  <2>3. CASE g = f
    BY <1>1, <1>3, <2>2, <2>3
  <2>4. CASE g # f
    BY <1>1, <2>2, <2>4 DEF Inv, OrderOK
  <2>5. QED
    BY <2>3, <2>4
<1>5. QED
  BY <1>1, <1>2, <1>3, <1>4

\* The reconcile is over.
LEMMA ReturnInv ==
  ASSUME Inv, UNCHANGED cloud, NamesStay, Return, func' \in [Functions -> Object],
         fcache' \in [Functions -> Object], renamed' \subseteq Functions, edits' \in Nat,
         mishaps' \in Nat,
         \A g \in Functions :
           /\ VersionOK(apps', fns', renamed', func'[g].spec, g, func'[g])
           /\ VersionOK(apps', fns', renamed', func'[g].spec, g, fcache'[g])
           /\ Follows(fcache'[g], func'[g])
           /\ Past(fcache[g]) => Past(fcache'[g])
  PROVE  Inv'
<1>1. pc' = "idle" /\ apps' = apps /\ fns' = fns
  BY DEF Return, cloud
<1>2. TypeOK'
  BY <1>1, ConstantsOK, NothingType DEF Return, Inv, TypeOK, PCs
<1>3. VersionsOK' /\ OrderOK' /\ WorkerOK'
  BY <1>1 DEF VersionsOK, OrderOK, WorkerOK, EnsurePCs, DeletePCs
<1>4. ErasedOK'
  <2> SUFFICES ASSUME NEW f \in Functions, NEW x \in FnIDs, Alone(f)', f \in fns[x].by,
                      fns[x].state \notin Newborn
               PROVE  Erased(fns, f) /\ Past(fcache'[f])
    BY <1>1 DEF ErasedOK, ErasedFor
  <2>1. Erased(fns, f) /\ Past(fcache[f])
    BY StayOK DEF Inv, ErasedOK, ErasedFor
  <2>2. QED
    BY <2>1
<1>5. CloudOK'
  BY StayOK
<1>6. QED
  BY <1>2, <1>3, <1>4, <1>5 DEF Inv

LEMMA ProposalType ==
  ASSUME Inv
  PROVE  Proposal \in Object /\ next.final \in BOOLEAN /\ next.status \in Status
<1>1. next.final \in BOOLEAN /\ next.status \in Status /\ snap \in Object
  BY DEF Inv, TypeOK, Plan
<1>2. QED
  BY <1>1, ObjectMade, ConstantsOK DEF Proposal

\* A user or the API server stores a version, while a reconcile may run.
LEMMA TouchInv ==
  ASSUME Inv, NEW f \in Functions, NEW obj \in Object, Touch(f, obj),
         renamed' \subseteq Functions, edits' \in Nat,
         renamed' = {} => renamed = {} /\ Named(obj.spec) = Named(func[f].spec),
         VersionOK(apps, fns, renamed', obj.spec, f, obj),
         Past(func[f]) => Past(obj),
         func[f].stored /\ func[f].final => obj.stored /\ obj.final,
         obj.deleting => obj.stored
  PROVE  Inv'
<1>1. /\ func' = [func EXCEPT ![f] = obj]
      /\ UNCHANGED <<fcache, apps, fns, pc, who, snap, aid, fid, next, mishaps>> /\ UNCHANGED cloud
      /\ moved' = (moved \/ (pc # "idle" /\ who = f))
  BY DEF Touch, Publish, cloud
<1>2. Follows(fcache[f], obj)
  BY DEF Inv, OrderOK, Follows
<1>3. /\ func' \in [Functions -> Object] /\ NamesStay
      /\ \A g \in Functions :
           /\ VersionOK(apps', fns', renamed', func'[g].spec, g, func'[g])
           /\ VersionOK(apps', fns', renamed', func'[g].spec, g, fcache'[g])
           /\ Follows(fcache'[g], func'[g])
  BY <1>1, <1>2, StoreOK
<1>4. moved' \in BOOLEAN
  BY <1>1 DEF Inv, TypeOK
<1>5. TypeOK'
  BY <1>1, <1>3, <1>4 DEF Inv, TypeOK
<1>6. /\ CloudOK' /\ \A g \in Functions : Alone(g)' => Alone(g)
      /\ \A g \in Functions, o \in Object :
           VersionOK(apps, fns, renamed, func[g].spec, g, o) =>
           VersionOK(apps', fns', renamed', func'[g].spec, g, o)
  BY <1>1, <1>3, StayOK
<1>7. VersionsOK'
  <2>1. snap \in Object /\ Proposal \in Object /\ who \in Functions
    BY ProposalType DEF Inv, TypeOK
  <2>2. Proposal' = Proposal
    BY <1>1 DEF Proposal
  <2>3. QED
    BY <1>1, <1>3, <1>6, <2>1, <2>2 DEF Inv, VersionsOK
<1>8. OrderOK'
  <2>1. ASSUME pc # "idle"
        PROVE  /\ Past(snap) => Past(fcache[who])
               /\ Promised(snap) => func'[who].stored /\ func'[who].final
               /\ ~ moved' => func'[who] = snap
    <3>1. /\ Past(snap) => Past(fcache[who])
          /\ Promised(snap) => func[who].stored /\ func[who].final
          /\ ~ moved => func[who] = snap
      BY <2>1 DEF Inv, OrderOK
    <3>2. CASE who = f
      BY <1>1, <2>1, <3>1, <3>2 DEF Inv, TypeOK
    <3>3. CASE who # f
      BY <1>1, <3>1, <3>3 DEF Inv, TypeOK
    <3>4. QED
      BY <3>2, <3>3
  <2>2. QED
    BY <1>1, <1>3, <2>1 DEF OrderOK
<1>9. WorkerOK'
  BY <1>1, <1>3, <1>6 DEF Inv, WorkerOK, TypeOK, NamesStay
<1>10. ErasedOK'
  BY <1>1, <1>6 DEF Inv, ErasedOK, ErasedFor
<1>11. QED
  BY <1>5, <1>6, <1>7, <1>8, <1>9, <1>10 DEF Inv

LEMMA EditInv ==
  ASSUME Inv, NEW f \in Functions, EditFunction(f)
  PROVE  Inv'
<1>1. PICK s \in Specs[f] \ {func[f].spec} :
        /\ Touch(f, [func[f] EXCEPT !.spec = s, !.gen = @ + 1])
        /\ renamed' = IF Named(s) = Named(func[f].spec) THEN renamed ELSE renamed \union {f}
  BY DEF EditFunction
<1>2. PICK obj : obj = [func[f] EXCEPT !.spec = s, !.gen = @ + 1]
  OBVIOUS
<1>3. s \in FnSpec /\ func[f] \in Object
  BY ConstantsOK DEF Inv, TypeOK
<1>4. func[f].gen \in Nat /\ func[f].status \in Status /\ func[f].status.observed \in Nat
  BY <1>3, ObjectFields
<1>5. obj \in Object
  BY <1>2, <1>3, <1>4, ObjectMade, ConstantsOK
<1>6. /\ obj.spec = s /\ obj.gen = func[f].gen + 1 /\ obj.status = func[f].status
      /\ obj.stored = func[f].stored /\ obj.deleting = func[f].deleting
      /\ obj.final = func[f].final
  BY <1>2, <1>3 DEF Object
<1>7. VersionOK(apps, fns, renamed, func[f].spec, f, func[f])
  BY DEF Inv, VersionsOK
<1>8. obj.status.observed <= obj.gen /\ obj.status.observed # obj.gen
  <2>1. func[f].status.observed <= func[f].gen
    BY <1>7 DEF VersionOK
  <2>2. QED
    BY <1>4, <1>6, <2>1
<1>9. renamed' = {} => renamed = {} /\ Named(obj.spec) = Named(func[f].spec)
  BY <1>1, <1>6
<1>10. ASSUME renamed' = {}
       PROVE  IdsOK(apps, fns, f, obj)
  BY <1>6, <1>7, <1>9, <1>10 DEF VersionOK, IdsOK, Named, Managed
<1>11. VersionOK(apps, fns, renamed', obj.spec, f, obj)
  BY <1>8, <1>10 DEF VersionOK, ReadyOK
<1>12. renamed' \subseteq Functions /\ edits' \in Nat
  BY <1>1 DEF EditFunction, Inv, TypeOK
<1>13. /\ obj.stored
       /\ Past(func[f]) => Past(obj)
       /\ func[f].stored /\ func[f].final => obj.stored /\ obj.final
  BY <1>6 DEF Past, EditFunction
<1>14. QED
  BY <1>1, <1>2, <1>5, <1>9, <1>11, <1>12, <1>13, TouchInv

\* A version with the status and the spec of another is as true.
LEMMA VersionSame ==
  ASSUME NEW ap, NEW fn, NEW ren, NEW own, NEW f, NEW o, NEW p,
         VersionOK(ap, fn, ren, own, f, o),
         p.spec = o.spec, p.gen = o.gen, p.status = o.status
  PROVE  VersionOK(ap, fn, ren, own, f, p)
BY DEF VersionOK, ReadyOK, IdsOK

\* Of an object that is gone nothing is said.
LEMMA VersionGone ==
  ASSUME NEW ap, NEW fn, NEW ren, NEW own, NEW f, NEW o,
         ren = {} => Named(o.spec) = Named(own)
  PROVE  /\ VersionOK(ap, fn, ren, own, f, Gone(o))
         /\ Past(Gone(o)) /\ ~ Gone(o).deleting /\ Gone(o).spec = o.spec
<1>1. PICK g : g = Gone(o)
  OBVIOUS
<1>2. /\ g.spec = o.spec /\ g.gen = 0 /\ g.status.observed = 0 /\ g.status.phase = ""
      /\ g.status.fid = NoID /\ g.status.aid = NoID /\ ~ g.stored /\ ~ g.deleting
  BY <1>1 DEF Gone, NoObject, NoStatus
<1>3. g.status.observed <= g.gen
  <2>1. g.status.observed = 0 /\ g.gen = 0
    BY <1>2
  <2>2. QED
    BY <2>1
<1>4. VersionOK(ap, fn, ren, own, f, g) /\ Past(g) /\ ~ g.deleting /\ g.spec = o.spec
  BY <1>2, <1>3 DEF VersionOK, ReadyOK, IdsOK, Past
<1>5. QED
  BY <1>1, <1>4

LEMMA DeleteInv ==
  ASSUME Inv, NEW f \in Functions, DeleteObject(f)
  PROVE  Inv'
<1>1. /\ func[f] \in Object /\ VersionOK(apps, fns, renamed, func[f].spec, f, func[f])
      /\ renamed' = renamed /\ edits' = edits /\ renamed \subseteq Functions /\ edits \in Nat
      /\ func[f].stored
  BY DEF DeleteObject, Inv, TypeOK, VersionsOK
<1>2. PICK obj : /\ obj = IF func[f].final THEN [func[f] EXCEPT !.deleting = TRUE]
                          ELSE Gone(func[f])
                 /\ Touch(f, obj)
  BY DEF DeleteObject
<1>3. CASE func[f].final
  <2>1. /\ obj.spec = func[f].spec /\ obj.gen = func[f].gen /\ obj.status = func[f].status
        /\ obj.stored = func[f].stored /\ obj.final = func[f].final /\ Past(obj)
        /\ obj \in Object
    BY <1>1, <1>2, <1>3 DEF Object, Past
  <2>2. VersionOK(apps, fns, renamed', obj.spec, f, obj)
    BY <1>1, <2>1, VersionSame
  <2>3. QED
    BY <1>1, <1>2, <2>1, <2>2, TouchInv
<1>4. CASE ~ func[f].final
  <2>1. obj = Gone(func[f]) /\ obj \in Object
    BY <1>1, <1>2, <1>4, ObjectMade, ConstantsOK, NothingType
  <2>2. Past(obj) /\ ~ obj.deleting /\ obj.spec = func[f].spec /\ VersionOK(apps, fns, renamed', obj.spec, f, obj)
    BY <1>1, <2>1, VersionGone
  <2>3. QED
    BY <1>1, <1>2, <1>4, <2>1, <2>2, TouchInv
<1>5. QED
  BY <1>3, <1>4

LEMMA ActivateInv ==
  ASSUME Inv, Activate
  PROVE  Inv'
<1>1. /\ CloudFine /\ UNCHANGED <<func, fcache, renamed, edits, mishaps>>
      /\ UNCHANGED <<pc, who, snap, moved, aid, fid, next>>
  BY ActivateFine DEF Activate, objects, worker
<1>2. Kept(apps, fns, apps', fns', Remembered)
  BY <1>1 DEF CloudFine
<1>3. TypeOK'
  BY <1>1 DEF CloudFine, Inv, TypeOK
<1>4. ASSUME NEW f \in Functions, NEW o \in Object, o.status.fid \in Remembered,
             VersionOK(apps, fns, renamed, func[f].spec, f, o)
      PROVE  VersionOK(apps', fns', renamed, func[f].spec, f, o)
  BY <1>2, <1>4, VersionKept
<1>5. VersionsOK'
  <2>1. /\ \A f \in Functions : /\ func[f] \in Object /\ func[f].status.fid \in Remembered
                                /\ fcache[f] \in Object /\ fcache[f].status.fid \in Remembered
        /\ snap \in Object /\ snap.status.fid \in Remembered /\ who \in Functions
    BY DEF Inv, TypeOK, Remembered
  <2>2. Proposal \in Object /\ Proposal.status.fid \in Remembered
    <3>1. Proposal.status = next.status
      BY DEF Proposal, Inv, TypeOK, Object
    <3>2. QED
      BY <3>1, ProposalType DEF Remembered
  <2>3. Proposal' = Proposal
    BY <1>1 DEF Proposal
  <2>4. QED
    BY <1>1, <1>4, <2>1, <2>2, <2>3 DEF Inv, VersionsOK
<1>6. CloudOK' /\ OrderOK' /\ ErasedOK'
  BY <1>1 DEF CloudFine, CloudOK, Inv, OrderOK, ErasedOK, ErasedFor, Alone
<1>7. WorkerOK'
  <2>1. \A x \in FnIDs : /\ fns'[x].app = fns[x].app /\ fns'[x].by = fns[x].by
                         /\ fns'[x].state \in Newborn <=> fns[x].state \in Newborn
    BY DEF Activate, Inv, TypeOK, OCIFunction, Newborn
  <2>2. /\ \A name : AppIs(apps, aid, name) => AppIs(apps', aid, name)
        /\ \A t : FnIs(apps, fns, fid, t) => FnIs(apps', fns', fid, t)
    BY <1>2, KeptNames DEF Remembered
  <2>3. Erased(fns, who) => Erased(fns', who)
    BY <2>1 DEF Erased
  <2>4. Alone(who)' <=> Alone(who)
    BY <1>1 DEF Alone
  <2>5. fid \in FnIDs => fns'[fid].app = fns[fid].app /\ fns'[fid].by = fns[fid].by
    BY <2>1
  <2>6. pc = "updateFn" => fid \in FnIDs
    BY DEF Inv, WorkerOK, FnIs
  <2>7. QED
    BY <1>1, <2>2, <2>3, <2>4, <2>5, <2>6 DEF Inv, WorkerOK
<1>8. QED
  BY <1>3, <1>5, <1>6, <1>7 DEF Inv

LEMMA SyncInv ==
  ASSUME Inv, NEW f \in Functions, Sync(f)
  PROVE  Inv'
<1>1. /\ fcache' = [fcache EXCEPT ![f] = func[f]]
      /\ UNCHANGED <<func, apps, fns, pc, who, snap, moved, aid, fid, next, renamed, edits, mishaps>>
  BY DEF Sync, cloud, worker
<1>2. /\ fcache'[f] = func[f] /\ \A g \in Functions \ {f} : fcache'[g] = fcache[g]
      /\ fcache' \in [Functions -> Object] /\ who \in Functions
  BY <1>1 DEF Inv, TypeOK
<1>3. TypeOK'
  BY <1>1, <1>2 DEF Inv, TypeOK
<1>4. VersionsOK'
  BY <1>1, <1>2 DEF Inv, VersionsOK, Proposal
<1>5. \A g \in Functions : Past(fcache[g]) => Past(fcache'[g])
  BY <1>2 DEF Inv, OrderOK, Follows
<1>6. OrderOK'
  <2>1. \A g \in Functions : Follows(fcache'[g], func[g])
    BY <1>2 DEF Inv, OrderOK, Follows, Promised, Served
  <2>2. QED
    BY <1>1, <1>2, <1>5, <2>1 DEF Inv, OrderOK
<1>7. ErasedOK'
  BY <1>1, <1>5 DEF Inv, ErasedOK, ErasedFor, Alone
<1>8. CloudOK' /\ WorkerOK'
  BY <1>1 DEF Inv, CloudOK, WorkerOK, Alone
<1>9. QED
  BY <1>3, <1>4, <1>6, <1>7, <1>8 DEF Inv

LEMMA CrashInv ==
  ASSUME Inv, Crash
  PROVE  Inv'
<1>1. /\ Return /\ fcache' = func /\ UNCHANGED <<func, apps, fns, renamed, edits>>
      /\ UNCHANGED cloud /\ mishaps' \in Nat
  BY MishapType DEF Crash, cloud
<1>2. NamesStay
  BY <1>1 DEF NamesStay
<1>3. \A g \in Functions :
        /\ VersionOK(apps', fns', renamed', func'[g].spec, g, func'[g])
        /\ Follows(func[g], func[g])
        /\ Past(fcache[g]) => Past(func[g])
  BY <1>1 DEF Inv, VersionsOK, OrderOK, Follows, Promised, Served
<1>4. /\ func' \in [Functions -> Object] /\ fcache' \in [Functions -> Object]
      /\ renamed' \subseteq Functions /\ edits' \in Nat
  BY <1>1 DEF Inv, TypeOK
<1>5. \A g \in Functions :
        /\ VersionOK(apps', fns', renamed', func'[g].spec, g, func'[g])
        /\ VersionOK(apps', fns', renamed', func'[g].spec, g, fcache'[g])
        /\ Follows(fcache'[g], func'[g])
        /\ Past(fcache[g]) => Past(fcache'[g])
  BY <1>1, <1>3
<1>6. QED
  BY <1>1, <1>2, <1>4, <1>5, ReturnInv

\* A reconcile that will write a status w starts: w keeps what obj says, or is built anew.
LEMMA BeginWrites ==
  ASSUME Inv, NEW f \in Functions, StartFinalizer(f) \/ StartSettled(f) \/ StartRetain(f)
  PROVE  \E w \in Plan :
           /\ Start(f, "write", w)
           /\ VersionOK(apps, fns, renamed, func[f].spec, f,
                        [fcache[f] EXCEPT !.final = w.final, !.status = w.status])
           /\ Promised(fcache[f]) => w.final
           /\ Past(fcache[f]) /\ ~ w.final => ~ Deletes(fcache[f])
<1> DEFINE obj == fcache[f]
<1> DEFINE P(w) == [obj EXCEPT !.final = w.final, !.status = w.status]
<1>1. obj \in Object /\ VersionOK(apps, fns, renamed, func[f].spec, f, obj)
  BY DEF Inv, TypeOK, VersionsOK
<1>2. ASSUME NEW w, w.status = obj.status
      PROVE  VersionOK(apps, fns, renamed, func[f].spec, f, P(w))
  <2>1. P(w).spec = obj.spec /\ P(w).gen = obj.gen /\ P(w).status = obj.status
    BY <1>1, <1>2 DEF Object
  <2> HIDE DEF P
  <2>2. QED
    BY <1>1, <2>1, VersionSame
<1>3. ASSUME StartFinalizer(f) \/ StartRetain(f)
      PROVE  \E w \in Plan : /\ Start(f, "write", w) /\ w.status = obj.status
                             /\ Promised(obj) => w.final
                             /\ Past(obj) /\ ~ w.final => ~ Deletes(obj)
  <2>1. CASE StartFinalizer(f)
    <3>1. PICK w : w = [Keep(obj) EXCEPT !.final = WantsFinalizer(obj)]
      OBVIOUS
    <3>2. w \in Plan
      BY <1>1, <3>1, PlanMade, NothingType DEF WantsFinalizer, Managed
    <3>3. w.status = obj.status /\ w.final = WantsFinalizer(obj) /\ Start(f, "write", w) /\ ~ Past(obj)
      BY <2>1, <3>1 DEF StartFinalizer, Keep, Past, Served
    <3>4. QED
      BY <3>2, <3>3 DEF Promised
  <2>2. CASE StartRetain(f)
    <3>1. PICK w : w = [Keep(obj) EXCEPT !.final = FALSE]
      OBVIOUS
    <3>2. w \in Plan
      BY <1>1, <3>1, PlanMade, NothingType
    <3>3. w.status = obj.status /\ Start(f, "write", w) /\ BeingDeleted(obj) /\ ~ Deletes(obj)
      BY <2>2, <3>1 DEF StartRetain, Keep
    <3>4. QED
      BY <3>2, <3>3 DEF Promised, Served, BeingDeleted
  <2>3. QED
    BY <1>3, <2>1, <2>2
<1>4. CASE StartFinalizer(f) \/ StartRetain(f)
  <2>1. PICK w \in Plan : /\ Start(f, "write", w) /\ w.status = obj.status
                          /\ Promised(obj) => w.final
                          /\ Past(obj) /\ ~ w.final => ~ Deletes(obj)
    BY <1>3, <1>4
  <2>2. VersionOK(apps, fns, renamed, func[f].spec, f, P(w))
    BY <1>2, <2>1
  <2>3. QED
    BY <2>1, <2>2
<1>5. CASE StartSettled(f)
  <2>1. PICK ph \in {"Ready", "Error"}, x \in FnIDs \union {NoID} :
          /\ Start(f, "write", Built(obj, ph, x, NoID))
          /\ x = NoID \/ ~ Managed(obj.spec)
          /\ ph = "Ready" => obj.spec.kind = "existing" /\ x = obj.spec.id
    <3>1. obj.spec.id \in FnIDs \union {NoID}
      BY <1>1, ObjectFields DEF FnSpec
    <3>2. CASE Managed(obj.spec) \/ obj.spec.policy = "Delete"
      BY <1>5, <3>2 DEF StartSettled
    <3>3. CASE ~ Managed(obj.spec) /\ obj.spec.policy # "Delete"
      BY <1>5, <3>1, <3>3 DEF StartSettled, Managed
    <3>4. QED
      BY <3>2, <3>3
  <2>2. PICK w : w = Built(obj, ph, x, NoID)
    OBVIOUS
  <2>3. w \in Plan
    BY <1>1, <2>2, PlanMade, NothingType
  <2>4. PICK o : o = P(w)
    OBVIOUS
  <2>5. /\ o.spec = obj.spec /\ o.gen = obj.gen /\ o.status.observed = obj.gen
        /\ o.status.phase = ph /\ o.status.fid = x /\ o.status.aid = NoID
        /\ w.final = obj.final
    BY <1>1, <2>2, <2>4 DEF Built, Object
  <2>6. o.status.observed <= o.gen
    <3>1. o.status.observed = obj.gen /\ o.gen = obj.gen /\ obj.gen \in Nat
      BY <1>1, <2>5, ObjectFields
    <3>2. QED
      BY <3>1
  <2>7. ReadyOK(apps, fns, o)
    BY <2>1, <2>5 DEF ReadyOK
  <2>8. VersionOK(apps, fns, renamed, func[f].spec, f, o)
    BY <1>1, <2>1, <2>5, <2>6, <2>7 DEF VersionOK, IdsOK
  <2>9. ~ Past(obj)
    BY <1>5 DEF StartSettled, Past, Served
  <2>10. QED
    BY <2>1, <2>2, <2>3, <2>4, <2>5, <2>8, <2>9 DEF Promised
<1>6. QED
  BY <1>4, <1>5

\* What a reconcile finds when it starts.
LEMMA StartInv ==
  ASSUME Inv, NEW f \in Functions, NEW p \in PCs \ {"idle"}, NEW w \in Plan, Start(f, p, w),
         p = "write" =>
           /\ VersionOK(apps, fns, renamed, func[f].spec, f,
                        [fcache[f] EXCEPT !.final = w.final, !.status = w.status])
           /\ Promised(fcache[f]) => w.final
           /\ Past(fcache[f]) /\ ~ w.final => ~ Deletes(fcache[f]),
         p \in {"write", "findApp", "mark", "target"},
         p = "findApp" => /\ Served(fcache[f]) /\ fcache[f].spec.kind = "managed"
                          /\ fcache[f].final = WantsFinalizer(fcache[f]),
         p \in {"mark", "target"} => BeingDeleted(fcache[f]) /\ Deletes(fcache[f])
  PROVE  Inv'
<1>1. /\ pc' = p /\ who' = f /\ snap' = fcache[f] /\ moved' = (fcache[f] # func[f])
      /\ next' = w /\ UNCHANGED <<func, fcache, apps, fns, aid, fid, renamed, edits, mishaps>>
  BY DEF Start, keep, objects, cloud
<1>2. TypeOK'
  BY <1>1 DEF Inv, TypeOK
<1>3. VersionsOK'
  BY <1>1 DEF Inv, VersionsOK, Proposal
<1>4. CloudOK'
  BY <1>1 DEF Inv, CloudOK
<1>5. OrderOK'
  BY <1>1 DEF Inv, OrderOK, Follows
<1>6. WorkerOK'
  BY <1>1 DEF WorkerOK, EnsurePCs, DeletePCs
<1>7. ErasedOK'
  BY <1>1 DEF Inv, ErasedOK, ErasedFor, Alone
<1>8. QED
  BY <1>2, <1>3, <1>4, <1>5, <1>6, <1>7 DEF Inv

LEMMA BeginInv ==
  ASSUME Inv, NEW f \in Functions, Begin(f)
  PROVE  Inv'
<1>1. CASE StartFinalizer(f) \/ StartSettled(f) \/ StartRetain(f)
  <2>1. PICK w \in Plan :
          /\ Start(f, "write", w)
          /\ VersionOK(apps, fns, renamed, func[f].spec, f,
                       [fcache[f] EXCEPT !.final = w.final, !.status = w.status])
          /\ Promised(fcache[f]) => w.final
          /\ Past(fcache[f]) /\ ~ w.final => ~ Deletes(fcache[f])
    BY <1>1, BeginWrites
  <2>2. QED
    BY <2>1, StartInv DEF PCs
<1>2. CASE StartEnsure(f)
  <2>1. /\ Served(fcache[f]) /\ fcache[f].spec.kind = "managed"
        /\ fcache[f].final = WantsFinalizer(fcache[f]) /\ Start(f, "findApp", Nothing)
    BY <1>2 DEF StartEnsure
  <2>2. QED
    BY <2>1, NothingType, StartInv DEF PCs
<1>3. CASE StartDelete(f)
  <2>1. /\ BeingDeleted(fcache[f]) /\ Deletes(fcache[f])
        /\ Start(f, "mark", Nothing) \/ Start(f, "target", Nothing)
    BY <1>3 DEF StartDelete
  <2>2. QED
    BY <2>1, NothingType, StartInv DEF PCs
<1>4. QED
  BY <1>1, <1>2, <1>3 DEF Begin

LEMMA MarkInv ==
  ASSUME Inv, Mark
  PROVE  Inv'
<1>1. PICK obj : /\ obj = [func[who] EXCEPT !.status = Marked(snap)]
                 /\ Publish(who, obj) /\ snap' = obj
  BY DEF Mark
<1>2. /\ fcache[who] = func[who] /\ func' = [func EXCEPT ![who] = obj] /\ UNCHANGED fcache
      /\ pc = "mark" /\ ~ moved /\ pc' = "target"
      /\ UNCHANGED <<who, moved, aid, fid, next, apps, fns, renamed, edits, mishaps>>
  BY <1>1 DEF Mark, Publish, cloud
<1>3. /\ func[who] = snap /\ snap \in Object /\ who \in Functions
      /\ BeingDeleted(snap) /\ Deletes(snap)
      /\ VersionOK(apps, fns, renamed, func[who].spec, who, snap)
  BY <1>2 DEF Inv, OrderOK, TypeOK, WorkerOK, DeletePCs, VersionsOK
<1>4. obj \in Object
  BY <1>1, <1>3, ObjectMade, PlanMade, ConstantsOK, NothingType
<1>5. /\ obj.spec = snap.spec /\ obj.gen = snap.gen /\ obj.stored = snap.stored
      /\ obj.deleting = snap.deleting /\ obj.final = snap.final
      /\ obj.status.phase = "Deleting" /\ obj.status.observed = snap.gen
      /\ obj.status.fid = snap.status.fid /\ obj.status.aid = snap.status.aid
  BY <1>1, <1>3 DEF Object, Marked, Status
<1>6. VersionOK(apps, fns, renamed, obj.spec, who, obj)
  <2>1. obj.status.observed <= obj.gen
    <3>1. snap.gen \in Nat /\ obj.status.observed = snap.gen /\ obj.gen = snap.gen
      BY <1>3, <1>5, ObjectFields
    <3>2. QED
      BY <3>1
  <2>2. ReadyOK(apps, fns, obj)
    BY <1>5 DEF ReadyOK
  <2>3. QED
    BY <1>3, <1>5, <2>1, <2>2 DEF VersionOK, IdsOK
<1>7. Follows(fcache[who], obj)
  BY <1>2, <1>3, <1>5 DEF Follows, Past, BeingDeleted, Promised, Served
<1>8. UNCHANGED cloud
  BY <1>2 DEF cloud
<1>9. /\ func' \in [Functions -> Object] /\ NamesStay
      /\ \A g \in Functions :
           /\ VersionOK(apps', fns', renamed', func'[g].spec, g, func'[g])
           /\ VersionOK(apps', fns', renamed', func'[g].spec, g, fcache'[g])
           /\ Follows(fcache'[g], func'[g])
  BY <1>2, <1>3, <1>4, <1>5, <1>6, <1>7, <1>8, StoreOK
<1>10. /\ CloudOK' /\ \A g \in Functions : Alone(g)' => Alone(g)
  BY <1>8, <1>9, StayOK
<1>11. func'[who] = obj
  BY <1>2, <1>3 DEF Inv, TypeOK
<1>12. TypeOK'
  BY <1>1, <1>2, <1>4, <1>9 DEF Inv, TypeOK, PCs
<1>13. VersionsOK'
  BY <1>1, <1>2, <1>3, <1>9, <1>11 DEF VersionsOK
<1>14. Past(obj) /\ Past(snap) /\ ~ Promised(obj)
  BY <1>3, <1>5 DEF Past, BeingDeleted, Promised, Served
<1>15. OrderOK'
  BY <1>1, <1>2, <1>3, <1>9, <1>11, <1>14 DEF OrderOK
<1>16. WorkerOK'
  BY <1>1, <1>2, <1>3, <1>5 DEF WorkerOK, EnsurePCs, DeletePCs, BeingDeleted, Deletes
<1>17. ErasedOK'
  BY <1>1, <1>2, <1>10, <1>14 DEF Inv, ErasedOK, ErasedFor
<1>18. QED
  BY <1>10, <1>12, <1>13, <1>15, <1>16, <1>17 DEF Inv

LEMMA WriteInv ==
  ASSUME Inv, Write
  PROVE  Inv'
<1>1. /\ pc = "write" /\ Return /\ UNCHANGED cloud /\ UNCHANGED <<renamed, edits, mishaps>>
      /\ who \in Functions /\ renamed' \subseteq Functions /\ edits' \in Nat /\ mishaps' \in Nat
  BY DEF Write, Inv, TypeOK
<1>2. CASE UNCHANGED objects
  <2>1. UNCHANGED <<func, fcache>> /\ NamesStay
    BY <1>1, <1>2 DEF objects, NamesStay
  <2>2. \A g \in Functions :
          /\ VersionOK(apps', fns', renamed', func'[g].spec, g, func'[g])
          /\ VersionOK(apps', fns', renamed', func'[g].spec, g, fcache'[g])
          /\ Follows(fcache'[g], func'[g])
          /\ Past(fcache[g]) => Past(fcache'[g])
    BY <1>1, <2>1 DEF Inv, VersionsOK, OrderOK, cloud
  <2>3. func' \in [Functions -> Object] /\ fcache' \in [Functions -> Object]
    BY <2>1 DEF Inv, TypeOK
  <2>4. QED
    BY <1>1, <2>1, <2>2, <2>3, ReturnInv
<1>3. CASE ~ UNCHANGED objects
  <2>1. PICK obj : /\ obj = IF func[who].deleting /\ ~ next.final THEN Gone(func[who])
                            ELSE [func[who] EXCEPT !.final = next.final, !.status = next.status]
                   /\ Publish(who, obj)
    BY <1>3 DEF Write
  <2>2. /\ fcache[who] = func[who] /\ func' = [func EXCEPT ![who] = obj] /\ UNCHANGED fcache
        /\ func[who] = snap /\ snap \in Object
        /\ VersionOK(apps, fns, renamed, snap.spec, who, Proposal)
        /\ VersionOK(apps, fns, renamed, snap.spec, who, snap)
        /\ Promised(snap) => next.final
        /\ snap.deleting => snap.stored
        /\ next.final \in BOOLEAN /\ next.status \in Status
    BY <1>1, <1>3, <2>1, ProposalType DEF Write, Publish, Inv, OrderOK, Follows, TypeOK, VersionsOK,
          WorkerOK
  <2>3. /\ obj \in Object /\ obj.spec = snap.spec
        /\ VersionOK(apps, fns, renamed, obj.spec, who, obj) /\ Follows(fcache[who], obj)
    <3>1. CASE snap.deleting /\ ~ next.final
      <4>1. obj = Gone(snap)
        BY <2>1, <2>2, <3>1
      <4>2. obj \in Object
        BY <2>2, <4>1, ObjectMade, ConstantsOK, NothingType
      <4>3. obj.spec = snap.spec /\ Past(obj) /\ ~ obj.deleting /\ VersionOK(apps, fns, renamed, obj.spec, who, obj)
        BY <4>1, VersionGone
      <4>4. ~ Promised(snap)
        BY <3>1 DEF Promised, Served
      <4>5. QED
        BY <2>2, <4>2, <4>3, <4>4 DEF Follows
    <3>2. CASE ~ (snap.deleting /\ ~ next.final)
      <4>1. obj = Proposal
        BY <2>1, <2>2, <3>2 DEF Proposal
      <4>2. obj \in Object
        BY <4>1, ProposalType
      <4>3. /\ obj.spec = snap.spec /\ obj.stored = snap.stored
            /\ obj.deleting = snap.deleting /\ obj.final = next.final
        BY <2>2, <4>1 DEF Proposal, Object
      <4>4. QED
        BY <2>2, <4>1, <4>2, <4>3 DEF Follows, Past, Promised, Served
    <3>3. QED
      BY <3>1, <3>2
  <2>4. /\ func' \in [Functions -> Object] /\ NamesStay
        /\ \A g \in Functions :
             /\ VersionOK(apps', fns', renamed', func'[g].spec, g, func'[g])
             /\ VersionOK(apps', fns', renamed', func'[g].spec, g, fcache'[g])
             /\ Follows(fcache'[g], func'[g])
    BY <1>1, <2>2, <2>3, StoreOK
  <2>5. fcache' \in [Functions -> Object]
    BY <2>2 DEF Inv, TypeOK
  <2>6. QED
    BY <1>1, <2>2, <2>4, <2>5, ReturnInv
<1>4. QED
  BY <1>2, <1>3

LEMMA WriteRefusedInv ==
  ASSUME Inv, WriteRefused
  PROVE  Inv'
<1>1. Return /\ UNCHANGED cloud /\ UNCHANGED <<func, fcache, renamed, edits, mishaps>> /\ NamesStay
  BY DEF WriteRefused, keep, objects, NamesStay
<1>2. \A g \in Functions :
        /\ VersionOK(apps', fns', renamed', func'[g].spec, g, func'[g])
        /\ VersionOK(apps', fns', renamed', func'[g].spec, g, fcache'[g])
        /\ Follows(fcache'[g], func'[g])
        /\ Past(fcache[g]) => Past(fcache'[g])
  BY <1>1 DEF Inv, VersionsOK, OrderOK, cloud
<1>3. /\ func' \in [Functions -> Object] /\ fcache' \in [Functions -> Object]
      /\ renamed' \subseteq Functions /\ edits' \in Nat /\ mishaps' \in Nat
  BY <1>1 DEF Inv, TypeOK
<1>4. QED
  BY <1>1, <1>2, <1>3, ReturnInv

LEMMA StutterInv ==
  ASSUME Inv, UNCHANGED vars
  PROVE  Inv'
BY DEF vars, Inv, TypeOK, VersionsOK, Proposal, CloudOK, OrderOK, WorkerOK, ErasedOK, ErasedFor, Alone
-----------------------------------------------------------------------------
(* The invariant, and what follows.                                        *)

LEMMA InitInv == Init => Inv
<1> SUFFICES ASSUME Init PROVE Inv
  OBVIOUS
<1>1. /\ pc = "idle" /\ who = SomeFunction /\ snap = NoObject /\ moved = FALSE
      /\ aid = NoID /\ fid = NoID /\ next = Nothing /\ renamed = {} /\ edits = 0 /\ mishaps = 0
      /\ fcache = func
  BY DEF Init
<1>2. ASSUME NEW f \in Functions
      PROVE  /\ func[f] \in Object /\ func[f].status = NoStatus /\ func[f].gen = 1
             /\ func[f].stored /\ ~ func[f].deleting /\ ~ func[f].final
  <2>1. PICK s \in UNION {Specs[g] : g \in Functions} :
          func[f] = [NoObject EXCEPT !.stored = TRUE, !.gen = 1, !.spec = s]
    BY <1>2 DEF Init
  <2>2. s \in FnSpec
    BY ConstantsOK
  <2>3. NoObject \in Object /\ NoObject.status = NoStatus /\ ~ NoObject.deleting /\ ~ NoObject.final
    BY NothingType DEF NoObject
  <2>4. [NoObject EXCEPT !.stored = TRUE, !.gen = 1, !.spec = s] \in Object
    <3>1. 1 \in Nat
      OBVIOUS
    <3>2. QED
      BY <2>2, <2>3, <3>1 DEF Object
  <2>5. QED
    BY <2>1, <2>3, <2>4 DEF NoObject
<1>3. func \in [Functions -> Object]
  <2>1. func = [f \in Functions |-> func[f]]
    BY DEF Init
  <2>2. QED
    BY <1>2, <2>1
<1>4. SomeSpec \in FnSpec
  BY ConstantsOK
<1>5. apps \in [AppIDs -> OCIApplication] /\ \A a \in AppIDs : apps[a].state \notin Newborn
  BY <1>4 DEF Init, OCIApplication, FnSpec, Newborn
<1>6. /\ fns \in [FnIDs -> OCIFunction]
      /\ \A x \in FnIDs : fns[x].app = NoID /\ fns[x].by = {}
  BY <1>4 DEF Init, OCIFunction, FnSpec, States, Newborn
<1>7. TypeOK
  BY <1>1, <1>3, <1>5, <1>6, ConstantsOK, NothingType DEF TypeOK, PCs
<1>8. ASSUME NEW f \in Functions
      PROVE  VersionOK(apps, fns, renamed, func[f].spec, f, func[f])
  <2>1. /\ func[f].status.phase = "" /\ func[f].status.observed = 0 /\ func[f].status.fid = NoID
        /\ func[f].status.aid = NoID
    <3>1. func[f].status = NoStatus
      BY <1>2, <1>8
    <3>2. /\ NoStatus.phase = "" /\ NoStatus.observed = 0 /\ NoStatus.fid = NoID
          /\ NoStatus.aid = NoID
      BY DEF NoStatus
    <3>3. QED
      BY <3>1, <3>2
  <2>2. func[f].status.observed <= func[f].gen
    <3>1. func[f].status.observed = 0 /\ func[f].gen = 1
      BY <1>2, <1>8, <2>1
    <3>2. QED
      BY <3>1
  <2>3. QED
    BY <2>1, <2>2 DEF VersionOK, ReadyOK, IdsOK
<1>9. VersionsOK
  BY <1>1, <1>8 DEF VersionsOK
<1>10. CloudOK
  BY <1>5, <1>6, NothingType DEF CloudOK, Unique, Owned
<1>11. OrderOK
  BY <1>1, <1>2 DEF OrderOK, Follows, Promised, Past
<1>12. WorkerOK
  BY <1>1 DEF WorkerOK, EnsurePCs, DeletePCs
<1>13. ErasedOK
  BY <1>6 DEF ErasedOK, ErasedFor
<1>14. QED
  BY <1>7, <1>9, <1>10, <1>11, <1>12, <1>13 DEF Inv

LEMMA NextInv == Inv /\ [Next]_vars => Inv'
<1> SUFFICES ASSUME Inv, [Next]_vars PROVE Inv'
  OBVIOUS
<1>1. CASE \E f \in Functions : EditFunction(f) \/ DeleteObject(f)
  BY <1>1, EditInv, DeleteInv
<1>2. CASE Crash \/ Activate
  BY <1>2, CrashInv, ActivateInv
<1>3. CASE \E f \in Functions : Sync(f) \/ Begin(f)
  BY <1>3, SyncInv, BeginInv
<1>4. CASE Continue
  BY <1>4, MoveStep, MoveInv, MarkInv, WriteInv, WriteRefusedInv
<1>5. CASE UNCHANGED vars
  BY <1>5, StutterInv
<1>6. QED
  BY <1>1, <1>2, <1>3, <1>4, <1>5 DEF Next, Environment

\* The inductive invariant holds in every state.
THEOREM Invariance == Spec => []Inv
<1>1. QED
  BY InitInv, NextInv, PTL DEF Spec

\* A Function that is Ready points at the OCI function of its spec.
THEOREM ReadyIsRight == Spec => []ReadyNamesItsFunction
<1>1. Inv => ReadyNamesItsFunction
  <2> SUFFICES ASSUME Inv, NEW f \in Functions,
                      func[f].status.phase = "Ready", func[f].status.observed = func[f].gen
               PROVE  IF func[f].spec.kind = "existing" THEN func[f].status.fid = func[f].spec.id
                      ELSE FnIs(apps, fns, func[f].status.fid, func[f].spec)
    BY DEF ReadyNamesItsFunction, FnIs, AppIs
  <2>1. ReadyOK(apps, fns, func[f])
    BY DEF Inv, VersionsOK, VersionOK
  <2>2. QED
    BY <2>1 DEF ReadyOK
<1>2. QED
  BY <1>1, Invariance, PTL

\* Which steps begin or end the life of an OCI function.
LEMMA FnsStep ==
  ASSUME Inv, Next
  PROVE  \/ \A x \in FnIDs : fns'[x].state \in Newborn <=> fns[x].state \in Newborn
         \/ pc = "createFn" /\ \E x \in FnIDs, st \in Newborn : MakeFn(x, st)
         \/ pc = "erase" /\ EraseFn
<1>1. CASE Environment \/ \E f \in Functions : Sync(f) \/ Begin(f)
  <2>1. UNCHANGED fns
    BY <1>1 DEF Environment, EditFunction, DeleteObject, Touch, Crash, Sync, Begin, Start,
                StartFinalizer, StartSettled, StartEnsure, StartRetain, StartDelete, cloud
  <2>2. QED
    BY <2>1
<1>2. CASE Activate
  BY <1>2 DEF Activate, Inv, TypeOK, OCIFunction, Newborn
<1>3. CASE FindFn
  <2>1. fns' = fns \/ \E x \in FnIDs : fns' = [fns EXCEPT ![x].by = @ \union {who}]
    BY <1>3 DEF FindFn, Candidates, FnsNamed
  <2>2. QED
    BY <2>1 DEF Inv, TypeOK, OCIFunction
<1>4. CASE CreateFn \/ CreateFnFails
  BY <1>4 DEF CreateFn, CreateFnFails, cloud
<1>5. CASE UpdateFn \/ UpdateFnFails
  <2>1. fns' = fns \/ (ChangeFn /\ fid \in FnIDs)
    BY <1>5 DEF UpdateFn, UpdateFnFails, LiveFn, cloud
  <2>2. QED
    BY <2>1, ChangeFnFine
<1>6. CASE Erase \/ DeletionFails
  BY <1>6 DEF Erase, DeletionFails, cloud
<1>7. CASE FindApp \/ FindAppFails \/ CreateApp \/ CreateAppFails \/ UpdateApp \/ UpdateAppFails
  <2>1. UNCHANGED fns
    BY <1>7 DEF FindApp, FindAppFails, CreateApp, CreateAppFails, UpdateApp, UpdateAppFails,
                MakeApp, ChangeApp, cloud
  <2>2. QED
    BY <2>1
<1>8. CASE FindFnFails \/ Mark \/ Target \/ TargetUnknown \/ ResolveApp \/ ResolveFn \/ Write
           \/ WriteRefused
  <2>1. UNCHANGED fns
    BY <1>8 DEF FindFnFails, Mark, Target, TargetUnknown, ResolveApp, ResolveFn, Write,
                WriteRefused, cloud
  <2>2. QED
    BY <2>1
<1>9. QED
  BY <1>1, <1>2, <1>3, <1>4, <1>5, <1>6, <1>7, <1>8 DEF Next, Continue

\* An OCI function with policy Delete is created under a finalizer that is stored.
THEOREM FinalizerFirst == Spec => CreatedUnderFinalizer
<1>1. Inv /\ [Next]_vars =>
        [\A x \in FnIDs : ~ LiveFn(x) /\ LiveFn(x)' /\ snap.spec.policy = "Delete" =>
           func[who].stored /\ func[who].final]_vars
  <2>1. SUFFICES ASSUME Inv, Next, NEW x \in FnIDs, fns[x].state \notin Newborn,
                        fns'[x].state \in Newborn, snap.spec.policy = "Delete"
                 PROVE  func[who].stored /\ func[who].final
    BY DEF LiveFn
  <2>2. pc = "createFn"
    <3>1. ASSUME pc = "erase", EraseFn
          PROVE  FALSE
      <4>1. fns' = fns \/ fns' = [fns EXCEPT ![fid].state = "deleted"]
        BY <3>1 DEF EraseFn
      <4>2. QED
        BY <2>1, <4>1 DEF Inv, TypeOK, OCIFunction, Newborn
    <3>2. QED
      BY <2>1, <3>1, FnsStep
  <2>3. Promised(snap)
    BY <2>1, <2>2 DEF Inv, WorkerOK, EnsurePCs, Promised, WantsFinalizer, Managed
  <2>4. QED
    BY <2>1, <2>2, <2>3 DEF Inv, OrderOK
<1>2. QED
  BY <1>1, Invariance, PTL DEF Spec, CreatedUnderFinalizer

\* The operator deletes an OCI function only for a Function that has managed it.
THEOREM OnlyOwnDeleted == Spec => DeletesOnlyOwn
<1>1. Inv /\ [Next]_vars =>
        [\A x \in FnIDs : LiveFn(x) /\ ~ LiveFn(x)' /\ Alone(who) => who \in fns[x].by]_vars
  <2>1. SUFFICES ASSUME Inv, Next, NEW x \in FnIDs, fns[x].state \in Newborn,
                        fns'[x].state \notin Newborn, Alone(who)
                 PROVE  who \in fns[x].by
    BY DEF LiveFn
  <2>2. ASSUME NEW y \in FnIDs, NEW st \in Newborn, pc = "createFn", MakeFn(y, st)
        PROVE  FALSE
    <3>1. /\ ~ LiveFn(y)
          /\ fns' = [fns EXCEPT ![y] = [state |-> st, app |-> aid, name |-> snap.spec.name,
                                        image |-> snap.spec.image, by |-> {who}]]
      BY <2>2 DEF MakeFn, Fresh
    <3>2. QED
      BY <2>1, <3>1 DEF Inv, TypeOK, LiveFn
  <2>3. pc = "erase" /\ EraseFn
    BY <2>1, <2>2, FnsStep
  <2>4. x = fid
    <3>1. fns' = fns \/ fns' = [fns EXCEPT ![fid].state = "deleted"]
      BY <2>3 DEF EraseFn
    <3>2. QED
      BY <2>1, <3>1 DEF Inv, TypeOK
  <2>5. QED
    BY <2>1, <2>3, <2>4, EraserOwns
<1>2. QED
  BY <1>1, Invariance, PTL DEF Spec, DeletesOnlyOwn

\* Which steps store a version of f.
LEMMA FuncStep ==
  ASSUME Inv, Next, NEW f \in Functions, func'[f] # func[f]
  PROVE  EditFunction(f) \/ DeleteObject(f) \/ (f = who /\ (Mark \/ Write))
<1>1. ASSUME NEW g \in Functions, EditFunction(g) \/ DeleteObject(g)
      PROVE  EditFunction(f) \/ DeleteObject(f)
  <2>1. \E obj : func' = [func EXCEPT ![g] = obj]
    BY <1>1 DEF EditFunction, DeleteObject, Touch, Publish
  <2>2. f = g
    BY <2>1 DEF Inv, TypeOK
  <2>3. QED
    BY <1>1, <2>2
<1>2. ASSUME Mark \/ Write
      PROVE  f = who
  <2>1. \E obj : func' = [func EXCEPT ![who] = obj]
    BY <1>2 DEF Mark, Write, Publish, objects
  <2>2. QED
    BY <2>1 DEF Inv, TypeOK
<1>3. ASSUME Crash \/ Activate \/ (\E g \in Functions : Sync(g) \/ Begin(g)) \/ WriteRefused
      PROVE  FALSE
  BY <1>3 DEF Crash, Activate, Sync, Begin, Start, StartFinalizer, StartSettled, StartEnsure,
              StartRetain, StartDelete, WriteRefused, keep, objects
<1>4. ASSUME Continue, ~ Mark, ~ Write, ~ WriteRefused
      PROVE  FALSE
  BY <1>4, MoveStep DEF MoveOK, Rest
<1>5. QED
  BY <1>1, <1>2, <1>3, <1>4 DEF Next, Environment

\* A Function whose deletion waits for the finalizer takes all it has made with it.
THEOREM AllGone == Spec => GoneWithObject
<1>1. Inv /\ [Next]_vars =>
        [\A f \in Functions :
           func[f].deleting /\ ~ func'[f].stored /\ MeansDelete(func[f]) /\ Alone(f) =>
             \A x \in FnIDs : f \in fns[x].by => ~ LiveFn(x)]_vars
  <2>1. SUFFICES ASSUME Inv, Next, NEW f \in Functions, func[f].deleting, ~ func'[f].stored,
                        MeansDelete(func[f]), Alone(f)
                 PROVE  Erased(fns, f)
    BY DEF Erased, LiveFn
  <2>2. func[f].stored /\ func[f] \in Object
    BY <2>1 DEF Inv, OrderOK, Follows, TypeOK
  <2>3. EditFunction(f) \/ (f = who /\ (Mark \/ Write))
    BY <2>1, <2>2, FuncStep DEF DeleteObject
  <2>4. ASSUME EditFunction(f) PROVE FALSE
    <3>1. \E s : func' = [func EXCEPT ![f] = [func[f] EXCEPT !.spec = s, !.gen = @ + 1]]
      BY <2>4 DEF EditFunction, Touch, Publish
    <3>2. QED
      BY <2>1, <2>2, <3>1 DEF Inv, TypeOK, Object
  <2>5. ASSUME f = who, Mark PROVE FALSE
    <3>1. func' = [func EXCEPT ![f] = [func[f] EXCEPT !.status = Marked(snap)]]
      BY <2>5 DEF Mark, Publish
    <3>2. QED
      BY <2>1, <2>2, <3>1 DEF Inv, TypeOK, Object
  <2>6. ASSUME f = who, Write PROVE Erased(fns, f)
    <3>1. ~ UNCHANGED objects
      BY <2>1, <2>2 DEF objects
    <3>2. /\ pc = "write" /\ ~ moved
          /\ func' = [func EXCEPT ![f] =
                        IF func[f].deleting /\ ~ next.final THEN Gone(func[f])
                        ELSE [func[f] EXCEPT !.final = next.final, !.status = next.status]]
      BY <2>6, <3>1 DEF Write, Publish
    <3>3. ~ next.final
      BY <2>1, <2>2, <3>2 DEF Inv, TypeOK, Object
    <3>4. func[f] = snap
      <4>1. pc # "idle" /\ ~ moved
        BY <3>2
      <4>2. QED
        BY <2>1, <2>6, <4>1 DEF Inv, OrderOK
    <3>5. Past(snap) /\ Deletes(snap)
      BY <2>1, <3>4 DEF Past, Deletes, MeansDelete, Managed
    <3>6. QED
      BY <2>1, <2>6, <3>2, <3>3, <3>5 DEF Inv, WorkerOK
  <2>7. QED
    BY <2>3, <2>4, <2>5, <2>6
<1>2. QED
  BY <1>1, Invariance, PTL DEF Spec, GoneWithObject
=============================================================================
