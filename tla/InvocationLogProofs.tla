------------------------ MODULE InvocationLogProofs ------------------------
(***************************************************************************)
(* Proofs about InvocationLog, for every value of its constants.           *)
(*                                                                         *)
(* What an object that is Ready claims has to survive all that happens to  *)
(* the application and its logs until the object changes; what the worker  *)
(* has learnt from one call has to be true still when it makes the next.   *)
(* The operators that say so take what OCI holds as parameters, so that    *)
(* one lemma carries a claim from a state to the next.                     *)
(***************************************************************************)
EXTENDS InvocationLog, TLAPS, FiniteSetTheorems

LogPCs == {"findLog", "createLog", "updateLog"}
PCs    == {"idle", "write", "findApp", "createApp", "updateApp", "erase"} \union LogPCs
Fields == {"name", "on"}
Plan   == [final : BOOLEAN, status : Status]

TypeOK ==
  /\ obj \in [Objects -> Object] /\ cache \in [Objects -> Object]
  /\ apps \in [AppIDs -> OCIApplication] /\ logs \in [LogIDs -> OCILog]
  /\ pc \in PCs /\ who \in Objects /\ snap \in Object /\ moved \in BOOLEAN
  /\ next \in Plan /\ lid \in LogIDs \union {NoID} /\ fix \subseteq Fields
  /\ meddling \in Nat

\* Among the applications ap, a is the one of spec s.
AppOf(ap, s, a) ==
  /\ a \in AppIDs /\ ap[a].state # "unborn"
  /\ s.id # NoID => a = s.id
  /\ s.id = NoID \/ s.mode = "Managed" => ap[a].name = s.name

\* Log l of lg is one of application a in the group of s.
LogIs(lg, l, s, a) ==
  lg[l].state # "unborn" /\ lg[l].source = a /\ lg[l].group = s.logging.group

HasLog(lg, s, a) ==
  \E l \in LogIDs : LogIs(lg, l, s, a) /\ lg[l].name = s.logging.name /\ lg[l].on

\* With m times meddled, nobody stands in the way of logs.
Quiet(m) == m = 0 /\ NoRivals

\* Status st claims, of version g of a spec s, what is true.
Says(ap, lg, m, s, g, st) ==
  st.phase = "Ready" /\ st.observed = g /\ s.logging.on =>
    AppOf(ap, s, st.aid) /\ (Quiet(m) => HasLog(lg, s, st.aid))

ReadyVersion(o) == o.status.phase = "Ready" /\ o.status.observed = o.gen

SpecsOK ==
  /\ \A o \in Objects : obj[o].spec \in Specs[o] /\ cache[o].spec \in Specs[o]
  /\ pc # "idle" => snap.spec \in Specs[who]

\* What the objects claim.
ClaimsOK(ap, lg, m) ==
  \A o \in Objects : /\ obj[o].status.observed <= obj[o].gen
                     /\ Says(ap, lg, m, obj[o].spec, obj[o].gen, obj[o].status)

\* Who reads an old version of an object that is Ready reads its spec all the same.
ReadsOK ==
  /\ \A o \in Objects : ReadyVersion(obj[o]) => cache[o].spec = obj[o].spec
  /\ pc # "idle" => /\ ~ moved => obj[who] = snap
                    /\ ReadyVersion(obj[who]) => snap.spec = obj[who].spec

\* The applications of the users are never forgotten.
UsersOK(ap) ==
  \A a \in DOMAIN UserApps : ap[a].state # "unborn" /\ ap[a].name = UserApps[a].name

NoneLive(lg, a, g) ==
  \A l \in LogIDs : lg[l].source = a /\ lg[l].group = g => lg[l].state \in {"unborn", "deleted"}

\* What the worker relies on.
WorkerOK(ap, lg, m) ==
  /\ pc \in LogPCs \union {"updateApp"} =>
       AppOf(ap, snap.spec, Aid) /\ next.status.observed = snap.gen
  /\ pc = "updateApp" => next.status.phase = "Error"
  /\ pc = "createApp" => snap.spec.id = NoID
  /\ pc \in LogPCs => Wants.on
  /\ pc = "createLog" => NoneLive(lg, Aid, Wants.group)
  /\ pc = "updateLog" => /\ lid \in LogIDs /\ LogIs(lg, lid, snap.spec, Aid)
                         /\ "name" \notin fix => lg[lid].name = Wants.name
                         /\ "on" \notin fix /\ Quiet(m) => lg[lid].on
  /\ pc = "erase" => next.status = snap.status
  /\ pc = "write" /\ ~ moved => /\ next.status.observed <= snap.gen
                                /\ Says(ap, lg, m, snap.spec, snap.gen, next.status)

Inv == /\ TypeOK /\ SpecsOK /\ ReadsOK /\ UsersOK(apps)
       /\ ClaimsOK(apps, logs, meddling) /\ WorkerOK(apps, logs, meddling)
-----------------------------------------------------------------------------
(* Types.                                                                  *)

LEMMA ConstantsOK ==
  /\ SomeObject \in Objects /\ SomeSpec \in Specs[SomeObject] /\ SomeSpec \in AppSpec
  /\ \A o \in Objects : Specs[o] \subseteq AppSpec
  /\ DOMAIN UserApps \subseteq AppIDs
  /\ \A a \in DOMAIN UserApps : UserApps[a] \in OCIApplication /\ UserApps[a].state # "unborn"
  /\ \A l \in DOMAIN UserLogs : UserLogs[l] \in OCILog
  /\ NoID \notin AppIDs /\ NoID \notin LogIDs
<1>1. SomeObject \in Objects
  BY LogAssumption DEF SomeObject
<1>2. \A o \in Objects : Specs[o] \subseteq AppSpec
  BY LogAssumption
<1>3. SomeSpec \in Specs[SomeObject]
  BY <1>1, LogAssumption DEF SomeSpec
<1>4. PICK S \in SUBSET AppIDs : UserApps \in [S -> OCIApplication]
  BY LogAssumption
<1>5. PICK T \in SUBSET LogIDs : UserLogs \in [T -> OCILog]
  BY LogAssumption
<1>6. NoID \notin AppIDs /\ NoID \notin LogIDs
  BY DEF NoID, AppIDs, LogIDs
<1>7. \A a \in DOMAIN UserApps : UserApps[a].state # "unborn"
  BY LogAssumption
<1>8. QED
  BY <1>1, <1>2, <1>3, <1>4, <1>5, <1>6, <1>7

LEMMA ObjectFields ==
  ASSUME NEW o \in Object
  PROVE  /\ o.stored \in BOOLEAN /\ o.deleting \in BOOLEAN /\ o.final \in BOOLEAN
         /\ o.gen \in Nat /\ o.spec \in AppSpec /\ o.status \in Status
         /\ o.status.observed \in Nat /\ o.status.aid \in AppIDs \union {NoID}
BY DEF Object, Status

LEMMA SpecFields ==
  ASSUME NEW s \in AppSpec
  PROVE  /\ s.name \in AppNames /\ s.id \in AppIDs \union {NoID}
         /\ s.net \in Nets \union {Unmanaged} /\ s.conf \in Confs \union {Unmanaged}
         /\ s.logging.on \in BOOLEAN /\ s.logging.group \in Groups
         /\ s.logging.name \in LogNames /\ s.logging.line \in Lines
BY DEF AppSpec, Logging

LEMMA NothingType ==
  NoStatus \in Status /\ Nothing \in Plan /\ NoObject \in Object
<1>1. NoStatus \in Status
  BY DEF NoStatus, Status
<1>2. Nothing \in Plan
  BY <1>1 DEF Nothing, Plan
<1>3. NoObject \in Object
  BY <1>1, ConstantsOK DEF NoObject, Object
<1>4. QED
  BY <1>1, <1>2, <1>3

\* The versions the actions make of a version.
LEMMA ObjectMade ==
  ASSUME NEW o \in Object, NEW s \in AppSpec, NEW st \in Status, NEW fin \in BOOLEAN
  PROVE  /\ [o EXCEPT !.spec = s, !.gen = @ + 1] \in Object
         /\ [o EXCEPT !.deleting = TRUE] \in Object
         /\ Gone(o) \in Object /\ NewObject(s) \in Object
         /\ [o EXCEPT !.final = fin, !.status = st] \in Object
<1>1. Gone(o) \in Object /\ NewObject(s) \in Object
  BY NothingType DEF Gone, NewObject, Object
<1>2. [o EXCEPT !.spec = s, !.gen = @ + 1] \in Object
  <2>1. PICK n \in Nat : n = o.gen + 1
    BY ObjectFields
  <2>2. [o EXCEPT !.spec = s, !.gen = n] \in Object
    BY DEF Object
  <2>3. QED
    BY <2>1, <2>2
<1>3. /\ [o EXCEPT !.deleting = TRUE] \in Object
      /\ [o EXCEPT !.final = fin, !.status = st] \in Object
  BY DEF Object
<1>4. QED
  BY <1>1, <1>2, <1>3

\* The writes a reconcile ends with.
LEMMA PlanMade ==
  ASSUME NEW o \in Object, NEW a \in AppIDs \union {NoID}, NEW fin \in BOOLEAN
  PROVE  /\ Built(o, "Ready", a) \in Plan /\ Built(o, "Pending", a) \in Plan
         /\ Built(o, "Error", a) \in Plan
         /\ [final |-> fin, status |-> o.status] \in Plan
         /\ Undeleted(o) \in Plan
<1>1. o.gen \in Nat /\ o.final \in BOOLEAN /\ o.status \in Status
  BY ObjectFields
<1>2. /\ Built(o, "Ready", a) \in Plan /\ Built(o, "Pending", a) \in Plan
      /\ Built(o, "Error", a) \in Plan
  BY <1>1 DEF Built, Plan, Status
<1>3. [o.status EXCEPT !.phase = "Error", !.observed = o.gen] \in Status
  BY <1>1 DEF Status
<1>4. QED
  BY <1>1, <1>2, <1>3 DEF Plan, Undeleted
-----------------------------------------------------------------------------
(* What OCI holds changes.                                                 *)

\* Names are kept, and switches while nobody meddles.
Tame(ap, lg, m, ap2, lg2, m2) ==
  /\ \A a \in AppIDs :
       ap[a].state # "unborn" => ap2[a].state # "unborn" /\ ap2[a].name = ap[a].name
  /\ \A l \in LogIDs :
       lg[l].state # "unborn" => /\ lg2[l].state # "unborn" /\ lg2[l].source = lg[l].source
                                 /\ lg2[l].group = lg[l].group /\ lg2[l].name = lg[l].name
                                 /\ m2 = 0 => lg2[l].on = lg[l].on
  /\ m2 = 0 => m = 0

\* No log comes to life.
NoBirth(lg, lg2) ==
  \A l \in LogIDs :
    lg2[l].state \notin {"unborn", "deleted"} =>
      /\ lg[l].state \notin {"unborn", "deleted"}
      /\ lg2[l].source = lg[l].source /\ lg2[l].group = lg[l].group

LEMMA AppKept ==
  ASSUME NEW ap, NEW ap2, NEW s, NEW a, AppOf(ap, s, a),
         \A b \in AppIDs : ap[b].state # "unborn" => ap2[b].state # "unborn" /\ ap2[b].name = ap[b].name
  PROVE  AppOf(ap2, s, a)
BY DEF AppOf

LEMMA SaysKept ==
  ASSUME NEW ap, NEW lg, NEW m, NEW ap2, NEW lg2, NEW m2, Tame(ap, lg, m, ap2, lg2, m2),
         NEW s, NEW g, NEW st, Says(ap, lg, m, s, g, st)
  PROVE  Says(ap2, lg2, m2, s, g, st)
<1>1. SUFFICES ASSUME st.phase = "Ready" /\ st.observed = g /\ s.logging.on
               PROVE  AppOf(ap2, s, st.aid) /\ (Quiet(m2) => HasLog(lg2, s, st.aid))
  BY DEF Says
<1>2. AppOf(ap, s, st.aid) /\ (Quiet(m) => HasLog(lg, s, st.aid))
  BY <1>1 DEF Says
<1>3. AppOf(ap2, s, st.aid)
  BY <1>2, AppKept DEF Tame
<1>4. ASSUME Quiet(m2) PROVE HasLog(lg2, s, st.aid)
  <2>1. m2 = 0 /\ Quiet(m)
    BY <1>4 DEF Quiet, Tame
  <2>2. PICK l \in LogIDs : LogIs(lg, l, s, st.aid) /\ lg[l].name = s.logging.name /\ lg[l].on
    BY <1>2, <2>1 DEF HasLog
  <2>3. LogIs(lg2, l, s, st.aid) /\ lg2[l].name = s.logging.name /\ lg2[l].on = lg[l].on
    BY <2>1, <2>2 DEF LogIs, Tame
  <2>4. QED
    BY <2>2, <2>3 DEF HasLog
<1>5. QED
  BY <1>3, <1>4

\* The worker may rely on the same after a tame step without births.
LEMMA WorkerKept ==
  ASSUME NEW ap, NEW lg, NEW m, NEW ap2, NEW lg2, NEW m2, Tame(ap, lg, m, ap2, lg2, m2),
         NoBirth(lg, lg2), WorkerOK(ap, lg, m)
  PROVE  WorkerOK(ap2, lg2, m2)
<1>1. pc \in LogPCs \union {"updateApp"} => AppOf(ap2, snap.spec, Aid)
  BY AppKept DEF WorkerOK, Tame
<1>2. pc = "createLog" => NoneLive(lg2, Aid, Wants.group)
  BY DEF WorkerOK, NoBirth, NoneLive
<1>3. pc = "updateLog" => /\ lid \in LogIDs /\ LogIs(lg2, lid, snap.spec, Aid)
                          /\ "name" \notin fix => lg2[lid].name = Wants.name
                          /\ "on" \notin fix /\ Quiet(m2) => lg2[lid].on
  <2>1. SUFFICES ASSUME pc = "updateLog"
                 PROVE  /\ lid \in LogIDs /\ LogIs(lg2, lid, snap.spec, Aid)
                        /\ "name" \notin fix => lg2[lid].name = Wants.name
                        /\ "on" \notin fix /\ Quiet(m2) => lg2[lid].on
    OBVIOUS
  <2>2. /\ lid \in LogIDs /\ LogIs(lg, lid, snap.spec, Aid)
        /\ "name" \notin fix => lg[lid].name = Wants.name
        /\ "on" \notin fix /\ Quiet(m) => lg[lid].on
    BY <2>1 DEF WorkerOK
  <2>3. LogIs(lg2, lid, snap.spec, Aid) /\ lg2[lid].name = lg[lid].name
    BY <2>2 DEF Tame, LogIs
  <2>4. Quiet(m2) => Quiet(m) /\ lg2[lid].on = lg[lid].on
    BY <2>2 DEF Tame, LogIs, Quiet
  <2>5. QED
    BY <2>2, <2>3, <2>4
<1>4. pc = "write" /\ ~ moved => Says(ap2, lg2, m2, snap.spec, snap.gen, next.status)
  BY SaysKept DEF WorkerOK
<1>5. QED
  BY <1>1, <1>2, <1>3, <1>4 DEF WorkerOK

CloudTypes == apps' \in [AppIDs -> OCIApplication] /\ logs' \in [LogIDs -> OCILog]

CloudTame == CloudTypes /\ Tame(apps, logs, meddling, apps', logs', meddling')

\* What a step that changes no object has to see to in OCI.
CloudFine == /\ CloudTypes /\ UsersOK(apps')
             /\ ClaimsOK(apps', logs', meddling')

LEMMA TameFine ==
  ASSUME Inv, CloudTame
  PROVE  CloudFine
<1>1. UsersOK(apps')
  BY ConstantsOK DEF Inv, UsersOK, CloudTame, Tame
<1>2. ClaimsOK(apps', logs', meddling')
  BY SaysKept DEF Inv, ClaimsOK, CloudTame
<1>3. QED
  BY <1>1, <1>2 DEF CloudFine, CloudTame

LEMMA SameTame ==
  ASSUME Inv, UNCHANGED cloud, meddling' = meddling
  PROVE  CloudTame /\ NoBirth(logs, logs')
BY DEF cloud, CloudTame, CloudTypes, Tame, NoBirth, Inv, TypeOK

LEMMA SettleTame ==
  ASSUME Inv, Settle
  PROVE  CloudTame /\ NoBirth(logs, logs')
<1>1. meddling' = meddling
  BY DEF Settle, users
<1>2. CASE UNCHANGED logs /\ \E a \in AppIDs : apps[a].state = "creating"
                                             /\ apps' = [apps EXCEPT ![a].state = "active"]
  <2>1. PICK a \in AppIDs : apps[a].state = "creating"
                            /\ apps' = [apps EXCEPT ![a].state = "active"]
    BY <1>2
  <2>2. CloudTypes
    BY <1>2, <2>1 DEF CloudTypes, Inv, TypeOK, OCIApplication, AppStates, Newborn
  <2>3. \A b \in AppIDs : /\ apps[b].state # "unborn" => apps'[b].state # "unborn"
                          /\ apps'[b].name = apps[b].name
    BY <2>1 DEF Inv, TypeOK, OCIApplication
  <2>4. QED
    BY <1>1, <1>2, <2>2, <2>3 DEF CloudTame, Tame, NoBirth
<1>3. CASE UNCHANGED apps /\ \E l \in LogIDs : logs[l].state \in Busy
                                             /\ logs' = [logs EXCEPT ![l] = Settled(@)]
  <2>1. PICK l \in LogIDs : logs[l].state \in Busy /\ logs' = [logs EXCEPT ![l] = Settled(@)]
    BY <1>3
  <2>2. PICK st \in {"deleted", "active", "inactive"} : Settled(logs[l]) = [logs[l] EXCEPT !.state = st]
    BY DEF Settled
  <2>3. logs' = [logs EXCEPT ![l] = [logs[l] EXCEPT !.state = st]]
    BY <2>1, <2>2
  <2>4. CloudTypes
    BY <1>3, <2>3 DEF CloudTypes, Inv, TypeOK, OCILog, LogStates
  <2>5. \A k \in LogIDs : /\ logs'[k].source = logs[k].source /\ logs'[k].group = logs[k].group
                          /\ logs'[k].name = logs[k].name /\ logs'[k].on = logs[k].on
    BY <2>3 DEF Inv, TypeOK, OCILog
  <2>6. \A k \in LogIDs : logs'[k].state = logs[k].state
                          \/ (logs[k].state \in Busy /\ logs'[k].state \in {"deleted", "active", "inactive"})
    <3>1. /\ logs'[l].state = st /\ logs[l].state \in Busy
          /\ \A k \in LogIDs : k # l => logs'[k].state = logs[k].state
      BY <2>1, <2>3 DEF Inv, TypeOK, OCILog
    <3>2. logs'[l].state \in {"deleted", "active", "inactive"}
      BY <2>2, <3>1
    <3>3. QED
      BY <3>1, <3>2
  <2>7. QED
    BY <1>1, <1>3, <2>4, <2>5, <2>6 DEF CloudTame, Tame, NoBirth, Busy
<1>4. QED
  BY <1>2, <1>3 DEF Settle

\* Somebody, or OCI, changes a log that is alive.
LEMMA LogTame ==
  ASSUME Inv, NEW l \in LogIDs, logs[l].state \notin {"unborn", "deleted"},
         NEW st \in LogStates \ {"unborn"}, NEW on \in BOOLEAN,
         logs' = [logs EXCEPT ![l].state = st, ![l].on = on], UNCHANGED apps,
         meddling' = 0 => meddling = 0 /\ on = logs[l].on
  PROVE  CloudTame /\ NoBirth(logs, logs')
<1>1. CloudTypes
  BY DEF CloudTypes, Inv, TypeOK, OCILog
<1>2. \A k \in LogIDs : /\ logs'[k].source = logs[k].source /\ logs'[k].group = logs[k].group
                        /\ logs'[k].name = logs[k].name
                        /\ meddling' = 0 => logs'[k].on = logs[k].on
  BY DEF Inv, TypeOK, OCILog
<1>3. \A k \in LogIDs : logs'[k].state = logs[k].state \/ (k = l /\ logs'[k].state = st)
  BY DEF Inv, TypeOK, OCILog
<1>4. QED
  BY <1>1, <1>2, <1>3 DEF CloudTame, Tame, NoBirth

LEMMA LogFailsTame ==
  ASSUME Inv, LogFails
  PROVE  CloudTame /\ NoBirth(logs, logs')
<1>1. PICK l \in LogIDs : logs[l].state = "creating" /\ logs' = [logs EXCEPT ![l].state = "failed"]
  BY DEF LogFails
<1>2. logs' = [logs EXCEPT ![l].state = "failed", ![l].on = logs[l].on] /\ logs[l].on \in BOOLEAN
  BY <1>1 DEF Inv, TypeOK, OCILog
<1>3. UNCHANGED apps /\ meddling' = meddling
  BY DEF LogFails, users
<1>4. "failed" \in LogStates \ {"unborn"} /\ logs[l].state \notin {"unborn", "deleted"}
  BY <1>1 DEF LogStates
<1>5. QED
  BY <1>2, <1>3, <1>4, LogTame

\* The application a, live or dead, is from now on in the state st.
LEMMA AppTame ==
  ASSUME Inv, NEW a \in AppIDs, NEW st \in AppStates \ {"unborn"},
         apps' = [apps EXCEPT ![a].state = st], UNCHANGED logs,
         meddling' = 0 => meddling = 0
  PROVE  CloudTame /\ NoBirth(logs, logs')
<1>1. CloudTypes
  BY DEF CloudTypes, Inv, TypeOK, OCIApplication
<1>2. \A b \in AppIDs : /\ apps[b].state # "unborn" => apps'[b].state # "unborn"
                        /\ apps'[b].name = apps[b].name
  BY DEF Inv, TypeOK, OCIApplication
<1>3. QED
  BY <1>1, <1>2 DEF CloudTame, Tame, NoBirth

LEMMA MeddleTame ==
  ASSUME Inv, Meddle
  PROVE  CloudTame /\ NoBirth(logs, logs') /\ meddling' \in Nat
<1>1. meddling' \in Nat /\ meddling' # 0
  BY DEF Meddle, Inv, TypeOK
<1>2. CASE UNCHANGED apps /\ \E l \in LogIDs : logs[l].state = "active"
                /\ logs' = [logs EXCEPT ![l].state = "updating", ![l].on = FALSE]
  <2>1. PICK l \in LogIDs : logs[l].state = "active"
                            /\ logs' = [logs EXCEPT ![l].state = "updating", ![l].on = FALSE]
    BY <1>2
  <2>2. "updating" \in LogStates \ {"unborn"} /\ logs[l].state \notin {"unborn", "deleted"}
    BY <2>1 DEF LogStates, Busy
  <2>3. QED
    BY <1>1, <1>2, <2>1, <2>2, LogTame
<1>3. CASE UNCHANGED apps /\ \E l \in LogIDs : logs[l].state \in {"active", "inactive", "failed"}
                /\ logs' = [logs EXCEPT ![l].state = "deleting"]
  <2>1. PICK l \in LogIDs : logs[l].state \in {"active", "inactive", "failed"}
                            /\ logs' = [logs EXCEPT ![l].state = "deleting"]
    BY <1>3
  <2>2. "deleting" \in LogStates \ {"unborn"} /\ logs[l].state \notin {"unborn", "deleted"}
    BY <2>1 DEF LogStates, Busy
  <2>3. logs' = [logs EXCEPT ![l].state = "deleting", ![l].on = logs[l].on] /\ logs[l].on \in BOOLEAN
    BY <2>1 DEF Inv, TypeOK, OCILog
  <2>4. QED
    BY <1>1, <1>3, <2>2, <2>3, LogTame
<1>4. CASE UNCHANGED logs /\ \E a \in AppIDs : LiveApp(a) /\ apps' = [apps EXCEPT ![a].state = "deleted"]
  <2>1. "deleted" \in AppStates \ {"unborn"}
    BY DEF AppStates
  <2>2. QED
    BY <1>1, <1>4, <2>1, AppTame
<1>5. QED
  BY <1>1, <1>2, <1>3, <1>4 DEF Meddle

LEMMA EraseAppTame ==
  ASSUME Inv, EraseApp, meddling' = meddling
  PROVE  CloudTame /\ NoBirth(logs, logs')
<1>1. CASE UNCHANGED cloud
  BY <1>1, SameTame
<1>2. CASE \E a \in AppIDs : LiveApp(a) /\ apps' = [apps EXCEPT ![a].state = "deleted"]
  <2>1. "deleted" \in AppStates \ {"unborn"}
    BY DEF AppStates
  <2>2. QED
    BY <1>2, <2>1, AppTame DEF EraseApp
<1>3. QED
  BY <1>1, <1>2 DEF EraseApp, LiveApp, cloud

LEMMA MakeAppTame ==
  ASSUME Inv, NEW a \in AppIDs, NEW st \in Newborn, MakeApp(a, st), meddling' = meddling
  PROVE  /\ CloudTame /\ NoBirth(logs, logs')
         /\ snap.spec.id = NoID => AppOf(apps', snap.spec, a)
<1>1. /\ apps[a].state = "unborn" /\ logs' = logs
      /\ apps' = [apps EXCEPT ![a] = [state |-> st, name |-> snap.spec.name, net |-> snap.spec.net,
                                      conf |-> snap.spec.conf, line |-> LineOf(Unmanaged)]]
  BY DEF MakeApp
<1>2. CloudTypes
  <2>1. snap.spec \in AppSpec
    BY ObjectFields DEF Inv, TypeOK
  <2>2. LineOf(Unmanaged) \in Lines \union {Unmanaged}
    BY <2>1, SpecFields DEF LineOf, Wants
  <2>3. st \in AppStates
    BY DEF AppStates
  <2>4. [state |-> st, name |-> snap.spec.name, net |-> snap.spec.net,
         conf |-> snap.spec.conf, line |-> LineOf(Unmanaged)] \in OCIApplication
    BY <2>1, <2>2, <2>3, SpecFields DEF OCIApplication
  <2>5. QED
    BY <1>1, <2>4 DEF CloudTypes, Inv, TypeOK
<1>3. /\ \A b \in AppIDs : b # a => apps'[b] = apps[b]
      /\ apps'[a].state = st /\ apps'[a].name = snap.spec.name
  BY <1>1 DEF Inv, TypeOK
<1>4. Tame(apps, logs, meddling, apps', logs', meddling')
  BY <1>1, <1>3 DEF Tame
<1>5. snap.spec.id = NoID => AppOf(apps', snap.spec, a)
  BY <1>3 DEF AppOf, Newborn
<1>6. QED
  BY <1>1, <1>2, <1>4, <1>5 DEF CloudTame, NoBirth

LEMMA ChangeAppTame ==
  ASSUME Inv, ChangeApp, meddling' = meddling
  PROVE  CloudTame /\ NoBirth(logs, logs')
<1>1. PICK c, n : apps' = [apps EXCEPT ![Aid].conf = c, ![Aid].line = n]
                  /\ c \in Confs \union {Unmanaged} /\ n \in Lines \union {Unmanaged}
  <2>1. snap.spec \in AppSpec /\ Aid \in AppIDs
    BY ObjectFields DEF Inv, TypeOK, ChangeApp, LiveApp
  <2>2. /\ apps[Aid].conf \in Confs \union {Unmanaged}
        /\ apps[Aid].line \in Lines \union {Unmanaged}
    BY <2>1 DEF Inv, TypeOK, OCIApplication
  <2>3. LineOf(apps[Aid].line) \in Lines \union {Unmanaged}
    BY <2>1, <2>2, SpecFields DEF LineOf, Wants
  <2>4. (IF snap.spec.conf = Unmanaged THEN apps[Aid].conf ELSE snap.spec.conf)
          \in Confs \union {Unmanaged}
    BY <2>1, <2>2, SpecFields
  <2>5. apps' = [apps EXCEPT ![Aid].conf = IF snap.spec.conf = Unmanaged THEN apps[Aid].conf
                                           ELSE snap.spec.conf,
                             ![Aid].line = LineOf(apps[Aid].line)]
    BY <2>1 DEF ChangeApp, Inv, TypeOK, OCIApplication
  <2>6. QED
    BY <2>3, <2>4, <2>5
<1>2. CloudTypes
  <2>1. c \in Confs \union {Unmanaged} /\ n \in Lines \union {Unmanaged}
    BY <1>1
  <2>2. \A q \in OCIApplication : [[q EXCEPT !.conf = c] EXCEPT !.line = n] \in OCIApplication
    BY <2>1 DEF OCIApplication
  <2>3. apps' = [apps EXCEPT ![Aid] = [[apps[Aid] EXCEPT !.conf = c] EXCEPT !.line = n]]
    BY <1>1 DEF Inv, TypeOK
  <2>4. apps' \in [AppIDs -> OCIApplication]
    BY <2>2, <2>3 DEF Inv, TypeOK
  <2>5. QED
    BY <2>4 DEF CloudTypes, Inv, TypeOK, ChangeApp
<1>3. \A b \in AppIDs : apps'[b].state = apps[b].state /\ apps'[b].name = apps[b].name
  BY <1>1 DEF Inv, TypeOK, OCIApplication
<1>4. logs' = logs
  BY DEF ChangeApp
<1>5. QED
  BY <1>2, <1>3, <1>4 DEF CloudTame, Tame, NoBirth

LEMMA MakeLogTame ==
  ASSUME Inv, MakeLog, meddling' = meddling
  PROVE  CloudTame /\ HasLog(logs', snap.spec, Aid)
<1>1. PICK l \in LogIDs :
        /\ logs[l].state = "unborn"
        /\ logs' = [logs EXCEPT ![l] = [state |-> "creating", group |-> Wants.group,
                                        name |-> Wants.name, source |-> Aid, on |-> TRUE]]
  BY DEF MakeLog
<1>2. UNCHANGED apps /\ Aid \in AppIDs
  BY DEF MakeLog, LiveApp
<1>3. CloudTypes
  <2>1. snap.spec \in AppSpec
    BY ObjectFields DEF Inv, TypeOK
  <2>2. Wants.group \in Groups /\ Wants.name \in LogNames
    BY <2>1, SpecFields DEF Wants
  <2>3. [state |-> "creating", group |-> Wants.group, name |-> Wants.name,
         source |-> Aid, on |-> TRUE] \in OCILog
    BY <1>2, <2>2 DEF OCILog, LogStates, Busy
  <2>4. QED
    BY <1>1, <1>2, <2>3 DEF CloudTypes, Inv, TypeOK
<1>4. /\ \A k \in LogIDs : k # l => logs'[k] = logs[k]
      /\ logs'[l].state = "creating" /\ logs'[l].group = Wants.group /\ logs'[l].name = Wants.name
      /\ logs'[l].source = Aid /\ logs'[l].on = TRUE
  BY <1>1 DEF Inv, TypeOK
<1>5. Tame(apps, logs, meddling, apps', logs', meddling')
  BY <1>1, <1>2, <1>4 DEF Tame
<1>6. HasLog(logs', snap.spec, Aid)
  <2>1. LogIs(logs', l, snap.spec, Aid) /\ logs'[l].name = snap.spec.logging.name /\ logs'[l].on
    BY <1>4 DEF LogIs, Wants
  <2>2. QED
    BY <2>1 DEF HasLog
<1>7. QED
  BY <1>3, <1>5, <1>6 DEF CloudTame

\* Two specs that have one application are not apart.
LEMMA NotApart ==
  ASSUME NEW ap \in [AppIDs -> OCIApplication], UsersOK(ap), NEW s \in AppSpec, NEW t \in AppSpec,
         NEW a, AppOf(ap, s, a), AppOf(ap, t, a)
  PROVE  ~ Apart(s, t)
<1>1. ASSUME NEW r \in AppSpec, AppOf(ap, r, a)
      PROVE  ap[a].name \in NamesOf(r)
  <2>1. ap[a].name \in AppNames
    BY DEF AppOf, OCIApplication
  <2>2. CASE r.id = NoID \/ r.mode = "Managed"
    BY <1>1, <2>2 DEF AppOf, NamesOf
  <2>3. CASE ~ (r.id = NoID \/ r.mode = "Managed")
    <3>1. r.id = a
      BY <1>1, <2>3 DEF AppOf
    <3>2. QED
      BY <2>1, <2>3, <3>1 DEF NamesOf, UsersOK
  <2>4. QED
    BY <2>2, <2>3
<1>2. ap[a].name \in NamesOf(s) \intersect NamesOf(t)
  BY <1>1
<1>3. ~ (NoID \notin {s.id, t.id} /\ s.id # t.id)
  BY DEF AppOf
<1>4. QED
  BY <1>2, <1>3 DEF Apart

\* An update of the log gives it what its application's objects want.
LEMMA ChangeLogFine ==
  ASSUME Inv, ChangeLog, pc = "updateLog", meddling' = meddling
  PROVE  CloudFine /\ (Quiet(meddling) => HasLog(logs', snap.spec, Aid))
<1>1. /\ lid \in LogIDs /\ LogIs(logs, lid, snap.spec, Aid) /\ AppOf(apps, snap.spec, Aid) /\ Wants.on
      /\ "name" \notin fix => logs[lid].name = Wants.name
      /\ "on" \notin fix /\ Quiet(meddling) => logs[lid].on
  BY DEF Inv, WorkerOK, LogPCs
<1>2. PICK n, b : /\ logs' = [logs EXCEPT ![lid].state = "updating", ![lid].name = n, ![lid].on = b]
                  /\ n = Wants.name /\ b \in BOOLEAN /\ (Quiet(meddling) => b)
  <2>1. (IF "name" \in fix THEN Wants.name ELSE logs[lid].name) = Wants.name
    BY <1>1
  <2>2. logs[lid].on \in BOOLEAN
    BY <1>1 DEF Inv, TypeOK, OCILog
  <2>3. PICK b \in BOOLEAN : b = IF "on" \in fix THEN TRUE ELSE logs[lid].on
    BY <2>2
  <2>4. Quiet(meddling) => b
    BY <1>1, <2>3
  <2>5. logs' = [logs EXCEPT ![lid].state = "updating",
                             ![lid].name = IF "name" \in fix THEN Wants.name ELSE logs[lid].name,
                             ![lid].on = IF "on" \in fix THEN TRUE ELSE logs[lid].on]
    BY <1>1 DEF ChangeLog, Inv, TypeOK, OCILog
  <2>6. QED
    BY <2>1, <2>3, <2>4, <2>5
<1>3. snap.spec \in AppSpec /\ snap.spec \in Specs[who] /\ who \in Objects
  BY ObjectFields DEF Inv, TypeOK, SpecsOK
<1>4. CloudTypes /\ UsersOK(apps')
  <2>1. UNCHANGED apps
    BY DEF ChangeLog
  <2>2. n \in LogNames
    BY <1>2, <1>3, SpecFields DEF Wants
  <2>3. "updating" \in LogStates
    BY DEF LogStates, Busy
  <2>4. b \in BOOLEAN
    BY <1>2
  <2>5. logs' \in [LogIDs -> OCILog]
    <3>1. logs \in [LogIDs -> OCILog] /\ lid \in LogIDs /\ logs[lid] \in OCILog
      BY <1>1 DEF Inv, TypeOK
    <3>2. PICK l : l = [logs[lid] EXCEPT !.state = "updating", !.name = n, !.on = b]
      OBVIOUS
    <3>3. l \in OCILog
      BY <2>2, <2>3, <2>4, <3>1, <3>2 DEF OCILog
    <3>4. logs' = [logs EXCEPT ![lid] = l]
      BY <1>2, <3>1, <3>2
    <3>5. QED
      BY <3>1, <3>3, <3>4
  <2>6. QED
    BY <2>1, <2>5 DEF CloudTypes, Inv, TypeOK
<1>5. /\ \A k \in LogIDs : k # lid => logs'[k] = logs[k]
      /\ logs'[lid].state = "updating" /\ logs'[lid].name = Wants.name /\ logs'[lid].on = b
      /\ logs'[lid].source = logs[lid].source /\ logs'[lid].group = logs[lid].group
  BY <1>1, <1>2 DEF Inv, TypeOK, OCILog
<1>6. Quiet(meddling) => HasLog(logs', snap.spec, Aid)
  <2>1. LogIs(logs', lid, snap.spec, Aid) /\ logs'[lid].name = snap.spec.logging.name
    BY <1>1, <1>5 DEF LogIs, Wants
  <2>2. QED
    BY <1>1, <1>2, <1>5, <2>1 DEF HasLog
<1>7. ASSUME NEW o \in Objects
      PROVE  Says(apps', logs', meddling', obj[o].spec, obj[o].gen, obj[o].status)
  <2> DEFINE s == obj[o].spec
             a == obj[o].status.aid
  <2>1. SUFFICES ASSUME obj[o].status.phase = "Ready" /\ obj[o].status.observed = obj[o].gen,
                        s.logging.on
                 PROVE  AppOf(apps, s, a) /\ (Quiet(meddling) => HasLog(logs', s, a))
    BY DEF Says, ChangeLog
  <2>2. AppOf(apps, s, a) /\ (Quiet(meddling) => HasLog(logs, s, a))
    BY <2>1 DEF Inv, ClaimsOK, Says
  <2>3. s \in AppSpec /\ s \in Specs[o]
    BY ObjectFields DEF Inv, TypeOK, SpecsOK
  <2>4. ASSUME Quiet(meddling)
        PROVE  HasLog(logs', s, a)
    <3>1. PICK k \in LogIDs : LogIs(logs, k, s, a) /\ logs[k].name = s.logging.name /\ logs[k].on
      BY <2>2, <2>4 DEF HasLog
    <3>2. CASE k # lid
      <4>1. LogIs(logs', k, s, a) /\ logs'[k].name = s.logging.name /\ logs'[k].on
        BY <1>5, <3>1, <3>2 DEF LogIs
      <4>2. QED
        BY <4>1 DEF HasLog
    <3>3. CASE k = lid
      <4>1. a = Aid /\ s.logging.group = Wants.group
        BY <1>1, <3>1, <3>3 DEF LogIs, Wants
      <4>2. s.logging.name = Wants.name
        <5>1. CASE o = who
          BY <2>1, <5>1 DEF Inv, ReadsOK, ReadyVersion, Wants
        <5>2. CASE o # who
          <6>1. ~ Apart(s, snap.spec)
            BY <1>1, <1>3, <2>2, <2>3, <4>1, NotApart DEF Inv, TypeOK
          <6>2. QED
            BY <1>1, <1>3, <2>1, <2>3, <2>4, <4>1, <5>2, <6>1 DEF Quiet, NoRivals, Wants
        <5>3. QED
          BY <5>1, <5>2
      <4>3. LogIs(logs', lid, s, a) /\ logs'[lid].name = s.logging.name
        BY <1>1, <1>5, <4>1, <4>2 DEF LogIs, Wants
      <4>4. QED
        BY <1>1, <1>2, <1>5, <2>4, <4>3 DEF HasLog
    <3>4. QED
      BY <3>2, <3>3
  <2>5. QED
    BY <2>2, <2>4
<1>8. QED
  BY <1>4, <1>6, <1>7 DEF CloudFine, ClaimsOK, Inv
-----------------------------------------------------------------------------
(* Steps of the environment.                                               *)

\* A version that is Ready is so as the one before it.
LEMMA TouchStep ==
  ASSUME Inv, NEW o \in Objects, NEW new \in Object, Touch(o, new), new.spec \in Specs[o],
         new.status.observed <= new.gen,
         ReadyVersion(new) => /\ ReadyVersion(obj[o]) /\ new.spec = obj[o].spec
                              /\ new.gen = obj[o].gen /\ new.status = obj[o].status
  PROVE  Inv'
<1>1. /\ cache[o] = obj[o] /\ obj' = [obj EXCEPT ![o] = new] /\ cache' = cache
      /\ UNCHANGED <<apps, logs, pc, who, snap, next, lid, fix, meddling>>
      /\ moved' = (moved \/ (pc # "idle" /\ who = o))
  BY DEF Touch, Publish, cloud
<1>2. /\ \A q \in Objects : q # o => obj'[q] = obj[q]
      /\ obj'[o] = new
  BY <1>1 DEF Inv, TypeOK
<1>3. TypeOK'
  <2>1. moved' \in BOOLEAN
    BY <1>1 DEF Inv, TypeOK
  <2>2. QED
    BY <1>1, <2>1 DEF Inv, TypeOK
<1>4. SpecsOK'
  BY <1>1, <1>2 DEF Inv, SpecsOK
<1>5. ReadsOK'
  <2>1. ASSUME NEW q \in Objects, ReadyVersion(obj'[q])
        PROVE  cache'[q].spec = obj'[q].spec
    BY <1>1, <1>2, <2>1 DEF Inv, ReadsOK
  <2>2. ASSUME pc' # "idle", ~ moved'
        PROVE  obj'[who'] = snap'
    <3>1. ~ moved /\ who # o /\ pc # "idle" /\ who \in Objects
      BY <1>1, <2>2 DEF Inv, TypeOK
    <3>2. QED
      BY <1>1, <1>2, <3>1 DEF Inv, ReadsOK
  <2>3. ASSUME pc' # "idle", ReadyVersion(obj'[who'])
        PROVE  snap'.spec = obj'[who'].spec
    <3>1. who \in Objects /\ who' = who /\ pc # "idle"
      BY <1>1, <2>3 DEF Inv, TypeOK
    <3>2. ReadyVersion(obj[who]) /\ obj'[who].spec = obj[who].spec
      BY <1>2, <2>3, <3>1
    <3>3. QED
      BY <1>1, <3>1, <3>2 DEF Inv, ReadsOK
  <2>4. QED
    BY <2>1, <2>2, <2>3 DEF ReadsOK, ReadyVersion
<1>6. ClaimsOK(apps, logs, meddling)'
  <2>1. ASSUME NEW q \in Objects
        PROVE  /\ obj'[q].status.observed <= obj'[q].gen
               /\ Says(apps, logs, meddling, obj'[q].spec, obj'[q].gen, obj'[q].status)
    <3>1. CASE q # o
      BY <1>2, <3>1 DEF Inv, ClaimsOK
    <3>2. CASE q = o /\ ReadyVersion(new)
      BY <1>2, <3>2 DEF Inv, ClaimsOK
    <3>3. CASE q = o /\ ~ ReadyVersion(new)
      BY <1>2, <3>3 DEF Says, ReadyVersion
    <3>4. QED
      BY <3>1, <3>2, <3>3
  <2>2. QED
    BY <1>1, <2>1 DEF ClaimsOK, Says, Quiet, HasLog, LogIs, AppOf
<1>7. WorkerOK(apps, logs, meddling)'
  <2>1. ~ moved' => ~ moved
    BY <1>1
  <2>2. WorkerOK(apps, logs, meddling)
    BY DEF Inv
  <2>3. QED
    BY <1>1, <2>1, <2>2 DEF WorkerOK, Says, Quiet, HasLog, LogIs, AppOf, NoneLive, Wants, Aid
<1>8. UsersOK(apps)'
  BY <1>1 DEF Inv, UsersOK
<1>9. QED
  BY <1>3, <1>4, <1>5, <1>6, <1>7, <1>8 DEF Inv

LEMMA NewbornVersion ==
  ASSUME NEW s, NEW old
  PROVE  /\ ~ ReadyVersion(NewObject(s)) /\ NewObject(s).spec = s
         /\ NewObject(s).status.observed = 0 /\ NewObject(s).gen = 1
         /\ ~ ReadyVersion(Gone(old)) /\ Gone(old).spec = old.spec
         /\ Gone(old).status.observed = 0 /\ Gone(old).gen = 0
BY DEF ReadyVersion, NewObject, NoObject, NoStatus, Gone

LEMMA EditStep ==
  ASSUME Inv, NEW o \in Objects, EditSpec(o)
  PROVE  Inv'
<1>1. PICK s \in Specs[o] : Touch(o, [obj[o] EXCEPT !.spec = s, !.gen = @ + 1])
  BY DEF EditSpec
<1>2. obj[o] \in Object /\ s \in AppSpec
  BY ConstantsOK DEF Inv, TypeOK
<1>3. obj[o].gen \in Nat /\ obj[o].status.observed \in Nat
      /\ obj[o].status.observed <= obj[o].gen
  BY <1>2, ObjectFields DEF Inv, ClaimsOK
<1>4. PICK new : new = [obj[o] EXCEPT !.spec = s, !.gen = @ + 1]
  OBVIOUS
<1>5. new \in Object
  <2>1. obj[o].status \in Status /\ obj[o].final \in BOOLEAN
    BY <1>2, ObjectFields
  <2>2. QED
    BY <1>2, <1>4, <2>1, ObjectMade
<1>6. new.spec = s /\ new.gen = obj[o].gen + 1 /\ new.status = obj[o].status
  BY <1>2, <1>4 DEF Object
<1>7. new.status.observed <= new.gen /\ new.status.observed # new.gen
  <2>1. new.status.observed = obj[o].status.observed
    BY <1>6
  <2>2. QED
    BY <1>3, <1>6, <2>1
<1>8. ~ ReadyVersion(new)
  BY <1>7 DEF ReadyVersion
<1>9. QED
  BY <1>1, <1>4, <1>5, <1>6, <1>7, <1>8, TouchStep

LEMMA DeleteStep ==
  ASSUME Inv, NEW o \in Objects, DeleteObject(o)
  PROVE  Inv'
<1>1. obj[o] \in Object /\ obj[o].spec \in Specs[o]
      /\ obj[o].status.observed <= obj[o].gen
  BY DEF Inv, TypeOK, SpecsOK, ClaimsOK
<1>2. /\ obj[o].spec \in AppSpec /\ obj[o].status \in Status /\ obj[o].final \in BOOLEAN
  BY <1>1, ObjectFields
<1>3. CASE Touch(o, [obj[o] EXCEPT !.deleting = TRUE])
  <2>1. PICK new : new = [obj[o] EXCEPT !.deleting = TRUE]
    OBVIOUS
  <2>2. new \in Object
    BY <1>1, <1>2, <2>1, ObjectMade
  <2>3. new.spec = obj[o].spec /\ new.gen = obj[o].gen /\ new.status = obj[o].status
    BY <1>1, <2>1 DEF Object
  <2>4. ReadyVersion(new) => ReadyVersion(obj[o])
    BY <2>3 DEF ReadyVersion
  <2>5. new.status.observed <= new.gen
    BY <1>1, <2>3
  <2>6. QED
    BY <1>1, <1>3, <2>1, <2>2, <2>3, <2>4, <2>5, TouchStep
<1>4. CASE Touch(o, Gone(obj[o]))
  <2>1. Gone(obj[o]) \in Object
    BY <1>1, <1>2, ObjectMade
  <2>2. Gone(obj[o]).status.observed <= Gone(obj[o]).gen
    BY NewbornVersion
  <2>3. ~ ReadyVersion(Gone(obj[o])) /\ Gone(obj[o]).spec = obj[o].spec
    BY NewbornVersion
  <2>4. QED
    BY <1>1, <1>4, <2>1, <2>2, <2>3, TouchStep
<1>5. QED
  BY <1>3, <1>4 DEF DeleteObject

LEMMA CreateStep ==
  ASSUME Inv, NEW o \in Objects, CreateObject(o)
  PROVE  Inv'
<1>1. PICK s \in Specs[o] : Touch(o, NewObject(s))
  BY DEF CreateObject
<1>2. NewObject(s) \in Object
  BY ConstantsOK, NothingType DEF NewObject, Object
<1>3. NewObject(s).status.observed <= NewObject(s).gen
  BY NewbornVersion
<1>4. ~ ReadyVersion(NewObject(s)) /\ NewObject(s).spec = s
  BY NewbornVersion
<1>5. QED
  BY <1>1, <1>2, <1>3, <1>4, TouchStep

LEMMA SyncStep ==
  ASSUME Inv, NEW o \in Objects, Sync(o)
  PROVE  Inv'
<1>1. cache' = [cache EXCEPT ![o] = obj[o]]
      /\ UNCHANGED <<obj, apps, logs, pc, who, snap, moved, next, lid, fix, meddling>>
  BY DEF Sync, cloud, worker, users
<1>2. \A q \in Objects : cache'[q] = IF q = o THEN obj[q] ELSE cache[q]
  BY <1>1 DEF Inv, TypeOK
<1>3. TypeOK' /\ SpecsOK'
  BY <1>1, <1>2 DEF Inv, TypeOK, SpecsOK
<1>4. ReadsOK'
  BY <1>1, <1>2 DEF Inv, ReadsOK, ReadyVersion
<1>5. UsersOK(apps)' /\ ClaimsOK(apps, logs, meddling)'
  BY <1>1 DEF Inv, UsersOK, ClaimsOK, Says, Quiet, HasLog, LogIs, AppOf
<1>6. WorkerOK(apps, logs, meddling)'
  BY <1>1 DEF Inv, WorkerOK, Says, Quiet, HasLog, LogIs, AppOf, NoneLive, Wants, Aid
<1>7. QED
  BY <1>3, <1>4, <1>5, <1>6 DEF Inv

\* The worker has nothing to rely on when it is idle.
LEMMA ReturnOK ==
  ASSUME Return, NEW ap, NEW lg, NEW m
  PROVE  /\ WorkerOK(ap, lg, m)' /\ pc' = "idle" /\ who' \in Objects /\ snap' \in Object
         /\ moved' \in BOOLEAN /\ next' \in Plan /\ lid' \in LogIDs \union {NoID} /\ fix' \subseteq Fields
BY ConstantsOK, NothingType DEF Return, WorkerOK, LogPCs

LEMMA CrashStep ==
  ASSUME Inv, Crash
  PROVE  Inv'
<1>1. cache' = obj /\ Return /\ UNCHANGED <<obj, apps, logs, meddling>>
  BY DEF Crash, cloud, users
<1>2. TypeOK' /\ SpecsOK' /\ ReadsOK'
  BY <1>1, ReturnOK DEF Inv, TypeOK, SpecsOK, ReadsOK, PCs
<1>3. UsersOK(apps)' /\ ClaimsOK(apps, logs, meddling)'
  BY <1>1 DEF Inv, UsersOK, ClaimsOK, Says, Quiet, HasLog, LogIs, AppOf
<1>4. WorkerOK(apps, logs, meddling)'
  BY <1>1 DEF Return, WorkerOK, LogPCs
<1>5. QED
  BY <1>2, <1>3, <1>4 DEF Inv

\* A step of OCI, or of somebody who works on what it holds.
LEMMA CloudStep ==
  ASSUME Inv, UNCHANGED <<objects, worker>>, CloudTame, NoBirth(logs, logs'), meddling' \in Nat
  PROVE  Inv'
<1>1. UNCHANGED <<obj, cache, pc, who, snap, moved, next, lid, fix>>
  BY DEF objects, worker
<1>2. TypeOK'
  BY <1>1 DEF Inv, TypeOK, CloudTame, CloudTypes
<1>3. SpecsOK' /\ ReadsOK'
  BY <1>1 DEF Inv, SpecsOK, ReadsOK, ReadyVersion
<1>4. UsersOK(apps') /\ ClaimsOK(apps', logs', meddling')
  BY TameFine DEF CloudFine
<1>5. UsersOK(apps)' /\ ClaimsOK(apps, logs, meddling)'
  BY <1>1, <1>4 DEF UsersOK, ClaimsOK, Says, Quiet, HasLog, LogIs, AppOf
<1>6. WorkerOK(apps', logs', meddling')
  BY WorkerKept DEF Inv, CloudTame
<1>7. WorkerOK(apps, logs, meddling)'
  BY <1>1, <1>6 DEF WorkerOK, Says, Quiet, HasLog, LogIs, AppOf, NoneLive, Wants, Aid
<1>8. QED
  BY <1>2, <1>3, <1>5, <1>7 DEF Inv
-----------------------------------------------------------------------------
(* Steps of the worker.                                                    *)

LEMMA StartStep ==
  ASSUME Inv, NEW o \in Objects, NEW p \in {"write", "findApp", "erase"}, NEW w \in Plan, Start(o, p, w),
         p = "erase" => w.status = cache[o].status,
         p = "write" /\ cache[o] = obj[o] =>
           /\ w.status.observed <= cache[o].gen
           /\ Says(apps, logs, meddling, cache[o].spec, cache[o].gen, w.status)
  PROVE  Inv'
<1>1. /\ pc' = p /\ who' = o /\ snap' = cache[o] /\ moved' = (cache[o] # obj[o]) /\ next' = w
      /\ UNCHANGED <<obj, cache, apps, logs, lid, fix, meddling>>
  BY DEF Start, keep, objects, users, cloud
<1>2. TypeOK'
  <2>1. pc' \in PCs /\ moved' \in BOOLEAN
    BY <1>1 DEF PCs
  <2>2. QED
    BY <1>1, <2>1 DEF Inv, TypeOK
<1>3. SpecsOK'
  BY <1>1 DEF Inv, SpecsOK
<1>4. ReadsOK'
  BY <1>1 DEF Inv, ReadsOK, ReadyVersion
<1>5. UsersOK(apps)' /\ ClaimsOK(apps, logs, meddling)'
  BY <1>1 DEF Inv, UsersOK, ClaimsOK, Says, Quiet, HasLog, LogIs, AppOf
<1>6. WorkerOK(apps, logs, meddling)'
  <2>1. pc' \notin LogPCs \union {"updateApp", "createApp"} /\ pc' # "createLog" /\ pc' # "updateLog"
    BY <1>1 DEF LogPCs
  <2>2. pc' = "erase" => next'.status = snap'.status
    BY <1>1
  <2>3. pc' = "write" /\ ~ moved' =>
          /\ next'.status.observed <= snap'.gen
          /\ Says(apps', logs', meddling', snap'.spec, snap'.gen, next'.status)
    BY <1>1
  <2>4. QED
    BY <2>1, <2>2, <2>3 DEF WorkerOK, Says, Quiet, HasLog, LogIs, AppOf
<1>7. QED
  BY <1>2, <1>3, <1>4, <1>5, <1>6 DEF Inv

\* A step of a reconcile that is under way: what it has to see to.
LEMMA ContinueStep ==
  ASSUME Inv, pc # "idle", UNCHANGED <<keep, stay>>, CloudFine,
         pc' \in PCs, next' \in Plan, lid' \in LogIDs \union {NoID}, fix' \subseteq Fields,
         WorkerOK(apps, logs, meddling)'
  PROVE  Inv'
<1>1. UNCHANGED <<obj, cache, who, snap, moved, meddling>>
  BY DEF keep, stay, objects, users
<1>2. TypeOK' /\ SpecsOK' /\ ReadsOK'
  BY <1>1 DEF Inv, TypeOK, SpecsOK, ReadsOK, ReadyVersion, CloudFine, CloudTypes
<1>3. UsersOK(apps)' /\ ClaimsOK(apps, logs, meddling)'
  BY <1>1 DEF CloudFine, UsersOK, ClaimsOK, Says, Quiet, HasLog, LogIs, AppOf
<1>4. QED
  BY <1>2, <1>3 DEF Inv

\* It goes on to write w.
LEMMA WritesStep ==
  ASSUME Inv, pc # "idle", UNCHANGED keep, CloudFine, NEW w \in Plan,
         pc' = "write", next' = w, UNCHANGED <<lid, fix, stay>>,
         ~ moved => /\ w.status.observed <= snap.gen
                    /\ Says(apps', logs', meddling', snap.spec, snap.gen, w.status)
  PROVE  Inv'
<1>1. UNCHANGED <<lid, fix, snap, moved>>
  BY DEF stay
<1>2. pc' \notin LogPCs \union {"updateApp", "createApp"} /\ pc' # "createLog" /\ pc' # "updateLog"
      /\ pc' # "erase" /\ pc' \in PCs
  BY DEF LogPCs, PCs
<1>3. ~ moved' => /\ next'.status.observed <= snap'.gen
                  /\ Says(apps', logs', meddling', snap'.spec, snap'.gen, next'.status)
  BY <1>1
<1>4. WorkerOK(apps, logs, meddling)'
  BY <1>2, <1>3 DEF WorkerOK, Says, Quiet, HasLog, LogIs, AppOf
<1>5. lid' \in LogIDs \union {NoID} /\ fix' \subseteq Fields
  BY <1>1 DEF Inv, TypeOK
<1>6. QED
  BY <1>2, <1>4, <1>5, ContinueStep

\* It ends with an error, or has to wait.
LEMMA EarnsStep ==
  ASSUME Inv, pc # "idle", UNCHANGED keep, CloudFine, NEW a \in AppIDs \union {NoID},
         Earns("Error", a) \/ Earns("Pending", a)
  PROVE  Inv'
<1>1. snap \in Object /\ snap.gen \in Nat
  BY ObjectFields DEF Inv, TypeOK
<1>2. ASSUME NEW w \in Plan, Writes(w), w.status.phase # "Ready", w.status.observed = snap.gen
      PROVE  Inv'
  <2>1. w.status.observed <= snap.gen
    BY <1>1, <1>2
  <2>2. Says(apps', logs', meddling', snap.spec, snap.gen, w.status)
    BY <1>2 DEF Says
  <2>3. QED
    BY <1>2, <2>1, <2>2, WritesStep DEF Writes
<1>3. CASE Earns("Error", a)
  <2>1. Built(snap, "Error", a) \in Plan
    BY <1>1, PlanMade
  <2>2. /\ Built(snap, "Error", a).status.phase # "Ready"
        /\ Built(snap, "Error", a).status.observed = snap.gen
    BY DEF Built
  <2>3. QED
    BY <1>2, <1>3, <2>1, <2>2 DEF Earns
<1>4. CASE Earns("Pending", a)
  <2>1. Built(snap, "Pending", a) \in Plan
    BY <1>1, PlanMade
  <2>2. /\ Built(snap, "Pending", a).status.phase # "Ready"
        /\ Built(snap, "Pending", a).status.observed = snap.gen
    BY DEF Built
  <2>3. QED
    BY <1>2, <1>4, <2>1, <2>2 DEF Earns
<1>5. QED
  BY <1>3, <1>4

\* The application is settled.
LEMMA WithAppStep ==
  ASSUME Inv, pc # "idle", UNCHANGED keep, CloudFine, NEW a, NEW st, WithApp(a, st),
         AppOf(apps', snap.spec, a)
  PROVE  Inv'
<1>1. snap \in Object /\ snap.gen \in Nat /\ a \in AppIDs
  BY ObjectFields DEF Inv, TypeOK, AppOf
<1>2. PICK w : w = Built(snap, IF st = "active" THEN "Ready" ELSE "Pending", a)
  OBVIOUS
<1>3. w \in Plan /\ w.status.observed = snap.gen /\ w.status.aid = a
  <2>1. CASE st = "active"
    <3>1. w = Built(snap, "Ready", a)
      BY <1>2, <2>1
    <3>2. w \in Plan
      BY <1>1, <3>1, PlanMade
    <3>3. QED
      BY <3>1, <3>2 DEF Built
  <2>2. CASE st # "active"
    <3>1. w = Built(snap, "Pending", a)
      BY <1>2, <2>2
    <3>2. w \in Plan
      BY <1>1, <3>1, PlanMade
    <3>3. QED
      BY <3>1, <3>2 DEF Built
  <2>3. QED
    BY <2>1, <2>2
<1>4. next' = w /\ UNCHANGED <<lid, fix, stay>>
  BY <1>2 DEF WithApp
<1>5. CASE Wants.on
  <2>1. pc' = "findLog" /\ UNCHANGED <<lid, fix, snap, moved>>
    BY <1>4, <1>5 DEF WithApp, stay
  <2>2. WorkerOK(apps, logs, meddling)'
    BY <1>3, <1>4, <1>5, <2>1 DEF WorkerOK, AppOf, Wants, Aid
  <2>3. pc' \in PCs /\ lid' \in LogIDs \union {NoID} /\ fix' \subseteq Fields
    BY <2>1 DEF PCs, LogPCs, Inv, TypeOK
  <2>4. QED
    BY <1>3, <1>4, <2>2, <2>3, ContinueStep
<1>6. CASE ~ Wants.on
  <2>1. pc' = "write"
    BY <1>6 DEF WithApp
  <2>2. Says(apps', logs', meddling', snap.spec, snap.gen, w.status)
    BY <1>6 DEF Says, Wants
  <2>3. w.status.observed <= snap.gen
    BY <1>1, <1>3
  <2>4. QED
    BY <1>3, <1>4, <2>1, <2>2, <2>3, WritesStep
<1>7. QED
  BY <1>5, <1>6

LEMMA BeginStep ==
  ASSUME Inv, NEW o \in Objects, Begin(o)
  PROVE  Inv'
<1>1. /\ cache[o] \in Object /\ cache[o].status \in Status /\ cache[o].gen \in Nat
  BY ObjectFields DEF Inv, TypeOK
<1>2. cache[o] = obj[o] =>
        /\ cache[o].status.observed <= cache[o].gen
        /\ Says(apps, logs, meddling, cache[o].spec, cache[o].gen, cache[o].status)
  BY DEF Inv, ClaimsOK
<1>3. ASSUME NEW fin \in BOOLEAN, NEW p \in {"write", "erase"},
             Start(o, p, [final |-> fin, status |-> cache[o].status])
      PROVE  Inv'
  <2>1. PICK w : w = [final |-> fin, status |-> cache[o].status]
    OBVIOUS
  <2>2. w \in Plan
    BY <1>1, <2>1, PlanMade
  <2>3. w.status = cache[o].status
    BY <2>1
  <2>4. QED
    BY <1>2, <1>3, <2>1, <2>2, <2>3, StartStep
<1>4. CASE StartFinalizer(o)
  <2>1. Owns(cache[o]) \in BOOLEAN
    BY DEF Owns
  <2>2. Start(o, "write", [final |-> Owns(cache[o]), status |-> cache[o].status])
    BY <1>4 DEF StartFinalizer
  <2>3. QED
    BY <1>3, <2>1, <2>2
<1>5. CASE StartEnsure(o)
  <2>1. Start(o, "findApp", Nothing)
    BY <1>5 DEF StartEnsure
  <2>2. QED
    BY <2>1, NothingType, StartStep
<1>6. CASE StartRetain(o)
  BY <1>3, <1>6 DEF StartRetain
<1>7. CASE StartDelete(o)
  <2>1. CASE DeleteTarget(cache[o]) = NoID
    <3>1. Start(o, "write", Undeleted(cache[o]))
      BY <1>7, <2>1 DEF StartDelete
    <3>2. Undeleted(cache[o]) \in Plan
      BY <1>1, PlanMade
    <3>3. /\ Undeleted(cache[o]).status.phase = "Error"
          /\ Undeleted(cache[o]).status.observed = cache[o].gen
      BY <1>1 DEF Undeleted, Status
    <3>4. Says(apps, logs, meddling, cache[o].spec, cache[o].gen, Undeleted(cache[o]).status)
      BY <3>3 DEF Says
    <3>5. Undeleted(cache[o]).status.observed <= cache[o].gen
      BY <1>1, <3>3
    <3>6. QED
      BY <3>1, <3>2, <3>4, <3>5, StartStep
  <2>2. CASE DeleteTarget(cache[o]) # NoID
    <3>1. Start(o, "erase", [final |-> FALSE, status |-> cache[o].status])
      BY <1>7, <2>2 DEF StartDelete
    <3>2. QED
      BY <1>3, <3>1
  <2>3. QED
    BY <2>1, <2>2
<1>8. QED
  BY <1>4, <1>5, <1>6, <1>7 DEF Begin

LEMMA SameFine ==
  ASSUME Inv, UNCHANGED <<keep, cloud>>
  PROVE  CloudFine
<1>1. UNCHANGED cloud /\ meddling' = meddling
  BY DEF keep, users
<1>2. QED
  BY <1>1, SameTame, TameFine

\* The application that is found is the one of the spec, if its name is.
LEMMA FoundIsApp ==
  ASSUME Inv, NEW a \in Found, snap.spec.mode = "Existing" \/ ~ Immutable(a)
  PROVE  AppOf(apps, snap.spec, a)
<1>1. snap.spec \in AppSpec
  BY ObjectFields DEF Inv, TypeOK
<1>2. LiveApp(a) /\ a \in AppIDs
  BY DEF Found, AppsNamed, LiveApp
<1>3. apps[a].state # "unborn"
  BY <1>2 DEF LiveApp, Newborn
<1>4. snap.spec.id # NoID => a = snap.spec.id
  BY DEF Found
<1>5. snap.spec.id = NoID => apps[a].name = snap.spec.name
  BY DEF Found, AppsNamed
<1>6. snap.spec.mode = "Managed" => apps[a].name = snap.spec.name
  BY DEF Immutable
<1>7. QED
  BY <1>2, <1>3, <1>4, <1>5, <1>6 DEF AppOf

LEMMA FindAppStep ==
  ASSUME Inv, FindApp
  PROVE  Inv'
<1>1. pc = "findApp" /\ UNCHANGED <<keep, cloud>> /\ apps' = apps
  BY DEF FindApp, cloud
<1>2. CloudFine /\ pc # "idle" /\ snap \in Object
  BY <1>1, SameFine DEF Inv, TypeOK
<1>3. ASSUME NEW a \in Found, snap.spec.mode = "Existing", WithApp(a, apps[a].state)
      PROVE  Inv'
  BY <1>1, <1>2, <1>3, FoundIsApp, WithAppStep
<1>4. ASSUME NEW a \in Found, Immutable(a), Earns("Error", a)
      PROVE  Inv'
  <2>1. a \in AppIDs
    BY DEF Found, AppsNamed, LiveApp
  <2>2. QED
    BY <1>1, <1>2, <1>4, <2>1, EarnsStep
<1>5. ASSUME NEW a \in Found, ~ Immutable(a), pc' = "updateApp",
             next' = Built(snap, "Error", a), UNCHANGED <<lid, fix, stay>>
      PROVE  Inv'
  <2>1. AppOf(apps, snap.spec, a) /\ a \in AppIDs
    BY <1>5, FoundIsApp DEF AppOf
  <2>2. Built(snap, "Error", a) \in Plan
    BY <1>2, <2>1, PlanMade
  <2>3. UNCHANGED <<lid, fix, snap, moved>>
    BY <1>5 DEF stay
  <2>4. Aid' = a /\ next'.status.observed = snap.gen /\ next'.status.phase = "Error"
    BY <1>5 DEF Aid, Built
  <2>5. WorkerOK(apps, logs, meddling)'
    BY <1>1, <1>5, <2>1, <2>3, <2>4 DEF WorkerOK, AppOf, LogPCs
  <2>6. pc' \in PCs /\ next' \in Plan /\ lid' \in LogIDs \union {NoID} /\ fix' \subseteq Fields
    BY <1>5, <2>2, <2>3 DEF PCs, Inv, TypeOK
  <2>7. QED
    BY <1>1, <1>2, <1>5, <2>5, <2>6, ContinueStep
<1>6. ASSUME NEW a \in Found, ~ Immutable(a), WithApp(a, apps[a].state)
      PROVE  Inv'
  BY <1>1, <1>2, <1>6, FoundIsApp, WithAppStep
<1>7. CASE Earns("Error", NoID)
  BY <1>1, <1>2, <1>7, EarnsStep
<1>8. CASE snap.spec.id = NoID /\ Goto("createApp")
  <2>1. pc' = "createApp" /\ UNCHANGED <<next, lid, fix, snap, moved, stay>>
    BY <1>8 DEF Goto, stay
  <2>2. WorkerOK(apps, logs, meddling)'
    BY <1>8, <2>1 DEF WorkerOK, LogPCs
  <2>3. pc' \in PCs /\ next' \in Plan /\ lid' \in LogIDs \union {NoID} /\ fix' \subseteq Fields
    BY <2>1 DEF PCs, Inv, TypeOK
  <2>4. QED
    BY <1>1, <1>2, <2>1, <2>2, <2>3, ContinueStep
<1>9. QED
  BY <1>3, <1>4, <1>5, <1>6, <1>7, <1>8 DEF FindApp

LEMMA FindAppFailsStep ==
  ASSUME Inv, FindAppFails
  PROVE  Inv'
BY SameFine, EarnsStep DEF FindAppFails

LEMMA CreateAppStep ==
  ASSUME Inv, CreateApp
  PROVE  Inv'
<1>1. PICK a \in AppIDs, st \in Newborn : MakeApp(a, st) /\ WithApp(a, st)
  BY DEF CreateApp
<1>2. pc = "createApp" /\ UNCHANGED keep /\ meddling' = meddling
  BY DEF CreateApp, keep, users
<1>3. snap.spec.id = NoID
  BY <1>2 DEF Inv, WorkerOK
<1>4. CloudFine /\ AppOf(apps', snap.spec, a)
  BY <1>1, <1>2, <1>3, MakeAppTame, TameFine
<1>5. QED
  BY <1>1, <1>2, <1>4, WithAppStep

LEMMA CreateAppFailsStep ==
  ASSUME Inv, CreateAppFails
  PROVE  Inv'
<1>1. pc = "createApp" /\ UNCHANGED keep /\ meddling' = meddling /\ Earns("Error", NoID)
  BY DEF CreateAppFails, keep, users
<1>2. CloudFine
  BY <1>1, SameTame, MakeAppTame, TameFine DEF CreateAppFails
<1>3. QED
  BY <1>1, <1>2, EarnsStep

LEMMA UpdateAppStep ==
  ASSUME Inv, UpdateApp
  PROVE  Inv'
<1>1. pc = "updateApp" /\ UNCHANGED keep /\ meddling' = meddling /\ ChangeApp
      /\ WithApp(Aid, apps[Aid].state)
  BY DEF UpdateApp, keep, users
<1>2. CloudTame /\ CloudFine
  BY <1>1, ChangeAppTame, TameFine
<1>3. AppOf(apps, snap.spec, Aid)
  BY <1>1 DEF Inv, WorkerOK
<1>4. AppOf(apps', snap.spec, Aid)
  BY <1>2, <1>3, AppKept DEF CloudTame, Tame
<1>5. QED
  BY <1>1, <1>2, <1>4, WithAppStep

LEMMA UpdateAppFailsStep ==
  ASSUME Inv, UpdateAppFails
  PROVE  Inv'
<1>1. pc = "updateApp" /\ UNCHANGED keep /\ meddling' = meddling /\ Goto("write")
  BY DEF UpdateAppFails, keep, users
<1>2. CloudFine
  BY <1>1, SameTame, ChangeAppTame, TameFine DEF UpdateAppFails
<1>3. next \in Plan /\ snap.gen \in Nat
  BY ObjectFields DEF Inv, TypeOK
<1>4. next.status.phase = "Error" /\ next.status.observed = snap.gen
  BY <1>1 DEF Inv, WorkerOK
<1>5. Says(apps', logs', meddling', snap.spec, snap.gen, next.status)
  BY <1>4 DEF Says
<1>6. next.status.observed <= snap.gen
  BY <1>3, <1>4
<1>7. pc' = "write" /\ next' = next /\ UNCHANGED <<lid, fix, stay>>
  BY <1>1 DEF Goto
<1>8. QED
  BY <1>1, <1>2, <1>3, <1>5, <1>6, <1>7, WritesStep
-----------------------------------------------------------------------------
(* The log.                                                                *)

\* The log is as it should be: what is left is the status.
LEMMA LogDone ==
  ASSUME Inv, pc \in LogPCs, UNCHANGED keep, CloudFine, UNCHANGED apps, Goto("write"),
         Quiet(meddling) => HasLog(logs', snap.spec, Aid)
  PROVE  Inv'
<1>1. pc # "idle" /\ meddling' = meddling
  BY DEF LogPCs, keep, users
<1>2. AppOf(apps, snap.spec, Aid) /\ next.status.observed = snap.gen
  BY DEF Inv, WorkerOK
<1>3. next \in Plan /\ snap.gen \in Nat
  BY ObjectFields DEF Inv, TypeOK
<1>4. Says(apps', logs', meddling', snap.spec, snap.gen, next.status)
  BY <1>1, <1>2 DEF Says, Aid
<1>5. next.status.observed <= snap.gen
  BY <1>2, <1>3
<1>6. pc' = "write" /\ next' = next /\ UNCHANGED <<lid, fix, stay>>
  BY DEF Goto
<1>7. QED
  BY <1>1, <1>3, <1>4, <1>5, <1>6, WritesStep

LEMMA AidType ==
  ASSUME Inv
  PROVE  Aid \in AppIDs \union {NoID}
BY DEF Inv, TypeOK, Aid, Plan, Status

LEMMA FindLogStep ==
  ASSUME Inv, FindLog
  PROVE  Inv'
<1>1. pc = "findLog" /\ UNCHANGED <<keep, cloud>> /\ UNCHANGED apps /\ UNCHANGED logs
      /\ meddling' = meddling
  BY DEF FindLog, cloud, keep, users
<1>2. CloudFine /\ pc # "idle" /\ pc \in LogPCs
  BY <1>1, SameFine DEF LogPCs
<1>3. AppOf(apps, snap.spec, Aid) /\ next.status.observed = snap.gen /\ Wants.on
  BY <1>1 DEF Inv, WorkerOK, LogPCs
<1>4. CASE Earns("Error", Aid) \/ Earns("Pending", Aid)
  BY <1>1, <1>2, <1>4, AidType, EarnsStep
<1>5. CASE Matching = {} /\ Goto("createLog")
  <2>1. pc' = "createLog" /\ UNCHANGED <<next, lid, fix, snap, moved, stay>>
    BY <1>5 DEF Goto, stay
  <2>2. NoneLive(logs, Aid, Wants.group)
    BY <1>5 DEF NoneLive, Matching, LogsIn
  <2>3. WorkerOK(apps, logs, meddling)'
    BY <1>1, <1>3, <2>1, <2>2 DEF WorkerOK, AppOf, NoneLive, Wants, Aid
  <2>4. pc' \in PCs /\ next' \in Plan /\ lid' \in LogIDs \union {NoID} /\ fix' \subseteq Fields
    BY <2>1 DEF PCs, LogPCs, Inv, TypeOK
  <2>5. QED
    BY <1>1, <1>2, <2>1, <2>3, <2>4, ContinueStep
<1>6. ASSUME NEW l \in LogIDs, Matching = {l}, LogUsable(l)
      PROVE  Inv'
  <2>1. LogIs(logs, l, snap.spec, Aid)
    BY <1>6 DEF LogIs, Matching, LogsIn, Wants
  <2>2. "name" \notin Lacks(l) => logs[l].name = Wants.name
    BY DEF Lacks
  <2>3. "on" \notin Lacks(l) => logs[l].on
    BY DEF Lacks
  <2>4. CASE Lacks(l) = {}
    <3>1. logs[l].name = snap.spec.logging.name /\ logs[l].on
      BY <2>2, <2>3, <2>4 DEF Wants
    <3>2. HasLog(logs', snap.spec, Aid)
      BY <1>1, <2>1, <3>1 DEF HasLog, LogIs
    <3>3. Goto("write")
      BY <1>6, <2>4 DEF LogUsable
    <3>4. QED
      BY <1>1, <1>2, <3>2, <3>3, LogDone
  <2>5. CASE Lacks(l) # {}
    <3>1. pc' = "updateLog" /\ lid' = l /\ fix' = Lacks(l) /\ UNCHANGED <<next, snap, moved, stay>>
      BY <1>6, <2>5 DEF LogUsable, stay
    <3>2. WorkerOK(apps, logs, meddling)'
      BY <1>1, <1>3, <2>1, <2>2, <2>3, <3>1 DEF WorkerOK, AppOf, LogIs, Wants, Aid
    <3>3. pc' \in PCs /\ next' \in Plan /\ lid' \in LogIDs \union {NoID}
      BY <3>1 DEF PCs, LogPCs, Inv, TypeOK
    <3>4. fix' \subseteq Fields
      BY <3>1 DEF Lacks, Fields
    <3>5. QED
      BY <1>1, <1>2, <3>1, <3>2, <3>3, <3>4, ContinueStep
  <2>6. QED
    BY <2>4, <2>5
<1>7. QED
  BY <1>4, <1>5, <1>6 DEF FindLog, NoLog, TooMany, LogBusy, LogBroken

LEMMA FindLogFailsStep ==
  ASSUME Inv, FindLogFails
  PROVE  Inv'
BY SameFine, AidType, EarnsStep DEF FindLogFails

LEMMA CreateLogStep ==
  ASSUME Inv, CreateLog
  PROVE  Inv'
<1>1. pc = "createLog" /\ pc \in LogPCs /\ UNCHANGED keep /\ meddling' = meddling /\ MakeLog
      /\ Goto("write") /\ UNCHANGED apps
  BY DEF CreateLog, MakeLog, keep, users, LogPCs
<1>2. CloudFine /\ HasLog(logs', snap.spec, Aid)
  BY <1>1, MakeLogTame, TameFine
<1>3. QED
  BY <1>1, <1>2, LogDone

LEMMA CreateLogFailsStep ==
  ASSUME Inv, CreateLogFails
  PROVE  Inv'
<1>1. pc = "createLog" /\ UNCHANGED keep /\ meddling' = meddling /\ Earns("Error", Aid)
  BY DEF CreateLogFails, keep, users
<1>2. CloudFine
  BY <1>1, SameTame, MakeLogTame, TameFine DEF CreateLogFails
<1>3. QED
  BY <1>1, <1>2, AidType, EarnsStep

LEMMA UpdateLogStep ==
  ASSUME Inv, UpdateLog
  PROVE  Inv'
<1>1. pc = "updateLog" /\ pc \in LogPCs /\ UNCHANGED keep /\ meddling' = meddling /\ ChangeLog
      /\ Goto("write") /\ UNCHANGED apps
  BY DEF UpdateLog, ChangeLog, keep, users, LogPCs
<1>2. CloudFine /\ (Quiet(meddling) => HasLog(logs', snap.spec, Aid))
  BY <1>1, ChangeLogFine
<1>3. QED
  BY <1>1, <1>2, LogDone

LEMMA UpdateLogFailsStep ==
  ASSUME Inv, UpdateLogFails
  PROVE  Inv'
<1>1. pc = "updateLog" /\ UNCHANGED keep /\ meddling' = meddling /\ Earns("Error", Aid)
  BY DEF UpdateLogFails, keep, users
<1>2. CloudFine
  BY <1>1, SameTame, TameFine, ChangeLogFine DEF UpdateLogFails
<1>3. QED
  BY <1>1, <1>2, AidType, EarnsStep
-----------------------------------------------------------------------------
(* The end of a reconcile, and all together.                               *)

LEMMA EraseStep ==
  ASSUME Inv, Erase \/ EraseFails
  PROVE  Inv'
<1>1. pc = "erase" /\ UNCHANGED keep /\ meddling' = meddling /\ (UNCHANGED cloud \/ EraseApp)
  BY DEF Erase, EraseFails, keep, users
<1>2. CloudTame /\ CloudFine
  BY <1>1, SameTame, EraseAppTame, TameFine
<1>3. snap \in Object /\ snap.status \in Status /\ snap.gen \in Nat /\ next \in Plan
  BY ObjectFields DEF Inv, TypeOK
<1>4. CASE Goto("write")
  <2>1. next.status = snap.status
    BY <1>1 DEF Inv, WorkerOK
  <2>2. ~ moved => /\ next.status.observed <= snap.gen
                   /\ Says(apps', logs', meddling', snap.spec, snap.gen, next.status)
    <3>1. SUFFICES ASSUME ~ moved
                   PROVE  /\ snap.status.observed <= snap.gen
                          /\ Says(apps', logs', meddling', snap.spec, snap.gen, snap.status)
      BY <2>1
    <3>2. obj[who] = snap /\ who \in Objects
      BY <1>1, <3>1 DEF Inv, ReadsOK, TypeOK
    <3>3. QED
      BY <1>2, <3>2 DEF CloudFine, ClaimsOK
  <2>3. pc' = "write" /\ next' = next /\ UNCHANGED <<lid, fix, stay>>
    BY <1>4 DEF Goto
  <2>4. QED
    BY <1>1, <1>2, <1>3, <2>2, <2>3, WritesStep
<1>5. CASE Writes(Undeleted(snap))
  <2>1. Undeleted(snap) \in Plan
    BY <1>3, PlanMade
  <2>2. /\ Undeleted(snap).status.phase = "Error"
        /\ Undeleted(snap).status.observed = snap.gen
    BY <1>3 DEF Undeleted, Status
  <2>3. Says(apps', logs', meddling', snap.spec, snap.gen, Undeleted(snap).status)
    BY <2>2 DEF Says
  <2>4. Undeleted(snap).status.observed <= snap.gen
    BY <1>3, <2>2
  <2>5. QED
    BY <1>1, <1>2, <1>5, <2>1, <2>3, <2>4, WritesStep DEF Writes
<1>6. QED
  BY <1>4, <1>5 DEF Erase, EraseFails

\* The reconcile of who ends, and leaves it in the version new.
LEMMA PublishedStep ==
  ASSUME Inv, pc = "write", NEW new \in Object, Publish(who, new), Return,
         UNCHANGED <<apps, logs, meddling>>, new.spec = obj[who].spec, new.status.observed <= new.gen,
         Says(apps, logs, meddling, new.spec, new.gen, new.status)
  PROVE  Inv'
<1>1. /\ cache[who] = obj[who] /\ obj' = [obj EXCEPT ![who] = new] /\ cache' = cache
      /\ who \in Objects
  BY DEF Publish, Inv, TypeOK
<1>2. \A q \in Objects : obj'[q] = IF q = who THEN new ELSE obj[q]
  BY <1>1 DEF Inv, TypeOK
<1>3. TypeOK'
  <2>1. pc' \in PCs
    BY ReturnOK DEF PCs
  <2>2. obj' \in [Objects -> Object]
    BY <1>1 DEF Inv, TypeOK
  <2>3. QED
    BY <1>1, <2>1, <2>2, ReturnOK DEF Inv, TypeOK
<1>4. SpecsOK'
  BY <1>1, <1>2, ReturnOK DEF Inv, SpecsOK
<1>5. ReadsOK'
  <2>1. ASSUME NEW q \in Objects, ReadyVersion(obj[q])' PROVE cache'[q].spec = obj'[q].spec
    <3>1. CASE q = who
      BY <1>1, <1>2, <3>1
    <3>2. CASE q # who
      <4>1. ReadyVersion(obj[q])
        BY <1>2, <2>1, <3>2 DEF ReadyVersion
      <4>2. QED
        BY <1>1, <1>2, <3>2, <4>1 DEF Inv, ReadsOK
    <3>3. QED
      BY <3>1, <3>2
  <2>2. pc' = "idle"
    BY DEF Return
  <2>3. QED
    BY <2>1, <2>2 DEF ReadsOK
<1>6. ClaimsOK(apps, logs, meddling)'
  <2>1. ASSUME NEW q \in Objects
        PROVE  /\ obj'[q].status.observed <= obj'[q].gen
               /\ Says(apps, logs, meddling, obj'[q].spec, obj'[q].gen, obj'[q].status)
    BY <1>2 DEF Inv, ClaimsOK
  <2>2. QED
    BY <2>1 DEF ClaimsOK, Says, Quiet, HasLog, LogIs, AppOf
<1>7. UsersOK(apps)' /\ WorkerOK(apps, logs, meddling)'
  BY DEF Inv, UsersOK, Return, WorkerOK, LogPCs
<1>8. QED
  BY <1>3, <1>4, <1>5, <1>6, <1>7 DEF Inv

\* The reconcile ends and leaves nothing.
LEMMA LeaveStep ==
  ASSUME Inv, Return, UNCHANGED <<obj, cache, apps, logs, meddling>>
  PROVE  Inv'
<1>1. TypeOK' /\ SpecsOK' /\ ReadsOK'
  BY ReturnOK DEF Inv, TypeOK, SpecsOK, ReadsOK, ReadyVersion, PCs
<1>2. UsersOK(apps)' /\ ClaimsOK(apps, logs, meddling)'
  BY DEF Inv, UsersOK, ClaimsOK, Says, Quiet, HasLog, LogIs, AppOf
<1>3. WorkerOK(apps, logs, meddling)'
  BY DEF Return, WorkerOK, LogPCs
<1>4. QED
  BY <1>1, <1>2, <1>3 DEF Inv

LEMMA WriteStep ==
  ASSUME Inv, Write
  PROVE  Inv'
<1>1. pc = "write" /\ Return /\ UNCHANGED <<apps, logs, meddling>>
  BY DEF Write, cloud, users
<1>2. CASE UNCHANGED objects
  BY <1>1, <1>2, LeaveStep DEF objects
<1>3. CASE ~ Unwritten
  <2>1. ~ moved /\ obj[who] = snap /\ who \in Objects
    BY <1>1, <1>3 DEF Write, Inv, ReadsOK, TypeOK
  <2>2. /\ next.status.observed <= snap.gen
        /\ Says(apps, logs, meddling, snap.spec, snap.gen, next.status)
    BY <1>1, <2>1 DEF Inv, WorkerOK
  <2>3. /\ obj[who] \in Object /\ obj[who].spec \in AppSpec
        /\ next.final \in BOOLEAN /\ next.status \in Status
    BY <2>1, ObjectFields DEF Inv, TypeOK, Plan
  <2>4. CASE Publish(who, Gone(obj[who]))
    <3>1. Gone(obj[who]) \in Object
      BY <2>3, ObjectMade
    <3>2. /\ Gone(obj[who]).spec = obj[who].spec
          /\ Gone(obj[who]).status.observed <= Gone(obj[who]).gen
      BY NewbornVersion
    <3>3. Says(apps, logs, meddling, Gone(obj[who]).spec, Gone(obj[who]).gen, Gone(obj[who]).status)
      BY NewbornVersion DEF Says, ReadyVersion
    <3>4. QED
      BY <1>1, <2>4, <3>1, <3>2, <3>3, PublishedStep
  <2>5. CASE Publish(who, [obj[who] EXCEPT !.final = next.final, !.status = next.status])
    <3>1. PICK new : new = [obj[who] EXCEPT !.final = next.final, !.status = next.status]
      OBVIOUS
    <3>2. new \in Object
      BY <2>3, <3>1, ObjectMade
    <3>3. new.spec = snap.spec /\ new.gen = snap.gen /\ new.status = next.status
      BY <2>1, <2>3, <3>1 DEF Object
    <3>4. QED
      BY <1>1, <2>1, <2>2, <2>5, <3>1, <3>2, <3>3, PublishedStep
  <2>6. QED
    BY <1>3, <2>4, <2>5 DEF Write
<1>4. QED
  BY <1>2, <1>3 DEF Write

LEMMA WriteRefusedStep ==
  ASSUME Inv, WriteRefused
  PROVE  Inv'
BY LeaveStep DEF WriteRefused, keep, objects, users, cloud

LEMMA StutterStep ==
  ASSUME Inv, UNCHANGED vars
  PROVE  Inv'
<1>1. TypeOK' /\ SpecsOK' /\ ReadsOK'
  BY DEF vars, Inv, TypeOK, SpecsOK, ReadsOK, ReadyVersion
<1>2. UsersOK(apps)' /\ ClaimsOK(apps, logs, meddling)'
  BY DEF vars, Inv, UsersOK, ClaimsOK, Says, Quiet, HasLog, LogIs, AppOf
<1>3. WorkerOK(apps, logs, meddling)'
  BY DEF vars, Inv, WorkerOK, Says, Quiet, HasLog, LogIs, AppOf, NoneLive, Wants, Aid
<1>4. QED
  BY <1>1, <1>2, <1>3 DEF Inv

LEMMA StepKeeps == Inv /\ [Next]_vars => Inv'
<1> SUFFICES ASSUME Inv, [Next]_vars PROVE Inv'
  OBVIOUS
<1>1. CASE Environment
  <2>1. ASSUME NEW o \in Objects, EditSpec(o) \/ DeleteObject(o) \/ CreateObject(o)
        PROVE  Inv'
    BY <2>1, EditStep, DeleteStep, CreateStep
  <2>2. CASE LogFails
    <3>1. UNCHANGED <<objects, worker>> /\ meddling' \in Nat
      BY <2>2 DEF LogFails, users, Inv, TypeOK
    <3>2. QED
      BY <2>2, <3>1, LogFailsTame, CloudStep
  <2>3. CASE Meddle
    <3>1. UNCHANGED <<objects, worker>>
      BY <2>3 DEF Meddle
    <3>2. QED
      BY <2>3, <3>1, MeddleTame, CloudStep
  <2>4. CASE Crash
    BY <2>4, CrashStep
  <2>5. QED
    BY <1>1, <2>1, <2>2, <2>3, <2>4 DEF Environment
<1>2. CASE Settle
  <2>1. UNCHANGED <<objects, worker>> /\ meddling' \in Nat
    BY <1>2 DEF Settle, users, Inv, TypeOK
  <2>2. QED
    BY <1>2, <2>1, SettleTame, CloudStep
<1>3. ASSUME NEW o \in Objects, Sync(o) \/ Begin(o)
      PROVE  Inv'
  BY <1>3, SyncStep, BeginStep
<1>4. CASE Continue
  BY <1>4, FindAppStep, FindAppFailsStep, CreateAppStep, CreateAppFailsStep, UpdateAppStep,
     UpdateAppFailsStep, FindLogStep, FindLogFailsStep, CreateLogStep, CreateLogFailsStep,
     UpdateLogStep, UpdateLogFailsStep, EraseStep, WriteStep, WriteRefusedStep DEF Continue
<1>5. CASE UNCHANGED vars
  BY <1>5, StutterStep
<1>6. QED
  BY <1>1, <1>2, <1>3, <1>4, <1>5 DEF Next

LEMMA InitOK == Init => Inv
<1> SUFFICES ASSUME Init PROVE Inv
  OBVIOUS
<1>1. /\ cache = obj /\ pc = "idle" /\ who = SomeObject /\ snap = NoObject /\ moved = FALSE
      /\ next = Nothing /\ lid = NoID /\ fix = {} /\ meddling = 0
      /\ obj \in [Objects -> {NewObject(s) : s \in UNION {Specs[o] : o \in Objects}}]
      /\ \A o \in Objects : obj[o].spec \in Specs[o]
  BY DEF Init
<1>2. ASSUME NEW o \in Objects
      PROVE  \E s \in AppSpec : obj[o] = NewObject(s)
  BY <1>1, ConstantsOK
<1>3. obj \in [Objects -> Object]
  <2>1. ASSUME NEW o \in Objects PROVE obj[o] \in Object
    <3>1. PICK s \in AppSpec : obj[o] = NewObject(s)
      BY <1>2
    <3>2. NewObject(s) \in Object
      BY NothingType DEF NewObject, Object
    <3>3. QED
      BY <3>1, <3>2
  <2>2. QED
    BY <1>1, <2>1
<1>4. UnbornApp \in OCIApplication
  BY ConstantsOK, SpecFields DEF UnbornApp, OCIApplication, AppStates
<1>5. UnbornLog \in OCILog
  BY ConstantsOK, SpecFields DEF UnbornLog, OCILog, LogStates
<1>6. apps \in [AppIDs -> OCIApplication] /\ logs \in [LogIDs -> OCILog]
  BY <1>4, <1>5, ConstantsOK DEF Init
<1>7. TypeOK
  BY <1>1, <1>3, <1>6, ConstantsOK, NothingType DEF TypeOK, PCs
<1>8. SpecsOK /\ ReadsOK
  BY <1>1 DEF SpecsOK, ReadsOK
<1>9. UsersOK(apps)
  BY ConstantsOK DEF UsersOK, Init
<1>10. ClaimsOK(apps, logs, meddling)
  <2>1. ASSUME NEW o \in Objects
        PROVE  /\ obj[o].status.observed <= obj[o].gen /\ ~ ReadyVersion(obj[o])
    <3>1. PICK s \in AppSpec : obj[o] = NewObject(s)
      BY <1>2
    <3>2. QED
      BY <3>1, NewbornVersion
  <2>2. QED
    BY <2>1 DEF ClaimsOK, Says, ReadyVersion
<1>11. WorkerOK(apps, logs, meddling)
  BY <1>1 DEF WorkerOK, LogPCs
<1>12. QED
  BY <1>7, <1>8, <1>9, <1>10, <1>11 DEF Inv

LEMMA Invariance == Spec => []Inv
BY InitOK, StepKeeps, PTL DEF Spec
-----------------------------------------------------------------------------
(* The theorems.                                                           *)

\* An object that is Ready for its spec with logs has the application of this spec
\* and, as long as nobody meddles, a log of it in the group, under the name and
\* switched on.  NoRivals is needed: two objects with one application and two
\* names would take the log from each other.
THEOREM ReadyIsLogged == Spec => [](NoRivals => ReadyHasLog)
<1>1. Inv => (NoRivals => ReadyHasLog)
  <2>1. SUFFICES ASSUME Inv, NoRivals, NEW o \in Objects, IsReady(o), obj[o].spec.logging.on, meddling = 0
                 PROVE  /\ IsAppOf(obj[o].spec, obj[o].status.aid)
                        /\ LogsOf(obj[o].spec, obj[o].status.aid) # {}
    BY DEF ReadyHasLog
  <2>2. AppOf(apps, obj[o].spec, obj[o].status.aid) /\ HasLog(logs, obj[o].spec, obj[o].status.aid)
    BY <2>1 DEF Inv, ClaimsOK, Says, IsReady, Quiet
  <2>3. IsAppOf(obj[o].spec, obj[o].status.aid)
    BY <2>2 DEF AppOf, IsAppOf
  <2>4. LogsOf(obj[o].spec, obj[o].status.aid) # {}
    BY <2>2 DEF HasLog, LogIs, LogsOf
  <2>5. QED
    BY <2>3, <2>4
<1>2. QED
  BY <1>1, Invariance, PTL

\* A log comes to life only where the application has none in the group.
LEMMA BirthStep ==
  ASSUME Inv, [Next]_vars
  PROVE  NoBirth(logs, logs') \/ (MakeLog /\ NoneLive(logs, Aid, Wants.group))
<1>1. CASE UNCHANGED logs
  BY <1>1 DEF NoBirth
<1>2. CASE Settle \/ LogFails \/ Meddle
  BY <1>2, SettleTame, LogFailsTame, MeddleTame
<1>3. CASE MakeLog /\ pc = "createLog"
  BY <1>3 DEF Inv, WorkerOK
<1>4. CASE ChangeLog /\ pc = "updateLog"
  <2>1. lid \in LogIDs
    BY <1>4 DEF Inv, WorkerOK
  <2>2. /\ \A k \in LogIDs : logs'[k].source = logs[k].source /\ logs'[k].group = logs[k].group
        /\ \A k \in LogIDs : k # lid => logs'[k].state = logs[k].state
    BY <1>4, <2>1 DEF ChangeLog, Inv, TypeOK, OCILog
  <2>3. logs[lid].state \in {"active", "inactive"}
    BY <1>4 DEF ChangeLog
  <2>4. QED
    BY <2>2, <2>3 DEF NoBirth
<1>5. QED
  BY <1>1, <1>2, <1>3, <1>4
  DEF Next, vars, Environment, EditSpec, DeleteObject, CreateObject, Touch, Crash, Sync, Begin,
      StartFinalizer, StartEnsure, StartRetain, StartDelete, Start, Continue, FindApp, FindAppFails,
      CreateApp, CreateAppFails, MakeApp, UpdateApp, UpdateAppFails, ChangeApp, FindLog,
      FindLogFails, CreateLog, CreateLogFails, UpdateLog, UpdateLogFails, Erase, EraseFails,
      EraseApp, Write, WriteRefused, cloud

LEMMA LogIDsFinite == IsFiniteSet(LogIDs)
<1>1. MaxLogs \in Nat
  BY LogAssumption
<1>2. QED
  BY <1>1, FS_Interval DEF LogIDs

\* No application ever gets a second log in a group: whatever reply was lost, and
\* wherever the process died, the worker that creates one has seen that there is none.
THEOREM OneLog == Spec => NoSecondLog
<1>1. ASSUME Inv, [Next]_vars, NEW a \in AppIDs, NEW g \in Groups
      PROVE  Cardinality(LiveLogsOf(a, g))' > 1 =>
               Cardinality(LiveLogsOf(a, g))' <= Cardinality(LiveLogsOf(a, g))
  <2> DEFINE L == LiveLogsOf(a, g)
             M == {l \in LogIDs : /\ logs'[l].state \notin {"unborn", "deleted"}
                                  /\ logs'[l].source = a /\ logs'[l].group = g}
  <2>1. LiveLogsOf(a, g)' = M
    BY DEF LiveLogsOf
  <2>2. IsFiniteSet(L) /\ IsFiniteSet(M)
    BY LogIDsFinite, FS_Subset DEF LiveLogsOf
  <2>3. M \subseteq L \/ \E l : M \subseteq {l}
    <3>1. CASE NoBirth(logs, logs')
      BY <3>1 DEF NoBirth, LiveLogsOf
    <3>2. CASE MakeLog /\ NoneLive(logs, Aid, Wants.group)
      <4>1. PICK l \in LogIDs :
              logs' = [logs EXCEPT ![l] = [state |-> "creating", group |-> Wants.group,
                                           name |-> Wants.name, source |-> Aid, on |-> TRUE]]
        BY <3>2 DEF MakeLog
      <4>2. /\ \A k \in LogIDs : k # l => logs'[k] = logs[k]
            /\ logs'[l].source = Aid /\ logs'[l].group = Wants.group
        BY <1>1, <4>1 DEF Inv, TypeOK
      <4>3. CASE a = Aid /\ g = Wants.group
        <5>1. \A k \in LogIDs : k # l => k \notin M
          BY <3>2, <4>2, <4>3 DEF NoneLive
        <5>2. QED
          BY <5>1
      <4>4. CASE ~ (a = Aid /\ g = Wants.group)
        BY <4>2, <4>4 DEF LiveLogsOf
      <4>5. QED
        BY <4>3, <4>4
    <3>3. QED
      BY <1>1, <3>1, <3>2, BirthStep
  <2>4. CASE M \subseteq L
    <3>1. Cardinality(M) <= Cardinality(L)
      BY <2>2, <2>4, FS_Subset
    <3>2. QED
      BY <2>1, <3>1
  <2>5. CASE \E l : M \subseteq {l}
    <3>1. PICK l : M \subseteq {l}
      BY <2>5
    <3>2. IsFiniteSet({l}) /\ Cardinality({l}) = 1
      BY FS_Singleton
    <3>3. Cardinality(M) <= Cardinality({l})
      BY <3>1, <3>2, FS_Subset
    <3>4. Cardinality(M) \in Nat
      BY <2>2, FS_CardinalityType
    <3>5. QED
      BY <2>1, <3>2, <3>3, <3>4
  <2>6. QED
    BY <2>3, <2>4, <2>5
<1>2. Inv /\ [Next]_vars =>
        [\A a \in AppIDs, g \in Groups :
           Cardinality(LiveLogsOf(a, g))' > 1 =>
             Cardinality(LiveLogsOf(a, g))' <= Cardinality(LiveLogsOf(a, g))]_vars
  BY <1>1
<1>3. QED
  BY <1>2, Invariance, PTL DEF Spec, NoSecondLog
=============================================================================
