---------------------------- MODULE InvocationLog ----------------------------
(***************************************************************************)
(* The FunctionApplication controller in both its modes, and what it keeps *)
(* in OCI for an application: the application, found by its id or by name, *)
(* its mutable fields, and the service log of its invocations in a log     *)
(* group that others use too.                                              *)
(*                                                                         *)
(* Application and log are made in steps.  A log is found by its source,   *)
(* the application, in a listing of the group; its display name has to be  *)
(* free in the group; and OCI works on it for a while after each change,   *)
(* during which the application is not ready.  Nothing deletes a log.      *)
(*                                                                         *)
(* One worker serves all FunctionApplications, as in FunctionIdentity: it  *)
(* reads a cache, writes once, and sees each live object again and again.  *)
(*                                                                         *)
(* Left out: the Functions in an application (FunctionLifecycle has them), *)
(* the region of the client, the pages of a listing, a log's service and   *)
(* category (one pair), messages, conditions, times and events; specs that *)
(* fail the validation; missing clients.                                   *)
(***************************************************************************)
EXTENDS Integers, FiniteSets

CONSTANTS
  Objects,         \* the FunctionApplications
  AppNames, Nets, Confs,   \* names, subnet lists, and NSGs with config of applications
  Groups, LogNames, Lines, \* log groups, display names of logs, line formats
  Specs,           \* for each object, the specs a user may give it
  UserApps,        \* OCI applications that are there before the operator is
  UserLogs,        \* logs that are there before it is, by their id
  MaxApps, MaxLogs,\* bounds: OCI applications and logs that ever exist
  MaxEdits,        \* bound: how often users edit a spec
  MaxCreations,    \* bound: how often a FunctionApplication is created again
  MaxMishaps,      \* bound: OCI calls that fail or whose reply is lost, logs that
                   \* OCI fails to make, and crashes
  MaxMeddling,     \* bound: how often somebody else disables or deletes a log, or
                   \* deletes an application
  MaxDisturbances  \* bound: the four above together

Policies  == {"Delete", "Retain"}
Modes     == {"Managed", "Existing"}
AppIDs    == 1 .. MaxApps
LogIDs    == 1 .. MaxLogs
NoID      == 0
Unmanaged == "unmanaged"

\* Invocation logs are on, off or not spoken of; both leave what is there alone.
Logging == [on : BOOLEAN, group : Groups, name : LogNames, line : Lines]
AppSpec == [mode : Modes, policy : Policies, id : AppIDs \union {NoID},
            name : AppNames, net : Nets \union {Unmanaged},
            conf : Confs \union {Unmanaged}, logging : Logging]

Newborn   == {"creating", "active"}
Busy      == {"creating", "updating", "deleting"}
AppStates == Newborn \union {"unborn", "deleted"}
LogStates == Busy \union {"active", "inactive", "failed", "unborn", "deleted"}

OCIApplication == [state : AppStates, name : AppNames, net : Nets \union {Unmanaged},
                   conf : Confs \union {Unmanaged}, line : Lines \union {Unmanaged}]
OCILog == [state : LogStates, group : Groups, name : LogNames,
           source : AppIDs \union {NoID}, on : BOOLEAN]

ASSUME LogAssumption ==
  /\ Objects # {} /\ Specs \in [Objects -> SUBSET AppSpec]
  /\ \A o \in Objects : Specs[o] # {}
  /\ \A o \in Objects : \A s \in Specs[o] :
       s.mode = "Managed" /\ s.id = NoID => s.net # Unmanaged
  /\ Unmanaged \notin Confs \union Lines \union Nets
  /\ MaxApps \in Nat \ {0} /\ MaxLogs \in Nat \ {0}
  /\ \E S \in SUBSET AppIDs : UserApps \in [S -> OCIApplication]
  /\ \A a \in DOMAIN UserApps : UserApps[a].state # "unborn"
  /\ \E S \in SUBSET LogIDs : UserLogs \in [S -> OCILog]
  /\ {MaxEdits, MaxCreations, MaxMishaps, MaxMeddling, MaxDisturbances} \subseteq Nat

VARIABLES
  obj, cache,      \* the objects in the API server, and in the informer cache
  apps, logs,      \* what OCI holds
  pc, who,         \* what the worker is doing, and for which object
  snap, moved,     \* the version it works on; the object has changed since
  next,            \* the finalizer and the status it will write
  lid, fix,        \* the log it updates, and what of it
  edits, creations, mishaps, meddling   \* how much of the bounds is used

vars == <<obj, cache, apps, logs, pc, who, snap, moved, next, lid, fix, edits,
          creations, mishaps, meddling>>

objects == <<obj, cache>>
cloud   == <<apps, logs>>
worker  == <<pc, who, snap, moved, next, lid, fix>>
users   == <<edits, creations, meddling>>
-----------------------------------------------------------------------------
Status  == [phase : {"", "Pending", "Ready", "Error"}, observed : Nat,
            aid : AppIDs \union {NoID}]
Object  == [stored : BOOLEAN, deleting : BOOLEAN, gen : Nat, spec : AppSpec,
            final : BOOLEAN, status : Status]

LiveApp(a)   == a \in AppIDs /\ apps[a].state \in Newborn
AppsNamed(n) == {a \in AppIDs : LiveApp(a) /\ apps[a].name = n}

\* What the listing of a log group returns: failed and dying logs are in it.
LogsIn(g) == {l \in LogIDs : logs[l].group = g /\ logs[l].state \notin {"unborn", "deleted"}}

SomeObject == CHOOSE o \in Objects : TRUE
SomeSpec   == CHOOSE s \in Specs[SomeObject] : TRUE
NoStatus == [phase |-> "", observed |-> 0, aid |-> NoID]
Nothing  == [final |-> FALSE, status |-> NoStatus]
NoObject == [stored |-> FALSE, deleting |-> FALSE, gen |-> 0, spec |-> SomeSpec,
             final |-> FALSE, status |-> NoStatus]
NewObject(s) == [NoObject EXCEPT !.stored = TRUE, !.gen = 1, !.spec = s]

UnbornApp == [state |-> "unborn", name |-> SomeSpec.name, net |-> Unmanaged,
              conf |-> Unmanaged, line |-> Unmanaged]
UnbornLog == [state |-> "unborn", group |-> SomeSpec.logging.group,
              name |-> SomeSpec.logging.name, source |-> NoID, on |-> FALSE]

Init ==
  /\ obj \in [Objects -> {NewObject(s) : s \in UNION {Specs[o] : o \in Objects}}]
  /\ \A o \in Objects : obj[o].spec \in Specs[o]
  /\ cache = obj
  /\ apps = [a \in AppIDs |-> IF a \in DOMAIN UserApps THEN UserApps[a] ELSE UnbornApp]
  /\ logs = [l \in LogIDs |-> IF l \in DOMAIN UserLogs THEN UserLogs[l] ELSE UnbornLog]
  /\ pc = "idle" /\ who = SomeObject /\ snap = NoObject /\ moved = FALSE
  /\ next = Nothing /\ lid = NoID /\ fix = {}
  /\ edits = 0 /\ creations = 0 /\ mishaps = 0 /\ meddling = 0

Calm == edits + creations + mishaps + meddling < MaxDisturbances

Mishap == mishaps < MaxMishaps /\ Calm /\ mishaps' = mishaps + 1

\* A write the API server accepts; the cache lags by one version at most.
Publish(o, new) ==
  cache[o] = obj[o] /\ obj' = [obj EXCEPT ![o] = new] /\ UNCHANGED cache

Gone(old) == [NoObject EXCEPT !.spec = old.spec]

Return ==
  /\ pc' = "idle" /\ who' = SomeObject /\ snap' = NoObject /\ moved' = FALSE
  /\ next' = Nothing /\ lid' = NoID /\ fix' = {}
-----------------------------------------------------------------------------
(* The environment.                                                        *)

Touch(o, new) ==
  /\ Publish(o, new)
  /\ moved' = (moved \/ (pc # "idle" /\ who = o))
  /\ UNCHANGED <<cloud, pc, who, snap, next, lid, fix, mishaps, meddling>>

EditSpec(o) ==
  /\ obj[o].stored /\ edits < MaxEdits /\ Calm /\ edits' = edits + 1
  /\ \E s \in Specs[o] \ {obj[o].spec} :
       Touch(o, [obj[o] EXCEPT !.spec = s, !.gen = @ + 1])
  /\ UNCHANGED creations

\* An object that is deleted stays, marked, as long as it has a finalizer.
DeleteObject(o) ==
  /\ obj[o].stored /\ ~ obj[o].deleting
  /\ Touch(o, IF obj[o].final THEN [obj[o] EXCEPT !.deleting = TRUE] ELSE Gone(obj[o]))
  /\ UNCHANGED <<edits, creations>>

CreateObject(o) ==
  /\ ~ obj[o].stored /\ creations < MaxCreations /\ Calm /\ creations' = creations + 1
  /\ \E s \in Specs[o] : Touch(o, NewObject(s))
  /\ UNCHANGED edits

Sync(o) ==
  /\ cache[o] # obj[o] /\ cache' = [cache EXCEPT ![o] = obj[o]]
  /\ UNCHANGED <<obj, cloud, worker, users, mishaps>>

\* The process dies; the new one lists every object.
Crash ==
  /\ Mishap /\ cache' = obj /\ Return
  /\ UNCHANGED <<obj, cloud, users>>

\* OCI finishes what it has begun.
Settled(log) ==
  [log EXCEPT !.state = CASE log.state = "deleting" -> "deleted"
                          [] log.state # "deleting" /\ log.on -> "active"
                          [] OTHER -> "inactive"]

Settle ==
  /\ \/ /\ \E a \in AppIDs : apps[a].state = "creating"
                             /\ apps' = [apps EXCEPT ![a].state = "active"]
        /\ UNCHANGED logs
     \/ /\ \E l \in LogIDs : logs[l].state \in Busy
                             /\ logs' = [logs EXCEPT ![l] = Settled(@)]
        /\ UNCHANGED apps
  /\ UNCHANGED <<objects, worker, users, mishaps>>

LogFails ==
  /\ Mishap
  /\ \E l \in LogIDs : logs[l].state = "creating"
                       /\ logs' = [logs EXCEPT ![l].state = "failed"]
  /\ UNCHANGED <<objects, apps, worker, users>>

\* Somebody else works on the operator's logs and applications.
Meddle ==
  /\ meddling < MaxMeddling /\ Calm /\ meddling' = meddling + 1
  /\ \/ /\ \E l \in LogIDs :
             \/ /\ logs[l].state = "active"
                /\ logs' = [logs EXCEPT ![l].state = "updating", ![l].on = FALSE]
             \/ /\ logs[l].state \in {"active", "inactive", "failed"}
                /\ logs' = [logs EXCEPT ![l].state = "deleting"]
        /\ UNCHANGED apps
     \/ /\ \E a \in AppIDs : LiveApp(a) /\ apps' = [apps EXCEPT ![a].state = "deleted"]
        /\ UNCHANGED logs
  /\ UNCHANGED <<objects, worker, edits, creations, mishaps>>
-----------------------------------------------------------------------------
(* A reconcile starts: what it reads decides what it does.                 *)

keep == <<objects, users>>

\* The reconcile of o starts and goes on with step p, about to write w.
Start(o, p, w) ==
  /\ pc = "idle" /\ pc' = p /\ who' = o
  /\ snap' = cache[o] /\ moved' = (cache[o] # obj[o])
  /\ next' = w /\ UNCHANGED <<lid, fix>>
  /\ UNCHANGED <<keep, cloud, mishaps>>

\* The status is built anew: an id that is not given is lost.
Built(old, phase, a) ==
  [final |-> old.final, status |-> [phase |-> phase, observed |-> old.gen, aid |-> a]]

Served(old)       == old.stored /\ ~ old.deleting
BeingDeleted(old) == old.stored /\ old.deleting /\ old.final

\* shouldHaveFunctionApplicationFinalizer, and what a deletion asks.
Owns(old) == old.spec.mode = "Managed" /\ old.spec.policy = "Delete"

StartFinalizer(o) ==
  LET old == cache[o] IN
  /\ Served(old) /\ old.final # Owns(old)
  /\ Start(o, "write", [final |-> Owns(old), status |-> old.status])

StartEnsure(o) ==
  /\ Served(cache[o]) /\ cache[o].final = Owns(cache[o])
  /\ Start(o, "findApp", Nothing)

\* applicationDeleteTarget.
DeleteTarget(old) == IF old.status.aid # NoID THEN old.status.aid ELSE old.spec.id

Undeleted(old) ==
  [final |-> old.final, status |-> [old.status EXCEPT !.phase = "Error", !.observed = old.gen]]

StartRetain(o) ==
  LET old == cache[o] IN
  /\ BeingDeleted(old) /\ ~ Owns(old)
  /\ Start(o, "write", [final |-> FALSE, status |-> old.status])

\* Without an id the deletion fails, however often it is tried.
StartDelete(o) ==
  LET old == cache[o] IN
  /\ BeingDeleted(old) /\ Owns(old)
  /\ IF DeleteTarget(old) = NoID THEN Start(o, "write", Undeleted(old))
     ELSE Start(o, "erase", [final |-> FALSE, status |-> old.status])
-----------------------------------------------------------------------------
(* EnsureApplication, call by call.                                        *)

stay == <<who, snap, moved>>

Writes(w)    == pc' = "write" /\ next' = w /\ UNCHANGED <<lid, fix, stay>>
Earns(phase, a) == Writes(Built(snap, phase, a))
Goto(p)      == pc' = p /\ UNCHANGED <<next, lid, fix, stay>>

\* A call of OCI fails because OCI refuses it, or because of a mishap.
Refused(cond) == IF cond THEN UNCHANGED mishaps ELSE Mishap

Wants == snap.spec.logging
Aid   == next.status.aid

\* The application is settled, in the state OCI has last told of: what is left is
\* its log, or nothing.
WithApp(a, st) ==
  /\ pc' = IF Wants.on THEN "findLog" ELSE "write"
  /\ next' = Built(snap, IF st = "active" THEN "Ready" ELSE "Pending", a)
  /\ UNCHANGED <<lid, fix, stay>>

Found == IF snap.spec.id # NoID THEN {a \in {snap.spec.id} : LiveApp(a)}
         ELSE AppsNamed(snap.spec.name)

\* What OCI cannot change.
Immutable(a) ==
  apps[a].name # snap.spec.name \/ snap.spec.net \notin {Unmanaged, apps[a].net}

\* A line format is set, never taken away.
Mutable(a) ==
  \/ snap.spec.conf \notin {Unmanaged, apps[a].conf}
  \/ Wants.on /\ apps[a].line # Wants.line

FindApp ==
  /\ pc = "findApp"
  /\ \/ \E a \in Found :
          /\ snap.spec.mode = "Existing" /\ WithApp(a, apps[a].state)
     \/ \E a \in Found :
          /\ snap.spec.mode = "Managed"
          /\ IF Immutable(a) THEN Earns("Error", a)
             ELSE IF Mutable(a)
             THEN pc' = "updateApp" /\ next' = Built(snap, "Error", a)
                  /\ UNCHANGED <<lid, fix, stay>>
             ELSE WithApp(a, apps[a].state)
     \/ /\ Found = {}
        /\ IF snap.spec.id # NoID \/ snap.spec.mode = "Existing" THEN Earns("Error", NoID)
           ELSE Goto("createApp")
  /\ UNCHANGED <<keep, cloud, mishaps>>

FindAppFails ==
  /\ pc = "findApp" /\ Mishap /\ Earns("Error", NoID)
  /\ UNCHANGED <<keep, cloud>>

LineOf(old) == IF Wants.on THEN Wants.line ELSE old

MakeApp(a, st) ==
  /\ AppsNamed(snap.spec.name) = {}
  /\ apps[a].state = "unborn" /\ \A b \in AppIDs : apps[b].state = "unborn" => a <= b
  /\ apps' = [apps EXCEPT ![a] =
                [state |-> st, name |-> snap.spec.name, net |-> snap.spec.net,
                 conf |-> snap.spec.conf, line |-> LineOf(Unmanaged)]]
  /\ UNCHANGED logs

CreateApp ==
  /\ pc = "createApp"
  /\ \E a \in AppIDs, st \in Newborn : MakeApp(a, st) /\ WithApp(a, st)
  /\ UNCHANGED <<keep, mishaps>>

CreateAppFails ==
  /\ pc = "createApp" /\ Mishap
  /\ UNCHANGED cloud \/ \E a \in AppIDs, st \in Newborn : MakeApp(a, st)
  /\ Earns("Error", NoID)
  /\ UNCHANGED keep

ChangeApp ==
  /\ LiveApp(Aid)
  /\ apps' = [apps EXCEPT ![Aid].conf = IF snap.spec.conf = Unmanaged THEN @ ELSE snap.spec.conf,
                          ![Aid].line = LineOf(@)]
  /\ UNCHANGED logs

UpdateApp ==
  /\ pc = "updateApp" /\ ChangeApp /\ WithApp(Aid, apps[Aid].state)
  /\ UNCHANGED <<keep, mishaps>>

UpdateAppFails ==
  /\ pc = "updateApp" /\ Refused(~ LiveApp(Aid)) /\ Goto("write")
  /\ UNCHANGED cloud \/ ChangeApp
  /\ UNCHANGED keep
-----------------------------------------------------------------------------
(* ensureApplicationInvocationLog.                                         *)

\* Mutant: only a log that may be updated counts.
Matching_Usable ==
  {l \in LogsIn(Wants.group) : logs[l].source = Aid /\ logs[l].state \notin Busy}

Matching == {l \in LogsIn(Wants.group) : logs[l].source = Aid}
Holders  == {l \in LogsIn(Wants.group) : logs[l].name = Wants.name}

\* Mutant: a log that is switched off is left alone.
Lacks_Name(l) == IF logs[l].name # Wants.name THEN {"name"} ELSE {}

\* Mutant: the display name is not compared.
Lacks_On(l) == IF logs[l].on THEN {} ELSE {"on"}

\* What has to be changed of log l.
Lacks(l) == (IF logs[l].name # Wants.name THEN {"name"} ELSE {})
            \union (IF logs[l].on THEN {} ELSE {"on"})

NameTaken(l) == "name" \in Lacks(l) /\ Holders \ {l} # {}

NoLog  == Matching = {} /\ IF Holders # {} THEN Earns("Error", Aid) ELSE Goto("createLog")
TooMany == Cardinality(Matching) > 1 /\ Earns("Error", Aid)

LogBusy(l)   == logs[l].state \in Busy /\ Earns("Pending", Aid)
LogBroken(l) == (logs[l].state = "failed" \/ (logs[l].state \notin Busy /\ NameTaken(l)))
                /\ Earns("Error", Aid)
LogUsable(l) ==
  /\ logs[l].state \in {"active", "inactive"} /\ ~ NameTaken(l)
  /\ IF Lacks(l) = {} THEN Goto("write")
     ELSE pc' = "updateLog" /\ lid' = l /\ fix' = Lacks(l) /\ UNCHANGED <<next, stay>>

FindLog ==
  /\ pc = "findLog"
  /\ \/ NoLog
     \/ TooMany
     \/ \E l \in LogIDs : Matching = {l} /\ (LogBusy(l) \/ LogBroken(l) \/ LogUsable(l))
  /\ UNCHANGED <<keep, cloud, mishaps>>

FindLogFails ==
  /\ pc = "findLog" /\ Mishap /\ Earns("Error", Aid)
  /\ UNCHANGED <<keep, cloud>>

\* OCI refuses a name that is taken in the group, and works on the log for a while.
MakeLog ==
  /\ Holders = {} /\ LiveApp(Aid)
  /\ \E l \in LogIDs :
       /\ logs[l].state = "unborn" /\ \A k \in LogIDs : logs[k].state = "unborn" => l <= k
       /\ logs' = [logs EXCEPT ![l] = [state |-> "creating", group |-> Wants.group,
                                       name |-> Wants.name, source |-> Aid, on |-> TRUE]]
  /\ UNCHANGED apps

CreateLog ==
  /\ pc = "createLog" /\ MakeLog /\ Goto("write")
  /\ UNCHANGED <<keep, mishaps>>

CreateLogFails ==
  /\ pc = "createLog" /\ Refused(Holders # {} \/ ~ LiveApp(Aid))
  /\ UNCHANGED cloud \/ MakeLog
  /\ Earns("Error", Aid)
  /\ UNCHANGED keep

\* An update names the fields that differed when the log was listed.
ChangeLog ==
  /\ logs[lid].state \in {"active", "inactive"}
  /\ logs' = [logs EXCEPT ![lid].state = "updating",
                          ![lid].name = IF "name" \in fix THEN Wants.name ELSE @,
                          ![lid].on = IF "on" \in fix THEN TRUE ELSE @]
  /\ UNCHANGED apps

UpdateLog ==
  /\ pc = "updateLog" /\ ChangeLog /\ Goto("write")
  /\ UNCHANGED <<keep, mishaps>>

UpdateLogFails ==
  /\ pc = "updateLog" /\ Refused(logs[lid].state \notin {"active", "inactive"})
  /\ UNCHANGED cloud \/ ChangeLog
  /\ Earns("Error", Aid)
  /\ UNCHANGED keep
-----------------------------------------------------------------------------
(* DeleteApplication, and the end of a reconcile.                          *)

EraseApp ==
  LET a == DeleteTarget(snap) IN
  /\ apps' = IF LiveApp(a) THEN [apps EXCEPT ![a].state = "deleted"] ELSE apps
  /\ UNCHANGED logs

\* An application OCI does not know counts as deleted.  Its log stays.
Erase ==
  /\ pc = "erase" /\ EraseApp /\ Goto("write")
  /\ UNCHANGED <<keep, mishaps>>

EraseFails ==
  /\ pc = "erase" /\ Mishap /\ Writes(Undeleted(snap))
  /\ UNCHANGED cloud \/ EraseApp
  /\ UNCHANGED keep

Unwritten == next = [final |-> snap.final, status |-> snap.status]

Write ==
  /\ pc = "write"
  /\ IF Unwritten THEN UNCHANGED objects
     ELSE /\ ~ moved
          /\ Publish(who, IF obj[who].deleting /\ ~ next.final THEN Gone(obj[who])
                          ELSE [obj[who] EXCEPT !.final = next.final,
                                                !.status = next.status])
  /\ Return
  /\ UNCHANGED <<cloud, users, mishaps>>

WriteRefused ==
  /\ pc = "write" /\ ~ Unwritten /\ moved /\ Return
  /\ UNCHANGED <<keep, cloud, mishaps>>
-----------------------------------------------------------------------------
Environment ==
  \/ \E o \in Objects : EditSpec(o) \/ DeleteObject(o) \/ CreateObject(o)
  \/ LogFails \/ Meddle \/ Crash

Begin(o) ==
  StartFinalizer(o) \/ StartEnsure(o) \/ StartRetain(o) \/ StartDelete(o)

Continue ==
  \/ FindApp \/ FindAppFails \/ CreateApp \/ CreateAppFails \/ UpdateApp \/ UpdateAppFails
  \/ FindLog \/ FindLogFails \/ CreateLog \/ CreateLogFails \/ UpdateLog \/ UpdateLogFails
  \/ Erase \/ EraseFails \/ Write \/ WriteRefused

Next ==
  \/ Environment \/ Settle
  \/ \E o \in Objects : Sync(o) \/ Begin(o)
  \/ Continue

Spec == Init /\ [][Next]_vars

\* As in FunctionIdentity: the queue is a FIFO, and OCI finishes what it begins.
\* Every step of the worker changes pc.
Fairness ==
  /\ WF_pc(Continue) /\ WF_cloud(Settle)
  /\ \A o \in Objects : WF_cache(Sync(o)) /\ SF_pc(Begin(o))

FairSpec == Spec /\ Fairness
-----------------------------------------------------------------------------
(* What the controller promises.                                           *)

IsReady(o) == obj[o].status.phase = "Ready" /\ obj[o].status.observed = obj[o].gen

\* The logs of application a that carry what spec s asks for.
LogsOf(s, a) == {l \in LogIDs : /\ logs[l].state # "unborn" /\ logs[l].source = a
                                /\ logs[l].group = s.logging.group
                                /\ logs[l].name = s.logging.name /\ logs[l].on}

\* Application a is the one of spec s.  Mode Existing with an id asks for no name.
IsAppOf(s, a) ==
  /\ a \in AppIDs /\ apps[a].state # "unborn"
  /\ s.id # NoID => a = s.id
  /\ s.id = NoID \/ s.mode = "Managed" => apps[a].name = s.name

\* As long as nobody else meddles, an object that is Ready for a spec that asks for
\* logs has the application of this spec, with a log of this application in the
\* group, under the name and switched on, also after edits of any of these.
ReadyHasLog ==
  \A o \in Objects :
    LET s == obj[o].spec  a == obj[o].status.aid IN
    IsReady(o) /\ s.logging.on /\ meddling = 0 => IsAppOf(s, a) /\ LogsOf(s, a) # {}

\* The names the application of s may have.
NamesOf(s) == IF s.id = NoID \/ s.mode = "Managed" THEN {s.name}
              ELSE IF s.id \in DOMAIN UserApps THEN {UserApps[s.id].name} ELSE AppNames

\* Specs of two applications, whatever happens.
Apart(s, t) == \/ NoID \notin {s.id, t.id} /\ s.id # t.id
               \/ NamesOf(s) \intersect NamesOf(t) = {}

\* No two objects ask for the log of one application under two names in a group:
\* each would rename it, and neither would notice.
NoRivals ==
  \A o, q \in Objects : \A s \in Specs[o], t \in Specs[q] :
    o # q /\ s.logging.on /\ t.logging.on /\ s.logging.group = t.logging.group =>
      s.logging.name = t.logging.name \/ Apart(s, t)

LiveLogsOf(a, g) ==
  {l \in LogIDs : /\ logs[l].state \notin {"unborn", "deleted"}
                  /\ logs[l].source = a /\ logs[l].group = g}

\* No application ever gets a second log in a group, although a reply may be lost,
\* the process may die after the creation and the name may be edited.
NoSecondLog ==
  [][\A a \in AppIDs, g \in Groups :
       Cardinality(LiveLogsOf(a, g))' > 1 =>
         Cardinality(LiveLogsOf(a, g))' <= Cardinality(LiveLogsOf(a, g))]_vars

Asks(o) == obj[o].stored /\ ~ obj[o].deleting /\ obj[o].spec.logging.on

\* The applications that answer to the spec of o.
Means(o) ==
  LET s == obj[o].spec
  IN  {a \in AppIDs : LiveApp(a) /\ IF s.id # NoID THEN a = s.id ELSE apps[a].name = s.name}

\* What the operator cannot mend: the application referred to is gone, the name is
\* held by a log of another source, the application's log has failed, it has
\* several, or another object wants it under another name.
Obstructed(o) ==
  LET s == obj[o].spec
      g == s.logging.group
      As == Means(o)
  IN  \/ As = {} /\ (s.id # NoID \/ s.mode = "Existing")
      \/ \E l \in LogIDs : /\ logs[l].group = g /\ logs[l].name = s.logging.name
                           /\ logs[l].state \notin {"unborn", "deleted"}
                           /\ logs[l].source \notin As
      \/ \E a \in As : \/ Cardinality(LiveLogsOf(a, g)) > 1
                       \/ \E l \in LiveLogsOf(a, g) : logs[l].state = "failed"
      \/ \E q \in Objects : /\ Asks(q) /\ obj[q].spec.logging.name # s.logging.name
                           /\ Means(q) \intersect As # {}

Logged(o) ==
  IsReady(o) /\ \E l \in LogsOf(obj[o].spec, obj[o].status.aid) : logs[l].state = "active"

\* An object that asks for logs ends up Ready with an active log, also when somebody
\* switches the log off or deletes it, unless something stands in the way for good.
EventuallyLogged ==
  \A o \in Objects :
    <>[](Asks(o) /\ ~ Obstructed(o)) => <>[]Logged(o)
=============================================================================
