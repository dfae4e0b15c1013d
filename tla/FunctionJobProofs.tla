------------------------- MODULE FunctionJobProofs -------------------------
(***************************************************************************)
(* Theorems about FunctionJob, for every value of its constants: types,    *)
(* safety, the refinement of JobPromise, and what holds beyond it as long  *)
(* as no reconcile has started from a cache that lags.                     *)
(*                                                                         *)
(* The invariant behind them says what each holder of a version of the job *)
(* can know (ViewOK), and what the status being built may claim.           *)
(***************************************************************************)
EXTENDS FunctionJob, TLAPS, FiniteSetTheorems

-----------------------------------------------------------------------------
(* The pure operators.                                                     *)

LEMMA ConstantsOK ==
  /\ MaxPayloads \in Nat /\ MaxRetryLimit \in Nat
  /\ MaxCrashes \in Nat /\ MaxStaleReads \in Nat /\ MaxEdits \in Nat
  /\ Specs # {} /\ Specs \subseteq Spec0
BY JobAssumption

\* The payloads of a spec are a sequence of at most MaxPayloads digests.
LEMMA PayloadsOK ==
  ASSUME NEW s \in Specs
  PROVE  /\ InlinePayloads(s) \in Seq(Digests)
         /\ Len(InlinePayloads(s)) \in Index
         /\ Wanted(s) \subseteq Keys
<1>1. s \in Spec0 /\ Len(s.payloads) <= MaxPayloads
  BY JobAssumption
<1>2. s.payloads \in Seq(Digests) /\ s.payload \in Digests
  BY <1>1 DEF Spec0
<1>3. InlinePayloads(s) \in Seq(Digests) /\ Len(InlinePayloads(s)) \in Index
  <2>1. CASE s.payloads # <<>>
    BY <1>1, <1>2, <2>1, JobAssumption DEF InlinePayloads, Index
  <2>2. CASE s.payloads = <<>>
    BY <1>2, <2>2, JobAssumption DEF InlinePayloads, Index
  <2>3. QED BY <2>1, <2>2
<1>4. Wanted(s) \subseteq Keys
  <2>1. SUFFICES ASSUME NEW i \in DOMAIN InlinePayloads(s)
                 PROVE  <<i, InlinePayloads(s)[i]>> \in Keys
    BY DEF Wanted
  <2>2. i \in 1 .. Len(InlinePayloads(s)) /\ InlinePayloads(s)[i] \in Digests
    BY <1>3
  <2>3. i \in Index
    BY <1>3, <2>2, ConstantsOK DEF Index
  <2>4. QED BY <2>2, <2>3 DEF Keys
<1>5. QED BY <1>3, <1>4

LEMMA LimitsOK ==
  ASSUME NEW s \in Specs
  PROVE  /\ DesiredRetryLimit(s) \in Nat /\ DesiredRetryLimit(s) <= MaxRetryLimit
         /\ MaxAttempts(s) = DesiredRetryLimit(s) + 1
         /\ DesiredParallelism(s) \in Nat \ {0}
<1>1. s \in Spec0 /\ s.retryLimit <= MaxRetryLimit /\ MaxRetryLimit \in Nat
  BY JobAssumption
<1>2. s.retryLimit \in Int /\ s.parallelism \in Int
  BY <1>1 DEF Spec0
<1>3. QED
  BY <1>1, <1>2 DEF DesiredRetryLimit, MaxAttempts, DesiredParallelism

LEMMA ObjectFields ==
  ASSUME NEW o \in Object
  PROVE  /\ o.live \in BOOLEAN /\ o.rv \in Nat /\ o.gen \in Nat
         /\ o.spec \in Specs /\ o.status \in Status
         /\ o.status.phase \in JobPhases /\ o.status.observed \in Nat
         /\ o.status.invs \in Seq(Invocation)
BY DEF Object, Status

LEMMA InvocationFields ==
  ASSUME NEW v \in Invocation
  PROVE  v.digest \in Digests /\ v.phase \in InvPhases /\ v.attempts \in Nat
BY DEF Invocation

LEMMA NoObjectOK == NoStatus \in Status /\ NoObject \in Object
<1>1. NoStatus \in Status
  BY DEF NoStatus, Status, JobPhases
<1>2. (CHOOSE s \in Specs : TRUE) \in Specs
  BY ConstantsOK
<1>3. QED
  BY <1>1, <1>2 DEF NoObject, Object

LEMMA EnsureOK ==
  ASSUME NEW invs \in Seq(Invocation), NEW ps \in Seq(Digests)
  PROVE  /\ EnsurePayloadStatuses(invs, ps) \in Seq(Invocation)
         /\ Len(EnsurePayloadStatuses(invs, ps)) = Len(ps)
         /\ DOMAIN EnsurePayloadStatuses(invs, ps) = DOMAIN ps
<1> DEFINE e(i) == IF i \in DOMAIN invs /\ invs[i].digest = ps[i]
                   THEN invs[i] ELSE NewInvocation(ps[i])
<1>1. ASSUME NEW i \in 1 .. Len(ps)
      PROVE  e(i) \in Invocation
  <2>1. ps[i] \in Digests
    OBVIOUS
  <2>2. NewInvocation(ps[i]) \in Invocation
    BY <2>1 DEF NewInvocation, Invocation, InvPhases
  <2>3. i \in DOMAIN invs => invs[i] \in Invocation
    OBVIOUS
  <2>4. QED BY <2>2, <2>3
<1>2. EnsurePayloadStatuses(invs, ps) = [i \in 1 .. Len(ps) |-> e(i)]
  BY DEF EnsurePayloadStatuses
<1>3. Len(ps) \in Nat /\ DOMAIN ps = 1 .. Len(ps)
  OBVIOUS
<1> HIDE DEF e
<1>4. QED
  BY <1>1, <1>2, <1>3

LEMMA PrepareOK ==
  ASSUME NEW o \in Object, NEW f \in FnStates
  PROVE  Prepare(o, f) \in Status
<1>1. Observed(o) \in Status
  BY ObjectFields DEF Observed, Status
<1>2. EnsurePayloadStatuses(o.status.invs, InlinePayloads(o.spec)) \in Seq(Invocation)
  BY ObjectFields, PayloadsOK, EnsureOK
<1>3. Observed(o).invs = o.status.invs
  BY ObjectFields DEF Observed, Status
<1>4. QED
  BY <1>1, <1>2, <1>3 DEF Prepare, FnStates, Status, JobPhases

LEMMA AfterAttemptOK ==
  ASSUME NEW v \in Invocation, NEW ok \in BOOLEAN, NEW s \in Specs
  PROVE  /\ AfterAttempt(v, ok, s) \in Invocation
         /\ AfterAttempt(v, ok, s).digest = v.digest
         /\ AfterAttempt(v, ok, s).attempts = v.attempts + 1
         /\ AfterAttempt(v, ok, s).phase =
              IF ok THEN "Succeeded"
              ELSE IF v.attempts + 1 >= MaxAttempts(s) THEN "Failed" ELSE "Running"
<1> DEFINE ph == IF ok THEN "Succeeded"
                 ELSE IF v.attempts + 1 >= MaxAttempts(s) THEN "Failed" ELSE "Running"
<1>1. v = [digest |-> v.digest, phase |-> v.phase, attempts |-> v.attempts]
  BY DEF Invocation
<1>2. v.digest \in Digests /\ v.attempts \in Nat /\ v.attempts + 1 \in Nat
  BY InvocationFields
<1>3. ph \in InvPhases
  BY Zenon DEF InvPhases
<1>4. AfterAttempt(v, ok, s) = [v EXCEPT !.attempts = v.attempts + 1, !.phase = ph]
  BY DEF AfterAttempt
<1> HIDE DEF ph
<1>5. AfterAttempt(v, ok, s) =
        [digest |-> v.digest, phase |-> ph, attempts |-> v.attempts + 1]
  BY <1>1, <1>4
<1>6. QED
  BY <1>2, <1>3, <1>5 DEF Invocation, ph

-----------------------------------------------------------------------------
(* Type correctness.                                                       *)

LEMMA PublishType ==
  ASSUME TypeOK, NEW obj \in Object, Publish(obj)
  PROVE  job' \in Object /\ cache' \in Object /\ watch' \in Seq(Object)
<1>1. job' = [obj EXCEPT !.rv = job.rv + 1] /\ job.rv + 1 \in Nat
  BY ObjectFields DEF Publish, TypeOK
<1>2. job' \in Object
  BY <1>1 DEF Object
<1>3. QED
  BY <1>2 DEF Publish, TypeOK

LEMMA ReturnType ==
  ASSUME Return
  PROVE  /\ pc' = "idle" /\ snap' \in Object /\ work' \in Status
         /\ cursor' \in Nat /\ processed' \in Nat
BY NoObjectOK DEF Return

\* What an attempt does to the status in memory.
LEMMA AttemptWork ==
  ASSUME TypeOK, NEW i \in Index, NEW ok \in BOOLEAN, Attempt(i, ok)
  PROVE  /\ i \in DOMAIN work.invs /\ work.invs[i] \in Invocation
         /\ work' \in Status
         /\ work'.phase = work.phase /\ work'.observed = work.observed
         /\ DOMAIN work'.invs = DOMAIN work.invs
         /\ work'.invs[i] = AfterAttempt(work.invs[i], ok, snap.spec)
         /\ \A j \in DOMAIN work.invs : j # i => work'.invs[j] = work.invs[j]
<1> DEFINE inv == AfterAttempt(work.invs[i], ok, snap.spec)
<1>1. i \in DOMAIN work.invs
  BY DEF Attempt, Candidates
<1>2. work \in Status /\ work.invs \in Seq(Invocation) /\ snap.spec \in Specs
  BY ObjectFields DEF TypeOK, Status
<1>3. work.invs[i] \in Invocation
  BY <1>1, <1>2
<1>4. inv \in Invocation
  BY <1>2, <1>3, AfterAttemptOK
<1>5. work' = [work EXCEPT !.invs = [work.invs EXCEPT ![i] = inv]]
  BY <1>2 DEF Attempt, Status
<1> HIDE DEF inv
<1>6. [work.invs EXCEPT ![i] = inv] \in Seq(Invocation)
  BY <1>1, <1>2, <1>4
<1>7. /\ DOMAIN [work.invs EXCEPT ![i] = inv] = DOMAIN work.invs
      /\ [work.invs EXCEPT ![i] = inv][i] = inv
      /\ \A j \in DOMAIN work.invs : j # i => [work.invs EXCEPT ![i] = inv][j] = work.invs[j]
  BY <1>1, <1>2
<1>8. /\ work' \in Status /\ work'.phase = work.phase /\ work'.observed = work.observed
      /\ work'.invs = [work.invs EXCEPT ![i] = inv]
  BY <1>2, <1>5, <1>6 DEF Status
<1>9. QED
  BY <1>1, <1>3, <1>7, <1>8 DEF inv

LEMMA SummarizeOK == ASSUME NEW invs PROVE Summarize(invs) \in JobPhases
BY DEF Summarize, JobPhases

LEMMA TypeStep == TypeOK /\ [Next]_vars => TypeOK'
<1> SUFFICES ASSUME TypeOK, [Next]_vars PROVE TypeOK'
  OBVIOUS
<1> USE DEF store, local, history, bounds
<1>1. CASE EditSpec
  <2>1. PICK s \in Specs : Publish([job EXCEPT !.spec = s, !.gen = @ + 1])
    BY <1>1 DEF EditSpec
  <2>2. [job EXCEPT !.spec = s, !.gen = @ + 1] \in Object
    <3>1. job \in Object /\ job.gen \in Nat /\ job.gen + 1 \in Nat
      BY ObjectFields DEF TypeOK
    <3>2. [job EXCEPT !.spec = s] \in Object
      BY <3>1 DEF Object
    <3>3. [[job EXCEPT !.spec = s] EXCEPT !.gen = job.gen + 1] \in Object
      BY <3>1, <3>2 DEF Object
    <3>4. [job EXCEPT !.spec = s, !.gen = @ + 1] =
            [[job EXCEPT !.spec = s] EXCEPT !.gen = job.gen + 1]
      BY <3>1, Zenon DEF Object
    <3>5. QED BY <3>3, <3>4
  <2>3. job' \in Object /\ cache' \in Object /\ watch' \in Seq(Object)
    BY <2>1, <2>2, PublishType
  <2>4. QED BY <1>1, <2>3 DEF EditSpec, TypeOK
<1>2. CASE DeleteJob
  <2>1. [job EXCEPT !.live = FALSE] \in Object
    BY ObjectFields DEF Object, TypeOK
  <2>2. job' \in Object /\ cache' \in Object /\ watch' \in Seq(Object)
    BY <1>2, <2>1, PublishType DEF DeleteJob
  <2>3. QED BY <1>2, <2>2 DEF DeleteJob, TypeOK
<1>3. CASE FunctionChanges
  BY <1>3 DEF FunctionChanges, TypeOK
<1>4. CASE DeliverWatch
  <2>1. cache' \in Object /\ watch' \in Seq(Object)
    BY <1>4 DEF DeliverWatch, TypeOK
  <2>2. QED BY <1>4, <2>1 DEF DeliverWatch, TypeOK
<1>5. CASE Resync
  BY <1>5 DEF Resync, TypeOK
<1>6. CASE Crash
  <2>1. crashes' \in 0 .. MaxCrashes /\ wasted' \in Nat
    BY <1>6, ConstantsOK DEF Crash, TypeOK
  <2>2. job' = job /\ cache' = job /\ watch' = <<>> /\ watch' \in Seq(Object)
    BY <1>6 DEF Crash
  <2>3. QED BY <1>6, <2>1, <2>2, ReturnType DEF Crash, TypeOK
<1>7. CASE NothingToDo
  <2>1. TakeKey /\ UNCHANGED <<pc, local>>
    BY <1>7 DEF NothingToDo
  <2>2. staleReads' \in 0 .. MaxStaleReads
    BY <2>1, ConstantsOK DEF TakeKey, TypeOK
  <2>3. QED BY <2>1, <2>2 DEF TakeKey, TypeOK
<1>8. CASE StartReconcile
  <2>1. work' \in Status
    BY <1>8, PrepareOK DEF StartReconcile, TypeOK
  <2>2. staleReads' \in 0 .. MaxStaleReads
    BY <1>8, ConstantsOK DEF StartReconcile, TakeKey, TypeOK
  <2>3. QED BY <1>8, <2>1, <2>2 DEF StartReconcile, TakeKey, TypeOK
<1>9. ASSUME NEW i \in Index, NEW ok \in BOOLEAN, Attempt(i, ok)
      PROVE  TypeOK'
  <2>1. work' \in Status
    BY <1>9, AttemptWork
  <2>2. <<i, AfterAttempt(work.invs[i], ok, snap.spec).digest>> \in Keys
    <3>1. work.invs[i] \in Invocation /\ snap.spec \in Specs
      BY <1>9, AttemptWork, ObjectFields DEF TypeOK
    <3>2. AfterAttempt(work.invs[i], ok, snap.spec).digest \in Digests
      BY <3>1, AfterAttemptOK, InvocationFields
    <3>3. QED BY <3>2 DEF Keys
  <2>3. calls' \in [Keys -> Nat] /\ acked' \subseteq Keys
    <3> DEFINE key == <<i, AfterAttempt(work.invs[i], ok, snap.spec).digest>>
    <3>1. calls' = [calls EXCEPT ![key] = calls[key] + 1]
      BY <1>9 DEF Attempt
    <3>2. acked' = IF ok THEN acked \union {key} ELSE acked
      BY <1>9 DEF Attempt
    <3>3. key \in Keys
      BY <2>2
    <3> HIDE DEF key
    <3>4. QED BY <3>1, <3>2, <3>3 DEF TypeOK
  <2>4. cursor' \in Nat /\ processed' \in Nat
    BY <1>9 DEF Attempt, TypeOK, Index
  <2>5. QED BY <1>9, <2>1, <2>3, <2>4 DEF Attempt, TypeOK
<1>10. CASE EndInvocations
  <2>1. work' \in Status
    BY <1>10, SummarizeOK DEF EndInvocations, Status, TypeOK
  <2>2. QED BY <1>10, <2>1 DEF EndInvocations, TypeOK
<1>11. CASE SkipWrite
  BY <1>11, ReturnType DEF SkipWrite, TypeOK
<1>12. CASE WriteStatus
  <2>1. [job EXCEPT !.status = work] \in Object
    BY ObjectFields DEF Object, TypeOK
  <2>2. job' \in Object /\ cache' \in Object /\ watch' \in Seq(Object)
    BY <1>12, <2>1, PublishType DEF WriteStatus
  <2>3. QED BY <1>12, <2>2, ReturnType DEF WriteStatus, TypeOK
<1>13. CASE WriteRefused
  BY <1>13, ReturnType DEF WriteRefused, TypeOK
<1>14. CASE UNCHANGED vars
  BY <1>14 DEF vars, TypeOK
<1>15. QED
  BY <1>1, <1>2, <1>3, <1>4, <1>5, <1>6, <1>7, <1>8, <1>9, <1>10, <1>11, <1>12,
     <1>13, <1>14 DEF Next, Environment, Controller

LEMMA TypeInit == Init => TypeOK
<1> SUFFICES ASSUME Init PROVE TypeOK
  OBVIOUS
<1>1. job \in Object
  BY NoObjectOK DEF Init, Object
<1>2. QED
  BY <1>1, NoObjectOK, ConstantsOK DEF Init, TypeOK

\* Every variable always holds a value of its type.
THEOREM TypeCorrect == Spec => []TypeOK
BY TypeInit, TypeStep, PTL DEF Spec
-----------------------------------------------------------------------------
(* Safety.                                                                 *)

Busy == pc # "idle"

\* A payload record kept anywhere, against the calls c that OCI received and
\* the successes a that it acknowledged.
RecordOK(c, a, i, inv) ==
  /\ i \in Index
  /\ inv.attempts <= c[<<i, inv.digest>>]
  /\ inv.phase = "Failed" => inv.attempts > 0
  /\ inv.phase = "Succeeded" => <<i, inv.digest>> \in a

RecordsOK(c, a, invs) == \A i \in DOMAIN invs : RecordOK(c, a, i, invs[i])
Settled(invs)         == \A i \in DOMAIN invs : invs[i].phase # "Running"

HasSucceeded(invs, k) ==
  k[1] \in DOMAIN invs /\ invs[k[1]].digest = k[2] /\ invs[k[1]].phase = "Succeeded"

\* A version of the object never claims more than OCI has done.
Claims(c, a, o) ==
  /\ RecordsOK(c, a, o.status.invs) /\ Settled(o.status.invs)
  /\ o.status.observed <= o.gen
  /\ o.status.phase = "Succeeded" /\ o.status.observed = o.gen => Wanted(o.spec) \subseteq a

\* A version that is not older than the current one is the current one: what
\* makes a conflict detect every change.
Known(j, o) == o.rv <= j.rv /\ (o.rv = j.rv => o = j)

\* Every version of the object that somebody holds or will be given.
View == {job, cache} \union {watch[n] : n \in 1 .. Len(watch)}
        \union (IF Busy THEN {snap} ELSE {})

ViewOK == \A o \in View : Known(job, o) /\ Claims(calls, acked, o)

\* The status being built: one record per payload of the spec.
Aligned(s, invs) ==
  /\ DOMAIN invs = DOMAIN InlinePayloads(s)
  /\ \A i \in DOMAIN invs : invs[i].digest = InlinePayloads(s)[i]

\* No success of the version that was read is lost while it is wanted.
Kept(s, old, invs) == \A k \in Wanted(s) : HasSucceeded(old, k) => HasSucceeded(invs, k)

Building == Busy =>
  /\ ~ IsTerminal(snap.status)
  /\ work.observed = snap.gen
  /\ RecordsOK(calls, acked, work.invs)
  /\ Kept(snap.spec, snap.status.invs, work.invs)

\* Only the payload at the cursor can be between two attempts.
Invoking == pc = "invoke" =>
  /\ Aligned(snap.spec, work.invs)
  /\ ~ IsTerminal(work)
  /\ \A i \in DOMAIN work.invs : work.invs[i].phase = "Running" =>
       i = cursor /\ processed < DesiredParallelism(snap.spec)

Writing == pc = "write" =>
  /\ Settled(work.invs)
  /\ work.phase = "Succeeded" => \A k \in Wanted(snap.spec) : HasSucceeded(work.invs, k)

SafetyInv == TypeOK /\ ViewOK /\ Building /\ Invoking /\ Writing

-----------------------------------------------------------------------------
(* Claims about what OCI has done stay true as it does more.               *)

Grown(c, a, d, b) == (\A k \in Keys : c[k] <= d[k]) /\ a \subseteq b

LEMMA KeysOf ==
  ASSUME NEW invs \in Seq(Invocation), NEW i \in DOMAIN invs, i \in Index
  PROVE  invs[i] \in Invocation /\ <<i, invs[i].digest>> \in Keys
BY InvocationFields DEF Keys

LEMMA RecordsGrow ==
  ASSUME NEW c \in [Keys -> Nat], NEW d \in [Keys -> Nat], NEW a, NEW b, Grown(c, a, d, b),
         NEW invs \in Seq(Invocation), RecordsOK(c, a, invs)
  PROVE  RecordsOK(d, b, invs)
<1> SUFFICES ASSUME NEW i \in DOMAIN invs PROVE RecordOK(d, b, i, invs[i])
  BY DEF RecordsOK
<1>1. RecordOK(c, a, i, invs[i])
  BY DEF RecordsOK
<1>2. invs[i] \in Invocation /\ <<i, invs[i].digest>> \in Keys
  BY <1>1, KeysOf DEF RecordOK
<1>3. invs[i].attempts \in Nat
  BY <1>2, InvocationFields
<1> DEFINE key == <<i, invs[i].digest>>
<1>4. c[key] \in Nat /\ d[key] \in Nat /\ c[key] <= d[key] /\ (key \in a => key \in b)
  BY <1>2 DEF Grown
<1> HIDE DEF key
<1>5. QED
  BY <1>1, <1>3, <1>4 DEF RecordOK, key

LEMMA ClaimsGrow ==
  ASSUME NEW c \in [Keys -> Nat], NEW d \in [Keys -> Nat], NEW a, NEW b, Grown(c, a, d, b),
         NEW o \in Object, Claims(c, a, o)
  PROVE  Claims(d, b, o)
<1>1. RecordsOK(d, b, o.status.invs)
  BY RecordsGrow, ObjectFields DEF Claims
<1>2. Wanted(o.spec) \subseteq a => Wanted(o.spec) \subseteq b
  BY DEF Grown
<1>3. QED
  BY <1>1, <1>2 DEF Claims

\* A step that hands out no version but those in view and perhaps a new one.
LEMMA ViewStep ==
  ASSUME TypeOK, TypeOK', ViewOK,
         Grown(calls, acked, calls', acked'),
         View' \subseteq View \union {job'},
         job' = job \/ (job'.rv > job.rv /\ Claims(calls', acked', job'))
  PROVE  ViewOK'
<1> SUFFICES ASSUME NEW o \in View'
             PROVE  Known(job', o) /\ Claims(calls', acked', o)
  BY DEF ViewOK
<1>1. View \subseteq Object /\ job \in View /\ job' \in Object /\ job \in Object
  BY DEF View, TypeOK
<1>2. calls \in [Keys -> Nat] /\ calls' \in [Keys -> Nat]
  BY DEF TypeOK
<1>3. ASSUME o \in View PROVE Known(job', o) /\ Claims(calls', acked', o)
  <2>1. o \in Object /\ Known(job, o) /\ Claims(calls, acked, o)
    BY <1>1, <1>3 DEF ViewOK
  <2>2. Claims(calls', acked', o)
    BY <1>2, <2>1, ClaimsGrow
  <2>3. o.rv \in Nat /\ job.rv \in Nat /\ job'.rv \in Nat
    BY <1>1, <2>1, ObjectFields
  <2>4. Known(job', o)
    BY <2>1, <2>3 DEF Known
  <2>5. QED BY <2>2, <2>4
<1>4. ASSUME o = job', o \notin View PROVE Known(job', o) /\ Claims(calls', acked', o)
  <2>1. job' # job
    BY <1>1, <1>4
  <2>2. job'.rv \in Nat
    BY <1>1, ObjectFields
  <2>3. QED BY <1>4, <2>1, <2>2 DEF Known
<1>5. QED BY <1>3, <1>4

\* A step that leaves the reconcile and what OCI did alone.
LEMMA WorkUnchanged ==
  ASSUME Building, Invoking, Writing, UNCHANGED <<pc, local, calls, acked>>
  PROVE  Building' /\ Invoking' /\ Writing'
BY DEF Building, Invoking, Writing, local, Busy

\* The end of a reconcile.
LEMMA WorkEnds ==
  ASSUME Return
  PROVE  Building' /\ Invoking' /\ Writing'
BY DEF Building, Invoking, Writing, Busy, Return

\* A published version is the only one its step adds.
LEMMA PublishView ==
  ASSUME TypeOK, NEW obj, Publish(obj), UNCHANGED <<pc, snap>> \/ pc' = "idle"
  PROVE  View' \subseteq View \union {job'}
<1>1. watch \in Seq(Object) /\ watch' = Append(watch, job') /\ cache' = cache
  BY DEF Publish, TypeOK
<1>2. ASSUME NEW n \in 1 .. Len(watch')
      PROVE  watch'[n] = job' \/ \E m \in 1 .. Len(watch) : watch'[n] = watch[m]
  BY <1>1
<1>3. (IF Busy' THEN {snap'} ELSE {}) \subseteq (IF Busy THEN {snap} ELSE {})
  BY DEF Busy
<1>4. {watch'[n] : n \in 1 .. Len(watch')} \subseteq {watch[n] : n \in 1 .. Len(watch)} \union {job'}
  BY <1>2
<1>5. QED
  BY <1>1, <1>3, <1>4 DEF View

\* Where the object does not change, the views are kept or dropped.
LEMMA SameView ==
  ASSUME TypeOK, job' = job, cache' \in View, watch' = watch \/ watch' = <<>>,
         Busy' => snap' \in View
  PROVE  View' \subseteq View
<1>1. {watch'[n] : n \in 1 .. Len(watch')} \subseteq {watch[n] : n \in 1 .. Len(watch)}
  OBVIOUS
<1>2. job' \in View
  BY DEF View
<1>3. View' = {job', cache'} \union {watch'[n] : n \in 1 .. Len(watch')}
              \union (IF Busy' THEN {snap'} ELSE {})
  BY DEF View
<1>4. QED
  BY <1>1, <1>2, <1>3 DEF View

\* OCI is not called.
LEMMA NoCalls ==
  ASSUME TypeOK, UNCHANGED <<calls, acked>>
  PROVE  Grown(calls, acked, calls', acked')
BY DEF Grown, TypeOK
-----------------------------------------------------------------------------
(* Every step preserves the invariant.                                     *)

LEMMA SafetyInit == Init => SafetyInv
<1> SUFFICES ASSUME Init PROVE SafetyInv
  OBVIOUS
<1>1. TypeOK /\ pc = "idle"
  BY TypeInit DEF Init
<1>2. job.status = NoStatus /\ job.gen = 1 /\ cache = job /\ watch = <<>>
  BY DEF Init
<1>3. View = {job}
  BY <1>1, <1>2 DEF View, Busy
<1>4. Claims(calls, acked, job)
  <2>1. NoStatus.invs = <<>> /\ NoStatus.observed = 0 /\ NoStatus.phase = ""
    BY DEF NoStatus
  <2>2. NoStatus.invs \in Seq(Invocation) /\ Len(NoStatus.invs) = 0
    BY DEF NoStatus
  <2>3. \A n : n \notin DOMAIN NoStatus.invs
    BY <2>2
  <2>4. 0 <= job.gen
    BY <1>2
  <2>5. QED BY <1>2, <2>1, <2>3, <2>4 DEF Claims, RecordsOK, Settled
<1>5. job.rv <= job.rv
  BY <1>1, ObjectFields DEF TypeOK
<1>6. ViewOK
  BY <1>3, <1>4, <1>5 DEF ViewOK, Known
<1>7. Building /\ Invoking /\ Writing
  BY <1>1 DEF Building, Invoking, Writing, Busy
<1>8. QED BY <1>1, <1>6, <1>7 DEF SafetyInv

LEMMA EditStep ==
  ASSUME SafetyInv, TypeOK', EditSpec
  PROVE  SafetyInv'
<1>1. PICK s \in Specs : Publish([job EXCEPT !.spec = s, !.gen = @ + 1])
  BY DEF EditSpec
<1>2. /\ job'.status = job.status /\ job'.gen = job.gen + 1 /\ job'.rv = job.rv + 1
      /\ job.gen \in Nat /\ job.rv \in Nat
  BY <1>1, ObjectFields DEF SafetyInv, TypeOK, Object, Publish
<1>3. Claims(calls, acked, job) /\ job.status.observed \in Nat
  BY ObjectFields DEF SafetyInv, TypeOK, ViewOK, View
<1>4. UNCHANGED <<pc, local, calls, acked>>
  BY DEF EditSpec, history
<1>5. Claims(calls', acked', job')
  BY <1>2, <1>3, <1>4 DEF Claims
<1>6. View' \subseteq View \union {job'}
  BY <1>1, <1>4, PublishView DEF SafetyInv, local
<1>7. ViewOK'
  BY <1>2, <1>4, <1>5, <1>6, NoCalls, ViewStep DEF SafetyInv
<1>8. QED
  BY <1>4, <1>7, WorkUnchanged DEF SafetyInv

LEMMA DeleteStep ==
  ASSUME SafetyInv, TypeOK', DeleteJob
  PROVE  SafetyInv'
<1>1. Publish([job EXCEPT !.live = FALSE])
  BY DEF DeleteJob
<1>2. /\ job'.status = job.status /\ job'.gen = job.gen /\ job'.rv = job.rv + 1
      /\ job'.spec = job.spec /\ job.rv \in Nat
  BY <1>1, ObjectFields DEF SafetyInv, TypeOK, Object, Publish
<1>3. Claims(calls, acked, job)
  BY DEF SafetyInv, ViewOK, View
<1>4. UNCHANGED <<pc, local, calls, acked>>
  BY DEF DeleteJob, history
<1>5. Claims(calls', acked', job')
  BY <1>2, <1>3, <1>4 DEF Claims
<1>6. View' \subseteq View \union {job'}
  BY <1>1, <1>4, PublishView DEF SafetyInv, local
<1>7. ViewOK'
  BY <1>2, <1>4, <1>5, <1>6, NoCalls, ViewStep DEF SafetyInv
<1>8. QED
  BY <1>4, <1>7, WorkUnchanged DEF SafetyInv

\* Steps that touch neither the object, nor the reconcile, nor OCI.
LEMMA AsideStep ==
  ASSUME SafetyInv, TypeOK', UNCHANGED <<job, pc, local, calls, acked>>,
         View' \subseteq View
  PROVE  SafetyInv'
<1>1. ViewOK'
  BY NoCalls, ViewStep DEF SafetyInv
<1>2. QED
  BY <1>1, WorkUnchanged DEF SafetyInv

LEMMA DeliverStep ==
  ASSUME SafetyInv, TypeOK', DeliverWatch
  PROVE  SafetyInv'
<1>1. watch \in Seq(Object) /\ watch # <<>> /\ cache' = Head(watch) /\ watch' = Tail(watch)
  BY DEF DeliverWatch, SafetyInv, TypeOK
<1>2. cache' = watch[1] /\ 1 \in 1 .. Len(watch)
  BY <1>1
<1>3. \A n \in 1 .. Len(watch') : n + 1 \in 1 .. Len(watch) /\ watch'[n] = watch[n + 1]
  BY <1>1
<1>4. UNCHANGED <<job, pc, local, calls, acked>>
  BY DEF DeliverWatch, history
<1>5. View' \subseteq View
  BY <1>2, <1>3, <1>4 DEF View, Busy, local
<1>6. QED
  BY <1>4, <1>5, AsideStep

LEMMA ReturnStep ==
  ASSUME SafetyInv, TypeOK', Return, UNCHANGED <<calls, acked>>,
         UNCHANGED store \/ (job' = job /\ cache' = job /\ watch' = <<>>)
  PROVE  SafetyInv'
<1>1. ~ Busy' /\ job' = job /\ cache' \in View /\ (watch' = watch \/ watch' = <<>>)
  BY DEF Return, Busy, View, store
<1>2. View' \subseteq View
  BY <1>1, SameView DEF SafetyInv
<1>3. ViewOK'
  BY <1>1, <1>2, NoCalls, ViewStep DEF SafetyInv
<1>4. QED
  BY <1>3, WorkEnds DEF SafetyInv

\* What a reconcile takes from the version it read, with the Function ready.
LEMMA EnsureKeeps ==
  ASSUME TypeOK, NEW invs \in Seq(Invocation), NEW s \in Specs,
         RecordsOK(calls, acked, invs), Settled(invs)
  PROVE  LET made == EnsurePayloadStatuses(invs, InlinePayloads(s))
         IN  /\ RecordsOK(calls, acked, made) /\ Settled(made)
             /\ Aligned(s, made) /\ Kept(s, invs, made)
<1> DEFINE ps   == InlinePayloads(s)
           made == EnsurePayloadStatuses(invs, ps)
<1>1. /\ ps \in Seq(Digests) /\ DOMAIN ps = 1 .. Len(ps) /\ Len(ps) \in Index
      /\ made \in Seq(Invocation) /\ DOMAIN made = DOMAIN ps
  BY PayloadsOK, EnsureOK
<1>2. ASSUME NEW i \in DOMAIN ps
      PROVE  /\ made[i] = IF i \in DOMAIN invs /\ invs[i].digest = ps[i]
                          THEN invs[i] ELSE NewInvocation(ps[i])
             /\ made[i].digest = ps[i] /\ made[i].phase # "Running"
             /\ RecordOK(calls, acked, i, made[i])
  <2>1. made[i] = IF i \in DOMAIN invs /\ invs[i].digest = ps[i]
                  THEN invs[i] ELSE NewInvocation(ps[i])
    BY <1>1, <1>2 DEF EnsurePayloadStatuses
  <2>2. CASE i \in DOMAIN invs /\ invs[i].digest = ps[i]
    BY <2>1, <2>2 DEF RecordsOK, Settled
  <2>3. CASE ~ (i \in DOMAIN invs /\ invs[i].digest = ps[i])
    <3>1. /\ made[i].digest = ps[i] /\ made[i].phase = "Pending"
          /\ made[i].attempts = 0
      BY <2>1, <2>3 DEF NewInvocation
    <3>2. i \in Index /\ ps[i] \in Digests
      BY <1>1, ConstantsOK DEF Index
    <3>3. calls[<<i, ps[i]>>] \in Nat
      BY <3>2 DEF TypeOK, Keys
    <3>4. QED BY <2>1, <3>1, <3>2, <3>3 DEF RecordOK
  <2>4. QED BY <2>1, <2>2, <2>3
<1> HIDE DEF ps, made
<1>3. RecordsOK(calls, acked, made) /\ Settled(made)
  BY <1>1, <1>2 DEF RecordsOK, Settled
<1>4. Aligned(s, made)
  BY <1>1, <1>2 DEF Aligned, ps
<1>5. Kept(s, invs, made)
  <2>1. SUFFICES ASSUME NEW k \in Wanted(s), HasSucceeded(invs, k)
                 PROVE  HasSucceeded(made, k)
    BY DEF Kept
  <2>2. PICK i \in DOMAIN ps : k = <<i, ps[i]>>
    BY DEF Wanted, ps
  <2>3. k[1] = i /\ k[2] = ps[i]
    BY <2>2
  <2>4. i \in DOMAIN invs /\ invs[i].digest = ps[i] /\ invs[i].phase = "Succeeded"
    BY <2>1, <2>3 DEF HasSucceeded
  <2>5. made[i] = invs[i]
    BY <1>2, <2>4
  <2>6. QED BY <1>1, <2>3, <2>4, <2>5 DEF HasSucceeded
<1>6. QED BY <1>3, <1>4, <1>5 DEF made, ps

LEMMA StartStep ==
  ASSUME SafetyInv, TypeOK', StartReconcile
  PROVE  SafetyInv'
<1>1. /\ snap' = cache /\ work' = Prepare(cache, fn) /\ ~ IsTerminal(cache.status)
      /\ pc' = (IF fn = "ready" THEN "invoke" ELSE "write")
      /\ UNCHANGED <<job, cache, watch, fn, calls, acked>>
  BY DEF StartReconcile, NeedsWork, TakeKey, store, history
<1>2. cache \in View /\ cache \in Object /\ Claims(calls, acked, cache)
  BY DEF View, ViewOK, SafetyInv, TypeOK
<1>3. ViewOK'
  <2>1. View' \subseteq View
    BY <1>1, <1>2, SameView DEF SafetyInv
  <2>2. QED BY <1>1, <2>1, NoCalls, ViewStep DEF SafetyInv
<1>4. /\ cache.status \in Status /\ cache.spec \in Specs
      /\ cache.status.invs \in Seq(Invocation)
  BY <1>2, ObjectFields
<1>5. /\ RecordsOK(calls, acked, cache.status.invs) /\ Settled(cache.status.invs)
  BY <1>2 DEF Claims
<1>6. CASE fn = "ready"
  <2> DEFINE made == EnsurePayloadStatuses(cache.status.invs, InlinePayloads(cache.spec))
  <2>1. /\ work'.phase = cache.status.phase /\ work'.observed = cache.gen
        /\ work'.invs = made
    BY <1>1, <1>4, <1>6 DEF Prepare, Observed, Status
  <2>2. /\ RecordsOK(calls, acked, made) /\ Settled(made)
        /\ Aligned(cache.spec, made) /\ Kept(cache.spec, cache.status.invs, made)
    BY <1>4, <1>5, EnsureKeeps DEF SafetyInv
  <2> HIDE DEF made
  <2>3. Building'
    BY <1>1, <2>1, <2>2 DEF Building
  <2>4. Invoking' /\ Writing'
    BY <1>1, <1>6, <2>1, <2>2 DEF Invoking, Writing, Settled, IsTerminal
  <2>5. QED BY <1>3, <2>3, <2>4 DEF SafetyInv
<1>7. CASE fn # "ready"
  <2>1. fn \in {"absent", "notReady"}
    BY <1>7 DEF SafetyInv, TypeOK, FnStates
  <2>2. /\ work'.phase \in {"Pending", "Failed"} /\ work'.observed = cache.gen
        /\ work'.invs = cache.status.invs
    BY <1>1, <1>4, <2>1 DEF Prepare, Observed, Status
  <2>3. Building' /\ Invoking' /\ Writing'
    BY <1>1, <1>5, <1>7, <2>2 DEF Building, Invoking, Writing, Kept
  <2>4. QED BY <1>3, <2>3 DEF SafetyInv
<1>8. QED BY <1>6, <1>7

LEMMA AttemptStep ==
  ASSUME SafetyInv, TypeOK', NEW i \in Index, NEW ok \in BOOLEAN, Attempt(i, ok)
  PROVE  SafetyInv'
<1> DEFINE old == work.invs[i]
           new == AfterAttempt(old, ok, snap.spec)
           key == <<i, new.digest>>
<1>1. /\ i \in DOMAIN work.invs /\ old \in Invocation
      /\ work'.phase = work.phase /\ work'.observed = work.observed
      /\ DOMAIN work'.invs = DOMAIN work.invs
      /\ work'.invs[i] = new
      /\ \A j \in DOMAIN work.invs : j # i => work'.invs[j] = work.invs[j]
  BY AttemptWork DEF SafetyInv
<1>2. /\ pc = "invoke" /\ UNCHANGED <<pc, snap, job, cache, watch>>
      /\ i >= cursor /\ i \in Candidates /\ \A j \in Candidates : i <= j
      /\ IsRunnable(old, DesiredRetryLimit(snap.spec))
      /\ processed < DesiredParallelism(snap.spec)
  BY DEF Attempt, Candidates, store
<1>3. /\ calls' = [calls EXCEPT ![key] = calls[key] + 1]
      /\ acked' = IF ok THEN acked \union {key} ELSE acked
      /\ cursor' = IF new.phase = "Running" THEN i ELSE i + 1
      /\ processed' = IF new.phase = "Running" THEN processed ELSE processed + 1
  BY DEF Attempt
<1>4. snap \in Object /\ snap.spec \in Specs
  BY ObjectFields DEF SafetyInv, TypeOK
<1>5. /\ new \in Invocation /\ new.digest = old.digest /\ new.attempts = old.attempts + 1
      /\ new.phase = IF ok THEN "Succeeded"
                     ELSE IF old.attempts + 1 >= MaxAttempts(snap.spec)
                          THEN "Failed" ELSE "Running"
  BY <1>1, <1>4, AfterAttemptOK
<1> HIDE DEF new
<1>6. key \in Keys /\ calls \in [Keys -> Nat] /\ calls' \in [Keys -> Nat]
  BY <1>5, InvocationFields DEF Keys, SafetyInv, TypeOK
<1>7. calls'[key] = calls[key] + 1 /\ \A k \in Keys : k # key => calls'[k] = calls[k]
  <2> HIDE DEF key
  <2>1. QED BY <1>3, <1>6
<1>8. acked \subseteq acked' /\ (ok => key \in acked')
  <2> HIDE DEF key
  <2>1. QED BY <1>3
<1>9. Grown(calls, acked, calls', acked')
  <2> HIDE DEF key
  <2>1. ASSUME NEW k \in Keys PROVE calls[k] <= calls'[k]
    BY <1>6, <1>7
  <2>2. QED BY <1>8, <2>1 DEF Grown
<1>10. ViewOK'
  <2>1. snap \in View /\ cache \in View
    BY <1>2 DEF View, Busy
  <2>2. View' \subseteq View
    BY <1>2, <2>1, SameView DEF SafetyInv
  <2>3. QED BY <1>2, <1>9, <2>2, ViewStep DEF SafetyInv
<1>11. RecordsOK(calls, acked, work.invs) /\ work.invs \in Seq(Invocation)
  BY <1>2 DEF SafetyInv, Building, Busy, TypeOK, Status
<1>12. RecordsOK(calls', acked', work.invs)
  BY <1>6, <1>9, <1>11, RecordsGrow
<1>13. RecordOK(calls', acked', i, new)
  <2>1. RecordOK(calls, acked, i, old)
    BY <1>1, <1>11 DEF RecordsOK
  <2>2. old.attempts \in Nat /\ calls[key] \in Nat /\ calls'[key] = calls[key] + 1
    BY <1>1, <1>6, <1>7, InvocationFields
  <2>3. old.attempts <= calls[key]
    BY <1>5, <2>1 DEF RecordOK
  <2>4. new.attempts <= calls'[key] /\ new.attempts > 0
    BY <1>5, <2>2, <2>3
  <2>5. new.phase = "Succeeded" => ok
    BY <1>5
  <2>6. QED BY <1>8, <2>4, <2>5 DEF RecordOK
<1> HIDE DEF key, old
<1>14. RecordsOK(calls', acked', work'.invs)
  <2>1. SUFFICES ASSUME NEW j \in DOMAIN work.invs
                 PROVE  RecordOK(calls', acked', j, work'.invs[j])
    BY <1>1 DEF RecordsOK
  <2>2. CASE j = i
    BY <1>1, <1>13, <2>2
  <2>3. CASE j # i
    BY <1>1, <1>12, <2>3 DEF RecordsOK
  <2>4. QED BY <2>2, <2>3
<1>15. Building'
  <2>1. ASSUME NEW k, HasSucceeded(work.invs, k)
        PROVE  HasSucceeded(work'.invs, k)
    <3>1. k[1] # i
      BY <1>2, <2>1 DEF HasSucceeded, IsRunnable, old
    <3>2. QED BY <1>1, <2>1, <3>1 DEF HasSucceeded
  <2>2. Kept(snap.spec, snap.status.invs, work'.invs)
    BY <1>2, <2>1 DEF SafetyInv, Building, Busy, Kept
  <2>3. QED BY <1>1, <1>2, <1>14, <2>2 DEF SafetyInv, Building, Busy
<1>16. Invoking'
  <2>1. Aligned(snap.spec, work'.invs)
    <3>1. Aligned(snap.spec, work.invs) /\ work'.invs[i].digest = work.invs[i].digest
      BY <1>1, <1>2, <1>5 DEF SafetyInv, Invoking, old
    <3>2. QED BY <1>1, <3>1 DEF Aligned
  <2>2. ~ IsTerminal(work')
    BY <1>1, <1>2 DEF SafetyInv, Invoking, IsTerminal
  <2>3. ASSUME NEW j \in DOMAIN work.invs, work'.invs[j].phase = "Running"
        PROVE  j = cursor' /\ processed' < DesiredParallelism(snap.spec)
    <3>1. j = i
      <4>1. SUFFICES ASSUME j # i PROVE FALSE
        OBVIOUS
      <4>2. work.invs[j].phase = "Running"
        BY <1>1, <2>3, <4>1
      <4>3. j = cursor
        BY <1>2, <4>2 DEF SafetyInv, Invoking
      <4>4. j \in Candidates
        BY <1>2, <4>2, <4>3 DEF Candidates, IsRunnable, SafetyInv, TypeOK
      <4>5. i <= cursor /\ i >= cursor /\ i \in Nat /\ cursor \in Nat
        BY <1>2, <4>3, <4>4 DEF Index, SafetyInv, TypeOK
      <4>6. QED BY <4>1, <4>3, <4>5
    <3>2. QED BY <1>1, <1>2, <1>3, <2>3, <3>1
  <2>4. QED BY <1>1, <1>2, <2>1, <2>2, <2>3 DEF Invoking
<1>17. Writing'
  BY <1>2 DEF Writing
<1>18. QED BY <1>10, <1>15, <1>16, <1>17 DEF SafetyInv

\* A job is found to have succeeded only when each of its payloads has.
LEMMA SummarizeSucceeded ==
  ASSUME NEW invs \in Seq(Invocation), Summarize(invs) = "Succeeded"
  PROVE  \A i \in DOMAIN invs : invs[i].phase = "Succeeded"
<1>1. Cardinality(InPhase(invs, "Succeeded")) = Len(invs)
  BY DEF Summarize
<1>2. DOMAIN invs = 1 .. Len(invs) /\ Len(invs) \in Nat
  OBVIOUS
<1>3. IsFiniteSet(1 .. Len(invs)) /\ Cardinality(1 .. Len(invs)) = Len(invs)
  BY <1>2, FS_Interval
<1>4. InPhase(invs, "Succeeded") \in SUBSET (1 .. Len(invs))
  BY <1>2 DEF InPhase
<1>5. InPhase(invs, "Succeeded") = 1 .. Len(invs)
  BY <1>1, <1>3, <1>4, FS_Subset
<1>6. QED BY <1>2, <1>5 DEF InPhase

LEMMA EndStep ==
  ASSUME SafetyInv, TypeOK', EndInvocations
  PROVE  SafetyInv'
<1>1. /\ pc = "invoke" /\ pc' = "write" /\ Candidates = {}
      /\ UNCHANGED <<job, cache, watch, snap, cursor, processed, calls, acked>>
      /\ work' = [work EXCEPT !.phase = Summarize(work.invs)]
  BY DEF EndInvocations, store, history
<1>2. work \in Status /\ work.invs \in Seq(Invocation) /\ snap.spec \in Specs
  BY ObjectFields DEF SafetyInv, TypeOK, Status
<1>3. /\ work'.phase = Summarize(work.invs) /\ work'.observed = work.observed
      /\ work'.invs = work.invs
  BY <1>1, <1>2 DEF Status
<1>4. ViewOK'
  <2>1. snap \in View /\ cache \in View
    BY <1>1 DEF View, Busy
  <2>2. View' \subseteq View
    BY <1>1, <2>1, SameView DEF SafetyInv
  <2>3. QED BY <1>1, <2>2, NoCalls, ViewStep DEF SafetyInv
<1>5. Building'
  BY <1>1, <1>3 DEF SafetyInv, Building, Busy
<1>6. Invoking'
  BY <1>1 DEF Invoking
<1>7. Settled(work.invs)
  <2>1. SUFFICES ASSUME NEW i \in DOMAIN work.invs, work.invs[i].phase = "Running"
                 PROVE  FALSE
    BY DEF Settled
  <2>2. i = cursor /\ processed < DesiredParallelism(snap.spec)
    BY <1>1, <2>1 DEF SafetyInv, Invoking
  <2>3. i \in Candidates
    BY <2>1, <2>2 DEF Candidates, IsRunnable, SafetyInv, TypeOK
  <2>4. QED BY <1>1, <2>3
<1>8. ASSUME Summarize(work.invs) = "Succeeded", NEW k \in Wanted(snap.spec)
      PROVE  HasSucceeded(work.invs, k)
  <2>1. PICK i \in DOMAIN InlinePayloads(snap.spec) : k = <<i, InlinePayloads(snap.spec)[i]>>
    BY <1>8 DEF Wanted
  <2>2. i \in DOMAIN work.invs /\ work.invs[i].digest = InlinePayloads(snap.spec)[i]
    BY <1>1, <2>1 DEF SafetyInv, Invoking, Aligned
  <2>3. work.invs[i].phase = "Succeeded"
    BY <1>2, <1>8, <2>2, SummarizeSucceeded
  <2>4. k[1] = i /\ k[2] = InlinePayloads(snap.spec)[i]
    BY <2>1
  <2>5. QED BY <2>2, <2>3, <2>4 DEF HasSucceeded
<1>9. Writing'
  BY <1>1, <1>3, <1>7, <1>8 DEF Writing
<1>10. QED BY <1>4, <1>5, <1>6, <1>9 DEF SafetyInv

\* A success in a record that OCI backs is one it acknowledged.
LEMMA SuccessAcked ==
  ASSUME NEW c, NEW a, NEW invs, RecordsOK(c, a, invs),
         NEW s \in Specs, NEW k \in Wanted(s), HasSucceeded(invs, k)
  PROVE  k \in a
<1>1. PICK i \in DOMAIN InlinePayloads(s) : k = <<i, InlinePayloads(s)[i]>>
  BY DEF Wanted
<1>2. k[1] = i /\ k[2] = InlinePayloads(s)[i] /\ k = <<k[1], k[2]>>
  BY <1>1
<1>3. QED BY <1>2 DEF HasSucceeded, RecordsOK, RecordOK

\* The write of a status.
LEMMA WriteFacts ==
  ASSUME SafetyInv, WriteStatus
  PROVE  /\ snap = job /\ Busy /\ pc = "write" /\ pc' = "idle"
         /\ job'.status = work /\ job'.gen = job.gen /\ job'.spec = job.spec
         /\ job.rv \in Nat /\ job'.rv = job.rv + 1
         /\ UNCHANGED <<calls, acked>>
<1>1. Publish([job EXCEPT !.status = work]) /\ job \in Object
  BY DEF WriteStatus, SafetyInv, TypeOK
<1>2. snap \in View
  BY DEF WriteStatus, View, Busy
<1>3. snap = job
  BY <1>2 DEF WriteStatus, WriteAccepted, SafetyInv, ViewOK, Known
<1>4. /\ job'.status = work /\ job'.gen = job.gen /\ job'.spec = job.spec
      /\ job.rv \in Nat /\ job'.rv = job.rv + 1
  BY <1>1 DEF Publish, Object
<1>5. QED BY <1>3, <1>4 DEF WriteStatus, Busy, Return, history

LEMMA WriteStep ==
  ASSUME SafetyInv, TypeOK', WriteStatus
  PROVE  SafetyInv'
<1>1. Publish([job EXCEPT !.status = work]) /\ Return
  BY DEF WriteStatus
<1>2. job.spec \in Specs /\ job.gen \in Nat
  BY ObjectFields DEF SafetyInv, TypeOK
<1>3. Claims(calls', acked', job')
  <2>1. /\ work.observed = job.gen /\ RecordsOK(calls, acked, work.invs)
    BY WriteFacts DEF SafetyInv, Building
  <2>2. Settled(work.invs)
    BY WriteFacts DEF SafetyInv, Writing
  <2>3. work.phase = "Succeeded" => Wanted(job.spec) \subseteq acked
    <3>1. ASSUME work.phase = "Succeeded", NEW k \in Wanted(job.spec) PROVE k \in acked
      <4>1. HasSucceeded(work.invs, k)
        BY <3>1, WriteFacts DEF SafetyInv, Writing
      <4>2. QED BY <1>2, <2>1, <4>1, SuccessAcked
    <3>2. QED BY <3>1
  <2>4. QED BY <1>2, <2>1, <2>2, <2>3, WriteFacts DEF Claims
<1>4. View' \subseteq View \union {job'}
  BY <1>1, WriteFacts, PublishView DEF SafetyInv
<1>5. job'.rv > job.rv
  BY WriteFacts
<1>6. ViewOK'
  BY <1>3, <1>4, <1>5, WriteFacts, NoCalls, ViewStep DEF SafetyInv
<1>7. QED BY <1>1, <1>6, WorkEnds DEF SafetyInv

LEMMA SafetyStep == SafetyInv /\ [Next]_vars => SafetyInv'
<1> SUFFICES ASSUME SafetyInv, [Next]_vars PROVE SafetyInv'
  OBVIOUS
<1>1. TypeOK'
  BY TypeStep DEF SafetyInv
<1>2. CASE EditSpec
  BY <1>1, <1>2, EditStep
<1>3. CASE DeleteJob
  BY <1>1, <1>3, DeleteStep
<1>4. ASSUME UNCHANGED <<job, cache, watch, pc, local, calls, acked>> PROVE SafetyInv'
  <2>1. View' \subseteq View
    BY <1>4 DEF View, Busy, local
  <2>2. QED BY <1>1, <1>4, <2>1, AsideStep
<1>5. CASE FunctionChanges \/ Resync \/ UNCHANGED vars
  BY <1>4, <1>5 DEF FunctionChanges, Resync, vars, store, history, local
<1>6. CASE NothingToDo
  BY <1>4, <1>6 DEF NothingToDo, TakeKey, store, history
<1>7. CASE DeliverWatch
  BY <1>1, <1>7, DeliverStep
<1>8. CASE Crash
  BY <1>1, <1>8, ReturnStep DEF Crash
<1>9. CASE StartReconcile
  BY <1>1, <1>9, StartStep
<1>10. ASSUME NEW i \in Index, NEW ok \in BOOLEAN, Attempt(i, ok) PROVE SafetyInv'
  BY <1>1, <1>10, AttemptStep
<1>11. CASE EndInvocations
  BY <1>1, <1>11, EndStep
<1>12. CASE SkipWrite \/ WriteRefused
  BY <1>1, <1>12, ReturnStep DEF SkipWrite, WriteRefused, history
<1>13. CASE WriteStatus
  BY <1>1, <1>13, WriteStep
<1>14. QED
  BY <1>2, <1>3, <1>5, <1>6, <1>7, <1>8, <1>9, <1>10, <1>11, <1>12, <1>13
     DEF Next, Environment, Controller

\* What every holder of a version knows is true at all times.
THEOREM SafetyInvariant == Spec => []SafetyInv
BY SafetyInit, SafetyStep, PTL DEF Spec

\* A job that reports Succeeded for the spec it has now got a success from
\* OCI for every payload of that spec.
THEOREM SucceededDelivered == Spec => []SucceededMeansDelivered
<1>1. SafetyInv => SucceededMeansDelivered
  BY DEF SafetyInv, ViewOK, View, Claims, SucceededMeansDelivered
<1>2. QED BY <1>1, SafetyInvariant, PTL

\* Each persisted record is backed by what OCI saw.
THEOREM RecordsEarned == Spec => []RecordsAreEarned
<1>1. SafetyInv => RecordsAreEarned
  BY DEF SafetyInv, ViewOK, View, Claims, RecordsOK, RecordOK, Settled, RecordsAreEarned
<1>2. QED BY <1>1, SafetyInvariant, PTL

-----------------------------------------------------------------------------
(* What one step may do to the records of the object.                      *)

LEMMA RecordedIs ==
  ASSUME NEW k \in Keys
  PROVE  RecordedSuccess(k) <=> HasSucceeded(job.status.invs, k)
<1>1. k = <<k[1], k[2]>>
  BY DEF Keys
<1>2. ASSUME NEW i, k = <<i, job.status.invs[i].digest>>
      PROVE  k[1] = i /\ k[2] = job.status.invs[i].digest
  BY <1>2
<1>3. QED BY <1>1, <1>2 DEF RecordedSuccess, HasSucceeded

\* Only a write of the status changes it.
LEMMA StatusStep ==
  ASSUME SafetyInv, [Next]_vars
  PROVE  job'.status = job.status \/ WriteStatus
<1>1. CASE EditSpec
  <2>1. PICK s \in Specs : job' = [[job EXCEPT !.spec = s, !.gen = @ + 1] EXCEPT !.rv = job.rv + 1]
    BY <1>1 DEF EditSpec, Publish
  <2>2. QED BY <2>1 DEF SafetyInv, TypeOK, Object
<1>2. CASE DeleteJob
  BY <1>2 DEF DeleteJob, Publish, SafetyInv, TypeOK, Object
<1>3. ASSUME NEW i \in Index, NEW ok \in BOOLEAN, Attempt(i, ok)
      PROVE  job' = job
  BY <1>3 DEF Attempt, store
<1>4. CASE UNCHANGED job
  BY <1>4
<1>5. CASE WriteStatus
  BY <1>5
<1>6. QED
  BY <1>1, <1>2, <1>3, <1>4, <1>5
     DEF Next, Environment, Controller, vars, store, FunctionChanges, DeliverWatch, Resync,
         Crash, NothingToDo, StartReconcile, TakeKey, EndInvocations, SkipWrite, WriteRefused

\* A persisted success stays while the spec keeps the payload.
LEMMA RegressStep ==
  ASSUME SafetyInv, [Next]_vars, NEW k \in Keys, RecordedSuccess(k), k \in Wanted(job'.spec)
  PROVE  RecordedSuccess(k)'
<1>1. HasSucceeded(job.status.invs, k)
  BY RecordedIs
<1>2. CASE job'.status = job.status
  BY <1>2 DEF RecordedSuccess
<1>3. CASE WriteStatus
  <2>1. HasSucceeded(job'.status.invs, k)
    BY <1>1, <1>3, WriteFacts DEF SafetyInv, Building, Kept
  <2>2. k[1] \in DOMAIN job'.status.invs /\ k = <<k[1], job'.status.invs[k[1]].digest>>
    BY <2>1 DEF HasSucceeded, Keys
  <2>3. QED BY <2>1, <2>2 DEF HasSucceeded, RecordedSuccess
<1>4. QED BY <1>2, <1>3, StatusStep

\* No write, whatever version it was computed from, takes a success back that
\* the spec still asks for.
THEOREM NoRegress == Spec => SuccessNeverRegresses
<1>1. SafetyInv /\ [Next]_vars =>
        [\A k \in Keys :
           RecordedSuccess(k) /\ k \in Wanted(job'.spec) => RecordedSuccess(k)']_vars
  BY RegressStep
<1>2. QED BY <1>1, SafetyInvariant, PTL DEF Spec, SuccessNeverRegresses

-----------------------------------------------------------------------------
(* The controller implements JobPromise.                                   *)

Recorded == {k \in Keys : RecordedSuccess(k)}
Verdict  == IF IsTerminal(job.status) THEN job.status.phase ELSE "open"

LEMMA RecordedSame ==
  ASSUME job'.status = job.status
  PROVE  Recorded' = Recorded /\ Verdict' = Verdict
BY DEF Recorded, RecordedSuccess, Verdict, IsTerminal

LEMMA PromiseInit == Init => Promise!Init
<1> SUFFICES ASSUME Init PROVE Promise!Init
  OBVIOUS
<1>1. TypeOK /\ job.status = NoStatus /\ acked = {}
  <2>1. TypeOK
    BY TypeInit
  <2>2. job.status = NoStatus /\ acked = {}
    BY DEF Init
  <2>3. QED BY <2>1, <2>2
<1>2. Wanted(job.spec) \subseteq Keys
  BY <1>1, ObjectFields, PayloadsOK DEF TypeOK
<1>3. Claims(calls, acked, job)
  BY SafetyInit DEF SafetyInv, ViewOK, View
<1>4. Recorded = {}
  <2>1. SUFFICES ASSUME NEW k \in Keys, RecordedSuccess(k) PROVE FALSE
    BY DEF Recorded
  <2>2. HasSucceeded(job.status.invs, k)
    BY <2>1, RecordedIs
  <2>3. k = <<k[1], k[2]>>
    BY DEF Keys
  <2>4. k \in acked
    BY <1>3, <2>2, <2>3 DEF Claims, RecordsOK, RecordOK, HasSucceeded
  <2>5. QED BY <1>1, <2>4
<1>5. Verdict = "open"
  <2>1. NoStatus.phase = ""
    BY DEF NoStatus
  <2>2. QED BY <1>1, <2>1 DEF Verdict, IsTerminal
<1>6. QED BY <1>1, <1>2, <1>4, <1>5 DEF Promise!Init, Recorded, Verdict

\* An edit of the spec revises what is wanted.
LEMMA ReviseStep ==
  ASSUME SafetyInv, TypeOK', job'.status = job.status, acked' = acked
  PROVE  Promise!Revise
<1>1. Wanted(job'.spec) \in SUBSET Keys
  BY ObjectFields, PayloadsOK DEF TypeOK
<1>2. QED BY <1>1, RecordedSame DEF Promise!Revise, Recorded, Verdict

\* A success of OCI delivers a payload, a failure delivers none.
LEMMA DeliverOrNot ==
  ASSUME SafetyInv, NEW i \in Index, NEW ok \in BOOLEAN, Attempt(i, ok)
  PROVE  Promise!Deliver \/ UNCHANGED Promise!vars
<1> DEFINE key == <<i, AfterAttempt(work.invs[i], ok, snap.spec).digest>>
<1>1. key \in Keys
  <2>1. work.invs[i] \in Invocation /\ snap.spec \in Specs
    BY AttemptWork, ObjectFields DEF SafetyInv, TypeOK
  <2>2. AfterAttempt(work.invs[i], ok, snap.spec).digest \in Digests
    BY <2>1, AfterAttemptOK, InvocationFields
  <2>3. QED BY <2>2 DEF Keys
<1>2. acked' = (IF ok THEN acked \union {key} ELSE acked) /\ job' = job
  BY DEF Attempt, store
<1> HIDE DEF key
<1>3. Recorded' = Recorded /\ Verdict' = Verdict
  BY <1>2, RecordedSame
<1>4. CASE ok
  BY <1>1, <1>2, <1>3, <1>4 DEF Promise!Deliver, Recorded, Verdict
<1>5. CASE ~ ok
  BY <1>2, <1>3, <1>5 DEF Promise!vars, Recorded, Verdict
<1>6. QED BY <1>4, <1>5

\* A write of the status records only what was delivered, keeps what is
\* wanted, and gives the verdict once.
LEMMA RecordStep ==
  ASSUME SafetyInv, WriteStatus
  PROVE  Promise!Record
<1>1. /\ ~ IsTerminal(job.status) /\ RecordsOK(calls, acked, work.invs)
      /\ Kept(job.spec, job.status.invs, work.invs)
  BY WriteFacts DEF SafetyInv, Building
<1>2. work.phase = "Succeeded" => \A k \in Wanted(job.spec) : HasSucceeded(work.invs, k)
  BY WriteFacts DEF SafetyInv, Writing
<1>3. Wanted(job.spec) \subseteq Keys
  BY ObjectFields, PayloadsOK DEF SafetyInv, TypeOK
<1>4. ASSUME NEW k \in Keys
      PROVE  /\ k \in Recorded <=> HasSucceeded(job.status.invs, k)
             /\ k \in Recorded' <=> HasSucceeded(work.invs, k)
  <2>1. k = <<k[1], k[2]>>
    BY DEF Keys
  <2>2. RecordedSuccess(k)' <=> HasSucceeded(job'.status.invs, k)
    <3>1. ASSUME NEW i, k = <<i, job'.status.invs[i].digest>>
          PROVE  k[1] = i /\ k[2] = job'.status.invs[i].digest
      BY <3>1
    <3>2. QED BY <2>1, <3>1 DEF RecordedSuccess, HasSucceeded
  <2>3. QED BY <2>2, RecordedIs, WriteFacts DEF Recorded
<1>5. Recorded' \subseteq acked
  <2>1. SUFFICES ASSUME NEW k \in Keys, HasSucceeded(work.invs, k) PROVE k \in acked
    BY <1>4 DEF Recorded
  <2>2. k = <<k[1], k[2]>>
    BY DEF Keys
  <2>3. QED BY <1>1, <2>1, <2>2 DEF RecordsOK, RecordOK, HasSucceeded
<1>6. Recorded \intersect Wanted(job.spec) \subseteq Recorded'
  BY <1>1, <1>3, <1>4 DEF Kept
<1>7. work.phase = "Succeeded" => Wanted(job.spec) \subseteq Recorded'
  BY <1>2, <1>3, <1>4
<1>8. Verdict = "open" /\ Verdict' = IF IsTerminal(work) THEN work.phase ELSE "open"
  BY <1>1, WriteFacts DEF Verdict
<1>9. \/ Verdict' \in {"open", "Failed"}
      \/ Verdict' = "Succeeded" /\ Wanted(job.spec) \subseteq Recorded'
  BY <1>7, <1>8 DEF IsTerminal
<1>10. Wanted(job'.spec) = Wanted(job.spec) /\ acked' = acked
  BY WriteFacts
<1>11. QED
  BY <1>5, <1>6, <1>8, <1>9, <1>10 DEF Promise!Record, Recorded, Verdict

LEMMA PromiseStep == SafetyInv /\ [Next]_vars => [Promise!Next]_(Promise!vars)
<1> SUFFICES ASSUME SafetyInv, [Next]_vars PROVE Promise!Next \/ UNCHANGED Promise!vars
  OBVIOUS
<1>1. ASSUME NEW i \in Index, NEW ok \in BOOLEAN, Attempt(i, ok)
      PROVE  Promise!Next \/ UNCHANGED Promise!vars
  BY <1>1, DeliverOrNot DEF Promise!Next
<1>2. CASE WriteStatus
  BY <1>2, RecordStep DEF Promise!Next
<1>3. ASSUME acked' = acked, ~ WriteStatus PROVE Promise!Next
  <2>1. TypeOK' /\ job'.status = job.status
    BY <1>3, TypeStep, StatusStep DEF SafetyInv
  <2>2. QED BY <1>3, <2>1, ReviseStep DEF Promise!Next
<1>4. QED
  BY <1>1, <1>2, <1>3
     DEF Next, Environment, Controller, vars, history, EditSpec, DeleteJob, FunctionChanges,
         DeliverWatch, Resync, Crash, NothingToDo, StartReconcile, TakeKey, EndInvocations,
         SkipWrite, WriteRefused

\* The controller keeps the promise of JobPromise: at-least-once delivery, no
\* record taken back, one verdict, never overwritten and never too good.
THEOREM PromiseRefined == Spec => PromiseKept
<1>1. QED
  BY PromiseInit, PromiseStep, SafetyInvariant, PTL DEF Spec, PromiseKept, Promise!Spec
-----------------------------------------------------------------------------
(* Without stale reads OCI is called neither for a payload whose success   *)
(* is persisted nor for a job whose verdict is.  After a stale read both   *)
(* can fail in the code, so the premise is needed.                         *)

\* The cache, once it has been given every event, holds the object; and the
\* status a reconcile read from it is the one in the API server until it
\* writes.
CacheInSync ==
  /\ watch = <<>> => cache = job
  /\ watch # <<>> => watch[Len(watch)] = job

ReadIsCurrent == Busy /\ staleReads = 0 => snap.status = job.status

FreshInv == SafetyInv /\ CacheInSync /\ ReadIsCurrent

\* The newest event under way is the newest version.
LEMMA PublishInSync ==
  ASSUME TypeOK, NEW obj, Publish(obj)
  PROVE  CacheInSync'
<1>1. watch \in Seq(Object) /\ watch' = Append(watch, job')
  BY DEF Publish, TypeOK
<1>2. watch' # <<>> /\ watch'[Len(watch')] = job'
  BY <1>1
<1>3. QED BY <1>2 DEF CacheInSync

LEMMA DeliverInSync ==
  ASSUME TypeOK, CacheInSync, DeliverWatch
  PROVE  CacheInSync'
<1>1. /\ watch \in Seq(Object) /\ watch # <<>> /\ job' = job
      /\ cache' = Head(watch) /\ watch' = Tail(watch)
  BY DEF DeliverWatch, TypeOK
<1>2. watch[Len(watch)] = job
  BY <1>1 DEF CacheInSync
<1>3. CASE Len(watch) = 1
  <2>1. watch' = <<>> /\ cache' = watch[Len(watch)]
    BY <1>1, <1>3
  <2>2. QED BY <1>1, <1>2, <2>1 DEF CacheInSync
<1>4. CASE Len(watch) > 1
  <2>1. /\ Len(watch') = Len(watch) - 1 /\ watch' # <<>>
        /\ \A n \in 1 .. Len(watch) - 1 : watch'[n] = watch[n + 1]
    <3>1. Len(watch') = Len(watch) - 1
      BY <1>1
    <3>2. watch' # <<>>
      BY <1>1, <1>4, <3>1, SMTT(30)
    <3>3. \A n \in 1 .. Len(watch) - 1 : watch'[n] = watch[n + 1]
      BY <1>1
    <3>4. QED BY <3>1, <3>2, <3>3
  <2>2. Len(watch) - 1 \in 1 .. Len(watch) - 1 /\ (Len(watch) - 1) + 1 = Len(watch)
    BY <1>1, <1>4
  <2>3. watch'[Len(watch')] = watch[Len(watch)]
    BY <2>1, <2>2
  <2>4. QED BY <1>1, <1>2, <2>1, <2>3 DEF CacheInSync
<1>5. Len(watch) \in Nat /\ Len(watch) # 0
  BY <1>1
<1>6. QED BY <1>3, <1>4, <1>5

LEMMA FreshInit == Init => FreshInv
<1> SUFFICES ASSUME Init PROVE FreshInv
  OBVIOUS
<1>1. cache = job /\ watch = <<>> /\ pc = "idle"
  BY DEF Init
<1>2. CacheInSync /\ ReadIsCurrent
  BY <1>1 DEF CacheInSync, ReadIsCurrent, Busy
<1>3. QED BY <1>2, SafetyInit DEF FreshInv

LEMMA FreshStep == FreshInv /\ [Next]_vars => FreshInv'
<1> SUFFICES ASSUME FreshInv, [Next]_vars PROVE FreshInv'
  OBVIOUS
<1>1. TypeOK /\ SafetyInv' /\ (job'.status = job.status \/ WriteStatus)
  BY SafetyStep, StatusStep DEF FreshInv, SafetyInv
<1>2. SUFFICES CacheInSync' /\ ReadIsCurrent'
  BY <1>1 DEF FreshInv
<1>3. ASSUME NEW obj, Publish(obj), UNCHANGED <<pc, snap, staleReads>>, job'.status = job.status
      PROVE  CacheInSync' /\ ReadIsCurrent'
  BY <1>1, <1>3, PublishInSync DEF FreshInv, ReadIsCurrent, Busy
<1>4. CASE EditSpec
  <2>1. job'.status = job.status
    BY <1>1, <1>4 DEF EditSpec, WriteStatus, Return, local
  <2>2. QED BY <1>3, <1>4, <2>1 DEF EditSpec, local, bounds
<1>5. CASE DeleteJob
  <2>1. job'.status = job.status
    BY <1>5, <1>1 DEF DeleteJob, Publish, TypeOK, Object
  <2>2. QED BY <1>3, <1>5, <2>1 DEF DeleteJob, local, bounds
<1>6. CASE DeliverWatch
  BY <1>1, <1>6, DeliverInSync DEF FreshInv, DeliverWatch, ReadIsCurrent, Busy, local, bounds
<1>7. ASSUME UNCHANGED store, UNCHANGED <<pc, snap, staleReads>> \/ pc' = "idle"
      PROVE  CacheInSync' /\ ReadIsCurrent'
  BY <1>7 DEF FreshInv, CacheInSync, ReadIsCurrent, Busy, store
<1>8. CASE Crash
  BY <1>8 DEF Crash, Return, CacheInSync, ReadIsCurrent, Busy
<1>9. CASE StartReconcile
  <2>1. /\ snap' = cache /\ UNCHANGED store
        /\ staleReads' = 0 => watch = <<>>
    BY <1>1, <1>9 DEF StartReconcile, TakeKey, TypeOK
  <2>2. QED BY <2>1 DEF FreshInv, CacheInSync, ReadIsCurrent, store
<1>10. ASSUME NEW i \in Index, NEW ok \in BOOLEAN, Attempt(i, ok)
       PROVE  CacheInSync' /\ ReadIsCurrent'
  BY <1>7, <1>10 DEF Attempt, bounds
<1>11. CASE EndInvocations
  BY <1>11, <1>1 DEF EndInvocations, FreshInv, CacheInSync, ReadIsCurrent, Busy, store, bounds
<1>12. CASE WriteStatus
  BY <1>1, <1>12, PublishInSync DEF WriteStatus, Return, ReadIsCurrent, Busy
<1>13. QED
  BY <1>4, <1>5, <1>6, <1>7, <1>8, <1>9, <1>10, <1>11, <1>12
     DEF Next, Environment, Controller, vars, local, store, bounds, FunctionChanges, Resync,
         NothingToDo, TakeKey, SkipWrite, WriteRefused, Return

LEMMA FreshInvariant == Spec => []FreshInv
<1>1. Init => FreshInv
  BY FreshInit
<1>2. FreshInv /\ [Next]_vars => FreshInv'
  BY FreshStep
<1>3. QED BY <1>1, <1>2, PTL DEF Spec

-----------------------------------------------------------------------------
\* Only an attempt calls OCI.
LEMMA OnlyAttemptsCall ==
  ASSUME [Next]_vars, calls' # calls
  PROVE  \E i \in Index, ok \in BOOLEAN : Attempt(i, ok)
BY DEF Next, Environment, Controller, vars, history, EditSpec, DeleteJob, FunctionChanges,
       DeliverWatch, Resync, Crash, NothingToDo, StartReconcile, TakeKey, EndInvocations,
       SkipWrite, WriteStatus, WriteRefused

\* What is called is a payload of the version that was read, not yet a success
\* in it, of a job not yet finished in it.
LEMMA AttemptIsDue ==
  ASSUME FreshInv, staleReads = 0, NEW i \in Index, NEW ok \in BOOLEAN, Attempt(i, ok)
  PROVE  /\ ~ IsTerminal(job.status)
         /\ \A k \in Keys : RecordedSuccess(k) => calls'[k] = calls[k]
<1> DEFINE key == <<i, AfterAttempt(work.invs[i], ok, snap.spec).digest>>
<1>1. /\ pc = "invoke" /\ Busy /\ i \in DOMAIN work.invs
      /\ IsRunnable(work.invs[i], DesiredRetryLimit(snap.spec))
  BY DEF Attempt, Candidates, Busy
<1>2. snap.status = job.status /\ ~ IsTerminal(snap.status)
  BY <1>1 DEF FreshInv, ReadIsCurrent, SafetyInv, Building
<1>3. work.invs[i] \in Invocation /\ snap.spec \in Specs
  BY AttemptWork, ObjectFields DEF FreshInv, SafetyInv, TypeOK
<1>4. key = <<i, work.invs[i].digest>>
  BY <1>3, AfterAttemptOK
<1>5. calls' = [calls EXCEPT ![key] = calls[key] + 1] /\ calls \in [Keys -> Nat]
  BY DEF Attempt, FreshInv, SafetyInv, TypeOK
<1>6. key \in Wanted(snap.spec)
  BY <1>1, <1>4 DEF FreshInv, SafetyInv, Invoking, Aligned, Wanted
<1>7. ~ HasSucceeded(work.invs, key)
  BY <1>1, <1>4 DEF HasSucceeded, IsRunnable
<1>8. ~ HasSucceeded(job.status.invs, key)
  BY <1>1, <1>2, <1>6, <1>7 DEF FreshInv, SafetyInv, Building, Kept
<1> HIDE DEF key
<1>9. ASSUME NEW k \in Keys, RecordedSuccess(k) PROVE calls'[k] = calls[k]
  <2>1. k # key
    BY <1>8, <1>9, RecordedIs
  <2>2. QED BY <1>5, <2>1
<1>10. QED BY <1>2, <1>9

\* OCI is not called for a payload whose success is persisted, as long as no
\* reconcile has started from a cache that lags.
THEOREM NeverReinvoked == Spec => SucceededNeverReinvoked
<1>1. FreshInv /\ [Next]_vars =>
        [staleReads = 0 =>
           \A k \in Keys : RecordedSuccess(k) => calls'[k] = calls[k]]_vars
  BY OnlyAttemptsCall, AttemptIsDue
<1>2. QED BY <1>1, FreshInvariant, PTL DEF Spec, SucceededNeverReinvoked

\* Once a terminal status is persisted OCI is not called at all, under the
\* same condition.
THEOREM TerminalIsQuiet == Spec => QuietAfterTerminal
<1>1. FreshInv /\ [Next]_vars => [staleReads = 0 /\ IsTerminal(job.status) => UNCHANGED calls]_vars
  BY OnlyAttemptsCall, AttemptIsDue
<1>2. QED BY <1>1, FreshInvariant, PTL DEF Spec, QuietAfterTerminal
=============================================================================
