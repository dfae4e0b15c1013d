-------------------------- MODULE FunctionJobBudget --------------------------
(***************************************************************************)
(* How often FunctionJob calls OCI, for every value of its constants.      *)
(*                                                                         *)
(* The calls for a payload are the attempts its record counts, plus those  *)
(* whose count was lost: at most Limit for each edit of the spec (it may   *)
(* replace the record) and for each reconcile whose status was not kept.   *)
(***************************************************************************)
EXTENDS FunctionJobProofs

Limit == MaxRetryLimit + 1
Allowance(n) == Limit * n

\* The records hold a count for the payload, and which.
Counted(invs, k)  == k[1] \in DOMAIN invs /\ invs[k[1]].digest = k[2]
Attempts(invs, k) == IF Counted(invs, k) THEN invs[k[1]].attempts ELSE 0

\* What the record of a version accounts for.  One that its spec no longer
\* wants will be dropped: the edit that did so already paid for it.
Credit(o, k) ==
  Attempts(o.status.invs, k) -
  (IF Counted(o.status.invs, k) /\ k \notin Wanted(o.spec) THEN Limit ELSE 0)

\* The attempts this reconcile has added.
Used(k) == IF Busy /\ Counted(work.invs, k)
           THEN Attempts(work.invs, k) - Attempts(snap.status.invs, k) ELSE 0

\* No record counts more than Limit attempts, or any while it is Pending.
Modest(invs) == \A i \in DOMAIN invs :
  invs[i].attempts <= Limit /\ (invs[i].phase = "Pending" => invs[i].attempts = 0)

ModestViews == \A o \in View : Modest(o.status.invs)

\* A payload the spec wants stays counted, one it does not is not added.
Realigned == \A k \in Keys :
  IF k \in Wanted(snap.spec)
  THEN Counted(snap.status.invs, k) => Counted(work.invs, k)
  ELSE Counted(work.invs, k) => Counted(snap.status.invs, k)

ModestWork ==
  /\ Busy => Modest(work.invs) /\ Realigned
  /\ pc = "invoke" => \A i \in DOMAIN work.invs :
       work.invs[i].phase = "Running" => work.invs[i].attempts < MaxAttempts(snap.spec)

Accounted == \A k \in Keys :
  calls[k] + Limit <= Allowance(job.gen + wasted) + Credit(job, k) + Used(k)

BudgetInv == SafetyInv /\ ModestViews /\ ModestWork /\ Accounted

-----------------------------------------------------------------------------
(* Arithmetic of the allowance and of the counts.                          *)

LEMMA LimitNat == Limit \in Nat /\ Limit > 0
BY ConstantsOK DEF Limit

LEMMA AllowanceStep ==
  ASSUME NEW n \in Nat
  PROVE  Allowance(n) \in Nat /\ Allowance(n + 1) = Allowance(n) + Limit
<1>1. Limit \in Nat
  BY LimitNat
<1>2. Limit * n \in Nat /\ Limit * (n + 1) = Limit * n + Limit
  BY <1>1
<1>3. QED BY <1>2 DEF Allowance

LEMMA AttemptsBound ==
  ASSUME NEW invs \in Seq(Invocation), NEW k, Modest(invs)
  PROVE  Attempts(invs, k) \in Nat /\ Attempts(invs, k) <= Limit
<1>1. CASE Counted(invs, k)
  <2>1. invs[k[1]] \in Invocation /\ invs[k[1]].attempts <= Limit
    BY <1>1 DEF Counted, Modest
  <2>2. QED BY <1>1, <2>1, InvocationFields DEF Attempts
<1>2. CASE ~ Counted(invs, k)
  BY <1>2, LimitNat DEF Attempts
<1>3. QED BY <1>1, <1>2

LEMMA CreditBound ==
  ASSUME NEW o \in Object, NEW k, Modest(o.status.invs)
  PROVE  Credit(o, k) \in Int /\ Credit(o, k) <= Limit
<1>1. Attempts(o.status.invs, k) \in Nat /\ Attempts(o.status.invs, k) <= Limit
  BY ObjectFields, AttemptsBound
<1>2. QED BY <1>1, LimitNat DEF Credit

LEMMA UsedBound ==
  ASSUME TypeOK, ModestViews, ModestWork, NEW k
  PROVE  Used(k) \in Int /\ Used(k) <= Limit /\ (~ Busy => Used(k) = 0)
<1>1. CASE Busy
  <2>1. /\ work.invs \in Seq(Invocation) /\ Modest(work.invs)
        /\ snap.status.invs \in Seq(Invocation) /\ Modest(snap.status.invs)
    BY <1>1, ObjectFields DEF TypeOK, Status, ModestWork, ModestViews, View
  <2>2. /\ Attempts(work.invs, k) \in Nat /\ Attempts(work.invs, k) <= Limit
        /\ Attempts(snap.status.invs, k) \in Nat
    BY <2>1, AttemptsBound
  <2>3. QED BY <1>1, <2>2, LimitNat DEF Used
<1>2. CASE ~ Busy
  BY <1>2, LimitNat DEF Used
<1>3. QED BY <1>1, <1>2

\* The facts about the quantities of Accounted.
LEMMA Quantities ==
  ASSUME BudgetInv, NEW k \in Keys
  PROVE  /\ calls[k] \in Nat /\ Credit(job, k) \in Int /\ Used(k) \in Int
         /\ Credit(job, k) <= Limit /\ Used(k) <= Limit /\ (~ Busy => Used(k) = 0)
         /\ job.gen + wasted \in Nat
         /\ calls[k] + Limit <= Allowance(job.gen + wasted) + Credit(job, k) + Used(k)
<1>1. TypeOK /\ Modest(job.status.invs) /\ job \in Object
  BY DEF BudgetInv, SafetyInv, ModestViews, View, TypeOK
<1>2. Credit(job, k) \in Int /\ Credit(job, k) <= Limit
  BY <1>1, CreditBound
<1>3. Used(k) \in Int /\ Used(k) <= Limit /\ (~ Busy => Used(k) = 0)
  BY <1>1, UsedBound DEF BudgetInv
<1>4. calls[k] \in Nat /\ job.gen + wasted \in Nat
  BY <1>1, ObjectFields DEF TypeOK
<1>5. QED BY <1>2, <1>3, <1>4 DEF BudgetInv, Accounted

\* A step that hands out no version but those in view and perhaps a new one.
LEMMA ModestStep ==
  ASSUME ModestViews, View' \subseteq View \union {job'}, Modest(job'.status.invs)
  PROVE  ModestViews'
BY DEF ModestViews

-----------------------------------------------------------------------------
(* Every step preserves the account.                                       *)

LEMMA BudgetInit == Init => BudgetInv
<1> SUFFICES ASSUME Init PROVE BudgetInv
  OBVIOUS
<1>1. SafetyInv /\ TypeOK /\ pc = "idle" /\ ~ Busy
  BY SafetyInit DEF Init, SafetyInv, Busy
<1>2. job.status = NoStatus /\ job.gen = 1 /\ wasted = 0 /\ cache = job /\ watch = <<>>
  BY DEF Init
<1>3. \A n : n \notin DOMAIN NoStatus.invs
  <2>1. NoStatus.invs \in Seq(Invocation) /\ Len(NoStatus.invs) = 0
    BY DEF NoStatus
  <2>2. QED BY <2>1
<1>4. View = {job}
  BY <1>1, <1>2 DEF View
<1>5. ModestViews
  BY <1>2, <1>3, <1>4 DEF ModestViews, Modest
<1>6. ModestWork
  BY <1>1 DEF ModestWork, Busy
<1>7. Accounted
  <2>1. SUFFICES ASSUME NEW k \in Keys
                 PROVE calls[k] + Limit <= Allowance(job.gen + wasted) + Credit(job, k) + Used(k)
    BY DEF Accounted
  <2>2. calls[k] = 0
    BY DEF Init
  <2>3. Credit(job, k) = 0
    BY <1>2, <1>3 DEF Credit, Attempts, Counted
  <2>4. Used(k) = 0
    BY <1>1 DEF Used
  <2>5. Allowance(1) = Limit
    BY LimitNat DEF Allowance
  <2>6. QED BY <1>2, <2>2, <2>3, <2>4, <2>5, LimitNat
<1>8. QED BY <1>1, <1>5, <1>6, <1>7 DEF BudgetInv

\* A new version with the status of the last one.
LEMMA BudgetPublish ==
  ASSUME BudgetInv, SafetyInv', NEW obj, Publish(obj), job'.status = job.status,
         UNCHANGED <<pc, local, calls, wasted>>,
         \/ job'.spec = job.spec /\ job'.gen = job.gen
         \/ job'.gen = job.gen + 1
  PROVE  BudgetInv'
<1>1. TypeOK /\ ModestViews /\ ModestWork
  BY DEF BudgetInv, SafetyInv
<1>2. Modest(job'.status.invs)
  BY <1>1 DEF ModestViews, View
<1>3. View' \subseteq View \union {job'}
  BY <1>1, PublishView DEF local
<1>4. ModestViews'
  BY <1>1, <1>2, <1>3, ModestStep
<1>5. ModestWork'
  BY <1>1 DEF ModestWork, Busy, Realigned, local
<1>6. ASSUME NEW k \in Keys
      PROVE calls'[k] + Limit <= Allowance(job'.gen + wasted') + Credit(job', k) + Used(k)'
  <2>1. Used(k)' = Used(k) /\ calls'[k] = calls[k] /\ wasted' = wasted
    BY DEF Used, Busy, local
  <2>2. Attempts(job.status.invs, k) \in Nat
    BY <1>1, AttemptsBound, ObjectFields DEF TypeOK, ModestViews, View
  <2>3. CASE job'.spec = job.spec /\ job'.gen = job.gen
    <3>1. Credit(job', k) = Credit(job, k)
      BY <2>3 DEF Credit
    <3>2. QED BY <2>1, <2>3, <3>1, Quantities
  <2>4. CASE job'.gen = job.gen + 1
    <3>1. Credit(job', k) \in Int /\ Credit(job', k) + Limit >= Credit(job, k)
      BY <2>2, LimitNat DEF Credit
    <3>2. job.gen \in Nat /\ wasted \in Nat
      BY <1>1, ObjectFields DEF TypeOK
    <3>3. job'.gen + wasted' = (job.gen + wasted) + 1
      BY <2>1, <2>4, <3>2
    <3>4. /\ Allowance(job'.gen + wasted') = Allowance(job.gen + wasted) + Limit
          /\ Allowance(job.gen + wasted) \in Nat
      BY <3>2, <3>3, AllowanceStep
    <3>5. QED BY <2>1, <3>1, <3>4, Quantities, LimitNat
  <2>5. QED BY <2>3, <2>4
<1>7. Accounted'
  BY <1>6 DEF Accounted
<1>8. QED BY <1>4, <1>5, <1>7 DEF BudgetInv

\* Steps that touch neither the object, nor the reconcile, nor OCI.
LEMMA BudgetAside ==
  ASSUME BudgetInv, SafetyInv', UNCHANGED <<job, pc, local, calls, wasted>>,
         View' \subseteq View
  PROVE  BudgetInv'
<1>1. ModestViews'
  BY DEF BudgetInv, ModestViews
<1>2. ModestWork'
  BY DEF BudgetInv, ModestWork, Busy, Realigned, local
<1>3. Accounted'
  BY DEF BudgetInv, Accounted, Used, Busy, local
<1>4. QED BY <1>1, <1>2, <1>3 DEF BudgetInv

\* The end of a reconcile that writes nothing: what it used is lost, or was
\* nothing.
LEMMA BudgetReturn ==
  ASSUME BudgetInv, SafetyInv', Return, job' = job, View' \subseteq View, calls' = calls,
         \/ wasted' = wasted + 1
         \/ wasted' = wasted /\ \A k \in Keys : Used(k) = 0
  PROVE  BudgetInv'
<1>1. ModestViews'
  BY DEF BudgetInv, ModestViews
<1>2. ~ Busy' /\ ModestWork'
  BY DEF Return, ModestWork, Busy
<1>3. ASSUME NEW k \in Keys
      PROVE calls'[k] + Limit <= Allowance(job'.gen + wasted') + Credit(job', k) + Used(k)'
  <2>1. Used(k)' = 0
    BY <1>2 DEF Used
  <2>2. CASE wasted' = wasted + 1
    <3>1. job.gen \in Nat /\ wasted \in Nat
      BY ObjectFields DEF BudgetInv, SafetyInv, TypeOK
    <3>2. job'.gen + wasted' = (job.gen + wasted) + 1
      BY <2>2, <3>1
    <3>3. /\ Allowance(job'.gen + wasted') = Allowance(job.gen + wasted) + Limit
          /\ Allowance(job.gen + wasted) \in Nat
      BY <3>1, <3>2, AllowanceStep
    <3>4. QED BY <2>1, <3>3, Quantities, LimitNat
  <2>3. CASE wasted' = wasted /\ \A l \in Keys : Used(l) = 0
    BY <2>1, <2>3, Quantities
  <2>4. QED BY <2>2, <2>3
<1>4. QED BY <1>1, <1>2, <1>3 DEF BudgetInv, Accounted

\* An aligned record is counted exactly for the payloads the spec wants.
LEMMA AlignedCounts ==
  ASSUME NEW s \in Specs, NEW invs, Aligned(s, invs), NEW k \in Keys
  PROVE  Counted(invs, k) <=> k \in Wanted(s)
<1>1. k = <<k[1], k[2]>>
  BY DEF Keys
<1>2. \A i, d : k = <<i, d>> => k[1] = i /\ k[2] = d
  OBVIOUS
<1>3. QED BY <1>1, <1>2 DEF Counted, Aligned, Wanted

LEMMA BudgetStart ==
  ASSUME BudgetInv, SafetyInv', StartReconcile
  PROVE  BudgetInv'
<1>1. /\ pc = "idle" /\ snap' = cache /\ work' = Prepare(cache, fn)
      /\ pc' = (IF fn = "ready" THEN "invoke" ELSE "write")
      /\ UNCHANGED <<job, cache, watch, fn, calls, wasted>>
  BY DEF StartReconcile, TakeKey, store, history
<1>2. TypeOK /\ ~ Busy /\ Busy'
  BY <1>1 DEF BudgetInv, SafetyInv, Busy
<1>3. cache \in View /\ cache \in Object
  BY <1>2 DEF View, TypeOK
<1>4. View' \subseteq View
  BY <1>1, <1>2, <1>3, SameView
<1>5. ModestViews'
  BY <1>4 DEF BudgetInv, ModestViews
<1> DEFINE old  == cache.status.invs
           made == EnsurePayloadStatuses(old, InlinePayloads(cache.spec))
<1>6. /\ cache.status \in Status /\ cache.spec \in Specs /\ old \in Seq(Invocation)
      /\ Modest(old) /\ RecordsOK(calls, acked, old) /\ Settled(old)
  BY <1>3, ObjectFields DEF BudgetInv, SafetyInv, ModestViews, ViewOK, Claims
<1>7. CASE fn = "ready"
  <2>1. work'.invs = made
    BY <1>1, <1>6, <1>7 DEF Prepare, Observed, Status
  <2>2. Settled(made) /\ Aligned(cache.spec, made)
    BY <1>2, <1>6, EnsureKeeps
  <2>3. ASSUME NEW i \in DOMAIN made
        PROVE  IF i \in DOMAIN old /\ old[i].digest = made[i].digest THEN made[i] = old[i]
               ELSE made[i].attempts = 0
    <3> DEFINE ps == InlinePayloads(cache.spec)
    <3>1. ps \in Seq(Digests) /\ i \in 1 .. Len(ps)
      BY <1>6, <2>3, PayloadsOK DEF EnsurePayloadStatuses
    <3>2. made[i] = IF i \in DOMAIN old /\ old[i].digest = ps[i]
                    THEN old[i] ELSE NewInvocation(ps[i])
      BY <3>1 DEF EnsurePayloadStatuses
    <3>3. made[i].digest = ps[i]
      BY <2>2 DEF Aligned
    <3> HIDE DEF made, old, ps
    <3>4. QED BY <3>2, <3>3 DEF NewInvocation
  <2> HIDE DEF made
  <2>4. Modest(made)
    BY <1>6, <2>3, LimitNat DEF Modest
  <2>5. Realigned'
    <3>1. ASSUME NEW k \in Keys
          PROVE  Counted(made, k) <=> k \in Wanted(cache.spec)
      BY <1>6, <2>2, AlignedCounts
    <3>2. QED BY <1>1, <2>1, <3>1 DEF Realigned
  <2>6. ModestWork'
    BY <1>1, <1>7, <2>1, <2>2, <2>4, <2>5 DEF ModestWork, Settled
  <2>7. ASSUME NEW k \in Keys PROVE Used(k)' = 0
    <3>1. Counted(made, k) => Attempts(made, k) = Attempts(old, k)
      BY <2>3 DEF Counted, Attempts
    <3>2. Counted(made, k) => Attempts(made, k) \in Nat
      <4>1. Attempts(old, k) \in Nat
        BY <1>6, AttemptsBound
      <4>2. QED BY <3>1, <4>1
    <3>3. Used(k)' = IF Counted(made, k) THEN Attempts(made, k) - Attempts(old, k) ELSE 0
      BY <1>1, <1>2, <2>1 DEF Used
    <3>4. QED BY <3>1, <3>2, <3>3
  <2>8. Accounted'
    BY <1>1, <1>2, <2>7, Quantities DEF Accounted
  <2>9. QED BY <1>5, <2>6, <2>8 DEF BudgetInv
<1>8. CASE fn # "ready"
  <2>1. work'.invs = old
    <3>1. fn \in {"absent", "notReady"}
      BY <1>2, <1>8 DEF TypeOK, FnStates
    <3>2. QED BY <1>1, <1>6, <3>1 DEF Prepare, Observed, Status
  <2>2. ModestWork'
    BY <1>1, <1>6, <1>8, <2>1 DEF ModestWork, Realigned
  <2>3. ASSUME NEW k \in Keys PROVE Used(k)' = 0
    <3>1. Attempts(old, k) \in Nat
      BY <1>6, AttemptsBound
    <3>2. QED BY <1>1, <1>2, <2>1, <3>1 DEF Used
  <2>4. Accounted'
    BY <1>1, <1>2, <2>3, Quantities DEF Accounted
  <2>5. QED BY <1>5, <2>2, <2>4 DEF BudgetInv
<1>9. QED BY <1>7, <1>8

\* One call and one attempt more.
LEMMA BudgetAttempt ==
  ASSUME BudgetInv, SafetyInv', NEW i \in Index, NEW ok \in BOOLEAN, Attempt(i, ok)
  PROVE  BudgetInv'
<1> DEFINE old == work.invs[i]
           new == AfterAttempt(old, ok, snap.spec)
           key == <<i, new.digest>>
<1>1. /\ i \in DOMAIN work.invs /\ old \in Invocation
      /\ DOMAIN work'.invs = DOMAIN work.invs
      /\ work'.invs[i] = new
      /\ \A j \in DOMAIN work.invs : j # i => work'.invs[j] = work.invs[j]
  BY AttemptWork DEF BudgetInv, SafetyInv
<1>2. /\ pc = "invoke" /\ UNCHANGED <<pc, snap, job, cache, watch, wasted>>
      /\ IsRunnable(old, DesiredRetryLimit(snap.spec))
      /\ calls' = [calls EXCEPT ![key] = calls[key] + 1]
  BY DEF Attempt, Candidates, store
<1>3. TypeOK /\ snap.spec \in Specs /\ Busy /\ Busy'
  BY <1>2, ObjectFields DEF BudgetInv, SafetyInv, TypeOK, Busy
<1>4. /\ new \in Invocation /\ new.digest = old.digest /\ new.attempts = old.attempts + 1
      /\ new.phase = IF ok THEN "Succeeded"
                     ELSE IF old.attempts + 1 >= MaxAttempts(snap.spec)
                          THEN "Failed" ELSE "Running"
  BY <1>1, <1>3, AfterAttemptOK
<1>5. old.attempts \in Nat /\ old.phase \in InvPhases /\ old.digest \in Digests
  BY <1>1, InvocationFields
<1>6. ModestViews'
  <2>1. snap \in View /\ cache \in View
    BY <1>3 DEF View
  <2>2. View' \subseteq View
    BY <1>2, <1>3, <2>1, SameView
  <2>3. QED BY <2>2 DEF BudgetInv, ModestViews
<1>7. /\ Modest(work.invs) /\ Realigned
      /\ \A j \in DOMAIN work.invs :
           work.invs[j].phase = "Running" => work.invs[j].attempts < MaxAttempts(snap.spec)
  BY <1>2, <1>3 DEF BudgetInv, ModestWork
<1>8. /\ DesiredRetryLimit(snap.spec) \in Nat /\ MaxAttempts(snap.spec) <= Limit
      /\ MaxAttempts(snap.spec) = DesiredRetryLimit(snap.spec) + 1
  BY <1>3, LimitsOK, ConstantsOK DEF Limit
<1>9. old.attempts < MaxAttempts(snap.spec)
  <2>1. CASE old.phase = "Pending"
    BY <1>1, <1>7, <1>8, <2>1 DEF Modest
  <2>2. CASE old.phase = "Running"
    BY <1>1, <1>7, <2>2
  <2>3. CASE old.phase = "Failed"
    BY <1>2, <1>5, <1>8, <2>3 DEF IsRunnable
  <2>4. QED BY <1>2, <1>5, <2>1, <2>2, <2>3 DEF IsRunnable, InvPhases
<1> HIDE DEF new, old
<1>10. /\ new.attempts <= Limit /\ new.phase # "Pending"
       /\ new.phase = "Running" => new.attempts < MaxAttempts(snap.spec)
  BY <1>4, <1>5, <1>8, <1>9, LimitNat
<1>11. \A k : Counted(work'.invs, k) <=> Counted(work.invs, k)
  BY <1>1, <1>4 DEF Counted, old
<1>12. ModestWork'
  <2>1. Modest(work'.invs)
    BY <1>1, <1>7, <1>10 DEF Modest
  <2>2. Realigned'
    BY <1>2, <1>7, <1>11 DEF Realigned
  <2>3. ASSUME NEW j \in DOMAIN work'.invs, work'.invs[j].phase = "Running"
        PROVE  work'.invs[j].attempts < MaxAttempts(snap.spec)
    BY <1>1, <1>7, <1>10, <2>3
  <2>4. QED BY <1>2, <2>1, <2>2, <2>3 DEF ModestWork
<1>13. key \in Keys /\ calls \in [Keys -> Nat]
  BY <1>3, <1>4, <1>5 DEF Keys, TypeOK
<1>14. key[1] = i /\ key[2] = old.digest
  BY <1>4
<1> HIDE DEF key
<1>15. ASSUME NEW k \in Keys
       PROVE calls'[k] + Limit <= Allowance(job'.gen + wasted') + Credit(job', k) + Used(k)'
  <2>1. /\ Credit(job', k) = Credit(job, k) /\ job'.gen + wasted' = job.gen + wasted
        /\ Allowance(job.gen + wasted) \in Nat
    BY <1>2, Quantities, AllowanceStep
  <2>2. CASE k = key
    <3>1. /\ Counted(work.invs, k) /\ Counted(work'.invs, k)
          /\ Attempts(work.invs, k) = old.attempts
          /\ Attempts(work'.invs, k) = old.attempts + 1
      BY <1>1, <1>4, <1>11, <1>14, <2>2 DEF Counted, Attempts, old
    <3>2. snap.status.invs \in Seq(Invocation) /\ Modest(snap.status.invs)
      BY <1>3, ObjectFields DEF BudgetInv, ModestViews, View, TypeOK
    <3>3. Attempts(snap.status.invs, k) \in Nat
      BY <3>2, AttemptsBound
    <3>4. Used(k) = old.attempts - Attempts(snap.status.invs, k)
      BY <1>3, <3>1 DEF Used
    <3>5. Used(k)' = (old.attempts + 1) - Attempts(snap.status.invs, k)
      BY <1>2, <1>3, <3>1 DEF Used
    <3>6. calls'[k] = calls[k] + 1
      BY <1>2, <1>13, <2>2
    <3>7. QED BY <1>5, <2>1, <3>3, <3>4, <3>5, <3>6, Quantities, LimitNat
  <2>3. CASE k # key
    <3>1. calls'[k] = calls[k]
      BY <1>2, <1>13, <2>3
    <3>2. Counted(work.invs, k) => k[1] # i
      <4>1. SUFFICES ASSUME Counted(work.invs, k), k[1] = i PROVE FALSE
        OBVIOUS
      <4>2. k = <<i, old.digest>>
        BY <4>1 DEF Counted, Keys, old
      <4>3. QED BY <1>4, <2>3, <4>2 DEF key
    <3>3. Counted(work.invs, k) => Attempts(work'.invs, k) = Attempts(work.invs, k)
      BY <1>1, <1>11, <3>2 DEF Attempts, Counted
    <3>4. Used(k)' = Used(k)
      BY <1>2, <1>3, <1>11, <3>3 DEF Used
    <3>5. QED BY <2>1, <3>1, <3>4, Quantities
  <2>4. QED BY <2>2, <2>3
<1>16. QED BY <1>6, <1>12, <1>15 DEF BudgetInv, Accounted

LEMMA BudgetEnd ==
  ASSUME BudgetInv, SafetyInv', EndInvocations
  PROVE  BudgetInv'
<1>1. /\ pc = "invoke" /\ pc' = "write"
      /\ UNCHANGED <<job, cache, watch, snap, calls, wasted>>
      /\ work' = [work EXCEPT !.phase = Summarize(work.invs)]
  BY DEF EndInvocations, store, history
<1>2. TypeOK /\ Busy /\ Busy'
  BY <1>1 DEF BudgetInv, SafetyInv, Busy
<1>3. work'.invs = work.invs
  BY <1>1, <1>2 DEF TypeOK, Status
<1>4. ModestViews'
  <2>1. snap \in View /\ cache \in View
    BY <1>2 DEF View
  <2>2. View' \subseteq View
    BY <1>1, <1>2, <2>1, SameView
  <2>3. QED BY <2>2 DEF BudgetInv, ModestViews
<1>5. ModestWork'
  BY <1>1, <1>2, <1>3 DEF BudgetInv, ModestWork, Realigned
<1>6. Accounted'
  BY <1>1, <1>2, <1>3 DEF BudgetInv, Accounted, Used
<1>7. QED BY <1>4, <1>5, <1>6 DEF BudgetInv

\* What the reconcile used is now in the record.
LEMMA BudgetWrite ==
  ASSUME BudgetInv, SafetyInv', WriteStatus
  PROVE  BudgetInv'
<1>1. SafetyInv /\ TypeOK /\ Publish([job EXCEPT !.status = work]) /\ wasted' = wasted
  BY DEF BudgetInv, SafetyInv, WriteStatus, history
<1>2. /\ snap = job /\ Busy /\ ~ Busy' /\ job'.status = work /\ job'.gen = job.gen
      /\ job'.spec = job.spec /\ calls' = calls /\ pc' = "idle"
  BY <1>1, WriteFacts DEF Busy
<1>3. Modest(work.invs) /\ Realigned
  BY <1>2 DEF BudgetInv, ModestWork
<1>4. ModestViews'
  <2>1. View' \subseteq View \union {job'}
    BY <1>1, <1>2, PublishView
  <2>2. QED BY <1>2, <1>3, <2>1, ModestStep DEF BudgetInv
<1>5. ModestWork'
  BY <1>2 DEF ModestWork, Busy
<1>6. ASSUME NEW k \in Keys
      PROVE calls'[k] + Limit <= Allowance(job'.gen + wasted') + Credit(job', k) + Used(k)'
  <2>1. Used(k)' = 0
    BY <1>2 DEF Used
  <2>2. /\ job.status.invs \in Seq(Invocation) /\ Modest(job.status.invs)
        /\ work.invs \in Seq(Invocation)
    BY <1>1, ObjectFields DEF BudgetInv, ModestViews, View, TypeOK, Status
  <2>3. /\ Attempts(work.invs, k) \in Nat
        /\ Attempts(job.status.invs, k) \in Nat /\ Attempts(job.status.invs, k) <= Limit
    BY <1>3, <2>2, AttemptsBound
  <2>4. Credit(job', k) = Attempts(work.invs, k) -
          (IF Counted(work.invs, k) /\ k \notin Wanted(job.spec) THEN Limit ELSE 0)
    BY <1>2 DEF Credit
  <2>5. Used(k) = IF Counted(work.invs, k)
                  THEN Attempts(work.invs, k) - Attempts(job.status.invs, k) ELSE 0
    BY <1>2 DEF Used
  <2>6. /\ ~ Counted(work.invs, k) => Attempts(work.invs, k) = 0
        /\ ~ Counted(job.status.invs, k) => Attempts(job.status.invs, k) = 0
    BY DEF Attempts
  <2>7. IF k \in Wanted(job.spec)
        THEN Counted(job.status.invs, k) => Counted(work.invs, k)
        ELSE Counted(work.invs, k) => Counted(job.status.invs, k)
    BY <1>2, <1>3 DEF Realigned
  <2>8. Credit(job', k) \in Int /\ Credit(job', k) >= Credit(job, k) + Used(k)
    <3>1. Credit(job, k) = Attempts(job.status.invs, k) -
            (IF Counted(job.status.invs, k) /\ k \notin Wanted(job.spec) THEN Limit ELSE 0)
      BY DEF Credit
    <3>2. CASE Counted(work.invs, k)
      BY <2>3, <2>4, <2>5, <2>6, <2>7, <3>1, <3>2, LimitNat
    <3>3. CASE ~ Counted(work.invs, k)
      BY <2>3, <2>4, <2>5, <2>6, <2>7, <3>1, <3>3, LimitNat
    <3>4. QED BY <3>2, <3>3
  <2>9. Allowance(job.gen + wasted) \in Nat
    BY Quantities, AllowanceStep
  <2>10. QED BY <1>1, <1>2, <2>1, <2>8, <2>9, Quantities, LimitNat
<1>7. QED BY <1>4, <1>5, <1>6 DEF BudgetInv, Accounted

LEMMA BudgetStep == BudgetInv /\ [Next]_vars => BudgetInv'
<1> SUFFICES ASSUME BudgetInv, [Next]_vars PROVE BudgetInv'
  OBVIOUS
<1>1. SafetyInv /\ SafetyInv' /\ TypeOK
  BY SafetyStep DEF BudgetInv, SafetyInv
<1>2. CASE EditSpec
  <2>1. PICK s \in Specs : Publish([job EXCEPT !.spec = s, !.gen = @ + 1])
    BY <1>2 DEF EditSpec
  <2>2. job'.status = job.status /\ job'.gen = job.gen + 1
    BY <1>1, <2>1 DEF Publish, TypeOK, Object
  <2>3. QED BY <1>1, <1>2, <2>1, <2>2, BudgetPublish DEF EditSpec, history
<1>3. CASE DeleteJob
  <2>1. Publish([job EXCEPT !.live = FALSE])
    BY <1>3 DEF DeleteJob
  <2>2. job'.status = job.status /\ job'.spec = job.spec /\ job'.gen = job.gen
    BY <1>1, <2>1 DEF Publish, TypeOK, Object
  <2>3. QED BY <1>1, <1>3, <2>1, <2>2, BudgetPublish DEF DeleteJob, history
<1>4. ASSUME UNCHANGED <<job, cache, watch, pc, local, calls, wasted>> PROVE BudgetInv'
  <2>1. View' \subseteq View
    BY <1>4 DEF View, Busy, local
  <2>2. QED BY <1>1, <1>4, <2>1, BudgetAside
<1>5. CASE FunctionChanges \/ Resync \/ UNCHANGED vars
  BY <1>4, <1>5 DEF FunctionChanges, Resync, vars, store, history, local
<1>6. CASE NothingToDo
  BY <1>4, <1>6 DEF NothingToDo, TakeKey, store, history
<1>7. CASE DeliverWatch
  <2>1. /\ watch \in Seq(Object) /\ watch # <<>> /\ cache' = Head(watch)
        /\ watch' = Tail(watch) /\ UNCHANGED <<job, pc, local, calls, wasted>>
    BY <1>1, <1>7 DEF DeliverWatch, TypeOK, history
  <2>2. cache' = watch[1] /\ 1 \in 1 .. Len(watch)
    BY <2>1
  <2>3. \A n \in 1 .. Len(watch') : n + 1 \in 1 .. Len(watch) /\ watch'[n] = watch[n + 1]
    BY <2>1
  <2>4. View' \subseteq View
    BY <2>1, <2>2, <2>3 DEF View, Busy, local
  <2>5. QED BY <1>1, <2>1, <2>4, BudgetAside
<1>8. ASSUME Return, job' = job, cache' \in View, watch' = watch \/ watch' = <<>>
      PROVE  View' \subseteq View
  BY <1>1, <1>8, SameView DEF Return, Busy
<1>9. CASE Crash
  <2>1. /\ Return /\ job' = job /\ cache' = job /\ watch' = <<>> /\ calls' = calls
        /\ wasted' = IF pc = "idle" THEN wasted ELSE wasted + 1
    BY <1>9 DEF Crash
  <2>2. View' \subseteq View
    BY <1>8, <2>1 DEF View
  <2>3. pc = "idle" => \A k \in Keys : Used(k) = 0
    BY DEF Used, Busy
  <2>4. QED BY <1>1, <2>1, <2>2, <2>3, BudgetReturn
<1>10. CASE StartReconcile
  BY <1>1, <1>10, BudgetStart
<1>11. ASSUME NEW i \in Index, NEW ok \in BOOLEAN, Attempt(i, ok) PROVE BudgetInv'
  BY <1>1, <1>11, BudgetAttempt
<1>12. CASE EndInvocations
  BY <1>1, <1>12, BudgetEnd
<1>13. CASE SkipWrite
  <2>1. /\ Return /\ UNCHANGED store /\ calls' = calls /\ wasted' = wasted
        /\ work = snap.status /\ Busy
    BY <1>13 DEF SkipWrite, history, Busy
  <2>2. View' \subseteq View
    BY <1>8, <2>1 DEF View, store
  <2>3. ASSUME NEW k \in Keys PROVE Used(k) = 0
    <3>1. snap \in Object /\ Modest(snap.status.invs)
      BY <1>1, <2>1 DEF BudgetInv, ModestViews, View, TypeOK
    <3>2. Attempts(snap.status.invs, k) \in Nat
      BY <3>1, ObjectFields, AttemptsBound
    <3>3. QED BY <2>1, <3>2 DEF Used
  <2>4. QED BY <1>1, <2>1, <2>2, <2>3, BudgetReturn DEF store
<1>14. CASE WriteRefused
  <2>1. Return /\ UNCHANGED store /\ calls' = calls /\ wasted' = wasted + 1
    BY <1>14 DEF WriteRefused
  <2>2. View' \subseteq View
    BY <1>8, <2>1 DEF View, store
  <2>3. QED BY <1>1, <2>1, <2>2, BudgetReturn DEF store
<1>15. CASE WriteStatus
  BY <1>1, <1>15, BudgetWrite
<1>16. QED
  BY <1>2, <1>3, <1>5, <1>6, <1>7, <1>9, <1>10, <1>11, <1>12, <1>13, <1>14, <1>15
     DEF Next, Environment, Controller

\* A payload is invoked at most MaxRetryLimit + 1 times per generation of the
\* spec, plus as often for each reconcile whose status was lost.
THEOREM BudgetKept == Spec => []InvocationBudget
<1>1. BudgetInv => InvocationBudget
  <2> SUFFICES ASSUME BudgetInv, NEW k \in Keys
               PROVE  calls[k] <= (MaxRetryLimit + 1) * (job.gen + Unrecorded)
    BY DEF InvocationBudget
  <2> DEFINE n == job.gen + wasted
  <2>1. n \in Nat /\ calls[k] + Limit <= Allowance(n) + Credit(job, k) + Used(k)
    BY Quantities
  <2>2. Allowance(n) \in Nat /\ Allowance(n + 1) = Allowance(n) + Limit
    BY <2>1, AllowanceStep
  <2>3. job.gen \in Nat /\ wasted \in Nat
    BY ObjectFields DEF BudgetInv, SafetyInv, TypeOK
  <2>4. job.gen + Unrecorded = (IF Busy THEN n + 1 ELSE n)
    BY <2>3 DEF Unrecorded, Busy
  <2> HIDE DEF n
  <2>5. CASE Busy
    <3>1. calls[k] <= Allowance(n + 1)
      BY <2>1, <2>2, Quantities, LimitNat
    <3>2. QED BY <2>4, <2>5, <3>1 DEF Allowance, Limit
  <2>6. CASE ~ Busy
    <3>1. calls[k] <= Allowance(n)
      BY <2>1, <2>2, <2>6, Quantities, LimitNat
    <3>2. QED BY <2>4, <2>6, <3>1 DEF Allowance, Limit
  <2>7. QED BY <2>5, <2>6
<1>2. Spec => []BudgetInv
  BY BudgetInit, BudgetStep, PTL DEF Spec
<1>3. QED BY <1>1, <1>2, PTL
=============================================================================
