--------------------- MODULE PipelineRunQueueing_proofs ---------------------
(***************************************************************************)
(* Proofs about PipelineRunQueueing, for any set of runs, any quota and    *)
(* any bound on evictions and edits: the safety properties, the action     *)
(* properties and the refinement of QuotaGate follow from QueueInv.        *)
(***************************************************************************)
EXTENDS QueueingReconciles_proofs, FiniteSetTheorems

USE DEF Pending, Running, Stopped, Cancelled, Unmanaged, CondPending, plrVars,
        wlVars, ByTheQueue, NoEdits, NoRemovals

-----------------------------------------------------------------------------
(* Safety.                                                                 *)

\* Every object and every cached copy has its type.
THEOREM TypeCorrect == Spec => []TypeOK
<1>1. QueueInv => TypeOK
  BY DEF QueueInv
<1> QED BY <1>1, QueueInvariant, PTL

\* A run that Tekton may execute and that has not ended holds quota, unless
\* users resume runs by hand or restore earlier annotations (Stop,
\* RunWithPodSetsInfo, IsSuspended, PodSets).
THEOREM ReleasedRunsHoldQuota == Spec => []ReleasedHoldsQuota
<1>1. QueueInv => ReleasedHoldsQuota
  BY Facts DEF ReleasedHoldsQuota, Released, Consistent, ReleaseIsBacked
<1> QED BY <1>1, QueueInvariant, PTL

\* A run whose execution began before it was stopped holds quota until it ends,
\* unless Workloads are deleted or annotations edited (IsActive, Stop).
THEOREM ActiveRunsHoldQuota == Spec => []ActiveHoldsQuota
<1>1. QueueInv => ActiveHoldsQuota
  BY Facts DEF ActiveHoldsQuota, InExecution, Consistent, ExecutionIsBacked
<1> QED BY <1>1, QueueInvariant, PTL

\* A run whose annotations cannot be parsed gets no Workload (PodSets).
THEOREM UnparsableRunsAreNotQueued == Spec => []UnparsableNeverQueued
<1>1. QueueInv => UnparsableNeverQueued
  BY Facts DEF UnparsableNeverQueued, Consistent, MatchesWorkload
<1> QED BY <1>1, QueueInvariant, PTL

\* A finished Workload carries the verdict of its run (Finished).
THEOREM VerdictsAreRecorded == Spec => []VerdictRecorded
<1>1. QueueInv => VerdictRecorded
  BY Facts DEF VerdictRecorded, Consistent, MatchesWorkload
<1> QED BY <1>1, QueueInvariant, PTL

-----------------------------------------------------------------------------
(* Counting quota.                                                         *)

\* Apart from Reserve, no step makes a Workload hold quota.
LEMMA OnlyReserveTakesQuota ==
    ASSUME QueueInv, [Next]_vars, \A p \in Run : ~Reserve(p)
    PROVE  QuotaHolders' \subseteq QuotaHolders
<1> SUFFICES ASSUME NEW q \in Run, HoldsQuota(wl[q])' PROVE HoldsQuota(wl[q])
  BY DEF QuotaHolders
<1>1. CASE UNCHANGED wl
  BY <1>1
<1>2. ASSUME NEW p \in Run, NEW w, WriteWl(p, w), HoldsQuota(w) => HoldsQuota(wl[p])
      PROVE  HoldsQuota(wl[q])
  BY <1>2 DEF WriteWl, QueueInv, TypeOK
<1>3. ~HoldsQuota(NoWorkload) /\ \A n \in 0 .. MaxEdits : ~HoldsQuota(NewWorkload(n))
  BY DEF HoldsQuota, NoWorkload, NewWorkload
<1>4. ASSUME NEW p \in Run, Admit(p) PROVE HoldsQuota(wl[q])
  BY <1>2, <1>4 DEF Admit
<1>5. ASSUME NEW p \in Run, Evict(p) PROVE HoldsQuota(wl[q])
  BY <1>2, <1>5 DEF Evict
<1>6. ASSUME NEW p \in Run, DeleteWorkload(p) PROVE HoldsQuota(wl[q])
  <2>1. HoldsQuota([wl[p] EXCEPT !.deleting = TRUE]) => HoldsQuota(wl[p])
    BY DEF HoldsQuota, QueueInv, TypeOK, Workload
  <2> QED BY <1>2, <1>6, <2>1 DEF DeleteWorkload
<1>7. ASSUME NEW p \in Run, ReconcileFinished(p) PROVE HoldsQuota(wl[q])
  <2> DEFINE w == [wl[p] EXCEPT !.finished =
                     IF Success(seen[p]) THEN "success" ELSE "failure"]
  <2>1. ~HoldsQuota(w)
    BY DEF HoldsQuota, QueueInv, TypeOK, Workload
  <2> QED BY <1>2, <1>7, <2>1 DEF ReconcileFinished
<1>8. ASSUME NEW p \in Run, ReconcileEvicted(p) PROVE HoldsQuota(wl[q])
  <2> DEFINE w == [wl[p] EXCEPT !.reserved = FALSE, !.admitted = FALSE]
  <2>1. ~HoldsQuota(w)
    BY DEF HoldsQuota, QueueInv, TypeOK, Workload
  <2> QED BY <1>1, <1>2, <1>8, <2>1 DEF ReconcileEvicted
<1>9. ASSUME NEW p \in Run, ReconcileGone(p) PROVE HoldsQuota(wl[q])
  BY <1>2, <1>3, <1>9 DEF ReconcileGone
<1>10. ASSUME NEW p \in Run, ReconcileNoWorkload(p) PROVE HoldsQuota(wl[q])
  <2>1. seen[p].requests \in 0 .. MaxEdits
    BY Facts DEF PipelineRun
  <2> QED BY <1>1, <1>2, <1>3, <1>10, <2>1 DEF ReconcileNoWorkload
<1>11. ASSUME NEW p \in Run, ReconcileDeletedWorkload(p) PROVE HoldsQuota(wl[q])
  BY <1>1, <1>2, <1>3, <1>11 DEF ReconcileDeletedWorkload
<1>12. ASSUME NEW p \in Run, ReconcileMismatch(p) PROVE HoldsQuota(wl[q])
  BY <1>1, <1>2, <1>3, <1>12 DEF ReconcileMismatch
<1>13. ASSUME NEW p \in Run, ReconcileChangedRequests(p) PROVE HoldsQuota(wl[q])
  <2>1. HoldsQuota([wl[p] EXCEPT !.requests = seen[p].requests]) => HoldsQuota(wl[p])
    BY DEF HoldsQuota, QueueInv, TypeOK, Workload
  <2> QED BY <1>2, <1>13, <2>1 DEF ReconcileChangedRequests
<1>14. ASSUME NEW p \in Run,
              \/ SyncRun(p) \/ SyncWl(p) \/ Create(p) \/ Cancel(p) \/ Resume(p)
              \/ Delete(p) \/ Annotate(p) \/ Revert(p) \/ ExecutorStart(p) \/ ExecutorFinish(p)
              \/ ReconcileAdmitted(p) \/ ReconcileNotAdmitted(p)
              \/ ReconcilePendingStatus(p)
       PROVE  UNCHANGED wl
  BY <1>14 DEF SyncRun, SyncWl, Create, Cancel, Resume, Delete, Annotate, Revert,
               ExecutorStart, ExecutorFinish, ReconcileAdmitted,
               ReconcileNotAdmitted, ReconcilePendingStatus
<1>15. CASE UNCHANGED vars
  BY <1>1, <1>15 DEF vars
<1> QED BY <1>1, <1>4, <1>5, <1>6, <1>7, <1>8, <1>9, <1>10, <1>11, <1>12, <1>13,
           <1>14, <1>15
        DEF Next, ReconcileJob

\* The scheduler's quota bounds the Workloads that hold quota at one time.
LEMMA QuotaLimitStep == QueueInv /\ QuotaLimit /\ [Next]_vars => QuotaLimit'
<1> SUFFICES ASSUME QueueInv, QuotaLimit, [Next]_vars PROVE QuotaLimit'
  OBVIOUS
<1>1. IsFiniteSet(QuotaHolders) /\ Cardinality(QuotaHolders) \in Nat
  BY RunAssumption, FS_Subset, FS_CardinalityType DEF QuotaHolders
<1>2. ASSUME NEW p \in Run, Reserve(p) PROVE QuotaLimit'
  <2>1. QuotaHolders' \subseteq QuotaHolders \cup {p}
    BY <1>2 DEF Reserve, WriteWl, QuotaHolders, QueueInv, TypeOK
  <2>2. /\ IsFiniteSet(QuotaHolders \cup {p})
        /\ Cardinality(QuotaHolders \cup {p}) <= Cardinality(QuotaHolders) + 1
        /\ Cardinality(QuotaHolders \cup {p}) \in Nat
    BY <1>1, FS_AddElement, FS_CardinalityType
  <2>3. Cardinality(QuotaHolders') <= Cardinality(QuotaHolders \cup {p})
        /\ Cardinality(QuotaHolders') \in Nat
    BY <2>1, <2>2, FS_Subset, FS_CardinalityType
  <2>4. Cardinality(QuotaHolders) < Quota
    BY <1>2 DEF Reserve
  <2>5. Cardinality(QuotaHolders') <= Quota
    BY <1>1, <2>2, <2>3, <2>4, QuotaAssumption
  <2> QED BY <2>5 DEF QuotaLimit
<1>3. CASE \A p \in Run : ~Reserve(p)
  <2>1. QuotaHolders' \subseteq QuotaHolders
    BY <1>3, OnlyReserveTakesQuota
  <2>2. Cardinality(QuotaHolders') <= Cardinality(QuotaHolders)
        /\ Cardinality(QuotaHolders') \in Nat
    BY <1>1, <2>1, FS_Subset, FS_CardinalityType
  <2> QED BY <1>1, <2>2, QuotaAssumption DEF QuotaLimit
<1> QED BY <1>2, <1>3

\* The guard of Reserve, which is Kueue's, is the only one that counts: at no
\* time do more Workloads hold quota than the ClusterQueue has.
LEMMA QuotaIsNeverExceeded == Spec => []QuotaLimit
<1>1. Init => QuotaLimit
  <2> SUFFICES ASSUME Init PROVE QuotaLimit
    OBVIOUS
  <2>1. QuotaHolders = {}
    BY DEF Init, QuotaHolders, HoldsQuota, NoWorkload
  <2> QED BY <2>1, FS_EmptySet, QuotaAssumption DEF QuotaLimit
<1> QED BY <1>1, QuotaLimitStep, QueueInvariant, PTL DEF Spec

\* Runs that all hold quota are no more than the quota.
LEMMA HoldersAreLimited ==
    ASSUME QuotaLimit, NEW R, R \subseteq QuotaHolders
    PROVE  Cardinality(R) <= Quota
<1>1. IsFiniteSet(QuotaHolders) /\ Cardinality(QuotaHolders) \in Nat
  BY RunAssumption, FS_Subset, FS_CardinalityType DEF QuotaHolders
<1>2. Cardinality(R) <= Cardinality(QuotaHolders) /\ Cardinality(R) \in Nat
  BY <1>1, FS_Subset, FS_CardinalityType
<1> QED BY <1>1, <1>2, QuotaAssumption DEF QuotaLimit

\* No more runs are released at the same time than the quota allows.
THEOREM ConcurrencyIsLimited == Spec => []ConcurrencyLimit
<1>1. QueueInv /\ QuotaLimit => ConcurrencyLimit
  <2> SUFFICES ASSUME QueueInv, QuotaLimit, ByTheQueue
               PROVE  Cardinality({p \in Run : Released(plr[p])}) <= Quota
    BY DEF ConcurrencyLimit
  <2> DEFINE R == {p \in Run : Released(plr[p])}
  <2>1. R \subseteq QuotaHolders
    BY Facts DEF Released, QuotaHolders, Consistent, ReleaseIsBacked
  <2> HIDE DEF R
  <2>2. Cardinality(R) <= Quota
    BY <2>1, HoldersAreLimited
  <2> QED BY <2>2 DEF R
<1> QED BY <1>1, QueueInvariant, QuotaIsNeverExceeded, PTL

\* No more runs execute at the same time than the quota allows, for any number
\* of runs, evictions and cancellations, unless Workloads are deleted or
\* annotations edited (IsActive, Stop).
THEOREM ExecutionsAreLimited == Spec => []ExecutionLimit
<1>1. ActiveHoldsQuota /\ QuotaLimit => ExecutionLimit
  <2> SUFFICES ASSUME ActiveHoldsQuota, QuotaLimit, NoRemovals
               PROVE  Cardinality({p \in Run : InExecution(plr[p])}) <= Quota
    BY DEF ExecutionLimit
  <2> DEFINE R == {p \in Run : InExecution(plr[p])}
  <2>1. R \subseteq QuotaHolders
    BY DEF ActiveHoldsQuota, QuotaHolders
  <2> HIDE DEF R
  <2>2. Cardinality(R) <= Quota
    BY <2>1, HoldersAreLimited
  <2> QED BY <2>2 DEF R
<1> QED BY <1>1, ActiveRunsHoldQuota, QuotaIsNeverExceeded, PTL

-----------------------------------------------------------------------------
(* What a step does to a run.                                              *)

\* The run's Workload holds quota for what the run asks for.
Backed(p) ==
    HoldsQuota(wl[p]) /\ wl[p].requests = plr[p].requests /\ plr[p].requestsOk

\* The object r of a run becomes t; q says that the run is backed.
Admission(r, t) ==
    /\ r.state = "absent" /\ r.cond = "none" /\ ~r.started /\ r.spec = Running
    /\ t.state = "live" /\ t.spec = Pending /\ t.cond = "none"

SpecWrite(r, t, q) ==
    /\ r.state = "live" /\ t.state = "live"
    /\ t.cond = r.cond /\ t.started = r.started
    /\ \/ t.spec = Cancelled
       \/ t.spec = Stopped /\ r.spec \in {Running, Pending}
       \/ t.spec = Running /\ r.spec = Pending /\ (q \/ ~ByTheQueue)

StatusWrite(r, t) ==
    /\ r.state = "live" /\ t.state = "live" /\ t.spec = r.spec
    /\ ~IsDone(r) /\ (r.started => t.started)
    /\ t.cond = CondPending => r.cond = "none"
    /\ t.cond # "none"

Deletion(r, t) ==
    /\ r.state = "live" /\ t.state = "deleted"
    /\ t.spec = r.spec /\ t.cond = r.cond /\ t.started = r.started

AnnotationWrite(r, t) ==
    /\ t.state = r.state /\ t.spec = r.spec
    /\ t.cond = r.cond /\ t.started = r.started

RunStep(r, t, q) ==
    \/ t = r
    \/ Admission(r, t)
    \/ SpecWrite(r, t, q)
    \/ StatusWrite(r, t)
    \/ AnnotationWrite(r, t)
    \/ Deletion(r, t)

\* Stop writes spec.status at most.
LEMMA StopIsSpecWrite ==
    ASSUME QueueInv, NEW p \in Run, seen[p].state = "live", Stop(p)
    PROVE  RunStep(plr[p], plr'[p], Backed(p))
<1>1. CASE StopNeeded(seen[p])
  <2>1. /\ plr[p] = seen[p] /\ plr[p].spec \in {Running, Pending}
        /\ plr'[p] = [plr[p] EXCEPT !.spec = Stopped]
    BY <1>1 DEF Stop, StopNeeded, WriteRun, QueueInv, TypeOK
  <2> QED BY <2>1 DEF RunStep, SpecWrite, QueueInv, TypeOK, PipelineRun
<1>2. CASE ~StopNeeded(seen[p])
  BY <1>2 DEF Stop, RunStep
<1> QED BY <1>1, <1>2

\* Every step is one of these for one run and leaves the other runs alone;
\* a run that becomes released holds quota, as long as ByTheQueue holds.
LEMMA StepOfOneRun ==
    ASSUME QueueInv, [Next]_vars
    PROVE  \/ UNCHANGED plr
           \/ \E p \in Run :
                 /\ RunStep(plr[p], plr'[p], Backed(p))
                 /\ \A q \in Run \ {p} : plr'[q] = plr[q]
<1> DEFINE P(p) == /\ RunStep(plr[p], plr'[p], Backed(p))
                   /\ \A q \in Run \ {p} : plr'[q] = plr[q]
<1> SUFFICES UNCHANGED plr \/ \E p \in Run : P(p)
  OBVIOUS
<1> USE DEF QueueInv, TypeOK
<1>1. ASSUME NEW p \in Run, Create(p) PROVE P(p)
  <2>1. plr[p] = NoRun
    BY <1>1, Facts DEF Create, Consistent, CopiesLag
  <2> QED BY <1>1, <2>1 DEF Create, WriteRun, Default, NoRun, RunStep, Admission
<1>2. ASSUME NEW p \in Run, Cancel(p) PROVE P(p)
  BY <1>2 DEF Cancel, WriteRun, RunStep, SpecWrite, PipelineRun
<1>3. ASSUME NEW p \in Run, Resume(p) PROVE P(p)
  BY <1>3 DEF Resume, WriteRun, RunStep, SpecWrite, PipelineRun
<1>4. ASSUME NEW p \in Run, Delete(p) PROVE P(p)
  BY <1>4 DEF Delete, WriteRun, RunStep, Deletion, PipelineRun
<1>5. ASSUME NEW p \in Run, ExecutorStart(p) PROVE P(p)
  BY <1>5 DEF ExecutorStart, WriteRun, RunStep, StatusWrite, PipelineRun
<1>6. ASSUME NEW p \in Run, ExecutorFinish(p) PROVE P(p)
  BY <1>6 DEF ExecutorFinish, WriteRun, RunStep, StatusWrite, PipelineRun, FinalCond
<1>7. ASSUME NEW p \in Run, ReconcileAdmitted(p) PROVE P(p)
  <2>1. /\ plr[p] = seen[p] /\ plr[p].state = "live" /\ plr[p].spec = Pending
        /\ seenWl[p].exists /\ seenWl[p].admitted /\ ~IsDone(plr[p])
        /\ seenWl[p].requests = plr[p].requests /\ plr[p].requestsOk
    BY <1>7, InProgressFacts DEF ReconcileAdmitted, IsSuspended
  <2>2. ByTheQueue => HoldsQuota(wl[p])
    BY <2>1, Facts DEF Consistent, ReleaseIsBacked
  <2>3. ByTheQueue => wl[p].requests = plr[p].requests
    <3>1. wl[p].requests \in Nat /\ plr[p].requests \in Nat
      BY Facts, EditsAssumption DEF PipelineRun, Workload
    <3>2. ByTheQueue => wl[p].requests <= plr[p].requests
                        /\ plr[p].requests <= wl[p].requests
      BY <2>1, <2>2, Facts DEF Consistent, EditionsInOrder, HoldsQuota
    <3> QED BY <3>1, <3>2
  <2> QED BY <1>7, <2>1, <2>2, <2>3
          DEF ReconcileAdmitted, RunWithPodSetsInfo, WriteRun, RunStep, SpecWrite,
              PipelineRun, Backed
<1>8. ASSUME NEW p \in Run, ReconcilePendingStatus(p) PROVE P(p)
  <2>1. plr[p] = seen[p] /\ plr[p].cond = "none" /\ plr[p].state = "live"
    BY <1>8 DEF ReconcilePendingStatus, needsPendingStatusCondition,
                LacksCondition
  <2> QED BY <1>8, <2>1 DEF ReconcilePendingStatus, WriteRun, RunStep, StatusWrite,
                            PipelineRun, IsDone, FinalCond
<1>9. ASSUME NEW p \in Run, seen[p].state = "live", Stop(p) PROVE P(p)
  BY <1>9, StopIsSpecWrite DEF Stop, WriteRun
<1>10. ASSUME NEW p \in Run,
              \/ ReconcileNoWorkload(p) \/ ReconcileMismatch(p)
              \/ ReconcileDeletedWorkload(p) \/ ReconcileEvicted(p)
              \/ ReconcileNotAdmitted(p)
       PROVE  UNCHANGED plr \/ P(p)
  BY <1>9, <1>10, InProgressFacts
     DEF ReconcileNoWorkload, ReconcileMismatch, ReconcileDeletedWorkload,
         ReconcileEvicted, ReconcileNotAdmitted, HasMatch, HasMismatch, HasWorkload
<1>11. ASSUME NEW p \in Run,
              \/ SyncRun(p) \/ SyncWl(p) \/ Reserve(p) \/ Admit(p) \/ Evict(p)
              \/ DeleteWorkload(p) \/ ReconcileGone(p) \/ ReconcileFinished(p)
              \/ ReconcileChangedRequests(p)
       PROVE  UNCHANGED plr
  BY <1>11 DEF SyncRun, SyncWl, Reserve, Admit, Evict, DeleteWorkload,
               ReconcileGone, ReconcileFinished, ReconcileChangedRequests
<1>12. ASSUME NEW p \in Run, Annotate(p) \/ Revert(p) PROVE P(p)
  <2>1. \A n, ok : AnnotationWrite(plr[p], [plr[p] EXCEPT !.requests = n,
                                                        !.requestsOk = ok])
    BY DEF AnnotationWrite, PipelineRun
  <2>2. PICK n, ok :
           WriteRun(p, [plr[p] EXCEPT !.requests = n, !.requestsOk = ok])
    BY <1>12 DEF Annotate, Revert
  <2> QED BY <2>1, <2>2 DEF WriteRun, RunStep
<1>13. CASE UNCHANGED vars
  BY <1>13 DEF vars
<1> HIDE DEF P
<1> QED BY <1>1, <1>2, <1>3, <1>4, <1>5, <1>6, <1>7, <1>8, <1>10, <1>11, <1>12,
           <1>13
        DEF Next, ReconcileJob

\* A stopped or cancelled run stays so, and a released run is not suspended
\* again (Stop, RunWithPodSetsInfo, ReconcileAdmitted on cached copies).
THEOREM SpecStatusIsMonotone == Spec => SpecStatusNeverReverts
<1> DEFINE A == \A p \in Run :
      /\ plr[p].spec = Cancelled => plr'[p].spec = Cancelled
      /\ plr[p].state = "live" /\ plr[p].spec = Stopped
            => plr'[p].spec \in {Stopped, Cancelled}
      /\ plr[p].state = "live" /\ plr[p].spec = Running
            => plr'[p].spec # Pending
<1>1. ASSUME QueueInv, [Next]_vars PROVE A
  BY <1>1, StepOfOneRun
     DEF RunStep, Admission, SpecWrite, StatusWrite, AnnotationWrite, Deletion
<1>2. QueueInv /\ [Next]_vars => [A]_vars
  BY <1>1
<1> QED BY <1>2, QueueInvariant, PTL DEF Spec, SpecStatusNeverReverts

\* No start time, condition of the executor or verdict is ever lost.
THEOREM StatusIsKept == Spec => StatusNeverLost
<1> DEFINE A == \A p \in Run :
      /\ plr[p].started => plr'[p].started
      /\ plr[p].cond \notin {"none", CondPending}
            => plr'[p].cond \notin {"none", CondPending}
      /\ IsDone(plr[p]) => plr'[p].cond = plr[p].cond
<1>1. ASSUME QueueInv, [Next]_vars PROVE A
  BY <1>1, StepOfOneRun
     DEF RunStep, Admission, SpecWrite, StatusWrite, AnnotationWrite, Deletion, IsDone, FinalCond
<1>2. QueueInv /\ [Next]_vars => [A]_vars
  BY <1>1
<1> QED BY <1>2, QueueInvariant, PTL DEF Spec, StatusNeverLost

\* A run is released with quota for its present annotations (PodSets,
\* ReconcileAdmitted on cached copies), as long as ByTheQueue holds.
THEOREM ReleasesAreBacked == Spec => ReleasedWithItsRequests
<1> DEFINE A == ByTheQueue => \A p \in Run :
      plr[p].state = "live" /\ plr[p].spec = Pending /\ plr'[p].spec = Running =>
          /\ plr[p].requestsOk
          /\ wl[p].requests = plr[p].requests /\ HoldsQuota(wl[p])
<1>1. ASSUME QueueInv, [Next]_vars PROVE A
  BY <1>1, StepOfOneRun
     DEF RunStep, Admission, SpecWrite, StatusWrite, AnnotationWrite, Deletion, Backed
<1>2. QueueInv /\ [Next]_vars => [A]_vars
  BY <1>1
<1> QED BY <1>2, QueueInvariant, PTL DEF Spec, ReleasedWithItsRequests

-----------------------------------------------------------------------------
(* Refinement of QuotaGate.                                                *)

\* A step of a run moves its phase forward, and only a run that holds quota
\* becomes released.
LEMMA PhaseOfStep ==
    ASSUME ByTheQueue, NEW r, NEW t, NEW q \in BOOLEAN,
           RunStep(r, t, q)
    PROVE  \/ Phase(t) = Phase(r)
           \/ Phase(r) = "absent" /\ Phase(t) = "queued"
           \/ Phase(r) = "queued" /\ Phase(t) = "released" /\ q
           \/ Phase(r) \in {"queued", "released"} /\ Phase(t) = "ended"
<1> USE DEF Phase, IsDone, FinalCond
<1>1. CASE t = r
  BY <1>1
<1>2. CASE Admission(r, t)
  BY <1>2 DEF Admission
<1>3. CASE SpecWrite(r, t, q)
  BY <1>3 DEF SpecWrite
<1>4. CASE StatusWrite(r, t)
  BY <1>4 DEF StatusWrite
<1>5. CASE Deletion(r, t)
  BY <1>5 DEF Deletion
<1>6. CASE AnnotationWrite(r, t)
  BY <1>6 DEF AnnotationWrite
<1> QED BY <1>1, <1>2, <1>3, <1>4, <1>5, <1>6 DEF RunStep

\* The webhook, the controller and Kueue implement the gate QuotaGate.
THEOREM QueueingImplementsGate ==
    ASSUME ByTheQueue
    PROVE  Spec => ImplementsQuotaGate
<1> DEFINE ph == [p \in Run |-> Phase(plr[p])]
<1>1. Init => Gate!Init
  BY DEF Init, Gate!Init, NoRun, Phase
<1>2. ASSUME QueueInv, QuotaLimit, [Next]_vars PROVE [Gate!Next]_ph
  <2>1. CASE UNCHANGED plr
    BY <2>1
  <2>2. ASSUME NEW p \in Run, RunStep(plr[p], plr'[p], Backed(p)),
               \A q \in Run \ {p} : plr'[q] = plr[q]
        PROVE  [Gate!Next]_ph
    <3>1. ph' = [ph EXCEPT ![p] = Phase(plr'[p])] /\ ph[p] = Phase(plr[p])
      BY <2>2
    <3>2. Backed(p) \in BOOLEAN /\ (Backed(p) => HoldsQuota(wl[p]))
      BY <1>2 DEF Backed, HoldsQuota, QueueInv, TypeOK, PipelineRun, Workload
    <3>3. \/ Phase(plr'[p]) = Phase(plr[p])
          \/ Phase(plr[p]) = "absent" /\ Phase(plr'[p]) = "queued"
          \/ /\ Phase(plr[p]) = "queued" /\ Phase(plr'[p]) = "released"
             /\ HoldsQuota(wl[p])
          \/ Phase(plr[p]) \in {"queued", "released"} /\ Phase(plr'[p]) = "ended"
      BY <2>2, <3>2, PhaseOfStep
    <3>4. CASE Phase(plr'[p]) = Phase(plr[p])
      BY <3>1, <3>4
    <3>5. CASE Phase(plr[p]) = "absent" /\ Phase(plr'[p]) = "queued"
      BY <3>1, <3>5 DEF Gate!Next, Gate!Submit
    <3>6. CASE Phase(plr[p]) \in {"queued", "released"} /\ Phase(plr'[p]) = "ended"
      BY <3>1, <3>6 DEF Gate!Next, Gate!End
    <3>7. CASE /\ Phase(plr[p]) = "queued" /\ Phase(plr'[p]) = "released"
               /\ HoldsQuota(wl[p])
      <4> DEFINE R == {q \in Run : ph[q] = "released"}
      <4>1. \A q \in R : Released(plr[q])
        BY DEF Phase, Released
      <4>2. R \subseteq QuotaHolders \ {p} /\ p \in QuotaHolders
        BY <1>2, <3>7, <4>1, Facts
           DEF Phase, Released, QuotaHolders, Consistent, ReleaseIsBacked
      <4>3. IsFiniteSet(QuotaHolders) /\ Cardinality(QuotaHolders) \in Nat
        BY RunAssumption, FS_Subset, FS_CardinalityType DEF QuotaHolders
      <4>4. /\ IsFiniteSet(QuotaHolders \ {p})
            /\ Cardinality(QuotaHolders \ {p}) = Cardinality(QuotaHolders) - 1
        BY <4>2, <4>3, FS_RemoveElement
      <4>5. Cardinality(R) <= Cardinality(QuotaHolders \ {p})
            /\ Cardinality(R) \in Nat
        BY <4>2, <4>4, FS_Subset, FS_CardinalityType
      <4> HIDE DEF R
      <4>6. Cardinality(R) < Quota
        BY <1>2, <4>3, <4>4, <4>5, QuotaAssumption DEF QuotaLimit
      <4>7. Cardinality(Gate!InPhase("released")) < Quota
        BY <4>6 DEF R, Gate!InPhase
      <4>8. Gate!Cardinality(Gate!InPhase("released"))
            = Cardinality(Gate!InPhase("released"))
        BY Zenon DEF Cardinality, Gate!Cardinality
      <4>9. Gate!Release(p)
        BY <3>1, <3>7, <4>7, <4>8 DEF Gate!Release
      <4> QED BY <4>9 DEF Gate!Next
    <3> QED BY <3>3, <3>4, <3>5, <3>6, <3>7
  <2> QED BY <1>2, <2>1, <2>2, StepOfOneRun
<1>3. QueueInv /\ QuotaLimit /\ [Next]_vars => [Gate!Next]_ph
  BY <1>2
<1> QED BY <1>1, <1>3, QueueInvariant, QuotaIsNeverExceeded, PTL
        DEF Spec, ImplementsQuotaGate, Gate!Spec
=============================================================================
