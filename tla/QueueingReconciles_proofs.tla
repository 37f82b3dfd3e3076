--------------------- MODULE QueueingReconciles_proofs ----------------------
(***************************************************************************)
(* Proofs about PipelineRunQueueing, second part: the steps of the two     *)
(* reconcilers.  With them QueueInv is inductive.                          *)
(***************************************************************************)
EXTENDS QueueingSteps_proofs

USE DEF Pending, Running, Stopped, Cancelled, Unmanaged, CondPending, plrVars,
        wlVars, ByTheQueue, NoEdits, NoRemovals
USE DEF Consistent, CopiesLag, EditionsInOrder, MatchesWorkload, ReleaseIsBacked,
        ExecutionIsBacked, IsDone, FinalCond, HoldsQuota

-----------------------------------------------------------------------------
(* The steps of the reconcilers.                                           *)

\* The Workload of a deleted run goes away.
LEMMA ReconcileGoneInv ==
    ASSUME QueueInv, NEW p \in Run, ReconcileGone(p)
    PROVE  QueueInv'
<1>1. Consistent(plr[p], seen[p], NoWorkload, seenWl[p])
  BY Facts DEF ReconcileGone, NoWorkload
<1> HIDE DEF Consistent
<1> QED BY <1>1, NewWorkloadType, WorkloadWrite DEF ReconcileGone

Executing(r) == r.state = "live" /\ r.cond = "Started"

\* What a stop leaves consistent: the Workload as it is, without quota, and
\* absent, unless the run executes and nobody may take its Workload away.
LEMMA StopConsistent ==
    ASSUME NEW r \in PipelineRun, NEW s \in PipelineRun, NEW w \in Workload,
           NEW v \in Workload, NEW t \in PipelineRun,
           Consistent(r, s, w, v), StoppedFrom(r, t), s.state = "live"
    PROVE  /\ Consistent(t, s, w, v)
           /\ (NoRemovals => ~Executing(t)) =>
                 /\ Consistent(t, s, NoWorkload, v)
                 /\ Consistent(t, s, [w EXCEPT !.reserved = FALSE,
                                               !.admitted = FALSE], v)
<1>1. Consistent(t, s, w, v)
  BY DEF StoppedFrom
<1>2. ASSUME NoRemovals => ~Executing(t)
      PROVE  Consistent(t, s, NoWorkload, v)
  BY <1>2 DEF StoppedFrom, NoWorkload, Executing
<1>3. ASSUME NoRemovals => ~Executing(t)
      PROVE  Consistent(t, s, [w EXCEPT !.reserved = FALSE, !.admitted = FALSE], v)
  BY <1>3 DEF StoppedFrom, Workload, Executing
<1> HIDE DEF Consistent
<1> QED BY <1>1, <1>2, <1>3

\* A new Workload for a run that had none.
LEMMA NewWorkloadConsistent ==
    ASSUME NEW r \in PipelineRun, NEW s \in PipelineRun, NEW w \in Workload,
           NEW v \in Workload,
           Consistent(r, s, w, v), ~w.exists, ~v.exists, s.state = "live",
           s.requestsOk
    PROVE  Consistent(r, s, NewWorkload(s.requests), v)
<1> DEFINE x == NewWorkload(s.requests)
<1>1. /\ x.exists /\ ~x.admitted /\ ~x.reserved /\ ~x.deleting
      /\ x.finished = "no" /\ x.requests = s.requests
  BY DEF NewWorkload, NoWorkload
<1>2. s.requests \in Nat
  BY EditsAssumption DEF PipelineRun
<1> HIDE DEF x
<1>3. r.state # "absent" /\ (NoEdits => r.requestsOk)
  BY DEF NoRun
<1>4. CopiesLag(r, s, x, v)
  BY <1>3
<1>7. EditionsInOrder(r, s, x, v)
  BY <1>1, <1>2
<1>5. MatchesWorkload(r, x, v)
  BY <1>1, <1>3
<1>6. ReleaseIsBacked(r, s, x, v) /\ ExecutionIsBacked(r, s, x, v)
  BY <1>1
<1> QED BY <1>4, <1>5, <1>6, <1>7 DEF x

\* A run without a Workload gets one, or is stopped.
LEMMA ReconcileNoWorkloadInv ==
    ASSUME QueueInv, NEW p \in Run, ReconcileNoWorkload(p)
    PROVE  QueueInv'
<1> DEFINE w == NewWorkload(seen[p].requests)
<1>1. /\ seen[p].state = "live" /\ ~seenWl[p].exists
      /\ UNCHANGED <<seen, seenWl>>
      /\ Stop(p) \/ UNCHANGED <<plr, fresh>>
      /\ \/ WriteWl(p, w) /\ ~wl[p].exists /\ seen[p].requestsOk
         \/ UNCHANGED <<wl, freshWl>>
  BY DEF ReconcileNoWorkload, PodSetsError
<1>2. w \in Workload
  BY Facts, NewWorkloadType DEF PipelineRun
<1>3. ASSUME NEW t \in PipelineRun, Consistent(t, seen[p], wl[p], seenWl[p]),
             ~wl[p].exists, seen[p].requestsOk
      PROVE  Consistent(t, seen[p], w, seenWl[p])
  <2> HIDE DEF Consistent
  <2> QED BY <1>1, <1>3, Facts, NewWorkloadConsistent
<1> HIDE DEF w, Consistent
<1>4. CASE Stop(p) /\ WriteWl(p, w) /\ ~wl[p].exists /\ seen[p].requestsOk
  <2>1. \A t \in PipelineRun : StoppedFrom(plr[p], t) =>
              /\ Consistent(t, seen[p], wl[p], seenWl[p])
              /\ Consistent(t, seen[p], w, seenWl[p])
    BY <1>1, <1>3, <1>4, Facts, StopConsistent
  <2> QED BY <1>1, <1>2, <1>4, <2>1, StopAndWrite
<1>5. CASE Stop(p) /\ UNCHANGED <<wl, freshWl>>
  <2>1. PICK t \in PipelineRun :
           /\ StoppedFrom(plr[p], t)
           /\ WriteRun(p, t) \/ UNCHANGED <<plr, fresh>>
    BY <1>1, <1>5, StopEffect
  <2>2. Consistent(t, seen[p], wl[p], seenWl[p])
    BY <1>1, <2>1, Facts, StopConsistent
  <2>3. CASE WriteRun(p, t)
    BY <1>1, <1>5, <2>2, <2>3, RunWrite
  <2>4. CASE UNCHANGED <<plr, fresh>>
    BY <1>1, <1>5, <2>4 DEF QueueInv, TypeOK
  <2> QED BY <2>1, <2>3, <2>4
<1>6. CASE /\ UNCHANGED <<plr, fresh>> /\ WriteWl(p, w)
           /\ ~wl[p].exists /\ seen[p].requestsOk
  BY <1>1, <1>2, <1>3, <1>6, Facts, WorkloadWrite
<1>7. CASE UNCHANGED <<plr, fresh>> /\ UNCHANGED <<wl, freshWl>>
  BY <1>1, <1>7 DEF QueueInv, TypeOK
<1> QED BY <1>1, <1>4, <1>5, <1>6, <1>7

\* A reconcile that stops the run, and may then give its quota back or remove
\* its Workload unless the run executes and nobody takes Workloads away.
LEMMA StopAndRelease ==
    ASSUME QueueInv, NEW p \in Run, seen[p].state = "live", Stop(p),
           UNCHANGED <<seen, seenWl>>,
           NEW w \in {NoWorkload,
                      [wl[p] EXCEPT !.reserved = FALSE, !.admitted = FALSE]},
           \/ WriteWl(p, w) /\ (NoRemovals => ~Executing(plr[p]))
           \/ UNCHANGED <<wl, freshWl>>
    PROVE  QueueInv'
<1>1. w \in Workload
  <2>1. wl[p] \in Workload
    BY Facts
  <2> QED BY <2>1, NewWorkloadType, WorkloadUpdate
<1> HIDE DEF Consistent
<1>2. ASSUME NEW t \in PipelineRun, StoppedFrom(plr[p], t)
      PROVE  /\ Consistent(t, seen[p], wl[p], seenWl[p])
             /\ (NoRemovals => ~Executing(plr[p]))
                   => Consistent(t, seen[p], w, seenWl[p])
  <2>1. Executing(t) = Executing(plr[p])
    BY <1>2 DEF StoppedFrom, Executing
  <2>2. /\ Consistent(t, seen[p], wl[p], seenWl[p])
        /\ (NoRemovals => ~Executing(t)) =>
              /\ Consistent(t, seen[p], NoWorkload, seenWl[p])
              /\ Consistent(t, seen[p], [wl[p] EXCEPT !.reserved = FALSE,
                                                     !.admitted = FALSE], seenWl[p])
    BY <1>2, Facts, StopConsistent
  <2>3. CASE w = NoWorkload
    BY <2>1, <2>2, <2>3
  <2>4. CASE w = [wl[p] EXCEPT !.reserved = FALSE, !.admitted = FALSE]
    BY <2>1, <2>2, <2>4
  <2> QED BY <2>3, <2>4
<1>3. CASE WriteWl(p, w) /\ (NoRemovals => ~Executing(plr[p]))
  BY <1>1, <1>2, <1>3, StopAndWrite
<1>4. CASE UNCHANGED <<wl, freshWl>>
  <2>1. PICK t \in PipelineRun :
           /\ StoppedFrom(plr[p], t)
           /\ WriteRun(p, t) \/ UNCHANGED <<plr, fresh>>
    BY StopEffect
  <2>2. CASE WriteRun(p, t)
    BY <1>2, <1>4, <2>1, <2>2, RunWrite
  <2>3. CASE UNCHANGED <<plr, fresh>>
    BY <1>4, <2>3 DEF QueueInv, TypeOK
  <2> QED BY <2>1, <2>2, <2>3
<1> QED BY <1>3, <1>4

\* The Workload of a queued run follows the run's annotations.
LEMMA ReconcileChangedRequestsInv ==
    ASSUME QueueInv, NEW p \in Run, ReconcileChangedRequests(p)
    PROVE  QueueInv'
<1> DEFINE w == [wl[p] EXCEPT !.requests = seen[p].requests]
<1>1. /\ seen[p].state = "live" /\ seenWl[p].exists /\ ~seenWl[p].reserved
      /\ seenWl[p] = wl[p] /\ seenWl[p].requests # seen[p].requests
      /\ WriteWl(p, w) /\ UNCHANGED <<seenWl, plrVars>>
  BY Facts DEF ReconcileChangedRequests, HasMismatch, HasWorkload, Matches
<1>2. w \in Workload
  BY Facts, WorkloadUpdate DEF PipelineRun
<1>3. /\ w.exists = wl[p].exists /\ w.deleting = wl[p].deleting
      /\ w.reserved = wl[p].reserved /\ w.admitted = wl[p].admitted
      /\ w.finished = wl[p].finished /\ w.requests = seen[p].requests
  BY Facts DEF Workload
<1> HIDE DEF w
<1>4. Consistent(plr[p], seen[p], w, seenWl[p])
  <2> HIDE DEF CopiesLag, EditionsInOrder, MatchesWorkload, ReleaseIsBacked,
             ExecutionIsBacked
  <2>1. CopiesLag(plr[p], seen[p], w, seenWl[p])
    BY <1>1, WorkloadHasRun, Parts DEF CopiesLag
  <2>2. EditionsInOrder(plr[p], seen[p], w, seenWl[p])
    <3>1. seen[p].requests <= seen[p].requests
      BY Editions
    <3> QED BY <1>1, <1>3, <3>1, Parts DEF EditionsInOrder
  <2>3. MatchesWorkload(plr[p], w, seenWl[p])
    BY <1>1, <1>3, Parts DEF MatchesWorkload
  <2>4. ReleaseIsBacked(plr[p], seen[p], w, seenWl[p])
    BY <1>1, <1>3, Parts DEF ReleaseIsBacked
  <2>5. ExecutionIsBacked(plr[p], seen[p], w, seenWl[p])
    BY <1>1, <1>3, Parts DEF ExecutionIsBacked
  <2> QED BY <2>1, <2>2, <2>3, <2>4, <2>5
<1> HIDE DEF Consistent
<1> QED BY <1>1, <1>2, <1>4, WorkloadWrite

\* A Workload that no longer matches is removed.
LEMMA ReconcileMismatchInv ==
    ASSUME QueueInv, NEW p \in Run, ReconcileMismatch(p)
    PROVE  QueueInv'
<1>1. /\ seen[p].state = "live" /\ seenWl[p].exists
      /\ seenWl[p].requests # seen[p].requests
      /\ UNCHANGED <<seen, seenWl>>
      /\ WriteWl(p, NoWorkload) \/ UNCHANGED <<wl, freshWl>>
      /\ \/ Stop(p)
         \/ /\ UNCHANGED <<plr, fresh>>
            /\ seen[p].spec = Pending \/ IsDone(seen[p])
  BY DEF ReconcileMismatch, HasMismatch, HasWorkload, Matches, Finished, IsSuspended
<1> HIDE DEF CopiesLag, EditionsInOrder, MatchesWorkload, ReleaseIsBacked,
             ExecutionIsBacked
<1>2. ~NoRemovals
  <2>1. NoRemovals => /\ seenWl[p].requests <= seen[p].requests
                      /\ seen[p].requests <= plr[p].requests
                      /\ plr[p].requests = 0
    BY <1>1, Parts DEF EditionsInOrder
  <2>2. seen[p].requests \in Nat /\ seenWl[p].requests \in Nat
    BY Editions
  <2>3. seenWl[p].requests # seen[p].requests
    BY <1>1
  <2> QED BY <2>1, <2>2, <2>3
<1>3. CASE Stop(p)
  <2> HIDE DEF Consistent
  <2> QED BY <1>1, <1>2, <1>3, StopAndRelease
<1>4. CASE UNCHANGED <<plr, fresh>> /\ (seen[p].spec = Pending \/ IsDone(seen[p]))
  <2>1. Consistent(plr[p], seen[p], NoWorkload, seenWl[p])
    <3>1. CopiesLag(plr[p], seen[p], NoWorkload, seenWl[p])
      BY Parts DEF CopiesLag
    <3>2. EditionsInOrder(plr[p], seen[p], NoWorkload, seenWl[p])
      BY Parts DEF EditionsInOrder, NoWorkload
    <3>3. MatchesWorkload(plr[p], NoWorkload, seenWl[p])
      BY Parts DEF MatchesWorkload, NoWorkload
    <3>4. ReleaseIsBacked(plr[p], seen[p], NoWorkload, seenWl[p])
      <4>1. CASE IsDone(seen[p])
        <5>1. IsDone(plr[p])
          BY <1>1, <4>1, Parts DEF CopiesLag
        <5> QED BY <5>1 DEF ReleaseIsBacked
      <4>2. CASE seen[p].spec = Pending
        <5>1. "revert" \notin UserOps /\ seenWl[p].exists
                 => seenWl[p].requests # plr[p].requests
          <6>1. "revert" \notin UserOps /\ seenWl[p].exists =>
                   /\ seenWl[p].requests <= seen[p].requests
                   /\ seen[p].requests <= plr[p].requests
            BY Parts DEF EditionsInOrder
          <6>2. seenWl[p].requests # seen[p].requests
            BY <1>1
          <6> QED BY <6>1, <6>2, Editions
        <5> QED BY <1>1, <4>2, <5>1, Parts DEF ReleaseIsBacked
      <4> QED BY <1>4, <4>1, <4>2
    <3>5. ExecutionIsBacked(plr[p], seen[p], NoWorkload, seenWl[p])
      BY <1>2 DEF ExecutionIsBacked
    <3> QED BY <3>1, <3>2, <3>3, <3>4, <3>5
  <2> HIDE DEF Consistent
  <2>2. CASE WriteWl(p, NoWorkload)
    BY <1>1, <1>4, <2>1, <2>2, NewWorkloadType, WorkloadWrite
  <2>3. CASE UNCHANGED <<wl, freshWl>>
    BY <1>1, <1>4, <2>3 DEF QueueInv, TypeOK
  <2> QED BY <1>1, <2>2, <2>3
<1> QED BY <1>1, <1>3, <1>4

\* The run of a Workload that is being deleted is stopped.
LEMMA ReconcileDeletedWorkloadInv ==
    ASSUME QueueInv, NEW p \in Run, ReconcileDeletedWorkload(p)
    PROVE  QueueInv'
<1>1. /\ seen[p].state = "live" /\ seenWl[p].deleting /\ Stop(p)
      /\ UNCHANGED <<seen, seenWl>>
      /\ WriteWl(p, NoWorkload) \/ UNCHANGED <<wl, freshWl>>
  BY DEF ReconcileDeletedWorkload, HasMatch, HasWorkload
<1>2. ~NoRemovals
  BY <1>1, Facts
<1> HIDE DEF Consistent
<1> QED BY <1>1, <1>2, StopAndRelease

\* What the reconciles of a Workload that has not finished start from.
LEMMA InProgressFacts ==
    ASSUME NEW p \in Run, InProgress(p)
    PROVE  /\ seen[p].state = "live" /\ ~IsDone(seen[p])
           /\ seen[p].requestsOk /\ seenWl[p].exists
           /\ seenWl[p].requests = seen[p].requests
BY DEF InProgress, Unfinished, HasMatch, HasWorkload, Finished, Matches, PodSetsError

\* The Workload of a finished run finishes with the run's verdict.
LEMMA ReconcileFinishedInv ==
    ASSUME QueueInv, NEW p \in Run, ReconcileFinished(p)
    PROVE  QueueInv'
<1> DEFINE w == [wl[p] EXCEPT
                   !.finished = IF Success(seen[p]) THEN "success" ELSE "failure"]
<1>1. /\ seen[p].state = "live" /\ IsDone(seen[p]) /\ seenWl[p].exists
      /\ seenWl[p] = wl[p]
      /\ WriteWl(p, w) /\ UNCHANGED <<seenWl, plrVars>>
  BY Facts DEF ReconcileFinished, Unfinished, HasMatch, HasWorkload, Finished
<1>2. w \in Workload
  BY Facts, WorkloadUpdate
<1>3. /\ w.exists = wl[p].exists /\ w.deleting = wl[p].deleting
      /\ w.reserved = wl[p].reserved /\ w.admitted = wl[p].admitted
      /\ w.requests = wl[p].requests
      /\ w.finished = IF seen[p].cond = "Succeeded" THEN "success" ELSE "failure"
  BY Facts DEF Workload, Success
<1> HIDE DEF w
<1>4. Consistent(plr[p], seen[p], w, seenWl[p])
  <2> HIDE DEF CopiesLag, EditionsInOrder, MatchesWorkload, ReleaseIsBacked,
             ExecutionIsBacked
  <2>1. CopiesLag(plr[p], seen[p], w, seenWl[p])
    BY <1>1, WorkloadHasRun, Parts DEF CopiesLag
  <2>2. EditionsInOrder(plr[p], seen[p], w, seenWl[p])
    BY <1>1, <1>3, Parts DEF EditionsInOrder
  <2>3. MatchesWorkload(plr[p], w, seenWl[p])
    <3>1. plr[p].cond = seen[p].cond
      BY <1>1, Parts DEF CopiesLag
    <3>2. w.finished = "success" <=> seen[p].cond = "Succeeded"
      BY <1>3
    <3> QED BY <1>1, <1>3, <3>1, <3>2, Parts DEF MatchesWorkload
  <2>4. ReleaseIsBacked(plr[p], seen[p], w, seenWl[p])
    <3>1. IsDone(plr[p])
      BY <1>1, Parts DEF CopiesLag
    <3> QED BY <3>1 DEF ReleaseIsBacked
  <2>5. ExecutionIsBacked(plr[p], seen[p], w, seenWl[p])
    <3>1. IsDone(plr[p])
      BY <1>1, Parts DEF CopiesLag
    <3> QED BY <1>3, <3>1, Parts DEF ExecutionIsBacked
  <2> QED BY <2>1, <2>2, <2>3, <2>4, <2>5
<1> HIDE DEF Consistent
<1> QED BY <1>1, <1>2, <1>4, WorkloadWrite

\* An evicted run is stopped, and gives its quota back unless it executes.
LEMMA ReconcileEvictedInv ==
    ASSUME QueueInv, NEW p \in Run, ReconcileEvicted(p)
    PROVE  QueueInv'
<1> DEFINE w == [wl[p] EXCEPT !.reserved = FALSE, !.admitted = FALSE]
<1>1. /\ InProgress(p) /\ Stop(p) /\ UNCHANGED <<seen, seenWl>>
      /\ (WriteWl(p, w) /\ ~seen[p].started) \/ UNCHANGED <<wl, freshWl>>
  BY DEF ReconcileEvicted, IsActive
<1>2. seen[p].spec \in {Running, Pending} => fresh[p]
  BY <1>1, InProgressFacts DEF Stop, StopNeeded
<1>3. ~seen[p].started /\ NoRemovals => ~Executing(plr[p])
  BY <1>1, <1>2, InProgressFacts, Facts DEF NoRun, Executing
<1> HIDE DEF Consistent
<1> QED BY <1>1, <1>3, InProgressFacts, StopAndRelease

\* An admitted run is started, with the copy of its Workload.
LEMMA ReconcileAdmittedInv ==
    ASSUME QueueInv, NEW p \in Run, ReconcileAdmitted(p)
    PROVE  QueueInv'
<1> DEFINE r == [plr[p] EXCEPT !.spec = Running]
<1>1. /\ InProgress(p) /\ seenWl[p].admitted /\ seen[p] = plr[p]
      /\ plr[p].spec = Pending
      /\ WriteRun(p, r) /\ UNCHANGED <<seen, wlVars>>
  BY Facts DEF ReconcileAdmitted, RunWithPodSetsInfo, IsSuspended
<1>2. r \in PipelineRun
  BY Facts, SpecUpdate DEF SpecStatus
<1>3. /\ r.state = plr[p].state /\ r.cond = plr[p].cond /\ r.started = plr[p].started
      /\ r.requests = plr[p].requests /\ r.requestsOk = plr[p].requestsOk
      /\ r.spec = Running
  BY Facts DEF PipelineRun
<1> HIDE DEF r
<1>4. Consistent(r, seen[p], wl[p], seenWl[p])
  <2> HIDE DEF CopiesLag, EditionsInOrder, MatchesWorkload, ReleaseIsBacked,
             ExecutionIsBacked
  <2>1. CopiesLag(r, seen[p], wl[p], seenWl[p])
    <3>1. r.state = "live" /\ r.cond = seen[p].cond /\ r.requestsOk = seen[p].requestsOk
      BY <1>1, <1>3, InProgressFacts
    <3>2. seen[p].state = "live" /\ seen[p].spec = Pending
      BY <1>1, InProgressFacts
    <3> QED BY <3>1, <3>2 DEF CopiesLag
  <2>2. EditionsInOrder(r, seen[p], wl[p], seenWl[p])
    BY <1>1, <1>3, Parts DEF EditionsInOrder
  <2>3. MatchesWorkload(r, wl[p], seenWl[p])
    BY <1>1, <1>3, Parts, InProgressFacts DEF MatchesWorkload
  <2>4. ReleaseIsBacked(r, seen[p], wl[p], seenWl[p])
    BY <1>1, <1>3, Parts, InProgressFacts DEF ReleaseIsBacked
  <2>5. ExecutionIsBacked(r, seen[p], wl[p], seenWl[p])
    BY <1>1, <1>3, Parts DEF ExecutionIsBacked
  <2> QED BY <2>1, <2>2, <2>3, <2>4, <2>5
<1> HIDE DEF Consistent
<1> QED BY <1>1, <1>2, <1>4, RunWrite

\* A run that is not suspended, without admission, is stopped.
LEMMA ReconcileNotAdmittedInv ==
    ASSUME QueueInv, NEW p \in Run, ReconcileNotAdmitted(p)
    PROVE  QueueInv'
<1>1. InProgress(p) /\ Stop(p) /\ UNCHANGED <<seen, wlVars>>
  BY DEF ReconcileNotAdmitted
<1> HIDE DEF Consistent
<1> QED BY <1>1, InProgressFacts, StopAndRelease

\* A pending status is written.
LEMMA ReconcilePendingStatusInv ==
    ASSUME QueueInv, NEW p \in Run, ReconcilePendingStatus(p)
    PROVE  QueueInv'
<1> DEFINE r == [plr[p] EXCEPT !.started = seen[p].started, !.cond = CondPending]
<1>1. /\ seen[p].state = "live" /\ seen[p].spec = Pending /\ seen[p].cond = "none"
      /\ seen[p] = plr[p] /\ WriteRun(p, r) /\ UNCHANGED <<seen, wlVars>>
  BY Facts DEF ReconcilePendingStatus, needsPendingStatusCondition, LacksCondition
<1>2. r \in PipelineRun
  <2>1. seen[p].started \in BOOLEAN /\ CondPending \in Cond
    BY Facts DEF PipelineRun, Cond
  <2> QED BY <2>1, Facts, StatusUpdate
<1>3. /\ r.state = plr[p].state /\ r.spec = plr[p].spec
      /\ r.requests = plr[p].requests /\ r.requestsOk = plr[p].requestsOk
      /\ r.cond = CondPending
  BY Facts DEF PipelineRun
<1> HIDE DEF r
<1>4. Consistent(r, seen[p], wl[p], seenWl[p])
  <2> HIDE DEF CopiesLag, EditionsInOrder, MatchesWorkload, ReleaseIsBacked,
             ExecutionIsBacked
  <2>1. CopiesLag(r, seen[p], wl[p], seenWl[p])
    BY <1>1, <1>3, Parts DEF CopiesLag
  <2>2. EditionsInOrder(r, seen[p], wl[p], seenWl[p])
    BY <1>1, <1>3, Parts DEF EditionsInOrder
  <2>3. MatchesWorkload(r, wl[p], seenWl[p])
    BY <1>1, <1>3, Parts DEF MatchesWorkload
  <2>4. ReleaseIsBacked(r, seen[p], wl[p], seenWl[p])
    BY <1>1, <1>3, Parts DEF ReleaseIsBacked
  <2>5. ExecutionIsBacked(r, seen[p], wl[p], seenWl[p])
    BY <1>1, <1>3, Parts DEF ExecutionIsBacked
  <2> QED BY <2>1, <2>2, <2>3, <2>4, <2>5
<1> HIDE DEF Consistent
<1> QED BY <1>1, <1>2, <1>4, RunWrite

\* So does a step that changes nothing.
LEMMA StutterInv ==
    ASSUME QueueInv, UNCHANGED vars
    PROVE  QueueInv'
<1> HIDE DEF Consistent
<1> QED BY DEF QueueInv, TypeOK, vars

\* Every step keeps the invariant.
LEMMA NextInv == QueueInv /\ [Next]_vars => QueueInv'
BY StutterInv,
   SyncRunInv, SyncWlInv, CreateInv, CancelInv, ResumeInv, DeleteInv,
   AnnotateInv, RevertInv, ExecutorStartInv, ExecutorFinishInv, ReserveInv, AdmitInv,
   EvictInv, DeleteWorkloadInv, ReconcileGoneInv,
   ReconcileNoWorkloadInv, ReconcileChangedRequestsInv,
   ReconcileMismatchInv, ReconcileDeletedWorkloadInv,
   ReconcileFinishedInv, ReconcileEvictedInv, ReconcileAdmittedInv,
   ReconcileNotAdmittedInv, ReconcilePendingStatusInv
   DEF Next, ReconcileJob

\* Whatever the caches lag and however the reconcilers, the executor, the
\* scheduler and the users interleave, QueueInv holds.
THEOREM QueueInvariant == Spec => []QueueInv
BY InitInv, NextInv, PTL DEF Spec
=============================================================================
