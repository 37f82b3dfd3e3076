------------------------ MODULE PipelineRunQueueing ------------------------
(***************************************************************************)
(* The life of a PipelineRun that tekton-kueue queues, from the admission  *)
(* webhook to the end of its Kueue Workload.                               *)
(*                                                                         *)
(* The code modelled is the GenericJob implementation and the two          *)
(* reconcilers of src/internal/controller.  What calls it or competes with *)
(* it is external and modelled from how that code uses it: Kueue's generic *)
(* job reconciler and scheduler, the run's executor (Tekton, or MultiKueue *)
(* copying a remote run's status), the API server and the users.           *)
(*                                                                         *)
(* Every reconcile works on a cached copy of the object.  A write carries  *)
(* the resourceVersion of that copy and is refused when the object has     *)
(* been written since, so a refused write is a step that does not happen:  *)
(* the reconcile returns the error and is retried.  Only the equality of   *)
(* two versions matters; fresh[p] says that the cached copy of p is the    *)
(* current one.                                                            *)
(***************************************************************************)
EXTENDS Naturals, FiniteSets

CONSTANTS
    Run,           \* names of the PipelineRuns that may be created
    Quota,         \* the ClusterQueue's quota of tekton.dev/pipelineruns
    ManagedBy,     \* values of spec.managedBy the webhook may leave
    UserOps,       \* what users do after creation: "cancel", "resume", "delete",
                   \* "annotate", "revert"
    WorkloadOps,   \* what administrators do to Workloads: "delete"
    MaxEvictions,  \* bound on the evictions of one Workload
    MaxEdits       \* bound on the edits of one run's resource annotations

\* spec.status of a PipelineRun.  Running stands for the empty status, that of
\* a run Tekton may execute.  Cancelled stands for both of Tekton's cancel values.
Pending == "PipelineRunPending"
Running == "Empty"
Stopped == "StoppedRunFinally"
Cancelled == "Cancelled"
SpecStatus == {Pending, Running, Stopped, Cancelled}

MultiKueue == "kueue.x-k8s.io/multikueue"
Unmanaged == "none"          \* no managedBy: Tekton executes the run

\* The Succeeded condition: missing, Unknown with one of three reasons, or
\* final.  "Stopping" is that of a run whose execution began after its stop.
CondPending == "PipelineRunPending"
FinalCond == {"Succeeded", "Failed"}
Cond == {"none", CondPending, "Started", "Stopping"} \cup FinalCond

ASSUME RunAssumption == IsFiniteSet(Run)
ASSUME QuotaAssumption == Quota \in Nat
ASSUME EvictionsAssumption == MaxEvictions \in Nat
ASSUME EditsAssumption == MaxEdits \in Nat

VARIABLES
    plr,       \* the PipelineRun objects in the API server
    seen,      \* the controller's cached copies of them
    fresh,     \* whether a cached copy has the current resourceVersion
    wl,        \* the Workload objects in the API server
    seenWl,    \* the controller's cached copies of them
    freshWl    \* whether a cached copy has the current resourceVersion

plrVars == <<plr, seen, fresh>>
wlVars == <<wl, seenWl, freshWl>>
vars == <<plr, seen, fresh, wl, seenWl, freshWl>>

PipelineRun ==
    [state : {"absent", "live", "deleted"},
     spec : SpecStatus,
     managedBy : ManagedBy \cup {Unmanaged},
     requests : 0 .. MaxEdits,    \* the edition of the resource annotations
     requestsOk : BOOLEAN,        \* they can be parsed
     started : BOOLEAN,           \* status.startTime is set
     cond : Cond]

Workload ==
    [exists : BOOLEAN,
     deleting : BOOLEAN,          \* deletionTimestamp set, finalizer in place
     reserved : BOOLEAN,
     admitted : BOOLEAN,
     evicted : BOOLEAN,
     evictions : 0 .. MaxEvictions,
     requests : 0 .. MaxEdits,    \* the edition its pod sets were made from
     finished : {"no", "success", "failure"}]

NoRun == [state |-> "absent", spec |-> Running, managedBy |-> Unmanaged,
          requests |-> 0, requestsOk |-> TRUE, started |-> FALSE,
          cond |-> "none"]

NoWorkload == [exists |-> FALSE, deleting |-> FALSE, reserved |-> FALSE,
               admitted |-> FALSE, evicted |-> FALSE, evictions |-> 0,
               requests |-> 0, finished |-> "no"]

NewWorkload(n) == [NoWorkload EXCEPT !.exists = TRUE, !.requests = n]

Init ==
    /\ plr = [p \in Run |-> NoRun]
    /\ seen = [p \in Run |-> NoRun]
    /\ fresh = [p \in Run |-> TRUE]
    /\ wl = [p \in Run |-> NoWorkload]
    /\ seenWl = [p \in Run |-> NoWorkload]
    /\ freshWl = [p \in Run |-> TRUE]

-----------------------------------------------------------------------------
(* The API server and the controller's informers.                         *)

WriteRun(p, r) ==
    /\ plr' = [plr EXCEPT ![p] = r]
    /\ fresh' = [fresh EXCEPT ![p] = FALSE]

WriteWl(p, w) ==
    /\ wl' = [wl EXCEPT ![p] = w]
    /\ freshWl' = [freshWl EXCEPT ![p] = FALSE]

SyncRun(p) ==
    /\ ~fresh[p]
    /\ seen' = [seen EXCEPT ![p] = plr[p]]
    /\ fresh' = [fresh EXCEPT ![p] = TRUE]
    /\ UNCHANGED <<plr, wlVars>>

SyncWl(p) ==
    /\ ~freshWl[p]
    /\ seenWl' = [seenWl EXCEPT ![p] = wl[p]]
    /\ freshWl' = [freshWl EXCEPT ![p] = TRUE]
    /\ UNCHANGED <<wl, plrVars>>

-----------------------------------------------------------------------------
(* The GenericJob methods of PipelineRun.  r is the copy they work on.     *)

IsDone(r) == r.cond \in FinalCond

\* Mutant: every run that is not executing counts as suspended.
IsSuspendedUnlessRunning(r) == r.spec # Running

IsSuspended(r) == r.spec = Pending

\* Mutant: a run without a completion time does not count as active.
IsNeverActive(r) == FALSE

IsActive(r) == r.started

\* Mutant: only a successful end is recognised.
FinishedOnSuccess(r) == r.cond = "Succeeded"

Finished(r) == r.cond # "none" /\ IsDone(r)

\* Mutant: the verdict ignores the reason of the condition.
SuccessOnAnyEnd(r) == IsDone(r)

Success(r) == r.cond = "Succeeded"

\* Mutant: annotations that cannot be parsed are skipped.
PodSetsErrorIgnored(r) == FALSE

\* PodSets returns an unretryable error when an annotation cannot be parsed.
PodSetsError(r) == ~r.requestsOk

\* Mutant: the status is set to a value Tekton does not define.
RunWithWrongStatus(r) == [r EXCEPT !.spec = "Running"]

\* Mutant: the status is left alone.
RunStaysPending(r) == r

RunWithPodSetsInfo(r) == [r EXCEPT !.spec = Running]

\* Mutant: the test of spec.status is missing.
StopNeededUnlessDone(r) == ~IsDone(r)

\* Mutant: the test of spec.status forgets released runs.
StopNeededIfPending(r) == ~IsDone(r) /\ r.spec = Pending

StopNeeded(r) == ~IsDone(r) /\ r.spec \in {Running, Pending}

\* Mutant: the error of the refused patch is swallowed.
StopSwallowsError(p) ==
    IF StopNeeded(seen[p]) /\ fresh[p]
    THEN WriteRun(p, [plr[p] EXCEPT !.spec = Stopped])
    ELSE UNCHANGED <<plr, fresh>>

\* Disabled when the patch is refused: the caller then returns the error.
Stop(p) ==
    IF StopNeeded(seen[p])
    THEN fresh[p] /\ WriteRun(p, [plr[p] EXCEPT !.spec = Stopped])
    ELSE UNCHANGED <<plr, fresh>>

-----------------------------------------------------------------------------
(* The webhook and the users.                                              *)

Default(r, m) == [r EXCEPT !.spec = Pending, !.managedBy = m]

\* The user's own spec.status s is whatever they submit.
Create(p) ==
    /\ plr[p].state = "absent"
    /\ \E s \in SpecStatus, m \in ManagedBy, ok \in BOOLEAN :
          WriteRun(p, Default([NoRun EXCEPT !.state = "live", !.spec = s,
                                            !.requestsOk = ok], m))
    /\ UNCHANGED <<seen, wlVars>>

Cancel(p) ==
    /\ "cancel" \in UserOps
    /\ plr[p].state = "live" /\ ~IsDone(plr[p]) /\ plr[p].spec # Cancelled
    /\ WriteRun(p, [plr[p] EXCEPT !.spec = Cancelled])
    /\ UNCHANGED <<seen, wlVars>>

\* A user un-suspends a run by hand, without waiting for Kueue.
Resume(p) ==
    /\ "resume" \in UserOps
    /\ plr[p].state = "live" /\ plr[p].spec = Pending
    /\ WriteRun(p, [plr[p] EXCEPT !.spec = Running])
    /\ UNCHANGED <<seen, wlVars>>

Delete(p) ==
    /\ "delete" \in UserOps
    /\ plr[p].state = "live"
    /\ WriteRun(p, [plr[p] EXCEPT !.state = "deleted"])
    /\ UNCHANGED <<seen, wlVars>>

\* A user edits the resource annotations, to requests not asked for before, ...
Annotate(p) ==
    /\ "annotate" \in UserOps
    /\ plr[p].state = "live" /\ plr[p].requests < MaxEdits
    /\ \E ok \in BOOLEAN :
          WriteRun(p, [plr[p] EXCEPT !.requests = @ + 1, !.requestsOk = ok])
    /\ UNCHANGED <<seen, wlVars>>

\* ... or puts earlier ones back.
Revert(p) ==
    /\ "revert" \in UserOps
    /\ plr[p].state = "live"
    /\ \E n \in 0 .. MaxEdits :
          /\ n < plr[p].requests
          /\ WriteRun(p, [plr[p] EXCEPT !.requests = n, !.requestsOk = TRUE])
    /\ UNCHANGED <<seen, wlVars>>

-----------------------------------------------------------------------------
(* The run's executor: Tekton, or MultiKueue copying the remote status     *)
(* while the run's Workload holds quota on the hub.                        *)

Executes(p) ==
    \/ plr[p].managedBy = Unmanaged /\ plr[p].spec # Pending
    \/ plr[p].managedBy = MultiKueue /\ wl[p].reserved

ExecutorStart(p) ==
    /\ plr[p].state = "live" /\ ~plr[p].started /\ ~IsDone(plr[p])
    /\ Executes(p)
    /\ WriteRun(p, [plr[p] EXCEPT
                      !.started = TRUE,
                      !.cond = IF plr[p].spec \in {Pending, Running}
                               THEN "Started" ELSE "Stopping"])
    /\ UNCHANGED <<seen, wlVars>>

ExecutorFinish(p) ==
    /\ plr[p].state = "live" /\ plr[p].started /\ ~IsDone(plr[p])
    /\ \E c \in FinalCond : WriteRun(p, [plr[p] EXCEPT !.cond = c])
    /\ UNCHANGED <<seen, wlVars>>

-----------------------------------------------------------------------------
(* Kueue's scheduler and administrators.                                   *)

HoldsQuota(w) == w.exists /\ w.reserved /\ w.finished = "no"

QuotaHolders == {p \in Run : HoldsQuota(wl[p])}

Reserve(p) ==
    /\ wl[p].exists /\ ~wl[p].deleting /\ ~wl[p].reserved
    /\ wl[p].finished = "no"
    /\ Cardinality(QuotaHolders) < Quota
    /\ WriteWl(p, [wl[p] EXCEPT !.reserved = TRUE, !.evicted = FALSE])
    /\ UNCHANGED <<seenWl, plrVars>>

Admit(p) ==
    /\ HoldsQuota(wl[p]) /\ ~wl[p].admitted /\ ~wl[p].evicted
    /\ WriteWl(p, [wl[p] EXCEPT !.admitted = TRUE])
    /\ UNCHANGED <<seenWl, plrVars>>

Evict(p) ==
    /\ HoldsQuota(wl[p]) /\ ~wl[p].evicted
    /\ wl[p].evictions < MaxEvictions
    /\ WriteWl(p, [wl[p] EXCEPT !.evicted = TRUE, !.evictions = @ + 1])
    /\ UNCHANGED <<seenWl, plrVars>>

DeleteWorkload(p) ==
    /\ "delete" \in WorkloadOps
    /\ wl[p].exists /\ ~wl[p].deleting
    /\ WriteWl(p, [wl[p] EXCEPT !.deleting = TRUE])
    /\ UNCHANGED <<seenWl, plrVars>>

-----------------------------------------------------------------------------
(* Kueue's generic job reconciler.  Its outcomes exclude each other and    *)
(* come in the order of the reconciler's checks, all of them on the cached *)
(* copies.  A write of a Workload is refused like one of a PipelineRun.    *)

\* The run is gone: its Workloads lose their finalizer.
ReconcileGone(p) ==
    /\ seen[p].state = "deleted" /\ seenWl[p].exists /\ wl[p].exists
    /\ WriteWl(p, NoWorkload)
    /\ UNCHANGED <<seenWl, plrVars>>

\* No Workload: a run that is not suspended is stopped; then, unless the run
\* has finished or is active, a Workload is made from its PodSets.  The
\* second write may fail after the first one.
ReconcileNoWorkload(p) ==
    /\ seen[p].state = "live" /\ ~seenWl[p].exists
    /\ IF ~IsSuspended(seen[p]) /\ ~Finished(seen[p])
       THEN Stop(p) ELSE UNCHANGED <<plr, fresh>>
    /\ \/ /\ ~Finished(seen[p]) /\ ~IsActive(seen[p]) /\ ~PodSetsError(seen[p])
          /\ ~wl[p].exists
          /\ WriteWl(p, NewWorkload(seen[p].requests))
       \/ UNCHANGED <<wl, freshWl>>
    /\ UNCHANGED <<seen, seenWl>>

HasWorkload(p) == seen[p].state = "live" /\ seenWl[p].exists

\* Whether the Workload is the one the run's PodSets ask for is decided before
\* anything else, so an error of PodSets ends the reconcile.
Matches(r, w) == w.requests = r.requests

HasMatch(p) ==
    HasWorkload(p) /\ ~PodSetsError(seen[p]) /\ Matches(seen[p], seenWl[p])

HasMismatch(p) ==
    HasWorkload(p) /\ ~PodSetsError(seen[p]) /\ ~Matches(seen[p], seenWl[p])

\* The Workload of a suspended run that has no quota yet is changed to match.
ReconcileChangedRequests(p) ==
    /\ HasMismatch(p)
    /\ IsSuspended(seen[p]) /\ ~seenWl[p].reserved
    /\ freshWl[p]
    /\ WriteWl(p, [wl[p] EXCEPT !.requests = seen[p].requests])
    /\ UNCHANGED <<seenWl, plrVars>>

\* Any other one is deleted, after a run that is not suspended was stopped.
ReconcileMismatch(p) ==
    /\ HasMismatch(p)
    /\ ~IsSuspended(seen[p]) \/ seenWl[p].reserved
    /\ IF ~IsSuspended(seen[p]) /\ ~Finished(seen[p])
       THEN Stop(p) ELSE UNCHANGED <<plr, fresh>>
    /\ \/ wl[p].exists /\ WriteWl(p, NoWorkload)
       \/ UNCHANGED <<wl, freshWl>>
    /\ UNCHANGED <<seen, seenWl>>

\* The Workload is being deleted: stop the run, then drop the finalizer.
ReconcileDeletedWorkload(p) ==
    /\ HasMatch(p) /\ seenWl[p].deleting
    /\ Stop(p)
    /\ \/ wl[p].exists /\ WriteWl(p, NoWorkload)
       \/ UNCHANGED <<wl, freshWl>>
    /\ UNCHANGED <<seen, seenWl>>

Unfinished(p) ==
    HasMatch(p) /\ ~seenWl[p].deleting /\ seenWl[p].finished = "no"

\* The run has finished: so does the Workload, with the run's verdict.
ReconcileFinished(p) ==
    /\ Unfinished(p) /\ Finished(seen[p])
    /\ freshWl[p]
    /\ WriteWl(p, [wl[p] EXCEPT
                     !.finished = IF Success(seen[p]) THEN "success" ELSE "failure"])
    /\ UNCHANGED <<seenWl, plrVars>>

InProgress(p) == Unfinished(p) /\ ~Finished(seen[p])

\* The Workload is evicted: stop the run, and give the quota back once the
\* run is not active.  The second write may fail after the first one.
ReconcileEvicted(p) ==
    /\ InProgress(p) /\ seenWl[p].evicted
    /\ Stop(p)
    /\ \/ /\ seenWl[p].reserved /\ ~IsActive(seen[p]) /\ freshWl[p]
          /\ WriteWl(p, [wl[p] EXCEPT !.reserved = FALSE, !.admitted = FALSE])
       \/ UNCHANGED <<wl, freshWl>>
    /\ UNCHANGED <<seen, seenWl>>

\* The Workload is admitted and the run still suspended: start it.
ReconcileAdmitted(p) ==
    /\ InProgress(p) /\ ~seenWl[p].evicted
    /\ IsSuspended(seen[p]) /\ seenWl[p].admitted
    /\ fresh[p]
    /\ WriteRun(p, RunWithPodSetsInfo(plr[p]))
    /\ UNCHANGED <<seen, wlVars>>

\* The run is not suspended although its Workload is not admitted: stop it.
ReconcileNotAdmitted(p) ==
    /\ InProgress(p) /\ ~seenWl[p].evicted
    /\ ~IsSuspended(seen[p]) /\ ~seenWl[p].admitted
    /\ Stop(p)
    /\ UNCHANGED <<seen, wlVars>>

ReconcileJob(p) ==
    \/ ReconcileGone(p) \/ ReconcileNoWorkload(p)
    \/ ReconcileChangedRequests(p) \/ ReconcileMismatch(p)
    \/ ReconcileDeletedWorkload(p) \/ ReconcileFinished(p)
    \/ ReconcileEvicted(p) \/ ReconcileAdmitted(p) \/ ReconcileNotAdmitted(p)

-----------------------------------------------------------------------------
(* The pending-status reconciler for runs that MultiKueue manages.         *)

\* The filter on events; Reconcile tests the same two fields again.
needsPendingStatusCondition(r) == r.managedBy = MultiKueue /\ r.spec = Pending

\* Mutant: the test for a missing condition is inverted.
HasCondition(r) == r.cond # "none"

LacksCondition(r) == r.cond = "none"

\* Mutant: the status is written without the resourceVersion of the copy.
ReconcilePendingStatusUnversioned(p) ==
    /\ seen[p].state = "live" /\ needsPendingStatusCondition(seen[p])
    /\ LacksCondition(seen[p])
    /\ plr[p].state = "live"
    /\ WriteRun(p, [plr[p] EXCEPT !.started = seen[p].started,
                                  !.cond = CondPending])
    /\ UNCHANGED <<seen, wlVars>>

\* Status().Update writes the whole status of the copy.
ReconcilePendingStatus(p) ==
    /\ seen[p].state = "live" /\ needsPendingStatusCondition(seen[p])
    /\ LacksCondition(seen[p])
    /\ fresh[p]
    /\ WriteRun(p, [plr[p] EXCEPT !.started = seen[p].started,
                                  !.cond = CondPending])
    /\ UNCHANGED <<seen, wlVars>>

-----------------------------------------------------------------------------

Next == \E p \in Run :
    \/ SyncRun(p) \/ SyncWl(p)
    \/ Create(p) \/ Cancel(p) \/ Resume(p) \/ Delete(p) \/ Annotate(p) \/ Revert(p)
    \/ ExecutorStart(p) \/ ExecutorFinish(p)
    \/ Reserve(p) \/ Admit(p) \/ Evict(p) \/ DeleteWorkload(p)
    \/ ReconcileJob(p) \/ ReconcilePendingStatus(p)

Spec == Init /\ [][Next]_vars

\* Watches deliver, work queues retry what failed, Kueue's scheduler hands out
\* free quota and an executor runs what it was given.  Nothing is assumed of
\* the users, of evictions or of administrators.
Fairness == \A p \in Run :
    /\ WF_vars(SyncRun(p)) /\ WF_vars(SyncWl(p))
    /\ WF_vars(ReconcileJob(p)) /\ WF_vars(ReconcilePendingStatus(p))
    /\ WF_vars(Reserve(p)) /\ WF_vars(Admit(p))
    /\ WF_vars(ExecutorStart(p)) /\ WF_vars(ExecutorFinish(p))

FairSpec == Spec /\ Fairness

-----------------------------------------------------------------------------
(* Properties.                                                             *)

\* Types of the API objects and of the controller's copies of them.
TypeOK ==
    /\ plr \in [Run -> PipelineRun]
    /\ seen \in [Run -> PipelineRun]
    /\ fresh \in [Run -> BOOLEAN]
    /\ wl \in [Run -> Workload]
    /\ seenWl \in [Run -> Workload]
    /\ freshWl \in [Run -> BOOLEAN]

Released(r) == r.state = "live" /\ r.spec = Running /\ ~IsDone(r)

InExecution(r) == r.state = "live" /\ r.cond = "Started"

\* No user resumes a run by hand or restores the annotations of an earlier
\* edition while the controller may still see the Workload made for them.
ByTheQueue == "resume" \notin UserOps /\ "revert" \notin UserOps

\* Annotations stay what they were at creation.
NoEdits == "annotate" \notin UserOps /\ "revert" \notin UserOps

\* No Workload is taken away while its run executes.
NoRemovals == ByTheQueue /\ NoEdits /\ "delete" \notin WorkloadOps

(* The inductive invariant, for a run r, the controller's copy s of it, its *)
(* Workload w and the copy v of that.                                       *)

\* What each reconcile may rely on although its copies can be old: objects only
\* move forward.
CopiesLag(r, s, w, v) ==
    /\ r.state = "absent" =>
          r = NoRun /\ s = NoRun /\ w = NoWorkload /\ v = NoWorkload
    /\ s.state = "deleted" => r.state = "deleted"
    /\ s.state = "live" =>
          /\ NoEdits => r.requestsOk = s.requestsOk
          /\ IsDone(s) => r.cond = s.cond
          /\ s.spec \notin {Running, Pending} => r.spec \notin {Running, Pending}

\* Workloads are made from editions the controller has seen, and change to
\* later ones.
EditionsInOrder(r, s, w, v) ==
    /\ "revert" \notin UserOps =>
          /\ s.requests <= r.requests
          /\ w.exists => w.requests <= s.requests
          /\ v.exists => v.requests <= s.requests
          /\ w.exists /\ v.exists => v.requests <= w.requests
    /\ NoEdits => r.requests = 0

MatchesWorkload(r, w, v) ==
    /\ w.admitted => w.reserved
    /\ w.reserved => w.exists
    /\ v.admitted => v.exists
    /\ w.finished # "no" => w.exists
    /\ r.state = "live" =>
          /\ NoEdits /\ ~r.requestsOk =>
                /\ ~w.exists /\ ~v.exists
                /\ "resume" \notin UserOps => r.spec # Running
          /\ w.finished # "no" =>
                r.cond = IF w.finished = "success" THEN "Succeeded" ELSE "Failed"

\* A run that may still be started, and that some copy of a Workload of its
\* current edition shows as admitted, really holds quota; a released one does;
\* and a controller that has not seen the release sees a matching Workload.
ReleaseIsBacked(r, s, w, v) ==
    ByTheQueue /\ r.state = "live" /\ ~IsDone(r) =>
        /\ r.spec \in {Pending, Running} /\ v.admitted /\ v.requests = r.requests
              => HoldsQuota(w)
        /\ r.spec = Running => HoldsQuota(w)
        /\ r.spec = Running /\ s.state = "live" /\ s.spec = Pending
              => v.exists /\ v.requests = s.requests

\* A run that executes holds quota, and no copy shows it stopped before it
\* started.
ExecutionIsBacked(r, s, w, v) ==
    NoRemovals =>
        /\ ~w.deleting /\ ~v.deleting
        /\ r.state = "live" /\ r.cond = "Started" =>
              /\ r.started /\ HoldsQuota(w)
              /\ s.state = "live" /\ s.spec \notin {Running, Pending} => s.started

Consistent(r, s, w, v) ==
    /\ CopiesLag(r, s, w, v)
    /\ EditionsInOrder(r, s, w, v)
    /\ MatchesWorkload(r, w, v)
    /\ ReleaseIsBacked(r, s, w, v)
    /\ ExecutionIsBacked(r, s, w, v)

\* The inductive invariant behind the safety properties below: a copy is the
\* current object or an older one, and the two objects of a run fit together
\* with both copies.
QueueInv ==
    /\ TypeOK
    /\ \A p \in Run :
          /\ fresh[p] => seen[p] = plr[p]
          /\ freshWl[p] => seenWl[p] = wl[p]
          /\ Consistent(plr[p], seen[p], wl[p], seenWl[p])

\* Stop, RunWithPodSetsInfo and the reconciler that calls them on cached
\* copies: a run that Tekton may execute and that has not ended holds quota,
\* also while its annotations are edited, unless a user resumed it by hand or
\* restored annotations it had before.
ReleasedHoldsQuota ==
    ByTheQueue => \A p \in Run : Released(plr[p]) => HoldsQuota(wl[p])

\* IsActive and Stop, on copies: a run whose execution began before it was
\* stopped keeps its quota until it has ended, also after an eviction, so the
\* token is not handed on while its tasks finish.  (A deleted Workload, or one
\* that no longer matches, gives the quota back at once.)
ActiveHoldsQuota ==
    NoRemovals => \A p \in Run : InExecution(plr[p]) => HoldsQuota(wl[p])

\* PodSets: a run is released with quota for what it asks for now, never with a
\* Workload made from annotations that were edited since, and never while its
\* annotations cannot be parsed.
ReleasedWithItsRequests == [][ByTheQueue => \A p \in Run :
    plr[p].state = "live" /\ plr[p].spec = Pending /\ plr'[p].spec = Running =>
        /\ plr[p].requestsOk
        /\ wl[p].requests = plr[p].requests /\ HoldsQuota(wl[p])]_vars

\* Kueue's scheduler does not hand out more than the quota.
QuotaLimit == Cardinality(QuotaHolders) <= Quota

\* The concurrency token of PodSets (one tekton.dev/pipelineruns per run)
\* bounds the number of runs released at the same time by the quota.
ConcurrencyLimit ==
    ByTheQueue => Cardinality({p \in Run : Released(plr[p])}) <= Quota

\* IsActive, Stop and the concurrency token: no more runs execute at the same
\* time than the quota allows, counting those that were evicted, stopped or
\* cancelled while they executed and whose tasks still finish.
ExecutionLimit ==
    NoRemovals => Cardinality({p \in Run : InExecution(plr[p])}) <= Quota

\* PodSets: a run whose resource annotations cannot be parsed from the start is
\* never released and never takes quota, whatever its Workload's life would be.
UnparsableNeverQueued ==
    NoEdits => \A p \in Run : plr[p].state = "live" /\ ~plr[p].requestsOk =>
        /\ ~wl[p].exists
        /\ "resume" \notin UserOps => plr[p].spec # Running

\* Finished: a finished Workload carries the verdict of its run.
VerdictRecorded ==
    \A p \in Run : plr[p].state = "live" /\ wl[p].finished # "no" =>
        plr[p].cond = IF wl[p].finished = "success" THEN "Succeeded" ELSE "Failed"

\* Stop and RunWithPodSetsInfo: a run that was stopped or cancelled is never
\* resumed, suspended again, or turned from cancelled into gracefully stopped,
\* and a released run is never suspended again.
SpecStatusNeverReverts == [][\A p \in Run :
    /\ plr[p].spec = Cancelled => plr'[p].spec = Cancelled
    /\ plr[p].state = "live" /\ plr[p].spec = Stopped
          => plr'[p].spec \in {Stopped, Cancelled}
    /\ plr[p].state = "live" /\ plr[p].spec = Running
          => plr'[p].spec # Pending]_vars

\* The pending-status reconciler writes a whole status: it never erases a
\* start time, replaces the executor's condition, or revives an ended run.
StatusNeverLost == [][\A p \in Run :
    /\ plr[p].started => plr'[p].started
    /\ plr[p].cond \notin {"none", CondPending}
          => plr'[p].cond \notin {"none", CondPending}
    /\ IsDone(plr[p]) => plr'[p].cond = plr[p].cond]_vars

Phase(r) ==
    CASE r.state = "absent" -> "absent"
      [] r.state = "live" /\ r.spec = Pending /\ ~IsDone(r) -> "queued"
      [] r.state = "live" /\ r.spec = Running /\ ~IsDone(r) -> "released"
      [] OTHER -> "ended"

Gate == INSTANCE QuotaGate WITH phase <- [p \in Run |-> Phase(plr[p])]

\* The webhook, the controller and Kueue together implement the gate, as
\* long as ByTheQueue holds.
ImplementsQuotaGate == Gate!Spec

\* From now on the annotations of p are those of edition n, and parsable.
Settled(p, n) == [](plr[p].requests = n /\ plr[p].requestsOk)

\* Every run ends once its annotations stay parsable, although runs compete for
\* quota, are evicted, edited and resumed by hand, as long as administrators stop
\* deleting its Workload: no run keeps its quota forever, and the UnretryableError
\* of PodSets does not lose a run whose annotations are repaired ("If a new event
\* on the PipelineRun occurs, a new reconciliation will start").
EveryRunEnds == \A p \in Run, n \in 0 .. MaxEdits :
    <>[][~DeleteWorkload(p)]_vars =>
        (plr[p].state = "live" /\ Settled(p, n)
            ~> IsDone(plr[p]) \/ plr[p].state = "deleted")

\* Finished: the quota of a run that ended is given back.  Its annotations must
\* be parsable, because PodSets otherwise fails before Finished is asked.
QuotaIsReturned == \A p \in Run, n \in 0 .. MaxEdits :
    IsDone(plr[p]) /\ HoldsQuota(wl[p]) /\ Settled(p, n) ~> ~HoldsQuota(wl[p])

\* A suspended run that MultiKueue manages gets a condition, as long as it
\* stays suspended and is not edited again and again.  Unlike its queueing, this
\* does not depend on annotations that can be parsed.
PendingIsReported == \A p \in Run, n \in 0 .. MaxEdits :
    plr[p].state = "live" /\ needsPendingStatusCondition(plr[p]) /\ plr[p].cond = "none"
            /\ [](plr[p].requests = n)
        ~> plr[p].cond # "none" \/ plr[p].spec # Pending \/ plr[p].state = "deleted"

\* Stop: a run that is released without an admitted Workload, because a user
\* resumed it by hand or restored annotations it had before, does not keep
\* running: it is stopped, ends, or gets admitted.
BypassIsStopped == \A p \in Run, n \in 0 .. MaxEdits :
    Released(plr[p]) /\ ~wl[p].admitted /\ Settled(p, n)
        ~> ~Released(plr[p]) \/ wl[p].admitted
=============================================================================
