------------------------ MODULE QueueingSteps_proofs ------------------------
(***************************************************************************)
(* Proofs about PipelineRunQueueing, first part: what a write of one object *)
(* does to the invariant, and the steps of the caches, the users, the      *)
(* executor and Kueue's scheduler.                                         *)
(***************************************************************************)
EXTENDS PipelineRunQueueing, TLAPS

USE DEF Pending, Running, Stopped, Cancelled, Unmanaged, CondPending, plrVars,
        wlVars, ByTheQueue, NoEdits, NoRemovals

-----------------------------------------------------------------------------
(* Updates of the records stay in their types.                             *)

\* The writes of spec.status.
LEMMA SpecUpdate ==
    ASSUME NEW r \in PipelineRun, NEW s \in SpecStatus
    PROVE  [r EXCEPT !.spec = s] \in PipelineRun
BY DEF PipelineRun

\* The writes of status.
LEMMA StatusUpdate ==
    ASSUME NEW r \in PipelineRun, NEW b \in BOOLEAN, NEW c \in Cond
    PROVE  /\ [r EXCEPT !.started = b, !.cond = c] \in PipelineRun
           /\ [r EXCEPT !.cond = c] \in PipelineRun
BY DEF PipelineRun

\* The deletion of a run.
LEMMA DeleteUpdate ==
    ASSUME NEW r \in PipelineRun
    PROVE  [r EXCEPT !.state = "deleted"] \in PipelineRun
BY DEF PipelineRun

\* The edits of the annotations.
LEMMA RequestsUpdate ==
    ASSUME NEW r \in PipelineRun, NEW n \in 0 .. MaxEdits, NEW ok \in BOOLEAN
    PROVE  [r EXCEPT !.requests = n, !.requestsOk = ok] \in PipelineRun
BY Zenon DEF PipelineRun

\* The object the webhook lets through.
LEMMA DefaultType ==
    ASSUME NEW s \in SpecStatus, NEW m \in ManagedBy, NEW ok \in BOOLEAN
    PROVE  Default([NoRun EXCEPT !.state = "live", !.spec = s,
                                 !.requestsOk = ok], m) \in PipelineRun
<1>1. 0 \in 0 .. MaxEdits /\ "none" \in Cond /\ Running \in SpecStatus
      /\ Pending \in SpecStatus
  BY EditsAssumption DEF Cond, SpecStatus
<1>2. NoRun \in PipelineRun
  BY <1>1, Zenon DEF NoRun, PipelineRun
<1>3. \A r \in PipelineRun :
         [r EXCEPT !.state = "live", !.spec = s, !.requestsOk = ok] \in PipelineRun
  BY Zenon DEF PipelineRun
<1>4. \A r \in PipelineRun :
         [r EXCEPT !.spec = Pending, !.managedBy = m] \in PipelineRun
  BY <1>1, Zenon DEF PipelineRun
<1> QED BY <1>2, <1>3, <1>4 DEF Default

\* The writes of a Workload.
LEMMA WorkloadUpdate ==
    ASSUME NEW w \in Workload
    PROVE  /\ [w EXCEPT !.reserved = TRUE, !.evicted = FALSE] \in Workload
           /\ [w EXCEPT !.reserved = FALSE, !.admitted = FALSE] \in Workload
           /\ [w EXCEPT !.admitted = TRUE] \in Workload
           /\ [w EXCEPT !.deleting = TRUE] \in Workload
           /\ [w EXCEPT !.finished = "success"] \in Workload
           /\ [w EXCEPT !.finished = "failure"] \in Workload
           /\ \A n \in 0 .. MaxEdits : [w EXCEPT !.requests = n] \in Workload
BY Zenon DEF Workload

\* An eviction, within its bound.
LEMMA EvictUpdate ==
    ASSUME NEW w \in Workload, w.evictions < MaxEvictions
    PROVE  [w EXCEPT !.evicted = TRUE, !.evictions = @ + 1] \in Workload
<1>1. w.evictions + 1 \in 0 .. MaxEvictions
  BY EvictionsAssumption DEF Workload
<1>2. ASSUME NEW n \in 0 .. MaxEvictions
      PROVE  [w EXCEPT !.evicted = TRUE, !.evictions = n] \in Workload
  BY Zenon DEF Workload
<1> QED BY <1>1, <1>2

\* Absent and new Workloads.
LEMMA NewWorkloadType ==
    /\ NoWorkload \in Workload
    /\ \A n \in 0 .. MaxEdits : NewWorkload(n) \in Workload
<1>1. 0 \in 0 .. MaxEvictions /\ 0 \in 0 .. MaxEdits
  BY EvictionsAssumption, EditsAssumption
<1>2. NoWorkload \in Workload
  BY <1>1, Zenon DEF NoWorkload, Workload
<1>3. \A w \in Workload : \A n \in 0 .. MaxEdits :
         [w EXCEPT !.exists = TRUE, !.requests = n] \in Workload
  BY Zenon DEF Workload
<1> QED BY <1>2, <1>3 DEF NewWorkload

-----------------------------------------------------------------------------
(* A step changes the objects and copies of one run, so the invariant is   *)
(* preserved if that run's remain consistent.                              *)

\* What the invariant says of one run.
LEMMA Facts ==
    ASSUME QueueInv, NEW p \in Run
    PROVE  /\ plr[p] \in PipelineRun /\ seen[p] \in PipelineRun
           /\ wl[p] \in Workload /\ seenWl[p] \in Workload
           /\ fresh[p] => seen[p] = plr[p]
           /\ freshWl[p] => seenWl[p] = wl[p]
           /\ Consistent(plr[p], seen[p], wl[p], seenWl[p])
BY DEF QueueInv, TypeOK

\* The same, conjunct by conjunct.
LEMMA Parts ==
    ASSUME QueueInv, NEW p \in Run
    PROVE  /\ CopiesLag(plr[p], seen[p], wl[p], seenWl[p])
           /\ EditionsInOrder(plr[p], seen[p], wl[p], seenWl[p])
           /\ MatchesWorkload(plr[p], wl[p], seenWl[p])
           /\ ReleaseIsBacked(plr[p], seen[p], wl[p], seenWl[p])
           /\ ExecutionIsBacked(plr[p], seen[p], wl[p], seenWl[p])
BY Facts DEF Consistent

\* Workloads are made for runs.
LEMMA WorkloadHasRun ==
    ASSUME QueueInv, NEW p \in Run, wl[p].exists
    PROVE  plr[p].state # "absent"
<1>1. plr[p].state = "absent" => wl[p] = NoWorkload
  BY Parts DEF CopiesLag
<1> QED BY <1>1 DEF NoWorkload

\* Editions are numbers.
LEMMA Editions ==
    ASSUME QueueInv, NEW p \in Run
    PROVE  /\ plr[p].requests \in Nat /\ seen[p].requests \in Nat
           /\ wl[p].requests \in Nat /\ seenWl[p].requests \in Nat
<1>1. /\ plr[p].requests \in 0 .. MaxEdits /\ seen[p].requests \in 0 .. MaxEdits
      /\ wl[p].requests \in 0 .. MaxEdits /\ seenWl[p].requests \in 0 .. MaxEdits
  BY Facts, Zenon DEF PipelineRun, Workload
<1> QED BY <1>1, EditsAssumption

\* A write of a PipelineRun.
LEMMA RunWrite ==
    ASSUME QueueInv, NEW p \in Run, NEW r \in PipelineRun, WriteRun(p, r),
           UNCHANGED <<seen, wlVars>>,
           Consistent(r, seen[p], wl[p], seenWl[p])
    PROVE  QueueInv'
BY DEF QueueInv, TypeOK, WriteRun

\* A write of a Workload.
LEMMA WorkloadWrite ==
    ASSUME QueueInv, NEW p \in Run, NEW w \in Workload, WriteWl(p, w),
           UNCHANGED <<seenWl, plrVars>>,
           Consistent(plr[p], seen[p], w, seenWl[p])
    PROVE  QueueInv'
BY DEF QueueInv, TypeOK, WriteWl

\* t is r after a call of Stop that did not fail: it has ended, or will not be
\* started.
StoppedFrom(r, t) ==
    /\ t.state = r.state /\ t.requests = r.requests
    /\ t.requestsOk = r.requestsOk
    /\ t.started = r.started /\ t.cond = r.cond
    /\ t.spec \in {r.spec, Stopped}
    /\ t.spec \notin {Running, Pending} \/ IsDone(t)

\* Stop does just that, on a copy that may be old.
LEMMA StopEffect ==
    ASSUME QueueInv, NEW p \in Run, seen[p].state = "live", Stop(p)
    PROVE  \E t \in PipelineRun :
              /\ StoppedFrom(plr[p], t)
              /\ \/ t = [plr[p] EXCEPT !.spec = Stopped] /\ WriteRun(p, t)
                    /\ fresh[p] /\ StopNeeded(seen[p])
                 \/ t = plr[p] /\ UNCHANGED <<plr, fresh>> /\ ~StopNeeded(seen[p])
<1>1. CASE StopNeeded(seen[p])
  <2> DEFINE t == [plr[p] EXCEPT !.spec = Stopped]
  <2>1. t \in PipelineRun
    BY Facts, SpecUpdate DEF SpecStatus
  <2>2. StoppedFrom(plr[p], t)
    BY Facts DEF PipelineRun, StoppedFrom
  <2>3. WriteRun(p, t) /\ fresh[p]
    BY <1>1 DEF Stop
  <2> QED BY <1>1, <2>1, <2>2, <2>3
<1>2. CASE ~StopNeeded(seen[p])
  <2>1. UNCHANGED <<plr, fresh>>
    BY <1>2 DEF Stop
  <2>2. plr[p].spec \notin {Running, Pending} \/ IsDone(plr[p])
    BY <1>2, Facts DEF Consistent, CopiesLag, StopNeeded, IsDone
  <2> QED BY <1>2, <2>1, <2>2, Facts DEF StoppedFrom
<1> QED BY <1>1, <1>2

\* A reconcile that stops the run and then changes the Workload to w, or fails
\* to.
LEMMA StopAndWrite ==
    ASSUME QueueInv, NEW p \in Run, seen[p].state = "live", Stop(p),
           UNCHANGED <<seen, seenWl>>,
           NEW w \in Workload, WriteWl(p, w) \/ UNCHANGED <<wl, freshWl>>,
           \A t \in PipelineRun : StoppedFrom(plr[p], t) =>
              /\ Consistent(t, seen[p], wl[p], seenWl[p])
              /\ WriteWl(p, w) => Consistent(t, seen[p], w, seenWl[p])
    PROVE  QueueInv'
<1>1. PICK t \in PipelineRun :
         /\ StoppedFrom(plr[p], t)
         /\ WriteRun(p, t) \/ (t = plr[p] /\ UNCHANGED <<plr, fresh>>)
  BY StopEffect
<1>2. /\ Consistent(t, seen[p], wl[p], seenWl[p])
      /\ WriteWl(p, w) => Consistent(t, seen[p], w, seenWl[p])
  BY <1>1
<1>3. CASE WriteRun(p, t) /\ WriteWl(p, w)
  BY <1>2, <1>3 DEF QueueInv, TypeOK, WriteRun, WriteWl
<1>4. CASE WriteRun(p, t) /\ UNCHANGED <<wl, freshWl>>
  BY <1>2, <1>4, RunWrite
<1>5. CASE t = plr[p] /\ UNCHANGED <<plr, fresh>> /\ WriteWl(p, w)
  BY <1>2, <1>5, WorkloadWrite
<1>6. CASE UNCHANGED <<plr, fresh>> /\ UNCHANGED <<wl, freshWl>>
  BY <1>6 DEF QueueInv, TypeOK
<1> QED BY <1>1, <1>3, <1>4, <1>5, <1>6

-----------------------------------------------------------------------------
(* QueueInv is inductive.                                                  *)

USE DEF Consistent, CopiesLag, EditionsInOrder, MatchesWorkload, ReleaseIsBacked,
        ExecutionIsBacked, IsDone, FinalCond, HoldsQuota

\* The empty cluster satisfies the invariant.
LEMMA InitInv == Init => QueueInv
<1>1. NoRun \in PipelineRun
  <2>1. 0 \in 0 .. MaxEdits /\ "none" \in Cond /\ Running \in SpecStatus
    BY EditsAssumption DEF Cond, SpecStatus
  <2> QED BY <2>1, Zenon DEF NoRun, PipelineRun
<1>2. Consistent(NoRun, NoRun, NoWorkload, NoWorkload)
  BY DEF NoRun, NoWorkload
<1> HIDE DEF Consistent
<1> QED BY <1>1, <1>2, NewWorkloadType DEF Init, QueueInv, TypeOK

\* A PipelineRun event reaches the controller's cache.
LEMMA SyncRunInv ==
    ASSUME QueueInv, NEW p \in Run, SyncRun(p)
    PROVE  QueueInv'
<1>1. Consistent(plr[p], plr[p], wl[p], seenWl[p])
  <2> HIDE DEF CopiesLag, EditionsInOrder, MatchesWorkload, ReleaseIsBacked,
             ExecutionIsBacked
  <2>1. CopiesLag(plr[p], plr[p], wl[p], seenWl[p])
    BY Parts DEF CopiesLag
  <2>2. EditionsInOrder(plr[p], plr[p], wl[p], seenWl[p])
    BY Parts, Editions DEF EditionsInOrder
  <2>3. MatchesWorkload(plr[p], wl[p], seenWl[p])
    BY Parts DEF MatchesWorkload
  <2>4. ReleaseIsBacked(plr[p], plr[p], wl[p], seenWl[p])
    BY Parts DEF ReleaseIsBacked
  <2>5. ExecutionIsBacked(plr[p], plr[p], wl[p], seenWl[p])
    BY Parts DEF ExecutionIsBacked
  <2> QED BY <2>1, <2>2, <2>3, <2>4, <2>5
<1> HIDE DEF Consistent
<1> QED BY <1>1 DEF QueueInv, TypeOK, SyncRun

\* A Workload event reaches the controller's cache.
LEMMA SyncWlInv ==
    ASSUME QueueInv, NEW p \in Run, SyncWl(p)
    PROVE  QueueInv'
<1>1. Consistent(plr[p], seen[p], wl[p], wl[p])
  <2> HIDE DEF CopiesLag, EditionsInOrder, MatchesWorkload, ReleaseIsBacked,
             ExecutionIsBacked
  <2>1. CopiesLag(plr[p], seen[p], wl[p], wl[p])
    BY Parts DEF CopiesLag
  <2>2. EditionsInOrder(plr[p], seen[p], wl[p], wl[p])
    BY Parts, Editions DEF EditionsInOrder
  <2>3. MatchesWorkload(plr[p], wl[p], wl[p])
    BY Parts DEF MatchesWorkload
  <2>4. ReleaseIsBacked(plr[p], seen[p], wl[p], wl[p])
    <3>1. ASSUME ByTheQueue, plr[p].state = "live", ~IsDone(plr[p])
          PROVE  wl[p].admitted => HoldsQuota(wl[p])
      BY <3>1, Parts DEF MatchesWorkload
    <3>2. ASSUME ByTheQueue, wl[p].exists, seenWl[p].exists,
                 seenWl[p].requests = seen[p].requests
          PROVE  wl[p].requests = seen[p].requests
      BY <3>2, Parts, Editions DEF EditionsInOrder
    <3>3. ASSUME ByTheQueue, plr[p].state = "live", ~IsDone(plr[p]),
                 plr[p].spec = Running
          PROVE  /\ HoldsQuota(wl[p])
                 /\ seen[p].state = "live" /\ seen[p].spec = Pending =>
                       seenWl[p].exists /\ seenWl[p].requests = seen[p].requests
      BY <3>3, Parts DEF ReleaseIsBacked
    <3> QED BY <3>1, <3>2, <3>3 DEF ReleaseIsBacked
  <2>5. ExecutionIsBacked(plr[p], seen[p], wl[p], wl[p])
    BY Parts DEF ExecutionIsBacked
  <2> QED BY <2>1, <2>2, <2>3, <2>4, <2>5
<1> HIDE DEF Consistent
<1> QED BY <1>1 DEF QueueInv, TypeOK, SyncWl

\* The webhook admits a new run.
LEMMA CreateInv ==
    ASSUME QueueInv, NEW p \in Run, Create(p)
    PROVE  QueueInv'
<1>1. PICK s \in SpecStatus, m \in ManagedBy, ok \in BOOLEAN :
         WriteRun(p, Default([NoRun EXCEPT !.state = "live", !.spec = s,
                                           !.requestsOk = ok], m))
  BY DEF Create
<1> DEFINE r == Default([NoRun EXCEPT !.state = "live", !.spec = s,
                                      !.requestsOk = ok], m)
<1>2. r \in PipelineRun
  BY DefaultType
<1>3. /\ r.state = "live" /\ r.spec = Pending /\ r.requests = 0
      /\ r.cond = "none"
  BY DEF Default, NoRun
<1>4. /\ WriteRun(p, r) /\ UNCHANGED <<seen, wlVars>>
      /\ plr[p].state = "absent"
  BY <1>1 DEF Create
<1> HIDE DEF r
<1>5. seen[p] = NoRun /\ wl[p] = NoWorkload /\ seenWl[p] = NoWorkload
  BY <1>4, Parts DEF CopiesLag
<1>6. Consistent(r, seen[p], wl[p], seenWl[p])
  BY <1>3, <1>5 DEF NoRun, NoWorkload
<1> HIDE DEF Consistent
<1> QED BY <1>2, <1>4, <1>6, RunWrite

\* A user cancels a run.
LEMMA CancelInv ==
    ASSUME QueueInv, NEW p \in Run, Cancel(p)
    PROVE  QueueInv'
<1> DEFINE r == [plr[p] EXCEPT !.spec = Cancelled]
<1>1. r \in PipelineRun
  BY Facts, SpecUpdate DEF SpecStatus
<1>2. /\ r.state = plr[p].state /\ r.spec = Cancelled /\ r.cond = plr[p].cond
      /\ r.started = plr[p].started /\ r.requests = plr[p].requests
      /\ r.requestsOk = plr[p].requestsOk
  BY Facts DEF PipelineRun
<1>3. /\ plr[p].state = "live"
      /\ WriteRun(p, r) /\ UNCHANGED <<seen, wlVars>>
  BY DEF Cancel
<1> HIDE DEF r
<1>4. Consistent(r, seen[p], wl[p], seenWl[p])
  <2> HIDE DEF CopiesLag, EditionsInOrder, MatchesWorkload, ReleaseIsBacked,
             ExecutionIsBacked
  <2>1. CopiesLag(r, seen[p], wl[p], seenWl[p])
    BY <1>2, <1>3, Parts DEF CopiesLag
  <2>2. EditionsInOrder(r, seen[p], wl[p], seenWl[p])
    BY <1>2, <1>3, Parts DEF EditionsInOrder
  <2>3. MatchesWorkload(r, wl[p], seenWl[p])
    BY <1>2, <1>3, Parts DEF MatchesWorkload
  <2>4. ReleaseIsBacked(r, seen[p], wl[p], seenWl[p])
    BY <1>2, <1>3, Parts DEF ReleaseIsBacked
  <2>5. ExecutionIsBacked(r, seen[p], wl[p], seenWl[p])
    BY <1>2, <1>3, Parts DEF ExecutionIsBacked
  <2> QED BY <2>1, <2>2, <2>3, <2>4, <2>5
<1> HIDE DEF Consistent
<1> QED BY <1>1, <1>3, <1>4, RunWrite

\* A user resumes a run by hand.
LEMMA ResumeInv ==
    ASSUME QueueInv, NEW p \in Run, Resume(p)
    PROVE  QueueInv'
<1> DEFINE r == [plr[p] EXCEPT !.spec = Running]
<1>1. r \in PipelineRun
  BY Facts, SpecUpdate DEF SpecStatus
<1>2. /\ r.state = plr[p].state /\ r.spec = Running /\ r.cond = plr[p].cond
      /\ r.started = plr[p].started /\ r.requests = plr[p].requests
      /\ r.requestsOk = plr[p].requestsOk
  BY Facts DEF PipelineRun
<1>3. /\ plr[p].state = "live" /\ plr[p].spec = Pending /\ "resume" \in UserOps
      /\ WriteRun(p, r) /\ UNCHANGED <<seen, wlVars>>
  BY DEF Resume
<1> HIDE DEF r
<1>4. Consistent(r, seen[p], wl[p], seenWl[p])
  <2> HIDE DEF CopiesLag, EditionsInOrder, MatchesWorkload, ReleaseIsBacked,
             ExecutionIsBacked
  <2>1. CopiesLag(r, seen[p], wl[p], seenWl[p])
    BY <1>2, <1>3, Parts DEF CopiesLag
  <2>2. EditionsInOrder(r, seen[p], wl[p], seenWl[p])
    BY <1>2, <1>3, Parts DEF EditionsInOrder
  <2>3. MatchesWorkload(r, wl[p], seenWl[p])
    BY <1>2, <1>3, Parts DEF MatchesWorkload
  <2>4. ReleaseIsBacked(r, seen[p], wl[p], seenWl[p])
    BY <1>2, <1>3, Parts DEF ReleaseIsBacked
  <2>5. ExecutionIsBacked(r, seen[p], wl[p], seenWl[p])
    BY <1>2, <1>3, Parts DEF ExecutionIsBacked
  <2> QED BY <2>1, <2>2, <2>3, <2>4, <2>5
<1> HIDE DEF Consistent
<1> QED BY <1>1, <1>3, <1>4, RunWrite

\* A user deletes a run.
LEMMA DeleteInv ==
    ASSUME QueueInv, NEW p \in Run, Delete(p)
    PROVE  QueueInv'
<1> DEFINE r == [plr[p] EXCEPT !.state = "deleted"]
<1>1. r \in PipelineRun
  BY Facts, DeleteUpdate
<1>2. /\ r.state = "deleted" /\ r.spec = plr[p].spec /\ r.cond = plr[p].cond
      /\ r.started = plr[p].started /\ r.requests = plr[p].requests
      /\ r.requestsOk = plr[p].requestsOk
  BY Facts DEF PipelineRun
<1>3. /\ plr[p].state = "live"
      /\ WriteRun(p, r) /\ UNCHANGED <<seen, wlVars>>
  BY DEF Delete
<1> HIDE DEF r
<1>4. Consistent(r, seen[p], wl[p], seenWl[p])
  <2> HIDE DEF CopiesLag, EditionsInOrder, MatchesWorkload, ReleaseIsBacked,
             ExecutionIsBacked
  <2>1. CopiesLag(r, seen[p], wl[p], seenWl[p])
    BY <1>2, <1>3, Parts DEF CopiesLag
  <2>2. EditionsInOrder(r, seen[p], wl[p], seenWl[p])
    BY <1>2, <1>3, Parts DEF EditionsInOrder
  <2>3. MatchesWorkload(r, wl[p], seenWl[p])
    BY <1>2, <1>3, Parts DEF MatchesWorkload
  <2>4. ReleaseIsBacked(r, seen[p], wl[p], seenWl[p])
    BY <1>2, <1>3, Parts DEF ReleaseIsBacked
  <2>5. ExecutionIsBacked(r, seen[p], wl[p], seenWl[p])
    BY <1>2, <1>3, Parts DEF ExecutionIsBacked
  <2> QED BY <2>1, <2>2, <2>3, <2>4, <2>5
<1> HIDE DEF Consistent
<1> QED BY <1>1, <1>3, <1>4, RunWrite

\* A user edits the annotations of a run: no Workload matches it any more.
LEMMA AnnotateInv ==
    ASSUME QueueInv, NEW p \in Run, Annotate(p)
    PROVE  QueueInv'
<1>1. PICK ok \in BOOLEAN :
         WriteRun(p, [plr[p] EXCEPT !.requests = @ + 1, !.requestsOk = ok])
  BY DEF Annotate
<1> DEFINE n == plr[p].requests + 1
           r == [plr[p] EXCEPT !.requests = n, !.requestsOk = ok]
<1>2. n \in 0 .. MaxEdits /\ plr[p].requests \in Nat
  BY Facts, EditsAssumption DEF PipelineRun, Annotate
<1>3. r \in PipelineRun
  BY <1>2, Facts, RequestsUpdate
<1>4. /\ r.state = plr[p].state /\ r.spec = plr[p].spec /\ r.cond = plr[p].cond
      /\ r.started = plr[p].started /\ r.requests = plr[p].requests + 1
  BY Facts DEF PipelineRun
<1> HIDE DEF r, n
<1>5. "annotate" \in UserOps /\ plr[p].state = "live"
  BY DEF Annotate
<1>6. Consistent(r, seen[p], wl[p], seenWl[p])
  <2> HIDE DEF CopiesLag, EditionsInOrder, MatchesWorkload, ReleaseIsBacked,
             ExecutionIsBacked
  <2>1. CopiesLag(r, seen[p], wl[p], seenWl[p])
    BY <1>4, <1>5, Parts DEF CopiesLag
  <2>2. EditionsInOrder(r, seen[p], wl[p], seenWl[p])
    <3>1. seen[p].requests <= plr[p].requests => seen[p].requests <= r.requests
      BY <1>4, Editions
    <3> QED BY <1>5, <3>1, Parts DEF EditionsInOrder
  <2>3. MatchesWorkload(r, wl[p], seenWl[p])
    BY <1>4, <1>5, Parts DEF MatchesWorkload
  <2>4. ReleaseIsBacked(r, seen[p], wl[p], seenWl[p])
    <3>1. seenWl[p].admitted => seenWl[p].exists
      BY Parts DEF MatchesWorkload
    <3>2. "revert" \notin UserOps /\ seenWl[p].exists => seenWl[p].requests # r.requests
      <4>1. "revert" \notin UserOps /\ seenWl[p].exists =>
               /\ seenWl[p].requests <= seen[p].requests
               /\ seen[p].requests <= plr[p].requests
        BY Parts DEF EditionsInOrder
      <4>2. r.requests = plr[p].requests + 1
        BY <1>4
      <4> QED BY <4>1, <4>2, Editions
    <3> QED BY <1>4, <1>5, <3>1, <3>2, Parts DEF ReleaseIsBacked
  <2>5. ExecutionIsBacked(r, seen[p], wl[p], seenWl[p])
    BY <1>4, <1>5, Parts DEF ExecutionIsBacked
  <2> QED BY <2>1, <2>2, <2>3, <2>4, <2>5
<1> HIDE DEF Consistent
<1> QED BY <1>1, <1>3, <1>6, RunWrite DEF Annotate, r, n

\* A user restores earlier annotations.
LEMMA RevertInv ==
    ASSUME QueueInv, NEW p \in Run, Revert(p)
    PROVE  QueueInv'
<1>1. PICK n \in 0 .. MaxEdits :
         WriteRun(p, [plr[p] EXCEPT !.requests = n, !.requestsOk = TRUE])
  BY DEF Revert
<1> DEFINE r == [plr[p] EXCEPT !.requests = n, !.requestsOk = TRUE]
<1>2. r \in PipelineRun
  BY Facts, RequestsUpdate
<1>3. /\ r.state = plr[p].state /\ r.spec = plr[p].spec /\ r.cond = plr[p].cond
      /\ r.started = plr[p].started
  BY Facts DEF PipelineRun
<1> HIDE DEF r
<1>4. "revert" \in UserOps /\ plr[p].state = "live"
  BY DEF Revert
<1>5. Consistent(r, seen[p], wl[p], seenWl[p])
  <2> HIDE DEF CopiesLag, EditionsInOrder, MatchesWorkload, ReleaseIsBacked,
             ExecutionIsBacked
  <2>1. CopiesLag(r, seen[p], wl[p], seenWl[p])
    BY <1>3, <1>4, Parts DEF CopiesLag
  <2>2. EditionsInOrder(r, seen[p], wl[p], seenWl[p])
    BY <1>3, <1>4, Parts DEF EditionsInOrder
  <2>3. MatchesWorkload(r, wl[p], seenWl[p])
    BY <1>3, <1>4, Parts DEF MatchesWorkload
  <2>4. ReleaseIsBacked(r, seen[p], wl[p], seenWl[p])
    BY <1>3, <1>4, Parts DEF ReleaseIsBacked
  <2>5. ExecutionIsBacked(r, seen[p], wl[p], seenWl[p])
    BY <1>3, <1>4, Parts DEF ExecutionIsBacked
  <2> QED BY <2>1, <2>2, <2>3, <2>4, <2>5
<1> HIDE DEF Consistent
<1> QED BY <1>1, <1>2, <1>5, RunWrite DEF Revert, r

\* The executor starts a run.
LEMMA ExecutorStartInv ==
    ASSUME QueueInv, NEW p \in Run, ExecutorStart(p)
    PROVE  QueueInv'
<1> DEFINE c == IF plr[p].spec \in {Pending, Running} THEN "Started" ELSE "Stopping"
           r == [plr[p] EXCEPT !.started = TRUE, !.cond = c]
<1>1. c \in Cond
  BY DEF Cond
<1>2. r \in PipelineRun
  BY <1>1, Facts, StatusUpdate
<1>3. /\ r.state = plr[p].state /\ r.spec = plr[p].spec /\ r.cond = c
      /\ r.started /\ r.requests = plr[p].requests
      /\ r.requestsOk = plr[p].requestsOk
  BY Facts DEF PipelineRun
<1>4. WriteRun(p, r) /\ UNCHANGED <<seen, wlVars>>
  BY DEF ExecutorStart
<1> HIDE DEF r
<1>5. /\ plr[p].state = "live" /\ ~plr[p].started /\ ~IsDone(plr[p])
      /\ plr[p].spec # Pending \/ wl[p].reserved
  BY DEF ExecutorStart, Executes
<1>6. Consistent(r, seen[p], wl[p], seenWl[p])
  <2> HIDE DEF CopiesLag, EditionsInOrder, MatchesWorkload, ReleaseIsBacked,
             ExecutionIsBacked
  <2>1. CopiesLag(r, seen[p], wl[p], seenWl[p])
    BY <1>3, <1>5, Parts DEF CopiesLag
  <2>2. EditionsInOrder(r, seen[p], wl[p], seenWl[p])
    BY <1>3, <1>5, Parts DEF EditionsInOrder
  <2>3. MatchesWorkload(r, wl[p], seenWl[p])
    BY <1>3, <1>5, Parts DEF MatchesWorkload
  <2>4. ReleaseIsBacked(r, seen[p], wl[p], seenWl[p])
    BY <1>3, <1>5, Parts DEF ReleaseIsBacked
  <2>5. ExecutionIsBacked(r, seen[p], wl[p], seenWl[p])
    <3>1. CASE plr[p].spec \notin {Pending, Running}
      BY <1>3, <1>5, <3>1, Parts DEF ExecutionIsBacked
    <3>2. CASE plr[p].spec = Pending
      <4>1. HoldsQuota(wl[p])
        BY <1>5, <3>2, Parts DEF MatchesWorkload
      <4>2. seen[p].state = "live" => seen[p].spec \in {Running, Pending}
        BY <3>2, Parts DEF CopiesLag
      <4> QED BY <1>3, <4>1, <4>2, Parts DEF ExecutionIsBacked
    <3>3. CASE plr[p].spec = Running
      <4>1. NoRemovals => HoldsQuota(wl[p])
        BY <1>5, <3>3, Parts DEF ReleaseIsBacked
      <4>2. seen[p].state = "live" => seen[p].spec \in {Running, Pending}
        BY <3>3, Parts DEF CopiesLag
      <4> QED BY <1>3, <4>1, <4>2, Parts DEF ExecutionIsBacked
    <3> QED BY <3>1, <3>2, <3>3
  <2> QED BY <2>1, <2>2, <2>3, <2>4, <2>5
<1> HIDE DEF Consistent
<1> QED BY <1>2, <1>4, <1>6, RunWrite

\* The executor ends a run.
LEMMA ExecutorFinishInv ==
    ASSUME QueueInv, NEW p \in Run, ExecutorFinish(p)
    PROVE  QueueInv'
<1>1. PICK c \in FinalCond : WriteRun(p, [plr[p] EXCEPT !.cond = c])
  BY DEF ExecutorFinish
<1> DEFINE r == [plr[p] EXCEPT !.cond = c]
<1>2. r \in PipelineRun
  BY Facts, StatusUpdate DEF Cond
<1>3. /\ r.state = plr[p].state /\ r.spec = plr[p].spec /\ IsDone(r)
      /\ r.started = plr[p].started /\ r.requests = plr[p].requests
      /\ r.requestsOk = plr[p].requestsOk
  BY Facts DEF PipelineRun
<1>4. /\ plr[p].state = "live" /\ ~IsDone(plr[p])
      /\ WriteRun(p, r) /\ UNCHANGED <<seen, wlVars>>
  BY <1>1 DEF ExecutorFinish
<1> HIDE DEF r
<1>5. Consistent(r, seen[p], wl[p], seenWl[p])
  <2> HIDE DEF CopiesLag, EditionsInOrder, MatchesWorkload, ReleaseIsBacked,
             ExecutionIsBacked
  <2>1. CopiesLag(r, seen[p], wl[p], seenWl[p])
    BY <1>3, <1>4, Parts DEF CopiesLag
  <2>2. EditionsInOrder(r, seen[p], wl[p], seenWl[p])
    BY <1>3, <1>4, Parts DEF EditionsInOrder
  <2>3. MatchesWorkload(r, wl[p], seenWl[p])
    BY <1>3, <1>4, Parts DEF MatchesWorkload
  <2>4. ReleaseIsBacked(r, seen[p], wl[p], seenWl[p])
    BY <1>3, <1>4, Parts DEF ReleaseIsBacked
  <2>5. ExecutionIsBacked(r, seen[p], wl[p], seenWl[p])
    BY <1>3, <1>4, Parts DEF ExecutionIsBacked
  <2> QED BY <2>1, <2>2, <2>3, <2>4, <2>5
<1> HIDE DEF Consistent
<1> QED BY <1>2, <1>4, <1>5, RunWrite

\* The scheduler gives quota to a Workload.
LEMMA ReserveInv ==
    ASSUME QueueInv, NEW p \in Run, Reserve(p)
    PROVE  QueueInv'
<1> DEFINE w == [wl[p] EXCEPT !.reserved = TRUE, !.evicted = FALSE]
<1>1. w \in Workload
  BY Facts, WorkloadUpdate
<1>2. /\ w.exists = wl[p].exists /\ w.deleting = wl[p].deleting /\ w.reserved
      /\ w.admitted = wl[p].admitted /\ w.requests = wl[p].requests
      /\ w.finished = wl[p].finished
  BY Facts DEF Workload
<1>3. wl[p].exists /\ WriteWl(p, w) /\ UNCHANGED <<seenWl, plrVars>>
  BY DEF Reserve
<1> HIDE DEF w
<1>4. Consistent(plr[p], seen[p], w, seenWl[p])
  <2> HIDE DEF CopiesLag, EditionsInOrder, MatchesWorkload, ReleaseIsBacked,
             ExecutionIsBacked
  <2>1. CopiesLag(plr[p], seen[p], w, seenWl[p])
    BY <1>3, WorkloadHasRun, Parts DEF CopiesLag
  <2>2. EditionsInOrder(plr[p], seen[p], w, seenWl[p])
    BY <1>2, <1>3, Parts DEF EditionsInOrder
  <2>3. MatchesWorkload(plr[p], w, seenWl[p])
    BY <1>2, <1>3, Parts DEF MatchesWorkload
  <2>4. ReleaseIsBacked(plr[p], seen[p], w, seenWl[p])
    BY <1>2, <1>3, Parts DEF ReleaseIsBacked
  <2>5. ExecutionIsBacked(plr[p], seen[p], w, seenWl[p])
    BY <1>2, <1>3, Parts DEF ExecutionIsBacked
  <2> QED BY <2>1, <2>2, <2>3, <2>4, <2>5
<1> HIDE DEF Consistent
<1> QED BY <1>1, <1>3, <1>4, WorkloadWrite

\* The scheduler admits a Workload.
LEMMA AdmitInv ==
    ASSUME QueueInv, NEW p \in Run, Admit(p)
    PROVE  QueueInv'
<1> DEFINE w == [wl[p] EXCEPT !.admitted = TRUE]
<1>1. w \in Workload
  BY Facts, WorkloadUpdate
<1>2. /\ w.exists = wl[p].exists /\ w.deleting = wl[p].deleting
      /\ w.reserved = wl[p].reserved /\ w.admitted
      /\ w.requests = wl[p].requests /\ w.finished = wl[p].finished
  BY Facts DEF Workload
<1>3. /\ HoldsQuota(wl[p])
      /\ wl[p].exists /\ WriteWl(p, w) /\ UNCHANGED <<seenWl, plrVars>>
  BY DEF Admit
<1> HIDE DEF w
<1>4. Consistent(plr[p], seen[p], w, seenWl[p])
  <2> HIDE DEF CopiesLag, EditionsInOrder, MatchesWorkload, ReleaseIsBacked,
             ExecutionIsBacked
  <2>1. CopiesLag(plr[p], seen[p], w, seenWl[p])
    BY <1>3, WorkloadHasRun, Parts DEF CopiesLag
  <2>2. EditionsInOrder(plr[p], seen[p], w, seenWl[p])
    BY <1>2, <1>3, Parts DEF EditionsInOrder
  <2>3. MatchesWorkload(plr[p], w, seenWl[p])
    BY <1>2, <1>3, Parts DEF MatchesWorkload
  <2>4. ReleaseIsBacked(plr[p], seen[p], w, seenWl[p])
    BY <1>2, <1>3, Parts DEF ReleaseIsBacked
  <2>5. ExecutionIsBacked(plr[p], seen[p], w, seenWl[p])
    BY <1>2, <1>3, Parts DEF ExecutionIsBacked
  <2> QED BY <2>1, <2>2, <2>3, <2>4, <2>5
<1> HIDE DEF Consistent
<1> QED BY <1>1, <1>3, <1>4, WorkloadWrite

\* The scheduler evicts a Workload.
LEMMA EvictInv ==
    ASSUME QueueInv, NEW p \in Run, Evict(p)
    PROVE  QueueInv'
<1> DEFINE w == [wl[p] EXCEPT !.evicted = TRUE, !.evictions = @ + 1]
<1>1. w \in Workload
  BY Facts, EvictUpdate DEF Evict
<1>2. /\ w.exists = wl[p].exists /\ w.deleting = wl[p].deleting
      /\ w.reserved = wl[p].reserved /\ w.admitted = wl[p].admitted
      /\ w.requests = wl[p].requests /\ w.finished = wl[p].finished
  BY Facts DEF Workload
<1>3. wl[p].exists /\ WriteWl(p, w) /\ UNCHANGED <<seenWl, plrVars>>
  BY DEF Evict
<1> HIDE DEF w
<1>4. Consistent(plr[p], seen[p], w, seenWl[p])
  <2> HIDE DEF CopiesLag, EditionsInOrder, MatchesWorkload, ReleaseIsBacked,
             ExecutionIsBacked
  <2>1. CopiesLag(plr[p], seen[p], w, seenWl[p])
    BY <1>3, WorkloadHasRun, Parts DEF CopiesLag
  <2>2. EditionsInOrder(plr[p], seen[p], w, seenWl[p])
    BY <1>2, <1>3, Parts DEF EditionsInOrder
  <2>3. MatchesWorkload(plr[p], w, seenWl[p])
    BY <1>2, <1>3, Parts DEF MatchesWorkload
  <2>4. ReleaseIsBacked(plr[p], seen[p], w, seenWl[p])
    BY <1>2, <1>3, Parts DEF ReleaseIsBacked
  <2>5. ExecutionIsBacked(plr[p], seen[p], w, seenWl[p])
    BY <1>2, <1>3, Parts DEF ExecutionIsBacked
  <2> QED BY <2>1, <2>2, <2>3, <2>4, <2>5
<1> HIDE DEF Consistent
<1> QED BY <1>1, <1>3, <1>4, WorkloadWrite

\* An administrator deletes a Workload.
LEMMA DeleteWorkloadInv ==
    ASSUME QueueInv, NEW p \in Run, DeleteWorkload(p)
    PROVE  QueueInv'
<1> DEFINE w == [wl[p] EXCEPT !.deleting = TRUE]
<1>1. w \in Workload
  BY Facts, WorkloadUpdate
<1>2. /\ w.exists = wl[p].exists /\ w.deleting
      /\ w.reserved = wl[p].reserved /\ w.admitted = wl[p].admitted
      /\ w.requests = wl[p].requests /\ w.finished = wl[p].finished
  BY Facts DEF Workload
<1>3. /\ "delete" \in WorkloadOps
      /\ wl[p].exists /\ WriteWl(p, w) /\ UNCHANGED <<seenWl, plrVars>>
  BY DEF DeleteWorkload
<1> HIDE DEF w
<1>4. Consistent(plr[p], seen[p], w, seenWl[p])
  <2> HIDE DEF CopiesLag, EditionsInOrder, MatchesWorkload, ReleaseIsBacked,
             ExecutionIsBacked
  <2>1. CopiesLag(plr[p], seen[p], w, seenWl[p])
    BY <1>3, WorkloadHasRun, Parts DEF CopiesLag
  <2>2. EditionsInOrder(plr[p], seen[p], w, seenWl[p])
    BY <1>2, <1>3, Parts DEF EditionsInOrder
  <2>3. MatchesWorkload(plr[p], w, seenWl[p])
    BY <1>2, <1>3, Parts DEF MatchesWorkload
  <2>4. ReleaseIsBacked(plr[p], seen[p], w, seenWl[p])
    BY <1>2, <1>3, Parts DEF ReleaseIsBacked
  <2>5. ExecutionIsBacked(plr[p], seen[p], w, seenWl[p])
    BY <1>2, <1>3, Parts DEF ExecutionIsBacked
  <2> QED BY <2>1, <2>2, <2>3, <2>4, <2>5
<1> HIDE DEF Consistent
<1> QED BY <1>1, <1>3, <1>4, WorkloadWrite
=============================================================================
