-------------------------- MODULE Admission_proofs --------------------------
(***************************************************************************)
(* Proofs about Admission, for all submissions, configurations and widths  *)
(* of int.  AdmissionInv is inductive: a program's mutations are validated *)
(* before they are collected, so what a mutation can do to a run is what a *)
(* validated one can (MutateKeeps).                                        *)
(***************************************************************************)
EXTENDS Admission, TLAPS

-----------------------------------------------------------------------------
(* Runs and sequences.                                                     *)

\* An update of a run is a run, and changes only the fields it names.
LEMMA LabelsUpdate ==
    ASSUME NEW run, IsRun(run), NEW x, NEW r, r = [run EXCEPT !.labels = x]
    PROVE  /\ IsRun(r) /\ r.labels = x /\ r.status = run.status
           /\ r.template = run.template
BY DEF IsRun, RunFields

LEMMA AnnotationsUpdate ==
    ASSUME NEW run, IsRun(run), NEW x, NEW r, r = [run EXCEPT !.annotations = x]
    PROVE  /\ IsRun(r) /\ r.labels = run.labels /\ r.status = run.status
           /\ r.template = run.template
BY DEF IsRun, RunFields

LEMMA ManagedByUpdate ==
    ASSUME NEW run, IsRun(run), NEW x, NEW r, r = [run EXCEPT !.managedBy = x]
    PROVE  /\ IsRun(r) /\ r.labels = run.labels /\ r.status = run.status
           /\ r.template = run.template
BY DEF IsRun, RunFields

LEMMA DefaultUpdate ==
    ASSUME NEW run, IsRun(run), NEW x, NEW y, NEW z, NEW r,
           r = [run EXCEPT !.status = x, !.labels = y, !.managedBy = z]
    PROVE  /\ IsRun(r) /\ r.labels = y /\ r.status = x
           /\ r.template = run.template
BY DEF IsRun, RunFields

LEMMA SequencesAreSequences ==
    ASSUME NEW S, NEW q \in Seq(S)
    PROVE  IsSequence(q)
BY DEF IsSequence

\* The elements of a concatenation are those of its parts.
LEMMA Concatenation ==
    ASSUME NEW s, IsSequence(s), NEW t, IsSequence(t)
    PROVE  /\ IsSequence(s \o t)
           /\ \A i \in DOMAIN (s \o t) :
                 \/ \E j \in DOMAIN s : (s \o t)[i] = s[j]
                 \/ \E j \in DOMAIN t : (s \o t)[i] = t[j]
<1> DEFINE S == {s[i] : i \in DOMAIN s} \cup {t[i] : i \in DOMAIN t}
<1>1. s \in Seq(S) /\ t \in Seq(S)
  BY DEF IsSequence
<1> HIDE DEF S
<1>2. /\ s \o t \in Seq(S) /\ Len(s \o t) = Len(s) + Len(t)
      /\ \A i \in 1..Len(s) : (s \o t)[i] = s[i]
      /\ \A i \in (Len(s) + 1)..(Len(s) + Len(t)) : (s \o t)[i] = t[i - Len(s)]
  BY <1>1
<1>3. IsSequence(s \o t)
  <2>1. s \o t \in Seq(S)
    BY <1>2
  <2> HIDE DEF IsSequence
  <2> QED BY <2>1, SequencesAreSequences
<1>4. ASSUME NEW i \in DOMAIN (s \o t)
      PROVE  \/ \E j \in DOMAIN s : (s \o t)[i] = s[j]
             \/ \E j \in DOMAIN t : (s \o t)[i] = t[j]
  <2>1. /\ DOMAIN s = 1..Len(s) /\ DOMAIN t = 1..Len(t)
        /\ DOMAIN (s \o t) = 1..(Len(s) + Len(t))
        /\ Len(s) \in Nat /\ Len(t) \in Nat
    BY <1>1, <1>2
  <2>2. CASE i <= Len(s)
    BY <1>2, <2>1, <2>2
  <2>3. CASE i > Len(s)
    <3>1. i - Len(s) \in DOMAIN t
      BY <2>1, <2>3
    <3>2. (s \o t)[i] = t[i - Len(s)]
      BY <1>2, <2>1, <2>3
    <3> QED BY <3>1, <3>2
  <2> QED BY <2>1, <2>2, <2>3
<1> QED BY <1>3, <1>4

-----------------------------------------------------------------------------
(* The operators of CELMutations.                                          *)

\* The run r still has the status and the template of run, and its queue label.
Keeps(run, r) ==
    /\ IsRun(r) /\ r.status = run.status /\ r.template = run.template
    /\ QueueLabel \in DOMAIN run.labels =>
          /\ QueueLabel \in DOMAIN r.labels
          /\ r.labels[QueueLabel] = Empty => run.labels[QueueLabel] = Empty

\* So it does when a label gets a value that is not empty.
LEMMA LabelKeeps ==
    ASSUME NEW run, NEW r, IsRun(r), r.status = run.status,
           r.template = run.template, NEW k, NEW v, v # Empty,
           r.labels = Put(run.labels, k, v)
    PROVE  Keeps(run, r)
<1>1. /\ DOMAIN r.labels = DOMAIN run.labels \cup {k}
      /\ r.labels[k] = v
      /\ \A x \in DOMAIN run.labels : x # k => r.labels[x] = run.labels[x]
  BY DEF Put
<1> QED BY <1>1 DEF Keeps

\* mutator.go, mutate: a validated mutation keeps the status, the queue label
\* and the template, and does not blank the queue label.
LEMMA MutateKeeps ==
    ASSUME NEW run, IsRun(run), NEW m, Validate(m)
    PROVE  Keeps(run, mutate(run, m).run)
<1> DEFINE r == mutate(run, m).run
<1>1. m.type \in ValidTypes /\ (m.value # Empty \/ m.type = "multiKueue")
  BY DEF Validate
<1>2. CASE m.type = "label"
  <2>1. r = [run EXCEPT !.labels = Put(run.labels, m.key, m.value)]
    BY <1>2 DEF mutate, Changed
  <2> HIDE DEF r
  <2>2. /\ IsRun(r) /\ r.labels = Put(run.labels, m.key, m.value)
        /\ r.status = run.status /\ r.template = run.template
    BY <2>1, LabelsUpdate
  <2>3. m.value # Empty
    BY <1>1, <1>2
  <2>4. Keeps(run, r)
    BY <2>2, <2>3, LabelKeeps
  <2> QED BY <2>4 DEF r
<1>3. CASE m.type = "annotation"
  <2>1. r = [run EXCEPT !.annotations = Put(run.annotations, m.key, m.value)]
    BY <1>3 DEF mutate, Changed
  <2> QED BY <2>1, AnnotationsUpdate DEF Keeps
<1>4. CASE m.type = "resource"
  <2> DEFINE n == IF m.key \in DOMAIN run.annotations
                  THEN Atoi(run.annotations[m.key]) ELSE [ok |-> TRUE, n |-> 0]
             a == Put(run.annotations, m.key, Itoa(Wrap(Atoi(m.value).n + n.n)))
             ok == Atoi(m.value).ok /\ n.ok /\ n.n >= 0
  <2>1. mutate(run, m) = IF ok THEN Changed([run EXCEPT !.annotations = a])
                         ELSE Refused(run)
    BY <1>4 DEF mutate, mutateResource
  <2> HIDE DEF a, ok
  <2>2. r = run \/ r = [run EXCEPT !.annotations = a]
    BY <2>1 DEF Changed, Refused
  <2> HIDE DEF r
  <2>3. Keeps(run, r)
    BY <2>2, AnnotationsUpdate DEF Keeps
  <2> QED BY <2>3 DEF r
<1>5. CASE m.type = "managedBy"
  <2>1. r = [run EXCEPT !.managedBy = m.value]
    BY <1>5 DEF mutate, Changed
  <2> QED BY <2>1, ManagedByUpdate DEF Keeps
<1>6. CASE m.type = "multiKueue"
  <2> DEFINE l == IF m.value = Empty THEN run.labels
                  ELSE Put(run.labels, QueueLabel, m.value)
  <2>1. r = [run EXCEPT !.managedBy = MultiKueue, !.labels = l]
    BY <1>6 DEF mutate, mutateMultiKueue, Changed
  <2> HIDE DEF l, r
  <2>2. /\ IsRun(r) /\ r.status = run.status /\ r.template = run.template
        /\ r.labels = l
    BY <2>1 DEF IsRun, RunFields
  <2>3. CASE m.value = Empty
    BY <2>2, <2>3 DEF l, r, Keeps
  <2>4. CASE m.value # Empty
    <3>1. r.labels = Put(run.labels, QueueLabel, m.value)
      BY <2>2, <2>4 DEF l
    <3>2. Keeps(run, r)
      BY <2>2, <2>4, <3>1, LabelKeeps
    <3> QED BY <3>2 DEF r
  <2> QED BY <2>3, <2>4
<1> QED BY <1>1, <1>2, <1>3, <1>4, <1>5, <1>6 DEF ValidTypes

\* compiler.go: a mutation that adds to a request comes from resource(), with
\* the value it was called with and a key below the prefix of the requests.
LEMMA CallReturns ==
    ASSUME NEW call, Typed(call), NEW v, Call([call EXCEPT !.value = v]).ok,
           Call([call EXCEPT !.value = v]).mutation.type = "resource"
    PROVE  LET m == Call([call EXCEPT !.value = v]).mutation
           IN /\ call.fn = "resource" /\ m.value = v /\ v # NoSuchKey
              /\ m.key.requests /\ v.n >= 0
              /\ m.key.name \in {NoKey.name, ConcurrencyToken} => ~IsQualifiedName(m.key)
<1> DEFINE c == [call EXCEPT !.value = v]
           m == Call(c).mutation
<1>1. /\ c.fn = call.fn /\ c.key = call.key /\ c.value = v
      /\ call.fn \in Functions
      /\ call.key \in [name : STRING, slashes : Nat, len : Nat, requests : BOOLEAN]
      /\ IsKey(call.key)
  BY DEF Typed
<1>2. Call(c).ok /\ m.type = "resource"
  OBVIOUS
<1> HIDE DEF c
<1>3. v # NoSuchKey
  BY <1>1, <1>2 DEF Call, Failed, Mutation
<1>4. c.fn = "resource"
  <2>1. c.fn \in {"label", "annotation"} => m.type = c.fn
    BY <1>1, <1>2, <1>3 DEF Call, createMutationFunction, Mutation, Failed
  <2>2. c.fn = "priority" => m.type = "label"
    BY <1>1, <1>3 DEF Call, createPriorityMutationFunction, Mutation
  <2>3. c.fn = "managedBy" => m.type = "managedBy"
    BY <1>1, <1>2, <1>3 DEF Call, createManagedByFunction, Mutation, Failed
  <2>4. c.fn = "multiKueue" => m.type = "multiKueue"
    BY <1>1, <1>2, <1>3 DEF Call, createMultiKueueFunction, Mutation, Failed
  <2>5. /\ c.fn = "multiKueueHere" => m.type = "multiKueue"
        /\ c.fn = "literal" => m.type = "label"
        /\ c.fn = "pipelineRun" => m.type = "none"
    BY <1>1, <1>3 DEF Call, Mutation
  <2> HIDE DEF m
  <2> QED BY <1>1, <1>2, <2>1, <2>2, <2>3, <2>4, <2>5 DEF Functions
<1>5. validateKey(c.key) /\ m.key = RequestsKey(c.key) /\ m.value = v /\ v.n >= 0
  BY <1>1, <1>2, <1>3, <1>4 DEF Call, createResourceMutationFunction, Mutation, Failed
<1>6. /\ m.key.len = c.key.len + 9 /\ m.key.requests = TRUE
      /\ m.key.name = c.key.name /\ m.key.slashes = c.key.slashes + 1
  BY <1>1, <1>5 DEF RequestsKey
<1>7. c.key.len \in 1..63
  BY <1>5 DEF validateKey, IsQualifiedName
<1>8. m.key.name \in {NoKey.name, ConcurrencyToken} => ~IsQualifiedName(m.key)
  BY <1>1, <1>6, <1>7 DEF IsKey, IsQualifiedName
<1> QED BY <1>1, <1>3, <1>4, <1>5, <1>6, <1>8 DEF c

\* Evaluate: the variables are strings, so an argument of resource() that can
\* be evaluated at all is the number in the expression.
LEMMA ArgumentOfResource ==
    ASSUME NEW call, Typed(call), call.fn = "resource", NEW run
    PROVE  /\ Argument(call.value, run) = call.value
           /\ Atoi(call.value).ok \/ call.value = NoSuchKey
<1>1. Atoi(call.value).ok \/ call.value = NoSuchKey
  BY DEF Typed
<1>2. call.value.kind \in {"int", "error"}
  <2>1. Atoi(call.value).ok => call.value.kind = "int"
    BY DEF Atoi
  <2>2. NoSuchKey.kind = "error"
    BY DEF NoSuchKey, Value
  <2> QED BY <1>1, <2>1, <2>2
<1>3. PacEventType.kind = "variable" /\ EventTypeOfRun.kind = "variable"
  BY DEF PacEventType, EventTypeOfRun, Value
<1>4. call.value \notin {PacEventType, EventTypeOfRun}
  BY <1>2, <1>3
<1>5. call.value # PacEventType /\ call.value # EventTypeOfRun
  BY <1>4
<1>6. Argument(call.value, run) = call.value
  BY <1>4, <1>5 DEF Argument
<1> QED BY <1>1, <1>6

\* evaluator.go, Evaluate: a program returns a sequence of checked mutations,
\* an empty one when it fails.
LEMMA EvaluateChecks ==
    ASSUME NEW c \in Configuration, NEW i \in DOMAIN c.programs, NEW run
    PROVE  LET e == Evaluate(c.programs[i], run)
           IN IsSequence(e.mutations) /\ \A j \in DOMAIN e.mutations : IsChecked(e.mutations[j])
<1> DEFINE p == c.programs[i]
           calls == IF Holds(p, run) THEN p.calls ELSE p.otherwise
           Result(j) == Call([calls[j] EXCEPT !.value = Argument(calls[j].value, run)])
           results == [j \in DOMAIN calls |-> Result(j)]
           ok == /\ p.has \/ Holds(p, run)
                 /\ \A j \in DOMAIN calls : Result(j).ok
                 /\ convertToMutationRequests(results)
                 /\ \A j \in DOMAIN calls : Validate(Result(j).mutation)
           e == Evaluate(p, run)
<1>1. IsSequence(calls) /\ \A j \in DOMAIN calls : calls[j] \in AllCalls(p)
  BY ConfigurationAssumption DEF AllCalls, Range
<1>2. \A j \in DOMAIN calls : Typed(calls[j])
  BY <1>1, CallsAssumption
<1> HIDE DEF p, calls
<1>3. e = IF ok THEN [ok |-> TRUE, mutations |-> [j \in DOMAIN calls |-> Result(j).mutation]]
          ELSE [ok |-> FALSE, mutations |-> <<>>]
  BY <1>2 DEF Evaluate, calls, Typed
<1> HIDE DEF e, results
<1>5. CASE ok
  <2>1. DOMAIN calls = 1..Len(calls) /\ Len(calls) \in Nat
    BY <1>1 DEF IsSequence
  <2>2. e.ok /\ e.mutations = [j \in 1..Len(calls) |-> Result(j).mutation]
    BY <1>3, <1>5, <2>1
  <2>3. ASSUME NEW j \in 1..Len(calls)
        PROVE  IsChecked(Result(j).mutation)
    <3>1. Result(j).ok /\ Validate(Result(j).mutation) /\ Typed(calls[j])
      BY <1>2, <1>5, <2>1
    <3>2. Result(j).mutation.type = "resource" =>
             /\ calls[j].fn = "resource" /\ Result(j).mutation.key.requests
             /\ Result(j).mutation.value = Argument(calls[j].value, run)
             /\ Argument(calls[j].value, run).n >= 0 /\ Argument(calls[j].value, run) # NoSuchKey
             /\ Result(j).mutation.key.name \in {NoKey.name, ConcurrencyToken}
                   => ~IsQualifiedName(Result(j).mutation.key)
      BY <3>1, CallReturns
    <3>3. calls[j].fn = "resource" =>
             /\ Argument(calls[j].value, run) = calls[j].value
             /\ Atoi(calls[j].value).ok \/ calls[j].value = NoSuchKey
      BY <3>1, ArgumentOfResource
    <3> QED BY <3>1, <3>2, <3>3 DEF IsChecked
  <2> HIDE DEF Result
  <2>4. e.mutations \in Seq({Result(j).mutation : j \in 1..Len(calls)})
    BY <2>1, <2>2
  <2>5. IsSequence(e.mutations)
    BY <2>4, SequencesAreSequences
  <2>6. \A j \in DOMAIN e.mutations : IsChecked(e.mutations[j])
    BY <2>2, <2>3
  <2> QED BY <2>2, <2>5, <2>6 DEF e, p
<1>6. CASE ~ok
  <2>1. e.mutations = <<>>
    BY <1>3, <1>6
  <2>2. IsSequence(e.mutations) /\ DOMAIN e.mutations = {}
    BY <2>1 DEF IsSequence
  <2> QED BY <2>2 DEF e, p
<1> QED BY <1>5, <1>6

\* mutator.go, mutate: a checked mutation fails only on the request under its
\* key, and then leaves the run alone.
LEMMA MutateFails ==
    ASSUME NEW run, NEW m, IsChecked(m), ~mutate(run, m).ok
    PROVE  /\ mutate(run, m).run = run
           /\ m.key \in DOMAIN run.annotations
           /\ ~CanBeAddedTo(run.annotations[m.key])
<1>1. m.type = "resource"
  BY DEF IsChecked, Validate, ValidTypes, mutate, mutateMultiKueue, Changed
<1>2. m.key.requests /\ Atoi(m.value).ok
  BY <1>1 DEF IsChecked
<1> DEFINE n == IF m.key \in DOMAIN run.annotations
                THEN Atoi(run.annotations[m.key]) ELSE [ok |-> TRUE, n |-> 0]
           ok == Atoi(m.value).ok /\ n.ok /\ n.n >= 0
           a == Put(run.annotations, m.key, Itoa(Wrap(Atoi(m.value).n + n.n)))
<1>3. mutate(run, m) = IF ok THEN Changed([run EXCEPT !.annotations = a])
                       ELSE Refused(run)
  BY <1>1 DEF mutate, mutateResource
<1> HIDE DEF a
<1>4. ~ok /\ mutate(run, m).run = run
  BY <1>3 DEF Changed, Refused
<1>5. m.key \in DOMAIN run.annotations
  BY <1>2, <1>4
<1>6. ~CanBeAddedTo(run.annotations[m.key])
  BY <1>2, <1>4, <1>5 DEF Atoi, CanBeAddedTo
<1> QED BY <1>4, <1>5, <1>6

\* pipelinerun_webhook.go, Default: the run is Pending and has a queue label,
\* the user's or the configured queue, and nothing else of it is touched.
LEMMA DefaultedQueues ==
    ASSUME NEW c, Loads(c), NEW run, IsRun(run)
    PROVE  LET r == Defaulted(c, run)
           IN /\ IsRun(r) /\ r.status = "Pending" /\ r.template = run.template
              /\ QueueLabel \in DOMAIN r.labels
              /\ r.labels[QueueLabel] = Empty =>
                    QueueLabel \in DOMAIN run.labels /\ run.labels[QueueLabel] = Empty
<1> DEFINE l == IF QueueLabel \in DOMAIN run.labels THEN run.labels
                ELSE Put(run.labels, QueueLabel, c.queue)
           b == IF c.override THEN MultiKueue ELSE run.managedBy
           r == Defaulted(c, run)
<1>1. r = [run EXCEPT !.status = "Pending", !.labels = l, !.managedBy = b]
  BY DEF Defaulted, IsRun, RunFields
<1> HIDE DEF l, b, r
<1>2. IsRun(r) /\ r.status = "Pending" /\ r.template = run.template /\ r.labels = l
  BY <1>1 DEF IsRun, RunFields
<1>3. CASE QueueLabel \in DOMAIN run.labels
  BY <1>2, <1>3 DEF l, r
<1>4. CASE QueueLabel \notin DOMAIN run.labels
  <2>1. l = Put(run.labels, QueueLabel, c.queue) /\ c.queue # Empty
    BY <1>4 DEF l, Loads
  <2>2. QueueLabel \in DOMAIN l /\ l[QueueLabel] # Empty
    BY <2>1 DEF Put
  <2> QED BY <1>2, <2>2 DEF r
<1> QED BY <1>3, <1>4

\* patchFilteringWebhook.Handle: every field but the template and the verdict
\* on the rest of the spec is the defaulted run's.
LEMMA HandleFilters ==
    ASSUME IsRun(submitted), IsRun(plr)
    PROVE  LET run == Handle(plr)
           IN /\ IsRun(run) /\ run.template = submitted.template
              /\ \A f \in {"labels", "annotations", "status", "managedBy"} :
                    run[f] = plr[f]
<1> DEFINE run == Handle(plr)
           rt == RoundTrip(plr)
<1>1. \A f \in {"labels", "annotations", "status", "managedBy"} : rt[f] = plr[f]
  BY DEF RoundTrip, IsRun, RunFields
<1> HIDE DEF rt
<1>2. run = [f \in RunFields |-> IF isPatchAllowed(Path[f]) THEN rt[f] ELSE submitted[f]]
  BY DEF Handle, IsRun, rt
<1>3. /\ \A f \in {"labels", "annotations", "status", "managedBy"} : isPatchAllowed(Path[f])
      /\ ~isPatchAllowed(Path["template"])
  BY DEF isPatchAllowed, Path
<1> HIDE DEF run
<1>4. IsRun(run) /\ run.template = submitted.template
  BY <1>2, <1>3 DEF IsRun, RunFields
<1>5. \A f \in {"labels", "annotations", "status", "managedBy"} : run[f] = plr[f]
  BY <1>1, <1>2, <1>3 DEF RunFields
<1> QED BY <1>4, <1>5 DEF run

-----------------------------------------------------------------------------
(* The invariant, one lemma for each action.                               *)

LEMMA InitInv == ASSUME Init PROVE AdmissionInv
<1>1. /\ cfg \in Configuration /\ Loads(cfg) /\ IsRun(submitted) /\ plr = submitted
      /\ pc = "default" /\ next = 1 /\ mutations = <<>> /\ stored = {}
      /\ metrics = [evaluated |-> 0, notEvaluated |-> 0, mutated |-> 0, notMutated |-> 0]
  BY SubmissionAssumption DEF Init
<1>2. IsSequence(mutations) /\ DOMAIN mutations = {}
  BY <1>1 DEF IsSequence
<1>3. /\ metrics \in [evaluated : Nat, notEvaluated : Nat, mutated : Nat, notMutated : Nat]
      /\ metrics.evaluated = metrics.mutated + metrics.notMutated
  BY <1>1
<1> QED BY <1>1, <1>2, <1>3 DEF AdmissionInv

LEMMA DefaultInv == ASSUME AdmissionInv, Default PROVE AdmissionInv'
<1>1. /\ pc = "default" /\ plr' = Defaulted(cfg, plr) /\ plr = submitted /\ next = 1
      /\ pc' \in {"answered", "evaluate"} /\ (pc' = "evaluate" => cfg.programs # <<>>)
      /\ UNCHANGED <<cfg, submitted, next, mutations, stored, metrics>>
  BY DEF Default, Answer, AdmissionInv
<1>2. /\ IsRun(plr') /\ plr'.template = submitted.template
      /\ IsQueued(plr)'
  <2>1. IsRun(plr) /\ Loads(cfg)
    BY DEF AdmissionInv
  <2> QED BY <1>1, <2>1, DefaultedQueues DEF IsQueued
<1>3. cfg.programs # <<>> => 1 \in DOMAIN cfg.programs
  <2>1. IsSequence(cfg.programs)
    BY ConfigurationAssumption DEF AdmissionInv
  <2> QED BY <2>1 DEF IsSequence
<1>4. \A j \in DOMAIN mutations' : IsChecked(mutations'[j])
  BY <1>1 DEF AdmissionInv
<1> QED BY <1>1, <1>2, <1>3, <1>4 DEF AdmissionInv

LEMMA EvaluateInv == ASSUME AdmissionInv, evaluate PROVE AdmissionInv'
<1> DEFINE result == Evaluate(cfg.programs[next], plr)
<1>1. /\ pc = "evaluate" /\ next \in DOMAIN cfg.programs
      /\ UNCHANGED <<cfg, submitted, plr, stored>>
  BY DEF evaluate, AdmissionInv
<1>2. Collect(result) \/ EvaluationFails(result)
  BY DEF evaluate, EvaluatedRun
<1>3. /\ IsSequence(result.mutations)
      /\ \A j \in DOMAIN result.mutations : IsChecked(result.mutations[j])
  BY <1>1, EvaluateChecks DEF AdmissionInv
<1> HIDE DEF result
<1>4. IsSequence(cfg.programs) /\ Len(cfg.programs) \in Nat
      /\ DOMAIN cfg.programs = 1..Len(cfg.programs)
  <2>1. IsSequence(cfg.programs)
    BY ConfigurationAssumption DEF AdmissionInv
  <2> QED BY <2>1 DEF IsSequence
<1>5. CASE Collect(result)
  <2>1. mutations' = mutations \o result.mutations
    BY <1>5 DEF Collect
  <2>2. IsSequence(mutations') /\ \A j \in DOMAIN mutations' : IsChecked(mutations'[j])
    <3>1. IsSequence(mutations) /\ \A j \in DOMAIN mutations : IsChecked(mutations[j])
      BY DEF AdmissionInv
    <3> QED BY <1>3, <2>1, <3>1, Concatenation
  <2>3. CASE next < Len(cfg.programs)
    <3>1. next' = next + 1 /\ UNCHANGED <<pc, metrics>>
      BY <1>5, <2>3 DEF Collect
    <3>2. next' \in DOMAIN cfg.programs
      BY <1>1, <1>4, <2>3, <3>1
    <3> QED BY <1>1, <2>2, <3>1, <3>2 DEF AdmissionInv, IsQueued
  <2>4. CASE ~(next < Len(cfg.programs))
    <3>1. /\ next' = 1 /\ pc' = "mutate"
          /\ metrics' = [metrics EXCEPT !.evaluated = @ + 1]
      BY <1>5, <2>4 DEF Collect
    <3>2. /\ metrics' \in [evaluated : Nat, notEvaluated : Nat, mutated : Nat, notMutated : Nat]
          /\ metrics'.evaluated = metrics'.mutated + metrics'.notMutated + 1
      BY <1>1, <3>1 DEF AdmissionInv
    <3> QED BY <1>1, <2>2, <3>1, <3>2 DEF AdmissionInv, IsQueued
  <2> QED BY <2>3, <2>4
<1>6. CASE EvaluationFails(result)
  <2>1. /\ pc' = "answered" /\ UNCHANGED <<next, mutations>>
        /\ metrics' = [metrics EXCEPT !.notEvaluated = @ + 1]
    BY <1>6 DEF EvaluationFails, Answer
  <2>2. /\ metrics' \in [evaluated : Nat, notEvaluated : Nat, mutated : Nat, notMutated : Nat]
        /\ metrics'.evaluated = metrics'.mutated + metrics'.notMutated
    BY <1>1, <2>1 DEF AdmissionInv
  <2>3. \A j \in DOMAIN mutations' : IsChecked(mutations'[j])
    BY <2>1 DEF AdmissionInv
  <2> QED BY <1>1, <2>1, <2>2, <2>3 DEF AdmissionInv, IsQueued
<1> QED BY <1>2, <1>5, <1>6

LEMMA MutateInv == ASSUME AdmissionInv, Mutate PROVE AdmissionInv'
<1>1. /\ pc = "mutate" /\ next \in Nat \ {0}
      /\ UNCHANGED <<cfg, submitted, mutations, stored>>
  BY DEF Mutate, AdmissionInv
<1>2. CASE next > Len(mutations)
  <2>1. /\ pc' = "answered" /\ UNCHANGED <<plr, next>>
        /\ metrics' = [metrics EXCEPT !.mutated = @ + 1]
    <3>1. Len(mutations) \in Nat
      BY DEF AdmissionInv, IsSequence
    <3>2. ~(next <= Len(mutations))
      BY <1>1, <1>2, <3>1
    <3> QED BY <3>2 DEF Mutate, Answer
  <2>2. /\ metrics' \in [evaluated : Nat, notEvaluated : Nat, mutated : Nat, notMutated : Nat]
        /\ metrics'.evaluated = metrics'.mutated + metrics'.notMutated
    BY <1>1, <2>1 DEF AdmissionInv
  <2> QED BY <1>1, <2>1, <2>2 DEF AdmissionInv, IsQueued
<1>3. CASE next <= Len(mutations)
  <2> DEFINE result == mutate(plr, mutations[next])
  <2>1. /\ plr' = result.run
        /\ \/ /\ next' = next + 1 /\ UNCHANGED <<pc, metrics>>
           \/ /\ pc' = "answered" /\ UNCHANGED next
              /\ metrics' = [metrics EXCEPT !.notMutated = @ + 1]
    BY <1>1, <1>3 DEF Mutate, Answer, RecordMutationFailure, AdmissionInv, IsSequence
  <2>2. Keeps(plr, plr')
    <3>1. next \in DOMAIN mutations
      BY <1>1, <1>3 DEF AdmissionInv, IsSequence
    <3>2. IsRun(plr) /\ IsChecked(mutations[next]) /\ Validate(mutations[next])
      BY <3>1 DEF AdmissionInv, IsChecked
    <3> QED BY <2>1, <3>2, MutateKeeps
  <2> HIDE DEF result
  <2>3. IsRun(plr') /\ plr'.template = submitted.template /\ IsQueued(plr)'
    BY <1>1, <2>2 DEF Keeps, IsQueued, AdmissionInv
  <2>4. /\ metrics' \in [evaluated : Nat, notEvaluated : Nat, mutated : Nat, notMutated : Nat]
        /\ metrics'.evaluated = metrics'.mutated + metrics'.notMutated
                                   + (IF pc' = "mutate" THEN 1 ELSE 0)
    BY <1>1, <2>1 DEF AdmissionInv
  <2> QED BY <1>1, <2>1, <2>2, <2>3, <2>4 DEF AdmissionInv
<1> QED
  <2>1. Len(mutations) \in Nat
    BY DEF AdmissionInv, IsSequence
  <2> QED BY <1>1, <1>2, <1>3, <2>1

LEMMA RespondInv == ASSUME AdmissionInv, Respond PROVE AdmissionInv'
<1>1. /\ pc = "answered" /\ pc' = "done"
      /\ UNCHANGED <<cfg, submitted, plr, next, mutations, metrics>>
      /\ \/ stored' = {Handle(plr)}
         \/ resp' # Allowed /\ UNCHANGED stored
  BY DEF Respond, Invalid, Allowed
<1>2. IsRun(Handle(plr)) /\ Handle(plr)' = Handle(plr)
  BY <1>1, HandleFilters DEF AdmissionInv, Handle, RoundTrip
<1>3. \A j \in DOMAIN mutations' : IsChecked(mutations'[j])
  BY <1>1 DEF AdmissionInv
<1> QED BY <1>1, <1>2, <1>3 DEF AdmissionInv, IsQueued

LEMMA PodSetsInv == ASSUME AdmissionInv, PodSets PROVE AdmissionInv'
<1>1. UNCHANGED <<cfg, submitted, plr, pc, next, mutations, resp, stored, metrics>>
  BY DEF PodSets
<1> QED BY <1>1 DEF AdmissionInv, IsQueued, Handle, RoundTrip

LEMMA SubmitInv == ASSUME AdmissionInv, Submit PROVE AdmissionInv'
<1>1. /\ pc' = "default" /\ next' = 1 /\ mutations' = <<>> /\ pc = "done"
      /\ submitted' \in Submission \cup stored /\ plr' = submitted'
      /\ UNCHANGED <<cfg, stored, metrics>>
  BY DEF Submit
<1>2. IsRun(submitted')
  BY <1>1, SubmissionAssumption DEF AdmissionInv
<1>3. IsSequence(mutations') /\ DOMAIN mutations' = {}
  BY <1>1 DEF IsSequence
<1> QED BY <1>1, <1>2, <1>3 DEF AdmissionInv

-----------------------------------------------------------------------------
(* The theorems.                                                           *)

LEMMA NextInv == ASSUME AdmissionInv, [Next]_vars PROVE AdmissionInv'
<1>1. CASE UNCHANGED vars
  BY <1>1 DEF vars, AdmissionInv, IsQueued, Handle, RoundTrip
<1> QED BY <1>1, DefaultInv, EvaluateInv, MutateInv, RespondInv, PodSetsInv,
           SubmitInv DEF Next

\* Along every behaviour of the webhook, the API server and the controller,
\* mutations are validated before one is applied and the run keeps what
\* Default gave it.
THEOREM AdmissionInvariant == Spec => []AdmissionInv
<1>1. Init => AdmissionInv
  BY InitInv
<1>2. AdmissionInv /\ [Next]_vars => AdmissionInv'
  BY NextInv
<1> QED BY <1>1, <1>2, PTL DEF Spec

\* pipelineRunCustomDefaulter: no configuration, however many expressions it
\* has, stores a run that is not suspended or not in a queue.
THEOREM RunsAreStoredQueued == Spec => []StoredRunsAreQueued
<1>1. AdmissionInv => StoredRunsAreQueued
  <2> SUFFICES ASSUME AdmissionInv, pc = "done", resp = Allowed
               PROVE  IsQueued(Handle(plr))
    BY DEF AdmissionInv, StoredRunsAreQueued
  <2>1. IsQueued(plr) /\ IsRun(submitted) /\ IsRun(plr)
    BY DEF AdmissionInv
  <2>2. Handle(plr).labels = plr.labels /\ Handle(plr).status = plr.status
    BY <2>1, HandleFilters
  <2> QED BY <2>1, <2>2 DEF IsQueued
<1> QED BY <1>1, AdmissionInvariant, PTL

\* patchFilteringWebhook: a stored run differs from the submitted one only in
\* the four fields Default and Mutate write.
THEOREM FilterKeepsIntent == Spec => []OnlyIntendedFieldsChange
<1>1. AdmissionInv => OnlyIntendedFieldsChange
  BY HandleFilters DEF AdmissionInv, OnlyIntendedFieldsChange
<1> QED BY <1>1, AdmissionInvariant, PTL

\* internal/cel/metrics.go: for any number of requests, the evaluations that
\* succeeded are the mutations that succeeded and those that failed.
THEOREM OutcomesAddUp == Spec => []EvaluationsHaveOutcomes
<1>1. AdmissionInv => EvaluationsHaveOutcomes
  BY DEF AdmissionInv, EvaluationsHaveOutcomes
<1> QED BY <1>1, AdmissionInvariant, PTL
=============================================================================
