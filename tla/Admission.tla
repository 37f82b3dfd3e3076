----------------------------- MODULE Admission -----------------------------
(***************************************************************************)
(* The creation of a PipelineRun, from the request to the resources Kueue  *)
(* is asked for: the webhook's Default with its CEL mutator, the filter on *)
(* the patches of the response, the API server's own validation, and       *)
(* PodSets on the stored run.  Which configuration a request reads is the  *)
(* subject of ConfigStore; here it is chosen once, among those that load.  *)
(* A user may submit the manifest of a stored run again.  The mutate       *)
(* command does the same to a file.                                        *)
(***************************************************************************)
EXTENDS CELMutations

CONSTANTS
    Submission,       \* the runs users write
    Configuration,    \* [queue, override, programs]: the loaded configuration
    MaxSubmissions    \* bound on the requests of a behaviour

ASSUME MaxSubmissionsAssumption == MaxSubmissions \in Nat \ {0}

RunFields == {"labels", "annotations", "status", "managedBy", "template", "valid"}

IsRun(run) == run = [f \in RunFields |-> run[f]]

ASSUME SubmissionAssumption == \A run \in Submission : IsRun(run)

IsSequence(s) == Len(s) \in Nat /\ s = [i \in 1..Len(s) |-> s[i]]

ASSUME ConfigurationAssumption ==
    \A c \in Configuration :
       /\ IsSequence(c.programs)
       /\ \A i \in DOMAIN c.programs : /\ IsSequence(c.programs[i].calls)
                                       /\ IsSequence(c.programs[i].otherwise)

AllCalls(program) == Range(program.calls) \cup Range(program.otherwise)

\* The slashes and the length of a key are those of its string: the token and
\* the prefix of the requests have a slash, the empty string has no length.
IsKey(k) ==
    /\ k.requests \/ k.name = ConcurrencyToken => k.slashes > 0
    /\ k.name = NoKey.name => k.requests \/ k.len = 0

\* What cel-go's type checker makes sure of.
Typed(call) ==
    /\ call \in [fn : Functions,
                 key : [name : STRING, slashes : Nat, len : Nat, requests : BOOLEAN],
                 value : [kind : STRING, s : STRING, n : Int]]
    /\ IsKey(call.key)
    /\ call.fn = "resource" => Atoi(call.value).ok \/ call.value = NoSuchKey

ASSUME CallsAssumption ==
    \A c \in Configuration : \A i \in DOMAIN c.programs :
       \A call \in AllCalls(c.programs[i]) : Typed(call)

VARIABLES
    cfg,        \* the configuration in force
    submitted,  \* the run in the request
    plr,        \* the run Default works on
    pc,         \* where the request is
    next,       \* the program or the mutation that is next
    mutations,  \* what the programs evaluated so far ask for
    resp,       \* the answer of the webhook, or of the API server
    stored,     \* the runs the API server accepted: none or one
    podSets,    \* what the controller asks Kueue for on behalf of stored
    metrics,    \* the counters of internal/cel/metrics.go
    submissions

vars == <<cfg, submitted, plr, pc, next, mutations, resp, stored, podSets,
          metrics, submissions>>

NoAnswer == "none"
Allowed == "allowed"
BadRequest == "bad request"
InternalError == "internal error"
Invalid == "invalid"                 \* the API server's 422

Unretryable == "unretryable"
NotAsked == "not asked"

\* The checks of ConfigStore.Update.
Loads(c) ==
    c.queue # Empty /\ (c.programs = <<>> \/ CompileCELPrograms(c.programs))

Init ==
    /\ cfg \in {c \in Configuration : Loads(c)}
    /\ submitted \in Submission
    /\ plr = submitted
    /\ pc = "default" /\ next = 1 /\ mutations = <<>>
    /\ resp = NoAnswer
    /\ stored = {} /\ podSets = NotAsked
    /\ metrics = [evaluated |-> 0, notEvaluated |-> 0,
                  mutated |-> 0, notMutated |-> 0]
    /\ submissions = 1

Answer(a) == resp' = a /\ pc' = "answered"

-----------------------------------------------------------------------------
(* Default and Mutate.                                                     *)

\* Mutant: a status set by the user is kept.
DefaultedIfUnset(c, run) ==
    [run EXCEPT !.status = IF @ = "none" THEN "Pending" ELSE @,
                !.labels = IF QueueLabel \in DOMAIN @ THEN @
                           ELSE Put(@, QueueLabel, c.queue),
                !.managedBy = IF c.override THEN MultiKueue ELSE @]

Defaulted(c, run) ==
    [run EXCEPT !.status = "Pending",
                !.labels = IF QueueLabel \in DOMAIN @ THEN @
                           ELSE Put(@, QueueLabel, c.queue),
                !.managedBy = IF c.override THEN MultiKueue ELSE @]

\* Without expressions there is no mutator.  Otherwise the copy of the run,
\* with Tekton's defaults, must be a valid one.
Default ==
    /\ pc = "default"
    /\ plr' = Defaulted(cfg, plr)
    /\ \/ cfg.programs = <<>> /\ Answer(Allowed)
       \/ cfg.programs # <<>> /\ ~plr.valid /\ Answer(BadRequest)
       \/ cfg.programs # <<>> /\ plr.valid /\ pc' = "evaluate" /\ UNCHANGED resp
    /\ UNCHANGED <<cfg, submitted, next, mutations, stored, podSets, metrics,
                   submissions>>

\* Mutant: the mutations of a program go before those of the programs before it.
CollectFirst(result) ==
    /\ mutations' = result.mutations \o mutations
    /\ IF next < Len(cfg.programs)
       THEN next' = next + 1 /\ UNCHANGED <<pc, metrics>>
       ELSE /\ next' = 1 /\ pc' = "mutate"
            /\ metrics' = [metrics EXCEPT !.evaluated = @ + 1]

\* The result of one program, for CELMutator.evaluate.
Collect(result) ==
    /\ mutations' = mutations \o result.mutations
    /\ IF next < Len(cfg.programs)
       THEN next' = next + 1 /\ UNCHANGED <<pc, metrics>>
       ELSE /\ next' = 1 /\ pc' = "mutate"
            /\ metrics' = [metrics EXCEPT !.evaluated = @ + 1]

EvaluationFails(result) ==
    /\ Answer(InternalError)
    /\ metrics' = [metrics EXCEPT !.notEvaluated = @ + 1]
    /\ UNCHANGED <<next, mutations>>

\* Mutate's loop from start to end: the result after each mutation.
Applied(run, ms) ==
    LET after[n \in 0..Len(ms)] ==
            IF n = 0 THEN Changed(run)
            ELSE IF after[n - 1].ok THEN mutate(after[n - 1].run, ms[n])
            ELSE after[n - 1]
    IN after

\* Mutant: each program sees what the programs before it ask for.
RunSoFar == Applied(plr, mutations)[Len(mutations)].run

\* What the programs are evaluated on: the run Default left.
EvaluatedRun == plr

\* One iteration of the loop of CELMutator.evaluate.
evaluate ==
    /\ pc = "evaluate"
    /\ LET result == Evaluate(cfg.programs[next], EvaluatedRun)
       IN \/ result.ok /\ Collect(result) /\ UNCHANGED resp
          \/ ~result.ok /\ EvaluationFails(result)
    /\ UNCHANGED <<cfg, submitted, plr, stored, podSets, submissions>>

\* Mutant: a mutation that cannot be applied is not counted.
RecordNothing == UNCHANGED metrics

RecordMutationFailure == metrics' = [metrics EXCEPT !.notMutated = @ + 1]

\* One iteration of the loop of Mutate, or its end.
Mutate ==
    /\ pc = "mutate"
    /\ \/ /\ next > Len(mutations)
          /\ Answer(Allowed)
          /\ metrics' = [metrics EXCEPT !.mutated = @ + 1]
          /\ UNCHANGED <<plr, next>>
       \/ /\ next <= Len(mutations)
          /\ LET result == mutate(plr, mutations[next])
             IN /\ plr' = result.run
                /\ IF result.ok
                   THEN next' = next + 1 /\ UNCHANGED <<pc, resp, metrics>>
                   ELSE /\ Answer(InternalError)
                        /\ RecordMutationFailure
                        /\ UNCHANGED next
    /\ UNCHANGED <<cfg, submitted, mutations, stored, podSets, submissions>>

-----------------------------------------------------------------------------
(* The response, the API server and the controller.                        *)

Path == [labels |-> "/metadata/labels", annotations |-> "/metadata/annotations",
         status |-> "/spec/status", managedBy |-> "/spec/managedBy",
         template |-> "/spec/taskRunTemplate", valid |-> "/spec/pipelineSpec"]

\* A Go struct cannot leave the template out when it is written as JSON.
RoundTrip(run) ==
    [run EXCEPT !.template = IF @ = "none" THEN "zero" ELSE @]

\* Mutant: no patch is dropped.
isAnyPatchAllowed(path) == TRUE

\* The code tests for these prefixes; no other field of the model is below
\* one of them.
isPatchAllowed(path) ==
    path \in {"/metadata/labels", "/metadata/annotations", "/spec/status",
              "/spec/managedBy"}

\* The patches turn the request into the round trip of plr; Handle keeps the
\* allowed ones.
Handle(run) ==
    [f \in DOMAIN submitted |->
        IF isPatchAllowed(Path[f]) THEN RoundTrip(run)[f] ELSE submitted[f]]

\* The API server's validation of the patched object.
ValidObject(run) ==
    /\ run.valid
    /\ \A k \in DOMAIN run.labels :
          IsQualifiedName(k) /\ validateLabelValue(run.labels[k])
    /\ \A k \in DOMAIN run.annotations :
          IsQualifiedName(k) /\ validateAnnotationValue(run.annotations[k])

Respond ==
    /\ pc = "answered"
    /\ pc' = "done"
    /\ IF resp = Allowed /\ ValidObject(Handle(plr))
       THEN stored' = {Handle(plr)} /\ UNCHANGED resp
       ELSE /\ resp' = IF resp = Allowed THEN Invalid ELSE resp
            /\ UNCHANGED stored
    /\ podSets' = IF resp' = Allowed THEN NotAsked ELSE podSets
    /\ UNCHANGED <<cfg, submitted, plr, next, mutations, metrics, submissions>>

\* Mutant: the sign of a quantity is not looked at.
parseQuantityOfAnySign(k, v) ==
    k.requests => /\ k.name \notin {NoKey.name, ConcurrencyToken}
                  /\ v.kind \in {"int", "quantity"}

\* One annotation of the run: FALSE is an unretryable error.
parseResourcesRequestsAnnotation(k, v) ==
    k.requests => /\ k.name \notin {NoKey.name, ConcurrencyToken}
                  /\ v.kind \in {"int", "quantity"}
                  /\ v.n >= 0

resourcesRequests(run) == \A k \in DOMAIN run.annotations :
    parseResourcesRequestsAnnotation(k, run.annotations[k])

\* The annotation of the controller's informer copy is the stored one; its
\* delay is modelled in PipelineRunQueueing.
PodSets ==
    /\ pc = "done" /\ stored # {} /\ podSets = NotAsked
    /\ \E run \in stored :
          podSets' = IF resourcesRequests(run) THEN "requests" ELSE Unretryable
    /\ UNCHANGED <<cfg, submitted, plr, pc, next, mutations, resp, stored,
                   metrics, submissions>>

-----------------------------------------------------------------------------
(* The mutate command.  A file is what it yields: nothing, when its flag is *)
(* empty, when it cannot be read or when it does not parse.                 *)

LoadDefaulter(dir) == {c \in dir : Loads(c)}

\* The loop of CELMutator.evaluate: what the first programs ask for.
Collected(c, run) ==
    LET asked[n \in 0..Len(c.programs)] ==
            IF n = 0 THEN <<>>
            ELSE asked[n - 1] \o Evaluate(c.programs[n], run).mutations
    IN asked

AskedOf(c, run) == Collected(c, run)[Len(c.programs)]

Evaluates(c, run) == \A i \in DOMAIN c.programs : Evaluate(c.programs[i], run).ok

\* Default from start to end.
DefaultAll(c, run) ==
    LET start == Defaulted(c, run)
        asked == AskedOf(c, start)
    IN IF c.programs = <<>> \/ (run.valid /\ Evaluates(c, start))
       THEN Applied(start, asked)[Len(asked)]
       ELSE Refused(start)

\* Mutant: an error of Default is not looked at.
MutateAnyPipelineRun(file, dir) ==
    {RoundTrip(DefaultAll(c, run).run) : c \in LoadDefaulter(dir), run \in file}

\* What is printed: nothing, when a step fails.
MutatePipelineRun(file, dir) ==
    {RoundTrip(r.run) : r \in {x \in {DefaultAll(c, run) : c \in LoadDefaulter(dir),
                                                         run \in file} : x.ok}}

-----------------------------------------------------------------------------

\* The next request: a new run, or the manifest of a stored one.
Submit ==
    /\ pc = "done" /\ submissions < MaxSubmissions
    /\ submissions' = submissions + 1
    /\ \E run \in Submission \cup stored : submitted' = run /\ plr' = run
    /\ pc' = "default" /\ next' = 1 /\ mutations' = <<>> /\ resp' = NoAnswer
    /\ UNCHANGED <<cfg, stored, podSets, metrics>>

Next == Default \/ evaluate \/ Mutate \/ Respond \/ PodSets \/ Submit

Spec == Init /\ [][Next]_vars

-----------------------------------------------------------------------------
(* What an admission is meant to do, without steps: the mutations all      *)
(* programs ask for on the run as it was submitted and defaulted.          *)

Start == Defaulted(cfg, submitted)

Asked == AskedOf(cfg, Start)

\* The last of the mutations that pass the test, 0 if there is none.
LastAsked(Test(_)) == SelectLastInSeq(Asked, Test)

\* The webhook answered with the run in plr.
Admitted == pc \in {"answered", "done"} /\ resp = Allowed

Requests(ms) == {ms[i].key : i \in {j \in DOMAIN ms : ms[j].type = "resource"}}

\* Types, the loop counters of evaluate and Mutate in range, and the Pending
\* status that Default gives every run, whatever status the user wrote.
TypeOK ==
    /\ cfg \in Configuration
    /\ pc \in {"default", "evaluate", "mutate", "answered", "done"}
    /\ pc # "default" => plr.status = "Pending"
    /\ pc = "evaluate" => next \in 1..Len(cfg.programs)
    /\ pc = "mutate" => next \in 1..(Len(mutations) + 1)
    /\ resp \in {NoAnswer, Allowed, BadRequest, InternalError, Invalid}
    /\ podSets \in {NotAsked, "requests", Unretryable}
    /\ \A c \in DOMAIN metrics : metrics[c] \in 0..MaxSubmissions

\* What Default leaves of the submitted run and no mutation takes away again.
IsQueued(run) ==
    /\ run.status = "Pending" /\ QueueLabel \in DOMAIN run.labels
    /\ run.labels[QueueLabel] = Empty =>
          QueueLabel \in DOMAIN submitted.labels /\ submitted.labels[QueueLabel] = Empty

\* What evaluate has made sure of when it hands over a mutation: for resource(),
\* a key that the parser refuses is one that the API server refuses first.
IsChecked(m) ==
    /\ Validate(m)
    /\ m.type = "resource" =>
          /\ m.key.requests /\ Atoi(m.value).ok /\ m.value.n >= 0
          /\ m.key.name \in {NoKey.name, ConcurrencyToken} => ~IsQualifiedName(m.key)

\* The inductive invariant of the proofs: mutations have been validated before
\* the first one is applied, mutations touch no other field of the run, and
\* the stored run is the answer's, until the next request.
AdmissionInv ==
    /\ cfg \in Configuration /\ Loads(cfg)
    /\ IsRun(submitted) /\ IsRun(plr) /\ \A run \in stored : IsRun(run)
    /\ plr.template = submitted.template
    /\ pc = "default" => plr = submitted /\ next = 1
    /\ pc # "default" => IsQueued(plr)
    /\ pc = "evaluate" => /\ next \in DOMAIN cfg.programs
                          /\ plr = Defaulted(cfg, submitted)
    /\ IsSequence(mutations)
    /\ \A i \in DOMAIN mutations : IsChecked(mutations[i])
    /\ pc = "mutate" => next \in Nat \ {0}
    /\ pc = "done" /\ resp = Allowed => stored = {Handle(plr)}
    /\ metrics \in [evaluated : Nat, notEvaluated : Nat, mutated : Nat, notMutated : Nat]
    /\ metrics.evaluated = metrics.mutated + metrics.notMutated
                              + (IF pc = "mutate" THEN 1 ELSE 0)

\* The request in the annotation k of the run, 0 if it has none.
Written(run, k) == IF k \in DOMAIN run.annotations THEN run.annotations[k].n ELSE 0

\* What the calls of resource() on k add up to, from the value that was there
\* (written by the user, or by the last annotation() that overwrote it).
Totals(ms, k, run) ==
    LET total[n \in 0..Len(ms)] ==
            IF n = 0 THEN Written(run, k)
            ELSE IF ms[n].key = k /\ ms[n].type = "annotation" THEN ms[n].value.n
            ELSE IF ms[n].key = k /\ ms[n].type = "resource"
            THEN total[n - 1] + ms[n].value.n
            ELSE total[n - 1]
    IN total

Total(k) == Totals(Asked, k, submitted)[Len(Asked)]

\* No sum leaves the range of int.
SumsFit == \A k \in Requests(Asked) : Total(k) <= MaxInt

\* Every resource that is asked for, and not overwritten by an annotation()
\* after that, is asked for with its total.
IsSummed == \A i \in DOMAIN Asked :
    /\ Asked[i].type = "resource"
    /\ \A j \in DOMAIN Asked : j > i /\ Asked[j].key = Asked[i].key
                                 => Asked[j].type # "annotation"
    => plr.annotations[Asked[i].key] = Itoa(Total(Asked[i].key))

\* README "Value Summing": in an admitted run, the annotation of a resource is
\* the value that was there plus every resource() call after it, whichever
\* expressions the calls come from and whatever other mutations lie between.
ResourcesAreSummed == Admitted => IsSummed

\* mutateResource and parseResourcesRequestsAnnotation, one after the other:
\* Kueue is never asked for less than what the expressions add up to.  A sum
\* that leaves the range of int, in mutateResource or over several submissions
\* of a manifest, is one the controller refuses, never a smaller request.
QueuedRequestsAreExact ==
    podSets = "requests" /\ pc = "done" /\ resp = Allowed => IsSummed

\* The values of a request annotation that mutateResource adds to.
CanBeAddedTo(v) == Atoi(v).ok /\ v.n >= 0

\* mutator.go, mutate, on resource(): "This can happen if the user has manually
\* set the value to a non-integer", and in few other ways: once all expressions have
\* been evaluated, a request is refused only because of a value that the user
\* or an annotation() wrote, or of a sum beyond the range of int.  Whatever
\* else resource() has written can be added to.
SumsStopAtForeignValues ==
    pc = "answered" /\ resp = InternalError /\ Evaluates(cfg, Start) =>
        LET k == mutations[next].key
        IN \/ /\ k \in DOMAIN submitted.annotations
              /\ ~CanBeAddedTo(submitted.annotations[k])
           \/ \E i \in 1..(next - 1) :
                 /\ mutations[i].type = "annotation" /\ mutations[i].key = k
                 /\ ~CanBeAddedTo(mutations[i].value)
           \/ Totals(mutations, k, submitted)[next - 1] > MaxInt

\* README, on managedBy() and multiKueue(): the last routing call wins over
\* the others, over multiKueueOverride and over the user's own value; the
\* queue label is that of the last call that names a queue, and otherwise the
\* user's, and only without one the configured default.
RoutedByLastCall ==
    Admitted =>
        LET Routes(m) == m.type \in {"managedBy", "multiKueue"}
            Queues(m) == \/ m.type = "label" /\ m.key = QueueLabel
                         \/ m.type = "multiKueue" /\ m.value # Empty
            route == LastAsked(Routes)
            queue == LastAsked(Queues)
        IN /\ plr.managedBy = CASE route = 0 -> Start.managedBy
                                [] route # 0 /\ Asked[route].type = "managedBy"
                                     -> Asked[route].value
                                [] OTHER -> MultiKueue
           /\ plr.labels[QueueLabel] = IF queue = 0
                                       THEN Start.labels[QueueLabel]
                                       ELSE Asked[queue].value

\* The comment on evaluate, "all mutations are collected before any are
\* applied": the priority class of an admitted run is the one that the last
\* call asks for on the submitted run, so no expression reacts to a label that
\* another expression sets.
EvaluatedOnSubmittedRun ==
    Admitted =>
        LET SetsPriority(m) == m.type = "label" /\ m.key = PriorityLabel
            last == LastAsked(SetsPriority)
        IN IF last # 0 THEN plr.labels[PriorityLabel] = Asked[last].value
           ELSE PriorityLabel \in DOMAIN plr.labels
                    => plr.labels[PriorityLabel] = submitted.labels[PriorityLabel]

\* What the steps have made of the request so far is what the functions that
\* do Default at once make of it: the second inductive invariant of the proofs.
RequestsAreCounted ==
    /\ submissions \in 1..MaxSubmissions
    /\ metrics.evaluated + metrics.notEvaluated
          + (IF pc \in {"default", "evaluate"} THEN 1 ELSE 0) <= submissions

LoopsFollow ==
    /\ pc \in {"default", "evaluate", "mutate"} => resp = NoAnswer
    /\ pc = "default" => mutations = <<>>
    /\ pc = "evaluate" => /\ submitted.valid
                          /\ \A i \in 1..(next - 1) : Evaluate(cfg.programs[i], Start).ok
                          /\ mutations = Collected(cfg, Start)[next - 1]
    /\ pc = "mutate" => /\ submitted.valid /\ Evaluates(cfg, Start)
                        /\ mutations = Asked
                        /\ Applied(Start, mutations)[next - 1] = Changed(plr)

\* The mutation that Mutate has come to cannot be applied.
StopsAtNext ==
    /\ mutations = Asked /\ next \in DOMAIN mutations
    /\ Applied(Start, mutations)[next - 1] = Changed(plr)
    /\ ~mutate(plr, mutations[next]).ok

AnswerFollows ==
    /\ pc \in {"answered", "done"} =>
          IF resp \in {Allowed, Invalid}
          THEN mutations = Asked /\ DefaultAll(cfg, submitted) = Changed(plr)
          ELSE ~DefaultAll(cfg, submitted).ok
    /\ pc = "answered" /\ resp = InternalError /\ Evaluates(cfg, Start) => StopsAtNext
    /\ pc = "done" /\ resp = Allowed =>
          /\ ValidObject(Handle(plr))
          /\ podSets # NotAsked => (podSets = "requests" <=> resourcesRequests(plr))

OutcomeInv == TypeOK /\ RequestsAreCounted /\ LoopsFollow /\ AnswerFollows

\* patchFilteringWebhook: a stored run has everything Default and Mutate set,
\* and in every other field exactly what the user wrote, for Tekton's own
\* webhook to default.
OnlyIntendedFieldsChange ==
    pc = "done" /\ resp = Allowed =>
        \A run \in stored :
           /\ run.template = submitted.template
           /\ \A f \in {"labels", "annotations", "status", "managedBy"} :
                 run[f] = plr[f]

\* README, "preview how PipelineRuns will be modified by the webhook": the mutate
\* command prints a run exactly when the webhook lets it through, and what it
\* prints is what gets stored, up to the fields the patch filter leaves alone.
PreviewAgrees ==
    pc = "done" =>
        LET printed == MutatePipelineRun({submitted}, {cfg})
        IN /\ printed # {} <=> resp \in {Allowed, Invalid}
           /\ resp = Allowed => \A run \in stored, out \in printed :
                 \A f \in {"labels", "annotations", "status", "managedBy"} :
                    run[f] = out[f]

\* The comment on pipelineRunCustomDefaulter, "suspends each PipelineRun [...],
\* assigns it to a Kueue queue": whatever the expressions do to it, a stored run
\* is Pending and has a queue label, which is empty only if the user's is.
StoredRunsAreQueued ==
    pc = "done" /\ resp = Allowed =>
        \A run \in stored : IsQueued(run)

\* A run that is stored with requests from resource() only, on top of valid
\* ones of the user, is one the controller can hand to Kueue: PodSets never
\* meets an annotation the webhook computed and the parser refuses, which
\* would leave the run Pending for good.  Only while the sums fit an int: one
\* that wraps around is stored as a negative request and then refused (see
\* QueuedRequestsAreExact).
StoredRunsCanBeQueued ==
    podSets = Unretryable /\ pc = "done" /\ resp = Allowed =>
        \/ ~resourcesRequests(submitted)
        \/ \E i \in DOMAIN Asked : Asked[i].type = "annotation"
                                      /\ Asked[i].key.requests

\* The two counters of internal/cel/metrics.go agree: every evaluation that
\* succeeded has exactly one outcome among the mutations, also across denied
\* requests.
EvaluationsHaveOutcomes ==
    metrics.evaluated = metrics.mutated + metrics.notMutated
                           + (IF pc = "mutate" THEN 1 ELSE 0)

-----------------------------------------------------------------------------
(* Statements of the documentation that the code does not meet.            *)

\* README, "Error Handling" of resource(): "Invalid key formats: Keys must
\* follow Kubernetes annotation naming rules" are reported by the function, so
\* a key that it lets through names an annotation.
ResourceKeysAreValid ==
    \A i \in DOMAIN mutations :
        mutations[i].type = "resource" => IsQualifiedName(mutations[i].key)

\* The comment on EvaluationError: it "represents a server-side issue [...]
\* rather than a problem with the PipelineRun itself".  So when no program
\* fails and the expressions did not write the value that cannot be added to,
\* the answer is not an internal error.
EvaluationErrorsAreServerSide ==
    resp = InternalError /\ pc = "answered" =>
        \/ \E i \in DOMAIN cfg.programs :
              ~Evaluate(cfg.programs[i], Start).ok
        \/ \E i \in 1..(next - 1) : /\ mutations[i].type = "annotation"
                                    /\ mutations[i].key = mutations[next].key
=============================================================================
