# TLA+ specifications of tekton-kueue

tekton-kueue lets Kueue decide when Tekton PipelineRuns execute. This directory
models the code that does so, checks it with TLC on small instances, and proves
the main safety properties with TLAPS for every instance.

## The system

| Part | Source | Module | Status |
|---|---|---|---|
| GenericJob adapter: `Stop`, `Finished`, `IsSuspended`, `IsActive`, `PodSets`, `RunWithPodSetsInfo` | `internal/controller/pipelinerun_controller.go` | `PipelineRunQueueing` | modelled |
| Pending-status reconciler | `internal/controller/pipelinerun_status_reconciler.go` | `PipelineRunQueueing` | modelled |
| Webhook defaulter | `internal/webhook/v1/pipelinerun_webhook.go` | `ConfigStore`, `Admission` | modelled |
| Patch filter | same file | `Admission` | modelled |
| Configuration store | `internal/webhook/v1/config_store.go` | `ConfigStore` | modelled |
| ConfigMap reconciler | `internal/controller/configmap_controller.go` | `ConfigStore` | modelled |
| CEL functions, results | `internal/cel/{compiler,evaluator,types}.go` | `CELMutations` | partly: cel-go's parser, type checker and interpreter and `replace()` are left out |
| CEL mutator | `internal/cel/mutator.go` | `CELMutations`, `Admission` | modelled |
| Metrics | `internal/cel/metrics.go`, `internal/webhook/v1/metrics.go` | `Admission` | partly: the CEL counters |
| `mutate` command | `pkg/mutate/mutate.go` | `Admission` | modelled |
| Process set-up | `cmd/main.go` | | not modelled: flags, TLS, manager wiring |
| Generated code | `zz_generated.deepcopy.go` | | not modelled |

The webhook process admits a PipelineRun: it suspends it (`Pending`), gives it a
queue, and applies the configured CEL expressions. The controller process
presents the run to Kueue, starts it when Kueue admits its Workload and stops it
when Kueue takes the admission back. A second reconciler reports a condition
on runs that MultiKueue manages. The two processes share nothing but the API
objects.

## Modules

**`PipelineRunQueueing`** is the life of the runs. `plr` and `wl` are the
PipelineRun and Workload objects, `seen` and `seenWl` the informer's copies.
Every reconcile works on copies; a write carries the copy's resourceVersion and
is refused when the object has changed. Only equality of versions matters, so
`fresh` records whether a copy is current, and a refused write is a step that
does not happen (the reconcile returns the error and is retried). The copy of an
object may be arbitrarily old; when it is updated it becomes the current
version. The methods of the adapter are operators on a copy. Kueue's generic
reconciler, which calls them, is external: its outcomes are the actions
`ReconcileGone` to `ReconcileNotAdmitted`, in the order of its checks. Where it
writes twice (stop the run, then change the Workload), the second write may
fail. Users may cancel, delete and, in one run, resume a PipelineRun by hand;
the executor is Tekton, or MultiKueue copying a remote status.

Users may also edit the resource annotations (`Annotate`) and put earlier ones
back (`Revert`). `requests` numbers the editions of the annotations, and a
Workload remembers the edition its pod sets were made from. When they differ,
Kueue updates the Workload of a suspended run that holds no quota
(`ReconcileChangedRequests`) and otherwise stops the run and removes the Workload
(`ReconcileMismatch`). While the annotations cannot be parsed, `PodSets` fails and
no reconcile gets past it. Three conditions name what a property depends on:
`ByTheQueue` (nobody resumes a run by hand or restores annotations), `NoEdits`
and `NoRemovals` (no Workload is taken away from an executing run).

**`QuotaGate`** is what the whole promises: a run is submitted, released while
fewer than `Quota` are, and ends. `ImplementsQuotaGate` maps a run's
`spec.status` and condition to its phase.

**`ConfigStore`** is the webhook process: the ConfigMap, its cached copy, the
reconciler with its retries, the RWMutex step by step, and concurrent admission
requests. A waiting writer keeps new readers out, as Go's RWMutex does.
**`ConfigRegister`** is its promise: one register that holds the last usable
document.

**`CELMutations`** are the functions of `internal/cel` as operators: what a
program asks for, and what `mutate` does with it. A program is its output type,
a condition on the labels, and the calls it makes; `CompileCELPrograms` refuses
the ones whose type is no mutation. What the type does not show fails in
`Evaluate`, for some runs or for all: a label or a field that a condition or an
argument reads and the run does not have (`NoSuchKey`, which stands for all
runtime errors of cel-go), a map whose Go type or content is not that of a
mutation (`convertSingleMutation`), an empty value (`Validate`). Keys keep their slashes and the length of
their name part, values whether they are numerals, other quantities or text;
integers wrap at `IntBits`. **`Admission`** puts them in
order: `Default`, one step per program, one step per mutation, the patch filter,
the API server's validation and the controller's `PodSets` on the stored run.
`MutatePipelineRun` is the mutate command: the same functions applied to a file
in one go (`DefaultAll`), without the filter and the API server. The two loops of
`internal/cel/mutator.go` appear twice: step by step in the actions `evaluate` and
`Mutate`, and as the recursive functions `Collected` and `Applied`, which the
properties and the mutate command use.

`MCQueueing`, `MCConfigStore` and `MCAdmission` give TLC its constants.
Operators marked "Mutant" are plausible mistakes in the code next to them; each
of them breaks a property and shows that the property depends on that code.

## Runs

| Configuration | Question | Bounds |
|---|---|---|
| `QueueingOneRun` | Does a run ever execute without quota, or on quota for something else, lose its status or verdict, or come back after a stop? | 1 run, every managedBy, 2 evictions, 2 edits of the annotations, cancel, delete, Workload deletion |
| `QueueingQuota` | Are there ever more released or executing runs than quota? Does an executing run keep its token? Can an unparsable one take it? Is it the gate? | 2 runs, quota 1, 1 eviction, cancel |
| `QueueingProgress` | Does every run end when runs compete and are evicted? | 2 runs, quota 1, 1 eviction, fair |
| `QueueingManual` | Is a run that was resumed by hand stopped? Does one whose annotations were broken and repaired end, and return its quota? Is a pending one reported? | 1 run; resume, edits, restored annotations and Workload deletions without limit; fair |
| `ConfigStoreSafety` | Does a request ever see half of a reload? | 2 requests, 5 documents, 1 restart |
| `ConfigStoreLiveness` | Is a good document loaded, is every request answered? | 1 request, 5 documents, fair |
| `Admission` | Do sums, routing and evaluation order agree with a definition without steps? Are stored runs suspended and queued? Does the mutate command agree, also on runs that an expression fails on? | up to 2 of 23 expressions, every kind of submission, 8-bit int |
| `AdmissionResubmit` | And when stored manifests are submitted again, until sums overflow? What makes `resource()` fail? Are the two invariants of the proofs invariants? | 3 submissions, 3-bit int |

Bounds. A violation of quota needs two runs and one token. Two evictions give
an eviction after a requeue. With two edits, a Workload, its copy and the run
can be at three different editions. The five documents are one of each kind
`Update` tells apart. Two expressions suffice for one to overwrite, add to or
depend on another. Symmetry is used only in runs without liveness properties.
Deadlock is not checked where a behaviour ends by itself: all runs ended, or the bound on
submissions reached. In `Admission.cfg` the int is wide enough that no sum of the
instance reaches its limit; in `AdmissionResubmit.cfg` two calls reach it.

`EveryRunEnds` assumes that administrators delete the run's Workload finitely
often, and that from some point on its annotations stay what they are and can
be parsed.

Fairness. Informers deliver and work queues retry (weak fairness of the
synchronisations and of both reconcilers), Kueue's scheduler admits when quota
is free, and an executor runs what it was given. No step of a user, an
administrator or an eviction is assumed to happen. In `ConfigStore`, `RLock` is strongly fair: an
Unlock lets in the readers that wait before the next writer.

### Disagreements with the documentation

Four runs end in a violation, each a statement of the documentation that the
code does not meet.

- `ConfigStoreReadme`: `README.md` enables MultiKueue with a ConfigMap that
  holds only `multiKueueOverride: true`; `validateConfig` refuses a document
  without a queue name, so it is never loaded.
- `AdmissionOverflow`: values of `resource()` are added without an overflow check.
  The instance has a 3-bit int; in the code it takes values near 2^63. The run
  then stays suspended, as `PodSets` fails on it; it is never queued with a smaller
  request (`QueuedRequestsAreExact`).
- `AdmissionKeys`: `resource()` validates the name before it adds its prefix, so
  `example.com/cpu` passes and its annotation key is invalid.
- `AdmissionErrors`: a user's annotation such as `500m` under a `resource()` call is
  answered as an internal error, which the comment on `EvaluationError` reserves
  for problems that are not the PipelineRun's.

One more has no run of its own, and a test of the repository expects it
(`evaluator_test.go`, "pacEventType variable with missing label"): an expression
`annotation("tekton.dev/event-type", pacEventType)` fails for a run without that
label, because the empty value does not pass `Validate`. The `Admission` run
reaches this answer with the expression `EventType`. The README's example of the
mutate command has this expression and a run without labels, so it is refused
instead of printed.

## Proofs

Three components are proved about, each from an inductive invariant that a TLC
run checks first.

**The queue**, for any finite set of runs, any quota, any bounds on evictions and
edits, and any operations of users and administrators. The proof is split in
three: `QueueingSteps_proofs` has the lemmas on records and the steps of users,
executor and scheduler, `QueueingReconciles_proofs` the steps of the reconcilers
and the invariant, `PipelineRunQueueing_proofs` what follows from it.

- `QueueInvariant`: `QueueInv`. `ReleasedHoldsQuota` is not inductive by itself: a
  start is decided on copies of the run and of the Workload. The invariant adds
  that copies lag behind their objects (`CopiesLag`, `EditionsInOrder`), and that a
  run which may still be started and which even an old copy shows as admitted
  holds quota now, for the same edition of its annotations (`MatchesWorkload`,
  `ReleaseIsBacked`). That holds because quota is given back only in a step whose
  `Stop` succeeded or found nothing to stop. `ExecutionIsBacked` says the same of
  a run that has started, for `ActiveHoldsQuota`.
- `TypeCorrect`, `ReleasedRunsHoldQuota`, `ActiveRunsHoldQuota`,
  `UnparsableRunsAreNotQueued`, `VerdictsAreRecorded`: consequences of it, under
  the conditions `ByTheQueue`, `NoRemovals` and `NoEdits` in their statements.
- `ConcurrencyIsLimited` and `ExecutionsAreLimited`: released runs are a subset of
  the holders of quota, and so are the runs that execute, by `ActiveHoldsQuota`.
  That there are no more holders than quota is Kueue's part, the guard of
  `Reserve` (the lemma `QuotaIsNeverExceeded`).
- `SpecStatusIsMonotone`, `StatusIsKept` and `ReleasesAreBacked`: the action
  properties, from the classification of every step as a write of one run's
  spec, status, annotations or existence.
- `QueueingImplementsGate`: refinement of `QuotaGate`, assuming `ByTheQueue`.

**The configuration store** (`ConfigStore_proofs`), for any documents, any
number of concurrent requests and any number of restarts.

- `StoreInvariant`: `StoreInv`. A writer excludes readers; `config` and `mutators`
  come from the same usable document except between the two assignments of
  `Update`; what a request has read so far fits together.
- `TypeCorrect`, `RequestsSeeOneDocument`: consequences.
- `StoreImplementsRegister`: every step is a step of `ConfigRegister` or leaves it
  alone. `SetConfig` is the step that changes the register; the half-written
  store before it is invisible because no reader is inside.

**Admission**, for any configurations with any number of expressions and calls,
any submitted runs and any number of requests. `Admission_proofs` has the first
invariant and what follows from it alone:

- `AdmissionInvariant`: `AdmissionInv`. Every collected mutation has been
  validated, so that no later one can blank the queue label, and touches no
  field other than those the filter lets through.
- `RunsAreStoredQueued`, `FilterKeepsIntent` and `OutcomesAddUp`: consequences of
  it.

The properties of a finished request speak of all its mutations at once. Their
proof has two halves, which `AdmissionOutcome_proofs` joins.

- The steps compute the functions. `OutcomeInvariant`: `OutcomeInv`. While `evaluate`
  runs, `mutations` is what the programs so far ask for on the run `Default` left;
  while `Mutate` runs, `plr` is what the mutations so far make of that run; and the
  answer is that of `DefaultAll`; when a mutation cannot be applied, it is the one
  `Mutate` has come to. It needs `AdmissionInv` for the types of what is
  collected. `AdmissionTypes` (`TypeOK`) is a conjunct of it: the counters of the
  metrics are bounded only because each request is counted once.
- The functions have the properties. `AdmissionFunctions_proofs` shows that the
  recursive functions exist and unfold, and that an `Applied` without an error is a
  chain of runs, each made by one mutation. `AdmissionLast_proofs` shows by
  induction on the length of the chain that the last call on a label, on
  managedBy or on an annotation decides (`LastLabel`, `LastRoute`, `LastSum`). The
  induction is on a set of naturals (`NaturalInduction`, from the well-foundedness
  of `<`), because the library's induction rule takes an operator as a parameter.
- `OnlyForeignValuesStopSums` (`SumsStopAtForeignValues`) applies `LastSum` to the
  mutations before the one that failed. What `resource()` has written and what fits
  an int can be added to, so the value that stopped it is the user's, that of an
  `annotation()`, or a sum that wrapped around.
- From both: `LastCallRoutes` (`RoutedByLastCall`), `EvaluationPrecedesMutation`
  (`EvaluatedOnSubmittedRun`) and `PreviewIsTheWebhooks` (`PreviewAgrees`).
- `ResourcesAddUp` and `ComputedRequestsParse` prove `ResourcesAreSummed` and
  `StoredRunsCanBeQueued` in the states where `SumsFit`: no sum is beyond the
  largest int. `AdmissionOverflow` shows that the first fails without it. `LastSum`
  says what the code does then: since `mutate` refuses to add to a negative
  number, a sum is at most twice the largest int, and the annotation is the
  sum wrapped once. `ComputedRequestsParse` also rests on the API server: a resource name that
  the parser refuses only passes `resource()` with a slash of its own, so that its
  annotation is refused before it is stored.
- `QueuedForTheirTotals` (`QueuedRequestsAreExact`) needs no `SumsFit`: a sum that
  was wrapped once is negative, and `parseResourcesRequestsAnnotation` refuses a
  negative quantity, so what Kueue is asked for is the sum itself. The check in
  the controller makes up for the one that `mutate` lacks.

The assumptions are those of the modules. `Run` is finite; `Quota`,
`MaxEvictions`, `MaxEdits` and `MaxRestarts` are naturals (`RunAssumption` and its
neighbours). The documents are well-formed records of the constants
(`DocAssumption`). Submitted runs are records with the fields of a run, programs
are finite sequences of calls, and calls have the argument types cel-go's checker
enforces (`SubmissionAssumption`, `ConfigurationAssumption`, `CallsAssumption`); the
slashes and the length of a key fit its name (`IsKey`: the concurrency token
`tekton.dev/pipelineruns` has a slash, the empty key no length).
`MaxSubmissions` and `IntBits` are positive; `IntBitsAssumption` also spells out that
`2^(IntBits - 1)` is a positive natural and half of `2^IntBits`, arithmetic that the
provers have no rules for. Kueue, Tekton, cel-go and the API server are as
modelled.

Only model-checked: the liveness properties (`EveryRunEnds`, `QuotaIsReturned`,
`BypassIsStopped`, `PendingIsReported`, `LatestConfigWins`, `RequestsAreAnswered`),
because fairness is out of the prover's reach. Every safety property of a passing
run has a theorem.

## Not modelled

- Tekton's own cache: it picks a run up before it writes the start time, so its
  first tasks may start while the quota is given back. `ActiveHoldsQuota` speaks
  of the start time, `ReleasedHoldsQuota` of `spec.status`: the two things this
  code can see.
- cel-go: the type of an expression is given, not computed, and so are the
  calls it makes. A condition is a test for a label, with `has()` or without;
  of the keys and values a call may compute from the run, only one label is
  modelled, and every other one that cannot be computed is `NoSuchKey`.
  `replace()` only computes an argument.
- `pacTestEventType` and `plrNamespace`: variables like `pacEventType`.
- A patch that adds the whole `spec`; Tekton refuses a run without one.
- A configuration that changes between the admission of a run and its release:
  the two processes share no state but the stored run, whose every form is an
  initial state of its queueing, so a composition would add no behaviour.
- YAML, files, reload counters, logging, certificates, leader election, and the
  probes, which answer without looking at the store.
