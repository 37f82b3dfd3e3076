---------------------------- MODULE ConfigStore ----------------------------
(***************************************************************************)
(* The webhook process: the ConfigStore that the ConfigMapReconciler       *)
(* reloads while admission requests read it (src/internal/webhook/v1 and   *)
(* src/internal/controller/configmap_controller.go).                       *)
(*                                                                         *)
(* A document is the raw text under the ConfigMap's key, given by name;    *)
(* what parsing and compiling it yields are constants.  The store's config *)
(* pointer is the name of the document it was parsed from, its mutators    *)
(* the expressions they were compiled from.  The steps of Update and       *)
(* GetConfigAndMutators are separate, so that the RWMutex matters: the     *)
(* writer holds it while rec.pc is in Writing, a reader while its pc is in *)
(* Reading.                                                                *)
(***************************************************************************)
EXTENDS Naturals

CONSTANTS
    Doc,           \* names of the documents the ConfigMap may hold
    WellFormed,    \* the documents that are valid YAML for a Config
    QueueName,     \* queueName of a document, NoName when it is not set
    Override,      \* the documents with multiKueueOverride: true
    Expressions,   \* the CEL expressions of a document, NoProgram for none
    Compiling,     \* the expressions that compile
    Request,       \* concurrent admission requests
    UserQueue,     \* queue labels that users put on their PipelineRuns
    MaxRestarts    \* bound on restarts of the webhook

NoName == "unset"
NoProgram == "no expressions"
Nil == "nil"
Absent == "absent"           \* there is no ConfigMap
NoKey == "no key"            \* the ConfigMap lacks the key config.yaml
MultiKueue == "kueue.x-k8s.io/multikueue"

ASSUME DocAssumption ==
    /\ {Nil, Absent, NoKey} \cap Doc = {}
    /\ WellFormed \subseteq Doc
    /\ DOMAIN QueueName = Doc
    /\ DOMAIN Expressions = Doc
    /\ Nil \notin {Expressions[d] : d \in Doc}

ASSUME RestartsAssumption == MaxRestarts \in Nat

VARIABLES
    cm,         \* the ConfigMap in the API server
    cmSeen,     \* the manager's cached copy of it
    queued,     \* the reconciler's work queue holds the ConfigMap
    rec,        \* the reconciler's step, and the document it works on
    config,     \* ConfigStore.config
    mutators,   \* ConfigStore.mutators
    req,        \* the admission requests
    restarts

vars == <<cm, cmSeen, queued, rec, config, mutators, req, restarts>>

Writing == {"check", "setMutators", "setConfig"}
Reading == {"readConfig", "readMutators"}

NoResult == [outcome |-> "none", queue |-> NoName, managedBy |-> Nil]

NewRequest == [pc |-> "idle", userQueue |-> NoName, config |-> Nil,
               mutators |-> Nil, result |-> NoResult]

Idle == [pc |-> "idle", raw |-> Nil]

Init ==
    /\ cm \in Doc \cup {Absent, NoKey}
    /\ cmSeen = Absent
    /\ queued = FALSE
    /\ rec = Idle
    /\ config = Nil /\ mutators = Nil
    /\ req = [r \in Request |-> NewRequest]
    /\ restarts = 0

-----------------------------------------------------------------------------
(* The administrator, the informer and a restart of the process.           *)

EditConfigMap ==
    /\ \E c \in (Doc \cup {Absent, NoKey}) \ {cm} : cm' = c
    /\ UNCHANGED <<cmSeen, queued, rec, config, mutators, req, restarts>>

SyncConfigMap ==
    /\ cmSeen # cm
    /\ cmSeen' = cm
    /\ queued' = TRUE
    /\ UNCHANGED <<cm, rec, config, mutators, req, restarts>>

\* Requests in flight fail, and the API server denies them.
Restart ==
    /\ restarts < MaxRestarts
    /\ restarts' = restarts + 1
    /\ cmSeen' = Absent /\ queued' = FALSE /\ rec' = Idle
    /\ config' = Nil /\ mutators' = Nil
    /\ req' = [r \in Request |-> NewRequest]
    /\ UNCHANGED cm

-----------------------------------------------------------------------------
(* ConfigMapReconciler.Reconcile and ConfigStore.Update.                   *)

parseConfig(d) == d \in WellFormed

validateConfig(d) == QueueName[d] # NoName

CompileCELPrograms(d) == Expressions[d] \in Compiling \cup {NoProgram}

Accepts(d) == parseConfig(d) /\ validateConfig(d) /\ CompileCELPrograms(d)

\* Mutant: a missing ConfigMap or key is handed to Update.
ReconcileAnything ==
    /\ queued /\ rec.pc = "idle"
    /\ queued' = FALSE
    /\ rec' = [pc |-> "lock", raw |-> cmSeen]
    /\ UNCHANGED <<cm, cmSeen, config, mutators, req, restarts>>

\* Without a ConfigMap or without its key the store stays as it is.
Reconcile ==
    /\ queued /\ rec.pc = "idle"
    /\ queued' = FALSE
    /\ rec' = IF cmSeen \in {Absent, NoKey} THEN Idle
              ELSE [pc |-> "lock", raw |-> cmSeen]
    /\ UNCHANGED <<cm, cmSeen, config, mutators, req, restarts>>

\* mu.Lock: new readers wait from now on, ...
Lock ==
    /\ rec.pc = "lock"
    /\ rec' = [rec EXCEPT !.pc = "wait"]
    /\ UNCHANGED <<cm, cmSeen, queued, config, mutators, req, restarts>>

\* Mutant: the mutex does not wait for the readers.
LockAcquiredAtOnce ==
    /\ rec.pc = "wait"
    /\ rec' = [rec EXCEPT !.pc = "check"]
    /\ UNCHANGED <<cm, cmSeen, queued, config, mutators, req, restarts>>

\* ... and the lock is taken when the current ones have left.
LockAcquired ==
    /\ rec.pc = "wait"
    /\ \A r \in Request : req[r].pc \notin Reading
    /\ rec' = [rec EXCEPT !.pc = "check"]
    /\ UNCHANGED <<cm, cmSeen, queued, config, mutators, req, restarts>>

\* Mutant: the early return forgets the Unlock.
RejectKeepsLock ==
    /\ rec.pc = "check" /\ ~Accepts(rec.raw)
    /\ queued' = TRUE
    /\ UNCHANGED <<cm, cmSeen, rec, config, mutators, req, restarts>>

\* A document that is refused leaves the store alone and is retried.
Reject ==
    /\ rec.pc = "check" /\ ~Accepts(rec.raw)
    /\ rec' = Idle
    /\ queued' = TRUE
    /\ UNCHANGED <<cm, cmSeen, config, mutators, req, restarts>>

Accept ==
    /\ rec.pc = "check" /\ Accepts(rec.raw)
    /\ rec' = [rec EXCEPT !.pc = "setMutators"]
    /\ UNCHANGED <<cm, cmSeen, queued, config, mutators, req, restarts>>

SetMutators ==
    /\ rec.pc = "setMutators"
    /\ mutators' = Expressions[rec.raw]
    /\ rec' = [rec EXCEPT !.pc = "setConfig"]
    /\ UNCHANGED <<cm, cmSeen, queued, config, req, restarts>>

\* The deferred Unlock is part of the last step.
SetConfig ==
    /\ rec.pc = "setConfig"
    /\ config' = rec.raw
    /\ rec' = Idle
    /\ UNCHANGED <<cm, cmSeen, queued, mutators, req, restarts>>

-----------------------------------------------------------------------------
(* pipelineRunCustomDefaulter.Default, called by the admission handler.    *)

Arrive(r) ==
    /\ req[r].pc \in {"idle", "done"}
    /\ \E q \in UserQueue \cup {NoName} :
          req' = [req EXCEPT ![r] = [NewRequest EXCEPT !.pc = "rlock",
                                                       !.userQueue = q]]
    /\ UNCHANGED <<cm, cmSeen, queued, rec, config, mutators, restarts>>

\* Mutant: GetConfigAndMutators reads without the lock.
RLockMissing(r) ==
    /\ req[r].pc = "rlock"
    /\ req' = [req EXCEPT ![r].pc = "readConfig"]
    /\ UNCHANGED <<cm, cmSeen, queued, rec, config, mutators, restarts>>

RLock(r) ==
    /\ req[r].pc = "rlock"
    /\ rec.pc \notin Writing \cup {"wait"}
    /\ req' = [req EXCEPT ![r].pc = "readConfig"]
    /\ UNCHANGED <<cm, cmSeen, queued, rec, config, mutators, restarts>>

ReadConfig(r) ==
    /\ req[r].pc = "readConfig"
    /\ req' = [req EXCEPT ![r].config = config, ![r].pc = "readMutators"]
    /\ UNCHANGED <<cm, cmSeen, queued, rec, config, mutators, restarts>>

\* The deferred RUnlock is part of this step.
ReadMutators(r) ==
    /\ req[r].pc = "readMutators"
    /\ req' = [req EXCEPT ![r].mutators = mutators, ![r].pc = "default"]
    /\ UNCHANGED <<cm, cmSeen, queued, rec, config, mutators, restarts>>

\* Mutant: the configured queue replaces the user's.
QueueLabelOverwrites(q, c) == QueueName[c]

\* The queue label a run leaves with: the user's own, else the configured one.
QueueLabel(q, c) == IF q # NoName THEN q ELSE QueueName[c]

ManagedByOf(c) == IF c \in Override THEN MultiKueue ELSE Nil

\* What the mutators may answer: nothing fails when there are none.
MutateOutcome(m) ==
    IF m = NoProgram THEN {"admitted"}
    ELSE {"admitted", "badRequest", "internalError"}

\* A nil config is dereferenced: the handler panics and the request fails.
Default(r) ==
    /\ req[r].pc = "default"
    /\ IF req[r].config = Nil
       THEN req' = [req EXCEPT ![r].pc = "done",
                                 ![r].result = [NoResult EXCEPT !.outcome = "panic"]]
       ELSE \E o \in MutateOutcome(req[r].mutators) :
              req' = [req EXCEPT ![r].pc = "done",
                        ![r].result = [outcome |-> o,
                                       queue |-> QueueLabel(req[r].userQueue, req[r].config),
                                       managedBy |-> ManagedByOf(req[r].config)]]
    /\ UNCHANGED <<cm, cmSeen, queued, rec, config, mutators, restarts>>

-----------------------------------------------------------------------------

Update == Lock \/ LockAcquired \/ Reject \/ Accept \/ SetMutators \/ SetConfig

Serve(r) == RLock(r) \/ ReadConfig(r) \/ ReadMutators(r) \/ Default(r)

Next ==
    \/ EditConfigMap \/ SyncConfigMap \/ Restart
    \/ Reconcile \/ Update
    \/ \E r \in Request : Arrive(r) \/ Serve(r)

Spec == Init /\ [][Next]_vars

\* The informer delivers, the reconciler's worker runs and goroutines that can
\* proceed do.  An Unlock lets in every reader that waits before the next
\* writer, hence strong fairness for RLock.
Fairness ==
    /\ WF_vars(SyncConfigMap)
    /\ WF_vars(Reconcile)
    /\ WF_vars(Update)
    /\ \A r \in Request : SF_vars(RLock(r)) /\ WF_vars(Serve(r))

FairSpec == Spec /\ Fairness

-----------------------------------------------------------------------------
(* Properties.                                                             *)

Worker == [pc : {"idle", "lock", "wait"} \cup Writing, raw : Doc \cup {Nil}]

Mutators == {Expressions[d] : d \in Doc} \cup {Nil}

Result ==
    [outcome : {"none", "admitted", "badRequest", "internalError", "panic"},
     queue : UserQueue \cup {QueueName[d] : d \in Doc} \cup {NoName},
     managedBy : {MultiKueue, Nil}]

AdmissionRequest ==
    [pc : {"idle", "rlock", "default", "done"} \cup Reading,
     userQueue : UserQueue \cup {NoName},
     config : Doc \cup {Nil},
     mutators : Mutators,
     result : Result]

\* Types of the store, the reconciler and the requests: Update only ever works
\* on a document, never on a missing ConfigMap or key.
TypeOK ==
    /\ cm \in Doc \cup {Absent, NoKey}
    /\ cmSeen \in Doc \cup {Absent, NoKey}
    /\ queued \in BOOLEAN
    /\ rec \in Worker
    /\ config \in Doc \cup {Nil}
    /\ mutators \in Mutators
    /\ req \in [Request -> AdmissionRequest]
    /\ restarts \in 0 .. MaxRestarts

\* The documents a webhook can work with.
Usable == {d \in WellFormed : /\ QueueName[d] # NoName
                              /\ Expressions[d] \in Compiling \cup {NoProgram}}

\* What belongs to the configuration c.
MutatorsOf(c) == IF c = Nil THEN Nil ELSE Expressions[c]

\* A run that was answered with result s, having asked for queue q, was treated
\* as the document d says.
TreatedBy(d, q, s) ==
    /\ s.queue = IF q = NoName THEN QueueName[d] ELSE q
    /\ s.managedBy = IF d \in Override THEN MultiKueue ELSE Nil

\* What a request has read fits together: the lock it reads under keeps Update
\* away between its two reads.
ReadsFit(r) ==
    /\ r.pc = "readMutators" => r.config = config
    /\ r.pc \in {"default", "done"} =>
          r.config \in Usable \cup {Nil} /\ r.mutators = MutatorsOf(r.config)
    /\ r.result.outcome = "admitted" =>
          r.pc = "done" /\ r.config # Nil /\ TreatedBy(r.config, r.userQueue, r.result)

\* The inductive invariant: Update and the readers exclude each other, only a
\* usable document gets past the checks, and the two fields of the store differ
\* only between the two assignments of Update.
StoreInv ==
    /\ TypeOK
    /\ rec.pc # "idle" => rec.raw \in Doc
    /\ rec.pc \in {"setMutators", "setConfig"} => rec.raw \in Usable
    /\ config \in Usable \cup {Nil}
    /\ mutators = IF rec.pc = "setConfig" THEN Expressions[rec.raw]
                  ELSE MutatorsOf(config)
    /\ \A r \in Request : /\ rec.pc \in Writing => req[r].pc \notin Reading
                          /\ ReadsFit(req[r])

\* GetConfigAndMutators and Update: a run is admitted with the queue, the
\* managedBy and the mutators of one and the same usable document, never with
\* the config of one and the mutators of another, and never before a load; the
\* queue is the user's when the run names one.
OneDocumentPerRequest == \A r \in Request :
    req[r].result.outcome = "admitted" =>
        \E d \in Usable :
            /\ req[r].config = d /\ req[r].mutators = Expressions[d]
            /\ TreatedBy(d, req[r].userQueue, req[r].result)

\* Reconcile retries and Update unlocks on every path: a usable document that
\* stays in the ConfigMap becomes the configuration, whatever was there before.
LatestConfigWins == \A d \in Usable : <>[](cm = d) => <>[](config = d)

\* Every admission request is answered, also while documents that are refused
\* are retried for ever, unless the process restarts.
RequestsAreAnswered == \A r \in Request :
    req[r].pc = "rlock" ~> req[r].pc \in {"done", "idle"}

Register == INSTANCE ConfigRegister
    WITH value <- config,
         Unread <- [config |-> "unread", mutators |-> "unread"],
         got <- [r \in Request |->
                   IF req[r].pc \in {"default", "done"}
                   THEN [config |-> req[r].config, mutators |-> req[r].mutators]
                   ELSE [config |-> "unread", mutators |-> "unread"]]

\* The lock makes the two fields of the store one register, and Update keeps
\* its last usable value.
ImplementsRegister == Register!Spec

\* README.md says that a ConfigMap with nothing but multiKueueOverride: true is
\* loaded: every well-formed document with the override takes effect.
OverrideIsLoaded == \A d \in WellFormed \cap Override :
    <>[](cm = d) => <>(config = d)
=============================================================================
