------------------------- MODULE ConfigStore_proofs -------------------------
(***************************************************************************)
(* Proofs about ConfigStore, for any documents, any number of concurrent   *)
(* requests and any number of restarts: the invariant StoreInv, and from   *)
(* it that a request sees one document and that the store is a register.   *)
(***************************************************************************)
EXTENDS ConfigStore, TLAPS

USE DEF Writing, Reading, Nil, Absent, NoKey, NoName, MultiKueue, NoProgram

-----------------------------------------------------------------------------
(* Updates of the records stay in their types.                             *)

\* The reconciler's steps.
LEMMA RecUpdate ==
    /\ Idle \in Worker
    /\ \A d \in Doc : [pc |-> "lock", raw |-> d] \in Worker
    /\ \A r \in Worker : \A c \in {"wait"} \cup Writing :
          [r EXCEPT !.pc = c] \in Worker
<1>1. Idle \in Worker
  BY DEF Idle, Worker
<1>2. ASSUME NEW d \in Doc PROVE [pc |-> "lock", raw |-> d] \in Worker
  BY DEF Worker
<1>3. ASSUME NEW r \in Worker, NEW c \in {"wait"} \cup Writing
      PROVE  [r EXCEPT !.pc = c] \in Worker
  <2> HIDE DEF Writing, Nil
  <2> QED BY Zenon DEF Worker
<1> QED BY <1>1, <1>2, <1>3

\* A request that has read nothing yet.
LEMMA NewRequestType ==
    /\ NewRequest \in AdmissionRequest
    /\ \A q \in UserQueue \cup {NoName} :
          [NewRequest EXCEPT !.pc = "rlock", !.userQueue = q] \in AdmissionRequest
<1>1. NoResult \in Result
  BY DEF NoResult, Result
<1>2. NewRequest \in AdmissionRequest
  BY <1>1 DEF NewRequest, AdmissionRequest, Mutators
<1>3. \A r \in AdmissionRequest : \A q \in UserQueue \cup {NoName} :
         [r EXCEPT !.pc = "rlock", !.userQueue = q] \in AdmissionRequest
  <2> HIDE DEF Reading, Nil, NoName
  <2> QED BY Zenon DEF AdmissionRequest
<1> QED BY <1>2, <1>3

\* The reads of a request.
LEMMA ReadUpdate ==
    ASSUME NEW r \in AdmissionRequest
    PROVE  /\ [r EXCEPT !.pc = "readConfig"] \in AdmissionRequest
           /\ \A c \in Doc \cup {Nil} :
                 [r EXCEPT !.config = c, !.pc = "readMutators"] \in AdmissionRequest
           /\ \A m \in Mutators :
                 [r EXCEPT !.mutators = m, !.pc = "default"] \in AdmissionRequest
<1>1. {"readConfig", "readMutators"} \subseteq Reading
  OBVIOUS
<1> HIDE DEF Reading, Nil, NoName
<1> QED BY <1>1, Zenon DEF AdmissionRequest

\* Its answer.
LEMMA AnswerUpdate ==
    ASSUME NEW r \in AdmissionRequest, NEW s \in Result
    PROVE  [r EXCEPT !.pc = "done", !.result = s] \in AdmissionRequest
<1> HIDE DEF Reading, Nil, NoName
<1> QED BY Zenon DEF AdmissionRequest

\* The documents that pass the checks of Update are the usable ones.
LEMMA AcceptedIsUsable ==
    ASSUME NEW d \in Doc
    PROVE  Accepts(d) <=> d \in Usable
BY DocAssumption
   DEF Accepts, parseConfig, validateConfig, CompileCELPrograms, Usable

\* Usable documents are documents, and have mutators.
LEMMA UsableFacts ==
    /\ Usable \subseteq Doc
    /\ Nil \notin Doc
    /\ \A d \in Doc : MutatorsOf(d) = Expressions[d] /\ Expressions[d] \in Mutators
    /\ MutatorsOf(Nil) = Nil /\ Nil \in Mutators
BY DocAssumption DEF Usable, MutatorsOf, Mutators

-----------------------------------------------------------------------------
(* StoreInv is inductive.                                                  *)

\* The process starts with an empty store.
LEMMA InitInv == Init => StoreInv
<1> SUFFICES ASSUME Init PROVE StoreInv
  OBVIOUS
<1>1. TypeOK
  <2>1. req \in [Request -> AdmissionRequest]
    BY NewRequestType DEF Init
  <2>2. rec \in Worker /\ restarts \in 0 .. MaxRestarts
    <3>1. 0 \in 0 .. MaxRestarts
      BY RestartsAssumption
    <3> QED BY <3>1, RecUpdate DEF Init
  <2>3. Nil \in Mutators
    BY UsableFacts
  <2> QED BY <2>1, <2>2, <2>3 DEF Init, TypeOK
<1>2. ReadsFit(NewRequest)
  BY DEF ReadsFit, NewRequest, NoResult
<1>3. \A r \in Request : req[r] = NewRequest /\ req[r].pc \notin Reading
  BY DEF Init, NewRequest
<1> QED BY <1>1, <1>2, <1>3, UsableFacts DEF Init, StoreInv, Idle

\* The administrator and the informer do not touch the store.
LEMMA EnvironmentInv ==
    ASSUME StoreInv, EditConfigMap \/ SyncConfigMap
    PROVE  StoreInv'
<1>1. /\ cm' \in Doc \cup {Absent, NoKey} /\ cmSeen' \in Doc \cup {Absent, NoKey}
      /\ queued' \in BOOLEAN
      /\ UNCHANGED <<rec, config, mutators, req, restarts>>
  BY DEF EditConfigMap, SyncConfigMap, StoreInv, TypeOK
<1> QED BY <1>1 DEF StoreInv, TypeOK, ReadsFit

\* A restart empties it.
LEMMA RestartInv ==
    ASSUME StoreInv, Restart
    PROVE  StoreInv'
<1>1. TypeOK'
  <2>1. req' \in [Request -> AdmissionRequest]
    BY NewRequestType DEF Restart
  <2>2. rec' \in Worker
    BY RecUpdate DEF Restart
  <2>3. restarts' \in 0 .. MaxRestarts
    <3>1. restarts \in 0 .. MaxRestarts /\ restarts < MaxRestarts
      BY DEF Restart, StoreInv, TypeOK
    <3>2. restarts + 1 \in 0 .. MaxRestarts
      BY <3>1, RestartsAssumption
    <3> QED BY <3>2 DEF Restart
  <2>4. Nil \in Mutators
    BY UsableFacts
  <2> QED BY <2>1, <2>2, <2>3, <2>4 DEF Restart, StoreInv, TypeOK
<1>2. \A r \in Request : req'[r] = NewRequest
  BY DEF Restart
<1>3. /\ NewRequest.pc = "idle" /\ NewRequest.result.outcome = "none"
  BY DEF NewRequest, NoResult
<1> QED BY <1>1, <1>2, <1>3, UsableFacts DEF Restart, StoreInv, ReadsFit, Idle

\* Steps of the reconciler that leave the store alone.
LEMMA ReconcilerStep ==
    ASSUME StoreInv, NEW w \in Worker, rec' = w, queued' \in BOOLEAN,
           UNCHANGED <<cm, cmSeen, config, mutators, req, restarts>>,
           rec.pc # "setConfig", w.pc # "setConfig",
           w.pc # "idle" => w.raw \in Doc,
           w.pc = "setMutators" => w.raw \in Usable,
           w.pc \in Writing => \A r \in Request : req[r].pc \notin Reading
    PROVE  StoreInv'
BY DEF StoreInv, TypeOK, ReadsFit

\* The reconciler up to the checks of Update.
LEMMA ReconcilerInv ==
    ASSUME StoreInv, Reconcile \/ Lock \/ LockAcquired \/ Reject \/ Accept
    PROVE  StoreInv'
<1>1. /\ UNCHANGED <<cm, cmSeen, config, mutators, req, restarts>>
      /\ queued' \in BOOLEAN
  BY DEF Reconcile, Lock, LockAcquired, Reject, Accept, StoreInv, TypeOK
<1>2. rec \in Worker /\ cmSeen \in Doc \cup {Absent, NoKey}
  BY DEF StoreInv, TypeOK
<1>3. ASSUME NEW c \in {"wait"} \cup Writing, rec' = [rec EXCEPT !.pc = c]
      PROVE  /\ rec' \in Worker /\ rec'.pc = c /\ rec'.raw = rec.raw
  BY <1>2, <1>3, RecUpdate DEF Worker
<1>4. Idle \in Worker /\ Idle.pc = "idle"
  BY RecUpdate DEF Idle
<1>5. CASE Reconcile
  <2>1. CASE rec' = Idle
    BY <1>1, <1>4, <1>5, <2>1, ReconcilerStep DEF Reconcile
  <2>2. CASE cmSeen \in Doc /\ rec' = [pc |-> "lock", raw |-> cmSeen]
    BY <1>1, <1>5, <2>2, RecUpdate, ReconcilerStep DEF Reconcile
  <2> QED BY <1>2, <1>5, <2>1, <2>2 DEF Reconcile
<1>6. CASE Lock
  <2>1. rec' \in Worker /\ rec'.pc = "wait" /\ rec'.raw = rec.raw
    BY <1>3, <1>6 DEF Lock
  <2>2. rec.pc = "lock" /\ rec.raw \in Doc
    BY <1>6 DEF Lock, StoreInv
  <2> QED BY <1>1, <2>1, <2>2, ReconcilerStep
<1>7. CASE LockAcquired
  BY <1>1, <1>3, <1>7, ReconcilerStep DEF LockAcquired, StoreInv
<1>8. CASE Reject
  BY <1>1, <1>4, <1>8, ReconcilerStep DEF Reject
<1>9. CASE Accept
  BY <1>1, <1>3, <1>9, ReconcilerStep, AcceptedIsUsable DEF Accept, StoreInv
<1> QED BY <1>5, <1>6, <1>7, <1>8, <1>9

\* The two assignments of Update.
LEMMA SwapInv ==
    ASSUME StoreInv, SetMutators \/ SetConfig
    PROVE  StoreInv'
<1>1. rec.raw \in Usable /\ rec.pc \in Writing
  BY DEF SetMutators, SetConfig, StoreInv
<1>2. \A r \in Request : req[r].pc \notin Reading
  BY <1>1 DEF StoreInv
<1>3. rec' \in Worker
  <2>1. rec \in Worker
    BY DEF StoreInv, TypeOK
  <2>2. rec' = Idle \/ rec' = [rec EXCEPT !.pc = "setConfig"]
    BY DEF SetMutators, SetConfig
  <2> QED BY <2>1, <2>2, RecUpdate
<1>4. TypeOK'
  BY <1>1, <1>3, UsableFacts DEF SetMutators, SetConfig, StoreInv, TypeOK
<1>5. \A r \in Request : ReadsFit(req[r])'
  BY <1>2 DEF SetMutators, SetConfig, StoreInv, ReadsFit
<1>6. CASE SetMutators
  BY <1>1, <1>2, <1>4, <1>5, <1>6, UsableFacts DEF SetMutators, StoreInv, TypeOK, Worker
<1>7. CASE SetConfig
  BY <1>1, <1>2, <1>4, <1>5, <1>7, UsableFacts DEF SetConfig, StoreInv, TypeOK, Idle
<1> QED BY <1>6, <1>7

\* A step of one request.
LEMMA RequestStep ==
    ASSUME StoreInv, NEW r \in Request, NEW q \in AdmissionRequest,
           req' = [req EXCEPT ![r] = q],
           UNCHANGED <<cm, cmSeen, queued, rec, config, mutators, restarts>>,
           rec.pc \in Writing => q.pc \notin Reading,
           ReadsFit(q)
    PROVE  StoreInv'
<1>1. req' \in [Request -> AdmissionRequest]
  BY DEF StoreInv, TypeOK
<1>2. \A x \in Request : req'[x] = IF x = r THEN q ELSE req[x]
  BY DEF StoreInv, TypeOK
<1>3. TypeOK'
  BY <1>1 DEF StoreInv, TypeOK
<1>4. \A x \in Request : /\ rec'.pc \in Writing => req'[x].pc \notin Reading
                         /\ ReadsFit(req[x])'
  BY <1>2 DEF StoreInv, ReadsFit
<1> QED BY <1>3, <1>4 DEF StoreInv

\* A request arrives.
LEMMA ArriveInv ==
    ASSUME StoreInv, NEW r \in Request, Arrive(r)
    PROVE  StoreInv'
<1>1. PICK u \in UserQueue \cup {NoName} :
         req' = [req EXCEPT ![r] = [NewRequest EXCEPT !.pc = "rlock", !.userQueue = u]]
  BY DEF Arrive
<1> DEFINE q == [NewRequest EXCEPT !.pc = "rlock", !.userQueue = u]
<1>2. q \in AdmissionRequest
  BY NewRequestType
<1>3. q.pc = "rlock" /\ q.result.outcome = "none"
  BY DEF NewRequest, NoResult
<1> HIDE DEF q
<1>4. ReadsFit(q)
  BY <1>3 DEF ReadsFit
<1> QED BY <1>1, <1>2, <1>3, <1>4, RequestStep DEF Arrive, q

\* A request takes the lock and reads the two fields.
LEMMA ReadInv ==
    ASSUME StoreInv, NEW r \in Request, RLock(r) \/ ReadConfig(r) \/ ReadMutators(r)
    PROVE  StoreInv'
<1>1. /\ req[r] \in AdmissionRequest /\ ReadsFit(req[r])
      /\ config \in Doc \cup {Nil} /\ mutators \in Mutators
  BY DEF StoreInv, TypeOK
<1>2. CASE RLock(r)
  <2> DEFINE q == [req[r] EXCEPT !.pc = "readConfig"]
  <2>1. q \in AdmissionRequest /\ req' = [req EXCEPT ![r] = q]
    BY <1>1, <1>2, ReadUpdate DEF RLock
  <2>2. q.pc = "readConfig" /\ q.result = req[r].result
    BY <1>1 DEF AdmissionRequest
  <2> HIDE DEF q
  <2>3. ReadsFit(q)
    BY <1>1, <1>2, <2>2 DEF ReadsFit, RLock
  <2> QED BY <1>2, <2>1, <2>2, <2>3, RequestStep DEF RLock
<1>3. CASE ReadConfig(r)
  <2> DEFINE q == [req[r] EXCEPT !.config = config, !.pc = "readMutators"]
  <2>1. q \in AdmissionRequest /\ req' = [req EXCEPT ![r] = q]
    BY <1>1, <1>3, ReadUpdate DEF ReadConfig
  <2>2. q.pc = "readMutators" /\ q.result = req[r].result /\ q.config = config
    BY <1>1 DEF AdmissionRequest
  <2> HIDE DEF q
  <2>3. ReadsFit(q)
    BY <1>1, <1>3, <2>2 DEF ReadsFit, ReadConfig
  <2>4. rec.pc \notin Writing
    BY <1>3 DEF ReadConfig, StoreInv
  <2> QED BY <1>3, <2>1, <2>3, <2>4, RequestStep DEF ReadConfig
<1>4. CASE ReadMutators(r)
  <2> DEFINE q == [req[r] EXCEPT !.mutators = mutators, !.pc = "default"]
  <2>1. q \in AdmissionRequest /\ req' = [req EXCEPT ![r] = q]
    BY <1>1, <1>4, ReadUpdate DEF ReadMutators
  <2>2. /\ q.pc = "default" /\ q.result = req[r].result
        /\ q.config = req[r].config /\ q.mutators = mutators
    BY <1>1 DEF AdmissionRequest
  <2> HIDE DEF q
  <2>3. rec.pc \notin Writing /\ req[r].pc = "readMutators"
    BY <1>4 DEF ReadMutators, StoreInv
  <2>4. mutators = MutatorsOf(config) /\ config \in Usable \cup {Nil}
    BY <2>3 DEF StoreInv
  <2>5. ReadsFit(q)
    BY <1>1, <2>2, <2>3, <2>4 DEF ReadsFit
  <2> QED BY <1>4, <2>1, <2>3, <2>5, RequestStep DEF ReadMutators
<1> QED BY <1>2, <1>3, <1>4

\* A request is answered.
LEMMA DefaultInv ==
    ASSUME StoreInv, NEW r \in Request, Default(r)
    PROVE  StoreInv'
<1>1. /\ req[r] \in AdmissionRequest /\ ReadsFit(req[r]) /\ req[r].pc = "default"
  BY DEF StoreInv, TypeOK, Default
<1>2. ASSUME NEW s \in Result,
             req' = [req EXCEPT ![r] = [req[r] EXCEPT !.pc = "done", !.result = s]],
             s.outcome = "admitted" =>
                req[r].config # Nil /\ TreatedBy(req[r].config, req[r].userQueue, s)
      PROVE  StoreInv'
  <2> DEFINE q == [req[r] EXCEPT !.pc = "done", !.result = s]
  <2>1. q \in AdmissionRequest
    BY <1>1, <1>2, AnswerUpdate
  <2>2. /\ q.pc = "done" /\ q.result = s /\ q.config = req[r].config
        /\ q.mutators = req[r].mutators /\ q.userQueue = req[r].userQueue
    BY <1>1 DEF AdmissionRequest
  <2> HIDE DEF q
  <2>3. ReadsFit(q)
    BY <1>1, <1>2, <2>2 DEF ReadsFit
  <2> QED BY <1>2, <2>1, <2>2, <2>3, RequestStep DEF Default, q
<1>3. CASE req[r].config = Nil
  <2> DEFINE s == [NoResult EXCEPT !.outcome = "panic"]
  <2>1. s \in Result /\ s.outcome = "panic"
    BY DEF NoResult, Result
  <2>2. req' = [req EXCEPT ![r] = [req[r] EXCEPT !.pc = "done", !.result = s]]
    BY <1>3 DEF Default
  <2> QED BY <1>2, <2>1, <2>2
<1>4. CASE req[r].config # Nil
  <2> DEFINE s(o) == [outcome |-> o,
                      queue |-> QueueLabel(req[r].userQueue, req[r].config),
                      managedBy |-> ManagedByOf(req[r].config)]
  <2>1. PICK o \in {"admitted", "badRequest", "internalError"} :
           req' = [req EXCEPT ![r] = [req[r] EXCEPT !.pc = "done", !.result = s(o)]]
    BY <1>4 DEF Default, MutateOutcome
  <2>2. req[r].config \in Doc /\ req[r].userQueue \in UserQueue \cup {NoName}
    BY <1>1, <1>4 DEF AdmissionRequest
  <2>3. s(o) \in Result
    BY <2>2 DEF Result, QueueLabel, ManagedByOf
  <2>4. TreatedBy(req[r].config, req[r].userQueue, s(o))
    BY DEF TreatedBy, QueueLabel, ManagedByOf
  <2> QED BY <1>2, <1>4, <2>1, <2>3, <2>4
<1> QED BY <1>3, <1>4

\* Every step keeps the invariant.
LEMMA NextInv == StoreInv /\ [Next]_vars => StoreInv'
<1>1. ASSUME StoreInv, UNCHANGED vars PROVE StoreInv'
  BY <1>1 DEF vars, StoreInv, TypeOK, ReadsFit
<1> QED BY <1>1, EnvironmentInv, RestartInv, ReconcilerInv, SwapInv, ArriveInv,
           ReadInv, DefaultInv
        DEF Next, Update, Serve

\* However reloads, requests and restarts interleave, StoreInv holds.
THEOREM StoreInvariant == Spec => []StoreInv
BY InitInv, NextInv, PTL DEF Spec

-----------------------------------------------------------------------------
(* What admission requests see.                                            *)

\* Every variable of the webhook process has its type; in particular Update is
\* never called without a document.
THEOREM TypeCorrect == Spec => []TypeOK
<1>1. StoreInv => TypeOK
  BY DEF StoreInv
<1> QED BY <1>1, StoreInvariant, PTL

\* A run is admitted with the queue, the managedBy and the mutators of one
\* usable document (GetConfigAndMutators, Update, Default).
THEOREM RequestsSeeOneDocument == Spec => []OneDocumentPerRequest
<1>1. ASSUME StoreInv, NEW r \in Request, req[r].result.outcome = "admitted"
      PROVE  \E d \in Usable :
                /\ req[r].config = d /\ req[r].mutators = Expressions[d]
                /\ TreatedBy(d, req[r].userQueue, req[r].result)
  <2>1. /\ req[r].config \in Usable
        /\ req[r].mutators = MutatorsOf(req[r].config)
        /\ TreatedBy(req[r].config, req[r].userQueue, req[r].result)
    BY <1>1 DEF StoreInv, ReadsFit
  <2>2. req[r].mutators = Expressions[req[r].config]
    BY <2>1, UsableFacts
  <2> QED BY <2>1, <2>2
<1>2. StoreInv => OneDocumentPerRequest
  BY <1>1 DEF OneDocumentPerRequest
<1> QED BY <1>2, StoreInvariant, PTL

-----------------------------------------------------------------------------
(* Refinement of ConfigRegister.                                           *)

\* What a request has got out of the register.
Got(r) ==
    IF r.pc \in {"default", "done"}
    THEN [config |-> r.config, mutators |-> r.mutators]
    ELSE [config |-> "unread", mutators |-> "unread"]

\* A step of one request is a read, a leave or no step of the register.
LEMMA RequestRefines ==
    ASSUME StoreInv, NEW r \in Request, Arrive(r) \/ Serve(r)
    PROVE  LET got == [x \in Request |-> Got(req[x])]
           IN  \/ got' = got
               \/ got' = [got EXCEPT ![r] = Got(NewRequest)]
               \/ /\ got[r] = Got(NewRequest)
                  /\ got' = [got EXCEPT ![r] = Register!Snapshot(config)]
<1> DEFINE got == [x \in Request |-> Got(req[x])]
<1>1. req \in [Request -> AdmissionRequest]
  BY DEF StoreInv, TypeOK
<1>2. ASSUME NEW q, req' = [req EXCEPT ![r] = q]
      PROVE  got' = [got EXCEPT ![r] = Got(q)]
  BY <1>1, <1>2 DEF Got
<1>3. Got(NewRequest) = [config |-> "unread", mutators |-> "unread"]
  BY DEF Got, NewRequest
<1>4. CASE Arrive(r)
  <2>1. PICK u : req' = [req EXCEPT ![r] = [NewRequest EXCEPT !.pc = "rlock",
                                                             !.userQueue = u]]
    BY <1>4 DEF Arrive
  <2>2. Got([NewRequest EXCEPT !.pc = "rlock", !.userQueue = u]) = Got(NewRequest)
    BY DEF Got, NewRequest
  <2> QED BY <1>2, <2>1, <2>2
<1>5. CASE RLock(r)
  <2>1. Got([req[r] EXCEPT !.pc = "readConfig"]) = Got(req[r])
    BY <1>1, <1>5 DEF Got, RLock, AdmissionRequest
  <2>2. req' = [req EXCEPT ![r] = [req[r] EXCEPT !.pc = "readConfig"]]
    BY <1>5 DEF RLock
  <2>3. got' = [got EXCEPT ![r] = Got(req[r])]
    BY <1>2, <2>1, <2>2
  <2> QED BY <2>3
<1>6. CASE ReadConfig(r)
  <2>1. Got([req[r] EXCEPT !.config = config, !.pc = "readMutators"]) = Got(req[r])
    BY <1>1, <1>6 DEF Got, ReadConfig, AdmissionRequest
  <2>2. req' = [req EXCEPT ![r] = [req[r] EXCEPT !.config = config, !.pc = "readMutators"]]
    BY <1>6 DEF ReadConfig
  <2>3. got' = [got EXCEPT ![r] = Got(req[r])]
    BY <1>2, <2>1, <2>2
  <2> QED BY <2>3
<1>7. CASE ReadMutators(r)
  <2> DEFINE q == [req[r] EXCEPT !.mutators = mutators, !.pc = "default"]
  <2>1. /\ req[r].pc = "readMutators" /\ rec.pc \notin Writing
        /\ req[r].config = config /\ mutators = MutatorsOf(config)
    BY <1>7 DEF ReadMutators, StoreInv, ReadsFit
  <2>2. q.pc = "default" /\ q.config = config /\ q.mutators = mutators
    BY <1>1, <2>1 DEF AdmissionRequest
  <2>3. Got(q) = Register!Snapshot(config)
    BY <2>1, <2>2 DEF Got, Register!Snapshot, MutatorsOf
  <2>4. got[r] = Got(NewRequest)
    BY <1>3, <2>1 DEF Got
  <2>5. got' = [got EXCEPT ![r] = Got(q)]
    BY <1>2, <1>7 DEF ReadMutators
  <2> QED BY <2>3, <2>4, <2>5
<1>8. CASE Default(r)
  <2>1. PICK s : req' = [req EXCEPT ![r] = [req[r] EXCEPT !.pc = "done", !.result = s]]
    BY <1>8 DEF Default
  <2>2. Got([req[r] EXCEPT !.pc = "done", !.result = s]) = Got(req[r])
    BY <1>1, <1>8 DEF Got, Default, AdmissionRequest
  <2>3. got' = [got EXCEPT ![r] = Got(req[r])]
    BY <1>2, <2>1, <2>2
  <2> QED BY <2>3
<1> QED BY <1>4, <1>5, <1>6, <1>7, <1>8 DEF Serve

\* The mutex, the checks of Update and the order of its assignments make the
\* store one register of usable documents.
THEOREM StoreImplementsRegister == Spec => ImplementsRegister
<1> DEFINE got == [x \in Request |-> Got(req[x])]
<1>1. Init => Register!Init
  <2>1. NewRequest.pc = "idle"
    BY DEF NewRequest
  <2> QED BY <2>1 DEF Init, Register!Init
<1>2. ASSUME StoreInv, [Next]_vars
      PROVE  Register!Next \/ UNCHANGED <<config, got>>
  <2>1. CASE Restart
    <3>1. got' = [x \in Request |-> Got(NewRequest)]
      BY <2>1 DEF Restart
    <3> QED BY <2>1, <3>1 DEF Restart, Register!Next, Register!Restart, Got, NewRequest
  <2>2. CASE SetConfig
    <3>1. config' \in Usable /\ UNCHANGED req
      BY <1>2, <2>2 DEF SetConfig, StoreInv
    <3> QED BY <3>1 DEF Register!Next, Register!Load, Got
  <2>3. ASSUME NEW r \in Request, Arrive(r) \/ Serve(r)
        PROVE  Register!Next \/ UNCHANGED <<config, got>>
    <3>1. UNCHANGED config
      BY <2>3 DEF Arrive, Serve, RLock, ReadConfig, ReadMutators, Default
    <3>2. \/ got' = got
          \/ got' = [got EXCEPT ![r] = Got(NewRequest)]
          \/ /\ got[r] = Got(NewRequest)
             /\ got' = [got EXCEPT ![r] = Register!Snapshot(config)]
      BY <1>2, <2>3, RequestRefines
    <3> QED BY <3>1, <3>2
            DEF Register!Next, Register!Leave, Register!Read, Got, NewRequest
  <2>4. CASE \/ EditConfigMap \/ SyncConfigMap \/ Reconcile \/ Lock \/ LockAcquired
             \/ Reject \/ Accept \/ SetMutators
    BY <2>4 DEF EditConfigMap, SyncConfigMap, Reconcile, Lock, LockAcquired, Reject,
                Accept, SetMutators, Got
  <2>5. CASE UNCHANGED vars
    BY <2>5 DEF vars, Got
  <2> QED BY <1>2, <2>1, <2>2, <2>3, <2>4, <2>5 DEF Next, Update
<1>3. ASSUME StoreInv, [Next]_vars
      PROVE  [Register!Next]_<<config, [r \in Request |->
                   IF req[r].pc \in {"default", "done"}
                   THEN [config |-> req[r].config, mutators |-> req[r].mutators]
                   ELSE [config |-> "unread", mutators |-> "unread"]]>>
  BY <1>2, <1>3 DEF Got
<1> QED BY <1>1, <1>3, StoreInvariant, PTL DEF Spec, ImplementsRegister, Register!Spec
=============================================================================
