----------------------- MODULE AdmissionOutcome_proofs -----------------------
(***************************************************************************)
(* The steps of the webhook compute what the functions of Admission do at  *)
(* once (OutcomeInv), for all submissions, configurations and widths of    *)
(* int; so what AdmissionLast_proofs shows of those functions holds of     *)
(* every run that is admitted.                                             *)
(***************************************************************************)
EXTENDS Admission_proofs, AdmissionLast_proofs

-----------------------------------------------------------------------------
(* OutcomeInv, one lemma for each action.                                  *)

LEMMA ProgramsAreSequences ==
    ASSUME AdmissionInv
    PROVE  Len(cfg.programs) \in Nat /\ DOMAIN cfg.programs = 1..Len(cfg.programs)
<1>1. IsSequence(cfg.programs)
  BY ConfigurationAssumption DEF AdmissionInv
<1> QED BY <1>1 DEF IsSequence

\* The types after a step, from the two invariants and what the step assigns.
LEMMA TypesNext ==
    ASSUME AdmissionInv', RequestsAreCounted',
           pc' \in {"default", "evaluate", "mutate", "answered", "done"},
           pc' = "mutate" => next' <= Len(mutations') + 1,
           resp' \in {NoAnswer, Allowed, BadRequest, InternalError, Invalid},
           podSets' \in {NotAsked, "requests", Unretryable}
    PROVE  TypeOK'
<1>1. /\ metrics' \in [evaluated : Nat, notEvaluated : Nat, mutated : Nat, notMutated : Nat]
      /\ metrics'.evaluated = metrics'.mutated + metrics'.notMutated
                                + (IF pc' = "mutate" THEN 1 ELSE 0)
      /\ submissions' \in 1..MaxSubmissions
      /\ metrics'.evaluated + metrics'.notEvaluated
            + (IF pc' \in {"default", "evaluate"} THEN 1 ELSE 0) <= submissions'
  BY DEF AdmissionInv, RequestsAreCounted
<1>2. \A c \in {"evaluated", "notEvaluated", "mutated", "notMutated"} :
         metrics'[c] \in 0..MaxSubmissions
  <2>1. metrics'.evaluated \in 0..MaxSubmissions /\ metrics'.notEvaluated \in 0..MaxSubmissions
    BY <1>1, MaxSubmissionsAssumption
  <2>2. metrics'.mutated \in 0..MaxSubmissions /\ metrics'.notMutated \in 0..MaxSubmissions
    BY <1>1, MaxSubmissionsAssumption
  <2> QED BY <2>1, <2>2
<1>3. \A c \in DOMAIN metrics' : metrics'[c] \in 0..MaxSubmissions
  BY <1>1, <1>2
<1>4. pc' = "evaluate" => next' \in 1..Len(cfg'.programs)
  <2>1. IsSequence(cfg'.programs)
    BY ConfigurationAssumption DEF AdmissionInv
  <2> QED BY <2>1 DEF AdmissionInv, IsSequence
<1>5. pc' = "mutate" => next' \in 1..(Len(mutations') + 1)
  <2>1. Len(mutations') \in Nat /\ (pc' = "mutate" => next' \in Nat \ {0})
    BY DEF AdmissionInv, IsSequence
  <2> QED BY <2>1
<1>6. cfg' \in Configuration /\ (pc' # "default" => plr'.status = "Pending")
  BY DEF AdmissionInv, IsQueued
<1> QED BY <1>3, <1>4, <1>5, <1>6 DEF TypeOK

LEMMA InitOutcome == ASSUME Init PROVE OutcomeInv
<1>1. /\ cfg \in Configuration
      /\ pc = "default" /\ resp = NoAnswer /\ mutations = <<>> /\ submissions = 1
      /\ podSets = NotAsked
      /\ metrics = [evaluated |-> 0, notEvaluated |-> 0, mutated |-> 0, notMutated |-> 0]
  BY DEF Init
<1>2. RequestsAreCounted
  BY <1>1, MaxSubmissionsAssumption DEF RequestsAreCounted
<1>3. TypeOK
  BY <1>1, MaxSubmissionsAssumption DEF TypeOK
<1> QED BY <1>1, <1>2, <1>3 DEF OutcomeInv, LoopsFollow, AnswerFollows

\* Without expressions Default is all there is.
LEMMA NoPrograms ==
    ASSUME NEW c, NEW run, c.programs = <<>>
    PROVE  /\ AskedOf(c, Defaulted(c, run)) = <<>>
           /\ DefaultAll(c, run) = Changed(Defaulted(c, run))
<1>1. Len(c.programs) = 0
  OBVIOUS
<1>2. AskedOf(c, Defaulted(c, run)) = <<>>
  BY <1>1, CollectedSteps DEF AskedOf
<1>3. Applied(Defaulted(c, run), <<>>)[0] = Changed(Defaulted(c, run))
  <2>1. Len(<<>>) = 0
    OBVIOUS
  <2> QED BY <2>1, AppliedSteps
<1>4. DefaultAll(c, run) = Applied(Defaulted(c, run), <<>>)[Len(<<>>)]
  BY <1>2 DEF DefaultAll
<1> QED BY <1>2, <1>3, <1>4

LEMMA DefaultOutcome ==
    ASSUME AdmissionInv, AdmissionInv', OutcomeInv, Default PROVE OutcomeInv'
<1>1. /\ pc = "default" /\ plr' = Start /\ plr = submitted /\ next = 1
      /\ mutations = <<>> /\ resp = NoAnswer
      /\ UNCHANGED <<cfg, submitted, next, mutations, podSets, metrics, submissions>>
  BY DEF Default, AdmissionInv, OutcomeInv, LoopsFollow, Start
<1>2. RequestsAreCounted'
  <2>1. pc' \in {"evaluate", "answered"}
    BY DEF Default, Answer
  <2>2. metrics.evaluated \in Nat /\ metrics.notEvaluated \in Nat
    BY DEF AdmissionInv
  <2> QED BY <1>1, <2>1, <2>2 DEF OutcomeInv, RequestsAreCounted
<1>3. Start' = Start /\ Asked' = Asked /\ DefaultAll(cfg, submitted)' = DefaultAll(cfg, submitted)
  BY <1>1 DEF Start, Asked
<1>4. CASE cfg.programs = <<>> /\ Answer(Allowed)
  <2>1. pc' = "answered" /\ resp' = Allowed /\ Allowed # InternalError
    BY <1>4 DEF Answer, Allowed, InternalError
  <2>2. TypeOK'
    BY <1>1, <1>2, <2>1, TypesNext DEF OutcomeInv, TypeOK
  <2>3. Asked = <<>> /\ DefaultAll(cfg, submitted) = Changed(Start)
    BY <1>4, NoPrograms DEF Asked, Start
  <2> QED BY <1>1, <1>2, <1>3, <2>1, <2>2, <2>3 DEF OutcomeInv, LoopsFollow, AnswerFollows
<1>5. CASE cfg.programs # <<>> /\ ~plr.valid /\ Answer(BadRequest)
  <2>1. /\ pc' = "answered" /\ resp' = BadRequest
        /\ BadRequest \notin {Allowed, Invalid, InternalError}
    BY <1>5 DEF Answer, BadRequest, Allowed, Invalid, InternalError
  <2>2. TypeOK'
    BY <1>1, <1>2, <2>1, TypesNext DEF OutcomeInv, TypeOK
  <2>3. ~DefaultAll(cfg, submitted).ok
    BY <1>1, <1>5 DEF DefaultAll, Refused
  <2> QED BY <1>1, <1>2, <1>3, <2>1, <2>2, <2>3 DEF OutcomeInv, LoopsFollow, AnswerFollows
<1>6. CASE cfg.programs # <<>> /\ plr.valid /\ pc' = "evaluate" /\ UNCHANGED resp
  <2>1. TypeOK'
    BY <1>1, <1>2, <1>6, TypesNext DEF OutcomeInv, TypeOK
  <2>2. Collected(cfg, Start)[next - 1] = <<>>
    <3>1. Collected(cfg, Start)[0] = <<>>
      BY ProgramsAreSequences, CollectedSteps
    <3> QED BY <1>1, <3>1
  <2>3. LoopsFollow'
    BY <1>1, <1>3, <1>6, <2>2 DEF LoopsFollow
  <2> QED BY <1>2, <1>6, <2>1, <2>3 DEF OutcomeInv, AnswerFollows
<1> QED BY <1>4, <1>5, <1>6 DEF Default

LEMMA EvaluateOutcome ==
    ASSUME AdmissionInv, AdmissionInv', OutcomeInv, evaluate PROVE OutcomeInv'
<1> DEFINE result == Evaluate(cfg.programs[next], Start)
           N == Len(cfg.programs)
<1>1. /\ pc = "evaluate" /\ next \in 1..N /\ plr = Start /\ N \in Nat
      /\ DOMAIN cfg.programs = 1..N
      /\ UNCHANGED <<cfg, submitted, plr, podSets, submissions>>
  BY ProgramsAreSequences DEF evaluate, AdmissionInv, Start
<1>2. (result.ok /\ Collect(result) /\ UNCHANGED resp) \/ (~result.ok /\ EvaluationFails(result))
  BY <1>1 DEF evaluate, EvaluatedRun
<1>3. /\ submitted.valid /\ mutations = Collected(cfg, Start)[next - 1] /\ resp = NoAnswer
      /\ \A i \in 1..(next - 1) : Evaluate(cfg.programs[i], Start).ok
  BY <1>1 DEF OutcomeInv, LoopsFollow
<1>4. Start' = Start /\ Asked' = Asked /\ DefaultAll(cfg, submitted)' = DefaultAll(cfg, submitted)
  BY <1>1 DEF Start, Asked
<1>5. metrics.evaluated \in Nat /\ metrics.notEvaluated \in Nat
      /\ metrics.evaluated + metrics.notEvaluated + 1 <= submissions
      /\ submissions \in 1..MaxSubmissions
  BY <1>1 DEF AdmissionInv, OutcomeInv, RequestsAreCounted
<1>6. CASE result.ok /\ Collect(result) /\ UNCHANGED resp
  <2>1. mutations' = Collected(cfg, Start)[next]
    <3>1. mutations' = Collected(cfg, Start)[next - 1] \o result.mutations
      BY <1>3, <1>6 DEF Collect
    <3> QED BY <1>1, <3>1, CollectedSteps
  <2>2. \A i \in 1..next : Evaluate(cfg.programs[i], Start).ok
    BY <1>1, <1>3, <1>6
  <2> HIDE DEF result
  <2>3. CASE next < N
    <3>1. next' = next + 1 /\ next' - 1 = next /\ UNCHANGED <<pc, metrics>>
      BY <1>1, <1>6, <2>3 DEF Collect
    <3>2. RequestsAreCounted'
      BY <1>1, <3>1 DEF OutcomeInv, RequestsAreCounted
    <3>3. TypeOK'
      BY <1>1, <1>6, <3>1, <3>2, TypesNext DEF OutcomeInv, TypeOK
    <3>4. LoopsFollow'
      BY <1>1, <1>3, <1>4, <1>6, <2>1, <2>2, <3>1 DEF LoopsFollow
    <3> QED BY <1>1, <3>1, <3>2, <3>3, <3>4 DEF OutcomeInv, AnswerFollows
  <2>4. CASE ~(next < N)
    <3>1. /\ next = N /\ next' = 1 /\ pc' = "mutate"
          /\ metrics' = [metrics EXCEPT !.evaluated = @ + 1]
      BY <1>1, <1>6, <2>4 DEF Collect
    <3>2. RequestsAreCounted'
      <4>1. /\ metrics'.evaluated = metrics.evaluated + 1
            /\ metrics'.notEvaluated = metrics.notEvaluated
        BY <3>1 DEF AdmissionInv
      <4> QED BY <1>1, <1>5, <3>1, <4>1 DEF RequestsAreCounted
    <3>3. Len(mutations') \in Nat
      BY DEF AdmissionInv, IsSequence
    <3>4. TypeOK'
      BY <1>1, <1>6, <3>1, <3>2, <3>3, TypesNext DEF OutcomeInv, TypeOK
    <3>5. mutations' = Asked /\ Evaluates(cfg, Start)
      BY <1>1, <2>1, <2>2, <3>1 DEF Asked, AskedOf, Evaluates
    <3>6. Applied(Start, mutations')[next' - 1] = Changed(plr')
      <4>1. Applied(Start, mutations')[0] = Changed(Start)
        BY <3>3, AppliedSteps
      <4> QED BY <1>1, <3>1, <4>1
    <3>7. LoopsFollow'
      BY <1>1, <1>3, <1>4, <1>6, <3>1, <3>5, <3>6 DEF LoopsFollow, Evaluates
    <3> QED BY <3>1, <3>2, <3>4, <3>7 DEF OutcomeInv, AnswerFollows
  <2> QED BY <2>3, <2>4
<1>7. CASE ~result.ok /\ EvaluationFails(result)
  <2>1. /\ pc' = "answered" /\ resp' = InternalError
        /\ InternalError \notin {Allowed, Invalid}
        /\ metrics' = [metrics EXCEPT !.notEvaluated = @ + 1]
    BY <1>7 DEF EvaluationFails, Answer, InternalError, Allowed, Invalid
  <2>2. ~Evaluates(cfg, Start) /\ ~Evaluates(cfg, Start)'
    BY <1>1, <1>4, <1>7 DEF Evaluates
  <2>3. ~DefaultAll(cfg, submitted).ok
    <3>1. cfg.programs # <<>>
      BY <1>1
    <3> QED BY <2>2, <3>1 DEF DefaultAll, Start, Refused
  <2> HIDE DEF result
  <2>4. RequestsAreCounted'
    <3>1. metrics'.evaluated = metrics.evaluated /\ metrics'.notEvaluated = metrics.notEvaluated + 1
      BY <2>1 DEF AdmissionInv
    <3> QED BY <1>1, <1>5, <2>1, <3>1 DEF RequestsAreCounted
  <2>5. TypeOK'
    BY <1>1, <2>1, <2>4, TypesNext DEF OutcomeInv, TypeOK
  <2> QED BY <1>4, <2>1, <2>2, <2>3, <2>4, <2>5 DEF OutcomeInv, LoopsFollow, AnswerFollows
<1> QED BY <1>2, <1>6, <1>7

LEMMA MutateOutcome ==
    ASSUME AdmissionInv, AdmissionInv', OutcomeInv, Mutate PROVE OutcomeInv'
<1> DEFINE N == Len(mutations)
<1>1. /\ pc = "mutate" /\ next \in 1..(N + 1) /\ N \in Nat /\ DOMAIN mutations = 1..N
      /\ resp = NoAnswer
      /\ UNCHANGED <<cfg, submitted, mutations, podSets, submissions>>
  BY DEF Mutate, OutcomeInv, TypeOK, LoopsFollow, AdmissionInv, IsSequence
<1>2. /\ submitted.valid /\ Evaluates(cfg, Start) /\ mutations = Asked
      /\ Applied(Start, mutations)[next - 1] = Changed(plr)
  BY <1>1 DEF OutcomeInv, LoopsFollow
<1>3. Start' = Start /\ Asked' = Asked /\ DefaultAll(cfg, submitted)' = DefaultAll(cfg, submitted)
  BY <1>1 DEF Start, Asked
<1>4. DefaultAll(cfg, submitted) = Applied(Start, mutations)[N]
  BY <1>2 DEF DefaultAll, Start, Asked
<1>5. RequestsAreCounted'
  <2>1. /\ metrics \in [evaluated : Nat, notEvaluated : Nat, mutated : Nat, notMutated : Nat]
        /\ pc' \notin {"default", "evaluate"}
        /\ \/ metrics' = metrics
           \/ metrics' = [metrics EXCEPT !.mutated = @ + 1]
           \/ metrics' = [metrics EXCEPT !.notMutated = @ + 1]
    BY <1>1 DEF Mutate, Answer, RecordMutationFailure, AdmissionInv
  <2>2. metrics'.evaluated = metrics.evaluated /\ metrics'.notEvaluated = metrics.notEvaluated
    BY <2>1
  <2> QED BY <1>1, <2>1, <2>2 DEF OutcomeInv, RequestsAreCounted
<1>6. CASE next > N
  <2>1. /\ pc' = "answered" /\ resp' = Allowed /\ Allowed # InternalError
        /\ UNCHANGED <<plr, next>>
    <3>1. ~(next <= N)
      BY <1>1, <1>6
    <3>2. pc' = "answered" /\ resp' = Allowed /\ UNCHANGED <<plr, next>>
      BY <3>1 DEF Mutate, Answer
    <3> QED BY <3>2 DEF Allowed, InternalError
  <2>2. next - 1 = N
    BY <1>1, <1>6
  <2>3. DefaultAll(cfg, submitted) = Changed(plr)
    BY <1>2, <1>4, <2>2
  <2>4. TypeOK'
    BY <1>1, <1>5, <2>1, TypesNext DEF OutcomeInv, TypeOK
  <2> QED BY <1>1, <1>2, <1>3, <1>5, <2>1, <2>3, <2>4 DEF OutcomeInv, LoopsFollow, AnswerFollows
<1>7. CASE next <= N
  <2> DEFINE result == mutate(plr, mutations[next])
  <2>1. /\ plr' = result.run
        /\ \/ result.ok /\ next' = next + 1 /\ UNCHANGED <<pc, resp>>
           \/ ~result.ok /\ pc' = "answered" /\ resp' = InternalError /\ UNCHANGED next
    BY <1>1, <1>7 DEF Mutate, Answer
  <2>2. next \in 1..N /\ IsChecked(mutations[next])
    <3>1. next \in 1..N
      BY <1>1, <1>7
    <3> QED BY <1>1, <3>1 DEF AdmissionInv
  <2>3. Applied(Start, mutations)[next] = result
    <3>1. Applied(Start, mutations)[next] =
             IF Applied(Start, mutations)[next - 1].ok
             THEN mutate(Applied(Start, mutations)[next - 1].run, mutations[next])
             ELSE Applied(Start, mutations)[next - 1]
      BY <1>1, <2>2, AppliedSteps
    <3>2. Changed(plr).ok /\ Changed(plr).run = plr
      BY DEF Changed
    <3> QED BY <1>2, <3>1, <3>2
  <2>4. CASE result.ok
    <3>1. next' = next + 1 /\ next' - 1 = next /\ UNCHANGED <<pc, resp>>
      BY <1>1, <2>1, <2>4
    <3>2. Applied(Start, mutations)[next' - 1] = Changed(plr')
      BY <2>1, <2>2, <2>3, <2>4, <3>1, MutateChanges
    <3>3. TypeOK'
      <4>1. next' <= Len(mutations') + 1
        BY <1>1, <1>7, <3>1
      <4> QED BY <1>1, <1>5, <3>1, <4>1, TypesNext DEF OutcomeInv, TypeOK
    <3> HIDE DEF result
    <3>4. LoopsFollow'
      BY <1>1, <1>2, <1>3, <3>1, <3>2 DEF LoopsFollow, Evaluates
    <3> QED BY <1>1, <1>5, <3>1, <3>3, <3>4 DEF OutcomeInv, AnswerFollows
  <2>5. CASE ~result.ok
    <3>1. pc' = "answered" /\ resp' = InternalError /\ InternalError \notin {Allowed, Invalid}
      BY <2>1, <2>5 DEF InternalError, Allowed, Invalid
    <3>2. ~DefaultAll(cfg, submitted).ok
      <4>1. next \in 0..N
        BY <2>2
      <4> QED BY <1>1, <1>4, <2>3, <2>5, <4>1, AppliedFails
    <3>3. TypeOK'
      BY <1>1, <1>5, <3>1, TypesNext DEF OutcomeInv, TypeOK
    <3>4. plr' = plr /\ UNCHANGED next
      BY <2>1, <2>2, <2>5, MutateFails
    <3>5. StopsAtNext'
      BY <1>1, <1>2, <1>3, <2>2, <2>5, <3>4 DEF StopsAtNext
    <3> HIDE DEF result
    <3> QED BY <1>3, <1>5, <3>1, <3>2, <3>3, <3>5 DEF OutcomeInv, LoopsFollow, AnswerFollows
  <2> QED BY <2>4, <2>5
<1> QED BY <1>1, <1>6, <1>7

LEMMA RespondOutcome ==
    ASSUME AdmissionInv, AdmissionInv', OutcomeInv, Respond PROVE OutcomeInv'
<1>1. /\ pc = "answered" /\ pc' = "done"
      /\ UNCHANGED <<cfg, submitted, plr, next, mutations, metrics, submissions>>
      /\ resp' \in {resp, Invalid} /\ podSets' \in {podSets, NotAsked}
      /\ resp' = Invalid => resp \in {Allowed, Invalid}
      /\ resp' = Allowed => /\ resp = Allowed /\ podSets' = NotAsked
                            /\ ValidObject(Handle(plr))
  BY DEF Respond, Allowed, Invalid
<1>2. RequestsAreCounted'
  BY <1>1 DEF OutcomeInv, RequestsAreCounted
<1>3. TypeOK'
  BY <1>1, <1>2, TypesNext DEF OutcomeInv, TypeOK
<1>4. /\ Asked' = Asked /\ DefaultAll(cfg, submitted)' = DefaultAll(cfg, submitted)
      /\ ValidObject(Handle(plr))' = ValidObject(Handle(plr))
  BY <1>1 DEF Start, Asked, ValidObject, Handle, RoundTrip
<1>5. AnswerFollows'
  BY <1>1, <1>4 DEF OutcomeInv, AnswerFollows, NotAsked, Unretryable
<1> QED BY <1>1, <1>2, <1>3, <1>5 DEF OutcomeInv, LoopsFollow

LEMMA PodSetsOutcome ==
    ASSUME AdmissionInv, AdmissionInv', OutcomeInv, PodSets PROVE OutcomeInv'
<1>1. /\ pc = "done" /\ podSets' \in {"requests", Unretryable}
      /\ \E run \in stored : podSets' = "requests" <=> resourcesRequests(run)
      /\ UNCHANGED <<cfg, submitted, plr, pc, next, mutations, resp, stored, metrics, submissions>>
  BY DEF PodSets, Unretryable
<1>2. RequestsAreCounted'
  BY <1>1 DEF OutcomeInv, RequestsAreCounted
<1>3. TypeOK'
  BY <1>1, <1>2, TypesNext DEF OutcomeInv, TypeOK
<1>4. /\ Asked' = Asked /\ DefaultAll(cfg, submitted)' = DefaultAll(cfg, submitted)
      /\ ValidObject(Handle(plr))' = ValidObject(Handle(plr))
  BY <1>1 DEF Start, Asked, ValidObject, Handle, RoundTrip
<1>5. resp = Allowed => (podSets' = "requests" <=> resourcesRequests(plr))
  <2>1. resp = Allowed => stored = {Handle(plr)}
    BY <1>1 DEF AdmissionInv
  <2>2. Handle(plr).annotations = plr.annotations
    BY HandleFilters DEF AdmissionInv
  <2> QED BY <1>1, <2>1, <2>2 DEF resourcesRequests
<1>6. AnswerFollows'
  <2>1. resourcesRequests(plr)' = resourcesRequests(plr)
    BY <1>1 DEF resourcesRequests
  <2> QED BY <1>1, <1>4, <1>5, <2>1 DEF OutcomeInv, AnswerFollows
<1> QED BY <1>1, <1>2, <1>3, <1>6 DEF OutcomeInv, LoopsFollow

LEMMA SubmitOutcome ==
    ASSUME AdmissionInv, AdmissionInv', OutcomeInv, Submit PROVE OutcomeInv'
<1>1. /\ pc = "done" /\ pc' = "default" /\ mutations' = <<>> /\ resp' = NoAnswer
      /\ submissions < MaxSubmissions /\ submissions' = submissions + 1
      /\ UNCHANGED <<podSets, metrics>>
  BY DEF Submit
<1>2. RequestsAreCounted'
  <2>1. metrics.evaluated \in Nat /\ metrics.notEvaluated \in Nat
    BY DEF AdmissionInv
  <2> QED BY <1>1, <2>1, MaxSubmissionsAssumption DEF OutcomeInv, RequestsAreCounted
<1>3. TypeOK'
  BY <1>1, <1>2, TypesNext DEF OutcomeInv, TypeOK
<1> QED BY <1>1, <1>2, <1>3 DEF OutcomeInv, LoopsFollow, AnswerFollows

LEMMA NextOutcome ==
    ASSUME AdmissionInv, AdmissionInv', OutcomeInv, [Next]_vars PROVE OutcomeInv'
<1>1. CASE UNCHANGED vars
  <2>1. /\ Start' = Start /\ Asked' = Asked
        /\ DefaultAll(cfg, submitted)' = DefaultAll(cfg, submitted)
        /\ ValidObject(Handle(plr))' = ValidObject(Handle(plr))
    BY <1>1 DEF vars, Start, Asked, ValidObject, Handle, RoundTrip
  <2>2. TypeOK' /\ RequestsAreCounted'
    BY <1>1 DEF vars, OutcomeInv, TypeOK, RequestsAreCounted
  <2>3. LoopsFollow' /\ AnswerFollows'
    BY <1>1, <2>1 DEF vars, OutcomeInv, LoopsFollow, AnswerFollows, StopsAtNext, Evaluates
  <2> QED BY <2>2, <2>3 DEF OutcomeInv
<1> QED BY <1>1, DefaultOutcome, EvaluateOutcome, MutateOutcome, RespondOutcome,
           PodSetsOutcome, SubmitOutcome DEF Next

-----------------------------------------------------------------------------
(* The theorems.                                                           *)

\* CELMutator.evaluate, Mutate and Default: at every step of every request,
\* what is collected and applied so far is what the functions on the submitted
\* run say, and the answer is theirs.
THEOREM OutcomeInvariant == Spec => []OutcomeInv
<1>1. Init => OutcomeInv
  BY InitOutcome
<1>2. AdmissionInv /\ AdmissionInv' /\ OutcomeInv /\ [Next]_vars => OutcomeInv'
  BY NextOutcome
<1> QED BY <1>1, <1>2, AdmissionInvariant, PTL DEF Spec

\* The counters and the loop indices stay in range, and from Default on the run
\* is Pending, for any number of requests.
THEOREM AdmissionTypes == Spec => []TypeOK
<1>1. OutcomeInv => TypeOK
  BY DEF OutcomeInv
<1> QED BY <1>1, OutcomeInvariant, PTL

\* The run of an admitted request is what the mutations asked for make of it.
LEMMA AdmittedIsAsAsked == ASSUME AdmissionInv, OutcomeInv, Admitted PROVE AdmittedAsAsked
<1>1. mutations = Asked /\ DefaultAll(cfg, submitted) = Changed(plr)
  BY DEF OutcomeInv, AnswerFollows, Admitted
<1> QED BY <1>1 DEF AdmissionInv, AdmittedAsAsked

\* mutateManagedBy, mutateMultiKueue and Default: for any expressions, the last
\* routing call and the last call that names a queue decide.
THEOREM LastCallRoutes == Spec => []RoutedByLastCall
<1>1. AdmissionInv /\ OutcomeInv => RoutedByLastCall
  BY AdmittedIsAsAsked, RoutedOutcome DEF RoutedByLastCall
<1> QED BY <1>1, AdmissionInvariant, OutcomeInvariant, PTL

\* CELMutator.evaluate: for any expressions, none of them sees what another one
\* has set; the last priority() or label() decides the priority class.
THEOREM EvaluationPrecedesMutation == Spec => []EvaluatedOnSubmittedRun
<1>1. AdmissionInv /\ OutcomeInv => EvaluatedOnSubmittedRun
  BY AdmittedIsAsAsked, PriorityOutcome DEF EvaluatedOnSubmittedRun
<1> QED BY <1>1, AdmissionInvariant, OutcomeInvariant, PTL

\* mutateResource: any number of calls on a key, in any order with the other
\* mutations, leave their sum, as long as the sums fit an int.
THEOREM ResourcesAddUp == Spec => [](SumsFit => ResourcesAreSummed)
<1>1. AdmissionInv /\ OutcomeInv /\ SumsFit => ResourcesAreSummed
  BY AdmittedIsAsAsked, SumOutcome DEF ResourcesAreSummed
<1> QED BY <1>1, AdmissionInvariant, OutcomeInvariant, PTL

\* mutateResource and parseResourcesRequestsAnnotation: for any width of int,
\* any expressions and any number of submissions, sums that do not fit
\* included, a run that is queued asks for exactly what was added up.
THEOREM QueuedForTheirTotals == Spec => []QueuedRequestsAreExact
<1>1. ASSUME AdmissionInv, OutcomeInv, podSets = "requests", pc = "done", resp = Allowed
      PROVE  IsSummed
  <2>1. AdmittedAsAsked
    BY <1>1, AdmittedIsAsAsked DEF Admitted
  <2>2. resourcesRequests(plr)
    BY <1>1 DEF OutcomeInv, AnswerFollows, NotAsked
  <2> QED BY <2>1, <2>2, SumOutcome
<1>2. AdmissionInv /\ OutcomeInv => QueuedRequestsAreExact
  BY <1>1 DEF QueuedRequestsAreExact
<1> QED BY <1>2, AdmissionInvariant, OutcomeInvariant, PTL

\* pipelinerun_controller.go, PodSets: as long as the sums fit an int, an
\* annotation of a stored run that the controller cannot parse is the user's, or
\* an annotation() wrote it.
THEOREM ComputedRequestsParse == Spec => [](SumsFit => StoredRunsCanBeQueued)
<1>1. ASSUME AdmissionInv, OutcomeInv, SumsFit, podSets = Unretryable, pc = "done",
             resp = Allowed
      PROVE  \/ ~resourcesRequests(submitted)
             \/ \E i \in DOMAIN Asked : Asked[i].type = "annotation"
                                           /\ Asked[i].key.requests
  <2>1. AdmittedAsAsked
    BY <1>1, AdmittedIsAsAsked DEF Admitted
  <2>2. PICK k \in DOMAIN plr.annotations :
           ~parseResourcesRequestsAnnotation(k, plr.annotations[k])
    BY <1>1 DEF OutcomeInv, AnswerFollows, resourcesRequests, NotAsked, Unretryable
  <2>3. Handle(plr).annotations = plr.annotations
    BY <1>1, HandleFilters DEF AdmissionInv
  <2>4. IsQualifiedName(k)
    BY <1>1, <2>3 DEF OutcomeInv, AnswerFollows, ValidObject
  <2> QED BY <1>1, <2>1, <2>2, <2>4, QueueOutcome DEF resourcesRequests
<1>2. AdmissionInv /\ OutcomeInv => (SumsFit => StoredRunsCanBeQueued)
  BY <1>1 DEF StoredRunsCanBeQueued
<1> QED BY <1>2, AdmissionInvariant, OutcomeInvariant, PTL

\* The annotation that stops Mutate holds a sum beyond the range of int, or
\* what an annotation() or the user wrote.
LEMMA StopOutcome ==
    ASSUME AdmissionInv, StopsAtNext
    PROVE  LET k == mutations[next].key
           IN \/ /\ k \in DOMAIN submitted.annotations
                 /\ ~CanBeAddedTo(submitted.annotations[k])
              \/ \E i \in 1..(next - 1) :
                    /\ mutations[i].type = "annotation" /\ mutations[i].key = k
                    /\ ~CanBeAddedTo(mutations[i].value)
              \/ Totals(mutations, k, submitted)[next - 1] > MaxInt
<1> DEFINE k == mutations[next].key
           N == next - 1
           a == plr.annotations
           total == Totals(mutations, k, submitted)[N]
           f == [n \in 0..N |-> Applied(Start, mutations)[n].run]
<1>1. /\ IsSequence(mutations) /\ \A i \in DOMAIN mutations : IsChecked(mutations[i])
      /\ IsRun(submitted) /\ next \in DOMAIN mutations
  BY DEF AdmissionInv, StopsAtNext
<1>2. N \in 0..Len(mutations) /\ N \in 0..N
  BY <1>1 DEF IsSequence
<1>3. IsRun(Start) /\ Start.annotations = submitted.annotations
  BY <1>1, DefaultedFields DEF Start
<1>4. Applied(Start, mutations)[N].ok /\ Applied(Start, mutations)[N].run = plr
  BY DEF StopsAtNext, Changed
<1>5. ChainTo(Start, mutations, N, f) /\ f[N] = plr
  BY <1>1, <1>2, <1>3, <1>4, AppliedIsChain
<1>6. k \in DOMAIN a /\ ~CanBeAddedTo(a[k])
  BY <1>1, MutateFails DEF StopsAtNext
<1>7. Totals(mutations, k, Start)[N] = total
  BY <1>3 DEF Totals, Written
<1> HIDE DEF f, N, k, total
<1>8. /\ Counts(mutations, k, N) => HasSum(a, k, total)
      /\ ~Counts(mutations, k, N) => \/ SameAt(a, submitted.annotations, k)
                                     \/ IsOverwritten(a, k, mutations, N)
  BY <1>3, <1>5, <1>7, LastSum
<1> HIDE DEF a
<1>9. CASE HasSum(a, k, total)
  <2>1. total \in 0..(2 * MaxInt) /\ a[k] = Itoa(Wrap(total)) /\ MaxInt \in Nat
    BY <1>9, IntBitsAssumption DEF HasSum, MaxInt
  <2>2. total <= MaxInt => CanBeAddedTo(Itoa(total))
    BY <2>1 DEF CanBeAddedTo, Atoi, Itoa, Value
  <2>3. ~(total <= MaxInt)
    BY <1>6, <2>1, <2>2, WrapOnce
  <2>4. total > MaxInt
    BY <2>1, <2>3
  <2> QED BY <2>4 DEF total, k, N
<1>10. CASE SameAt(a, submitted.annotations, k)
  <2>1. k \in DOMAIN submitted.annotations /\ ~CanBeAddedTo(submitted.annotations[k])
    BY <1>6, <1>10 DEF SameAt
  <2> QED BY <2>1 DEF k
<1>11. CASE IsOverwritten(a, k, mutations, N)
  <2>1. \E i \in 1..N : /\ mutations[i].type = "annotation" /\ mutations[i].key = k
                        /\ ~CanBeAddedTo(mutations[i].value)
    BY <1>6, <1>11 DEF IsOverwritten
  <2> QED BY <2>1 DEF k, N
<1> QED BY <1>8, <1>9, <1>10, <1>11

\* mutator.go, mutate: for any expressions, runs and width of int, a request
\* whose expressions could all be evaluated fails only on a value that
\* resource() did not compute, or could not within the range of int.
THEOREM OnlyForeignValuesStopSums == Spec => []SumsStopAtForeignValues
<1>1. AdmissionInv /\ OutcomeInv => SumsStopAtForeignValues
  BY StopOutcome DEF OutcomeInv, AnswerFollows, SumsStopAtForeignValues
<1> QED BY <1>1, AdmissionInvariant, OutcomeInvariant, PTL

\* pkg/mutate/mutate.go and the webhook: for any configuration and run, the
\* command prints what the webhook stores, and nothing when it refuses.
THEOREM PreviewIsTheWebhooks == Spec => []PreviewAgrees
<1>1. ASSUME AdmissionInv, OutcomeInv, pc = "done"
      PROVE  LET printed == MutatePipelineRun({submitted}, {cfg})
             IN /\ printed # {} <=> resp \in {Allowed, Invalid}
                /\ resp = Allowed => \A run \in stored, out \in printed :
                      \A f \in {"labels", "annotations", "status", "managedBy"} :
                         run[f] = out[f]
  <2> DEFINE d == DefaultAll(cfg, submitted)
             printed == MutatePipelineRun({submitted}, {cfg})
             Fields == {"labels", "annotations", "status", "managedBy"}
  <2>1. printed = IF d.ok THEN {RoundTrip(d.run)} ELSE {}
    BY <1>1, PreviewOutcome DEF AdmissionInv
  <2>2. IF resp \in {Allowed, Invalid} THEN d = Changed(plr) ELSE ~d.ok
    BY <1>1 DEF OutcomeInv, AnswerFollows
  <2> HIDE DEF d, printed
  <2>3. resp \in {Allowed, Invalid} => printed = {RoundTrip(plr)}
    BY <2>1, <2>2 DEF Changed
  <2>4. resp \notin {Allowed, Invalid} => printed = {}
    BY <2>1, <2>2
  <2>5. resp = Allowed => stored = {Handle(plr)}
    BY <1>1 DEF AdmissionInv
  <2>6. \A f \in Fields : Handle(plr)[f] = plr[f]
    BY <1>1, HandleFilters DEF AdmissionInv
  <2>7. \A f \in Fields : RoundTrip(plr)[f] = plr[f]
    BY <1>1 DEF AdmissionInv, RoundTrip, IsRun, RunFields
  <2>8. printed # {} <=> resp \in {Allowed, Invalid}
    BY <2>3, <2>4
  <2>9. ASSUME resp = Allowed, NEW run \in stored, NEW out \in printed, NEW f \in Fields
        PROVE  run[f] = out[f]
    <3>1. run = Handle(plr) /\ out = RoundTrip(plr)
      BY <2>3, <2>5, <2>9
    <3> QED BY <2>6, <2>7, <3>1
  <2> QED BY <2>8, <2>9 DEF printed
<1>2. AdmissionInv /\ OutcomeInv => PreviewAgrees
  BY <1>1 DEF PreviewAgrees
<1> QED BY <1>2, AdmissionInvariant, OutcomeInvariant, PTL
=============================================================================
