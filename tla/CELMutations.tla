---------------------------- MODULE CELMutations ----------------------------
(***************************************************************************)
(* internal/cel: what a compiled CEL program makes of a PipelineRun, and   *)
(* how one mutation changes the run.  A program is a condition on the run  *)
(* and the calls it makes when the condition holds.  Its type is known when *)
(* it is compiled; that it reads a label or a field the run does not have,  *)
(* or delivers a map that is no mutation, only shows when it is evaluated.  *)
(*                                                                         *)
(* A map of the run (labels, annotations) is a function whose domain is    *)
(* the set of its keys.  A key keeps what IsQualifiedName and the prefix   *)
(* of resource() look at: its slashes and the length of its name part.  A  *)
(* value keeps what Atoi, ParseQuantity and the value checks look at.      *)
(***************************************************************************)
EXTENDS Integers, SequencesExt

CONSTANT IntBits            \* the width of Go's int and of CEL's int

\* The last two conjuncts are arithmetic that the provers have no rules for.
ASSUME IntBitsAssumption ==
    /\ IntBits \in Nat \ {0}
    /\ 2^(IntBits - 1) \in Nat \ {0}
    /\ 2^IntBits = 2 * 2^(IntBits - 1)

MaxInt == 2^(IntBits - 1) - 1
Wrap(n) == ((n + MaxInt + 1) % 2^IntBits) - MaxInt - 1

-----------------------------------------------------------------------------
(* Keys and values.                                                        *)

Key(name, slashes, len) ==
    [name |-> name, slashes |-> slashes, len |-> len, requests |-> FALSE]

EventTypeLabel == Key("event-type", 1, 10)
QueueLabel == Key("queue-name", 1, 10)
PriorityLabel == Key("priority-class", 1, 14)
ManagedByKey == Key("managedBy", 0, 9)
NoKey == Key("no key", 0, 0)
ConcurrencyToken == "tekton.dev/pipelineruns"

\* "int": a decimal numeral; "quantity": any other Kubernetes quantity, n is
\* its sign; "text": a short string; "blob": no label value; "huge": too long
\* for an annotation as well.
Value(kind, s, n) == [kind |-> kind, s |-> s, n |-> n]
Text(s) == Value("text", s, 0)
Itoa(n) == Value("int", "numeral", n)
Empty == Text("empty")
MultiKueue == Text("multikueue")

Put(map, k, v) == [x \in DOMAIN map \cup {k} |-> IF x = k THEN v ELSE map[x]]

Atoi(v) == IF v.kind = "int" /\ v.n \in (-MaxInt - 1)..MaxInt
           THEN [ok |-> TRUE, n |-> v.n]
           ELSE [ok |-> FALSE, n |-> 0]

IsQualifiedName(k) == k.slashes <= 1 /\ k.len \in 1..63

validateKey(k) == IsQualifiedName(k)

validateLabelValue(v) == v.kind \notin {"blob", "huge"}

validateAnnotationValue(v) == v.kind # "huge"

\* "kueue.konflux-ci.dev/requests-" + key: one more slash, and nine more
\* characters after it.
RequestsKey(k) == [k EXCEPT !.slashes = @ + 1, !.len = @ + 9, !.requests = TRUE]

-----------------------------------------------------------------------------
(* Compilation.  cel-go's verdict on an expression is its output type, the  *)
(* kinds from the outside in, or Untypable.                                 *)

Untypable == <<"error">>
MutationTypes == {<<"map", "string">>, <<"list", "map", "string">>}

isValidOutputType(type) == type \in MutationTypes

compileSingleExpression(e) == e.type # Untypable /\ isValidOutputType(e.type)

\* An empty expression is refused like one that cannot be typed.
CompileCELPrograms(expressions) ==
    /\ expressions # <<>>
    /\ \A i \in DOMAIN expressions : compileSingleExpression(expressions[i])

-----------------------------------------------------------------------------
(* The functions of the CEL environment.  A call that fails is an error of *)
(* the whole expression.  The result of one that does not is a map, which  *)
(* ref.Val.Value() delivers as one of two Go types.                        *)

GoMap == "map[string]interface{}"
RefMap == "map[ref.Val]ref.Val"

Mutation(type, key, value) ==
    [ok |-> TRUE, native |-> GoMap,
     mutation |-> [type |-> type, key |-> key, value |-> value]]
Failed == [Mutation("none", NoKey, Empty) EXCEPT !.ok = FALSE]

createMutationFunction(type, c) ==
    IF /\ validateKey(c.key)
       /\ type = "label" => validateLabelValue(c.value)
       /\ type = "annotation" => validateAnnotationValue(c.value)
    THEN Mutation(type, c.key, c.value)
    ELSE Failed

\* Mutant: negative requests are accepted.
createResourceOfAnySign(c) ==
    IF validateKey(c.key)
    THEN Mutation("resource", RequestsKey(c.key), c.value)
    ELSE Failed

createResourceMutationFunction(c) ==
    IF /\ c.value.n >= 0
       /\ validateKey(c.key)
       /\ validateAnnotationValue(c.value)
    THEN Mutation("resource", RequestsKey(c.key), c.value)
    ELSE Failed

createPriorityMutationFunction(c) == Mutation("label", PriorityLabel, c.value)

createManagedByFunction(c) ==
    IF c.value # Empty THEN Mutation("managedBy", ManagedByKey, c.value)
    ELSE Failed

\* multiKueue(queueName); multiKueue() is the call "multiKueueHere".
createMultiKueueFunction(c) ==
    IF c.value # Empty /\ validateLabelValue(c.value)
    THEN Mutation("multiKueue", ManagedByKey, c.value)
    ELSE Failed

ValidTypes == {"annotation", "label", "resource", "managedBy", "multiKueue"}

\* Mutant: a mutation may have no value.
ValidateKeyOnly(m) ==
    m.type \in ValidTypes /\ m.key.len # 0 /\ (m.type = "managedBy" => m.key = ManagedByKey)

\* MutationRequest.Validate.
Validate(m) ==
    /\ m.type \in ValidTypes
    /\ m.key.len # 0
    /\ m.value # Empty \/ m.type = "multiKueue"
    /\ m.type = "managedBy" => m.key = ManagedByKey

Functions == {"label", "annotation", "resource", "priority", "managedBy",
              "multiKueue", "multiKueueHere", "literal", "pipelineRun"}

\* The variable pacEventType (pacTestEventType is a second one like it): the
\* value of a label, empty when the run does not have it.
PacEventType == Value("variable", "pacEventType", 0)

\* The same label read from the run itself, pipelineRun.metadata.labels[...].
EventTypeOfRun == Value("variable", "event-type of pipelineRun", 0)

\* cel-go's runtime errors: a key or a field that is not there, as in
\* pipelineRun.doesNotExist, or a value of the run that has another type than
\* the function takes.
NoSuchKey == Value("error", "no such key", 0)

Argument(v, run) ==
    CASE v \notin {PacEventType, EventTypeOfRun} -> v
      [] v \in {PacEventType, EventTypeOfRun} /\ EventTypeLabel \in DOMAIN run.labels
           -> run.labels[EventTypeLabel]
      [] v = PacEventType /\ EventTypeLabel \notin DOMAIN run.labels -> Empty
      [] v = EventTypeOfRun /\ EventTypeLabel \notin DOMAIN run.labels -> NoSuchKey

\* One element of the result of an expression, as Eval delivers it.  Functions
\* are strict: an error of an argument is an error of the call.  Two elements
\* have the type of a mutation without being the result of a function: a map
\* written out in the expression ("literal"), and the variable pipelineRun.
Call(c) ==
    IF c.value = NoSuchKey THEN Failed
    ELSE CASE c.fn \in {"label", "annotation"} -> createMutationFunction(c.fn, c)
           [] c.fn = "resource" -> createResourceMutationFunction(c)
           [] c.fn = "priority" -> createPriorityMutationFunction(c)
           [] c.fn = "managedBy" -> createManagedByFunction(c)
           [] c.fn = "multiKueue" -> createMultiKueueFunction(c)
           [] c.fn = "multiKueueHere" -> Mutation("multiKueue", ManagedByKey, Empty)
           [] c.fn = "literal" -> [Mutation("label", c.key, c.value) EXCEPT !.native = RefMap]
           [] c.fn = "pipelineRun" -> Mutation("none", NoKey, Empty)

\* extractMutationType and extractStringField included: a map of Go strings
\* with a type that is known and a key that is not empty.
convertSingleMutation(r) ==
    /\ r.native = GoMap
    /\ r.mutation.type \in ValidTypes
    /\ r.mutation.key.len # 0

\* A list, in either of the forms cel-go has for one, is converted element by
\* element; a single map is treated like a list of one, and what is neither
\* (a RefMap) is refused, as it is in a list.
convertToMutationRequests(results) ==
    \A i \in DOMAIN results : convertSingleMutation(results[i])

\* The condition reads a label of the run it is evaluated on.  With has() it
\* is a test for the label; without, it is an error on a run that does not
\* have it.  The condition Always holds of every run.
Always == NoKey

Holds(program, run) == program.when = Always \/ program.when \in DOMAIN run.labels

Evaluate(program, run) ==
    LET calls == IF Holds(program, run) THEN program.calls ELSE program.otherwise
        results == [i \in DOMAIN calls |->
                       Call([calls[i] EXCEPT !.value = Argument(@, run)])]
    IN IF /\ program.has \/ Holds(program, run)
          /\ \A i \in DOMAIN calls : results[i].ok
          /\ convertToMutationRequests(results)
          /\ \A i \in DOMAIN calls : Validate(results[i].mutation)
       THEN [ok |-> TRUE,
             mutations |-> [i \in DOMAIN calls |-> results[i].mutation]]
       ELSE [ok |-> FALSE, mutations |-> <<>>]

-----------------------------------------------------------------------------
(* mutate: one mutation applied to the run.                                *)

Refused(run) == [ok |-> FALSE, run |-> run]
Changed(run) == [ok |-> TRUE, run |-> run]

\* Mutant: the request in the annotation is replaced, not added to.
replaceResource(run, m) ==
    Changed([run EXCEPT !.annotations = Put(@, m.key, m.value)])

\* Mutant: a request of zero is not added to.
mutateResourceAboveZero(run, m) ==
    LET new == Atoi(m.value)
        existing == IF m.key \in DOMAIN run.annotations
                    THEN Atoi(run.annotations[m.key])
                    ELSE [ok |-> TRUE, n |-> 0]
    IN IF new.ok /\ existing.ok /\ (m.key \in DOMAIN run.annotations => existing.n > 0)
       THEN Changed([run EXCEPT !.annotations =
                        Put(@, m.key, Itoa(Wrap(new.n + existing.n)))])
       ELSE Refused(run)

mutateResource(run, m) ==
    LET new == Atoi(m.value)
        existing == IF m.key \in DOMAIN run.annotations
                    THEN Atoi(run.annotations[m.key])
                    ELSE [ok |-> TRUE, n |-> 0]
    IN IF new.ok /\ existing.ok /\ existing.n >= 0
       THEN Changed([run EXCEPT !.annotations =
                        Put(@, m.key, Itoa(Wrap(new.n + existing.n)))])
       ELSE Refused(run)

\* Mutant: the queue of multiKueue(queueName) is forgotten.
mutateMultiKueueHere(run, m) == Changed([run EXCEPT !.managedBy = MultiKueue])

mutateMultiKueue(run, m) ==
    Changed([run EXCEPT !.managedBy = MultiKueue,
                        !.labels = IF m.value = Empty THEN @
                                   ELSE Put(@, QueueLabel, m.value)])

mutate(run, m) ==
    CASE m.type = "label" ->
            Changed([run EXCEPT !.labels = Put(@, m.key, m.value)])
      [] m.type = "annotation" ->
            Changed([run EXCEPT !.annotations = Put(@, m.key, m.value)])
      [] m.type = "resource" -> mutateResource(run, m)
      [] m.type = "managedBy" -> Changed([run EXCEPT !.managedBy = m.value])
      [] m.type = "multiKueue" -> mutateMultiKueue(run, m)
=============================================================================
