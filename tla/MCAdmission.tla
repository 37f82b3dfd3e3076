---------------------------- MODULE MCAdmission ----------------------------
(* Admission for TLC: configurations of at most two expressions, each one  *)
(* of the forms the README shows, and runs with and without the labels and *)
(* annotations the expressions write.                                      *)
EXTENDS Admission

Cpu == Key("cpu", 0, 3)
LongName == Key("long", 0, 60)
Domain == Key("example.com/gpu", 1, 3)

Calls(cs) == [type |-> <<"list", "map", "string">>, when |-> Always, has |-> TRUE,
              calls |-> cs, otherwise |-> <<>>]
OfType(type) == [Calls(<<>>) EXCEPT !.type = type]
C(fn, k, v) == [fn |-> fn, key |-> k, value |-> v]

Sum == Calls(<<C("resource", Cpu, Itoa(1)), C("resource", Cpu, Itoa(2))>>)
One == Calls(<<C("resource", Cpu, Itoa(1))>>)
Negative == Calls(<<C("resource", Cpu, Itoa(-1))>>)
Overwrite == Calls(<<C("annotation", RequestsKey(Cpu), Itoa(2)),
                     C("resource", Cpu, Itoa(1))>>)
OverwriteText == Calls(<<C("annotation", RequestsKey(Cpu), Text("x"))>>)
Urgent == Calls(<<C("priority", NoKey, Text("high"))>>)
IfUrgent == [Calls(<<C("priority", NoKey, Text("urgent")),
                     C("multiKueue", NoKey, Text("fast"))>>)
             EXCEPT !.when = PriorityLabel]
Spoke == Calls(<<C("multiKueueHere", NoKey, Empty)>>)
SpokeQueue == Calls(<<C("multiKueue", NoKey, Text("spoke"))>>)
Managed == Calls(<<C("managedBy", NoKey, Text("tekton"))>>)
Relabel == Calls(<<C("label", QueueLabel, Text("other"))>>)
EmptyLabel == Calls(<<C("label", QueueLabel, Empty)>>)
BadLabel == Calls(<<C("label", QueueLabel, Value("blob", "a b", 0))>>)
BadPriority == Calls(<<C("priority", NoKey, Value("blob", "a b", 0))>>)
Literal == Calls(<<C("literal", NoKey, Empty)>>)
EmptyKey == Calls(<<C("resource", NoKey, Itoa(1))>>)

EventType == Calls(<<C("annotation", Key("event", 0, 5), PacEventType)>>)
EventOfRun == Calls(<<C("annotation", Key("event", 0, 5), EventTypeOfRun)>>)
NoSuchField == Calls(<<C("resource", Cpu, Itoa(1)),
                       C("annotation", Key("test", 0, 4), NoSuchKey)>>)
Unguarded == [IfUrgent EXCEPT !.has = FALSE]
WholeRun == [Calls(<<C("pipelineRun", NoKey, Empty)>>) EXCEPT !.type = <<"map", "string">>]
Names == OfType(<<"list", "string">>)
SyntaxError == OfType(Untypable)

Expression == {Sum, One, Negative, Overwrite, OverwriteText, Urgent, IfUrgent,
               Spoke, SpokeQueue, Managed, Relabel, EmptyLabel, BadLabel,
               BadPriority, Literal, EmptyKey, EventType, EventOfRun,
               NoSuchField, Unguarded, WholeRun, Names, SyntaxError}

MCConfiguration ==
    [queue : {Text("default")}, override : BOOLEAN,
     programs : BoundedSeq(Expression, 2)]

\* The expressions of compiler_test.go with a domain in the resource name.
DomainConfiguration ==
    [queue : {Text("default")}, override : {FALSE},
     programs : BoundedSeq({One, Urgent,
                            Calls(<<C("resource", Domain, Itoa(1))>>),
                            Calls(<<C("resource", LongName, Itoa(1))>>)}, 2)]

ResourceConfiguration ==
    [queue : {Text("default")}, override : {FALSE},
     programs : BoundedSeq({One, Sum, Overwrite, OverwriteText, Negative, Urgent,
                            NoSuchField}, 2)]

NoMap == <<>>
At(k, v) == [x \in {k} |-> v]

Requests1 == {At(RequestsKey(Cpu), v) :
                 v \in {Itoa(0), Itoa(1), Itoa(-1), Value("quantity", "500m", 1), Text("x")}}

MCSubmission ==
    [labels : {NoMap, At(QueueLabel, Text("own")), At(QueueLabel, Empty),
               At(PriorityLabel, Text("low")), At(EventTypeLabel, Text("push"))},
     annotations : {NoMap} \cup Requests1,
     managedBy : {Text("none")}, status : {"none", "Cancelled"},
     template : {"none", "set"}, valid : {TRUE}]
    \cup
    [labels : {NoMap}, annotations : {NoMap}, managedBy : {Text("own")},
     status : {"none"}, template : {"none"}, valid : BOOLEAN]

PlainSubmission ==
    [labels : {NoMap}, annotations : {NoMap} \cup Requests1,
     managedBy : {Text("none")}, status : {"none"}, template : {"none"},
     valid : {TRUE}]
=============================================================================
