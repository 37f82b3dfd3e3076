----------------------------- MODULE QuotaGate -----------------------------
(***************************************************************************)
(* What queueing PipelineRuns promises to its users: a submitted run waits *)
(* in a queue, is released at most once, only while fewer than Quota runs  *)
(* are released, and once it has ended it is over.                         *)
(***************************************************************************)
EXTENDS Naturals, FiniteSets

CONSTANTS Run, Quota

VARIABLE phase

InPhase(s) == {p \in Run : phase[p] = s}

Init == phase = [p \in Run |-> "absent"]

Submit(p) ==
    /\ phase[p] = "absent"
    /\ phase' = [phase EXCEPT ![p] = "queued"]

Release(p) ==
    /\ phase[p] = "queued"
    /\ Cardinality(InPhase("released")) < Quota
    /\ phase' = [phase EXCEPT ![p] = "released"]

End(p) ==
    /\ phase[p] \in {"queued", "released"}
    /\ phase' = [phase EXCEPT ![p] = "ended"]

Next == \E p \in Run : Submit(p) \/ Release(p) \/ End(p)

Spec == Init /\ [][Next]_phase
=============================================================================
