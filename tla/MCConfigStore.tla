--------------------------- MODULE MCConfigStore ---------------------------
(* ConfigStore for TLC: five documents, one of each kind that Update tells *)
(* apart.                                                                  *)
EXTENDS ConfigStore, TLC

MCDoc == {"plain", "routed", "override only", "broken cel", "garbage"}
MCWellFormed == MCDoc \ {"garbage"}
MCQueueName == [d \in MCDoc |-> CASE d = "plain" -> "queue a"
                                  [] d = "routed" -> "queue b"
                                  [] d = "broken cel" -> "queue a"
                                  [] OTHER -> NoName]
MCOverride == {"routed", "override only"}
MCExpressions == [d \in MCDoc |-> CASE d = "routed" -> "priority"
                                    [] d = "broken cel" -> "syntax error"
                                    [] OTHER -> NoProgram]
\* Requests are interchangeable; used by the run without liveness properties.
RequestSymmetry == Permutations(Request)
=============================================================================
