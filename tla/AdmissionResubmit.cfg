\* Three submissions, of new manifests or of stored ones; int of 3 bits, -4..3,
\* so that sums leave its range.
CONSTANTS
    IntBits = 3
    MaxSubmissions = 3
    Submission <- PlainSubmission
    Configuration <- ResourceConfiguration
SPECIFICATION Spec
INVARIANTS AdmissionInv OutcomeInv QueuedRequestsAreExact EvaluationsHaveOutcomes
           SumsStopAtForeignValues
CHECK_DEADLOCK FALSE
