\* Users write requests of their own, in every form an annotation may have.
CONSTANTS
    IntBits = 8
    MaxSubmissions = 1
    Submission <- PlainSubmission
    Configuration <- ResourceConfiguration
SPECIFICATION Spec
INVARIANT EvaluationErrorsAreServerSide
CHECK_DEADLOCK FALSE
