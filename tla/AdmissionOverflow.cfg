\* Int of 3 bits: -4..3, so that two calls reach the limit.
CONSTANTS
    IntBits = 3
    MaxSubmissions = 2
    Submission <- PlainSubmission
    Configuration <- ResourceConfiguration
SPECIFICATION Spec
INVARIANT ResourcesAreSummed
CHECK_DEADLOCK FALSE
