\* Resource names with a domain, or close to the limit of a name.
CONSTANTS
    IntBits = 8
    MaxSubmissions = 1
    Submission <- PlainSubmission
    Configuration <- DomainConfiguration
SPECIFICATION Spec
INVARIANT ResourceKeysAreValid
CHECK_DEADLOCK FALSE
