\* Int of 8 bits: no sum of two submissions reaches the limit.
CONSTANTS
    IntBits = 8
    MaxSubmissions = 1
    Submission <- MCSubmission
    Configuration <- MCConfiguration
SPECIFICATION Spec
INVARIANTS TypeOK ResourcesAreSummed RoutedByLastCall EvaluatedOnSubmittedRun
           OnlyIntendedFieldsChange StoredRunsCanBeQueued StoredRunsAreQueued
           PreviewAgrees
CHECK_DEADLOCK FALSE
