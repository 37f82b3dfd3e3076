SPECIFICATION FairSpec
CONSTANTS
    Doc <- MCDoc
    WellFormed <- MCWellFormed
    QueueName <- MCQueueName
    Override <- MCOverride
    Expressions <- MCExpressions
    Compiling = {"priority"}
    Request = {r1}
    UserQueue = {"user queue"}
    MaxRestarts = 1
INVARIANTS
    OneDocumentPerRequest
PROPERTIES
    LatestConfigWins
    RequestsAreAnswered
