SPECIFICATION Spec
CONSTANTS
    Doc <- MCDoc
    WellFormed <- MCWellFormed
    QueueName <- MCQueueName
    Override <- MCOverride
    Expressions <- MCExpressions
    Compiling = {"priority"}
    Request = {r1, r2}
    UserQueue = {}
    MaxRestarts = 1
SYMMETRY RequestSymmetry
INVARIANTS
    TypeOK
    StoreInv
    OneDocumentPerRequest
PROPERTIES
    ImplementsRegister
