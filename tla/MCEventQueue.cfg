CONSTANTS
    j1 = j1
    j2 = j2
    j3 = j3
    j4 = j4
    e1 = e1
    e2 = e2
    e3 = e3
    e4 = e4
    e5 = e5
    e6 = e6
    e7 = e7
    k1 = k1
    q1 = q1
    NoKey = NoKey
    External = External
    Jobs = {j1, j2}
    Events = {e1, e2, e3}
    Keys = {k1}
    QueueKeys = {q1}
    Batch <- MCBatch
    QueueOf <- MCQueueOf
    KeyOf <- MCKeyOf
    LimitOf <- MCLimitOf
    NestedIn <- MCNestedIn
    MaxRetry = 1
    MaxBatch = 2
SPECIFICATION Spec
INVARIANTS
    PermitsAreSound
    ResolvedIsQuiescent
PROPERTIES
    CancelIsFinal
    KeepsContract
