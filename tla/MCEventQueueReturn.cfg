CONSTANTS
    j1 = j1
    j2 = j2
    j3 = j3
    j4 = j4
    e1 = e1
    e2 = e2
    e3 = e3
    e4 = e4
    e5 = e5
    e6 = e6
    e7 = e7
    k1 = k1
    q1 = q1
    NoKey = NoKey
    External = External
    Jobs = {j1, j3, j4}
    Events = {e1, e2, e4, e5, e6, e7}
    Keys = {k1}
    QueueKeys = {q1}
    Batch <- MCBatch
    QueueOf <- MCQueueOf
    KeyOf <- MCKeyOfNested
    LimitOf <- MCLimitOf
    NestedIn <- MCNestedIn
    MaxRetry = 0
    MaxBatch = 2
SPECIFICATION FairSpec
PROPERTIES
    PushReturns
