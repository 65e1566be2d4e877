\* Two kinds of requests, two connections that break.
SPECIFICATION FairSpec
CONSTANTS
    Requests = {"regs", "step"}
    MaxQueue = 2
    MaxBatch = 2
    MaxLosses = 2
PROPERTIES AnswerIsFresh StoppedOnHello RequestAnswered BreakReported StopObeyed
CHECK_DEADLOCK FALSE
