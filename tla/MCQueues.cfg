CONSTANTS
    Ops = {x1, x2}
    NoOp = NoOp
    AsyncEndings = {"close", "finish"}
    Requests = {x1, x2, x3}
    NoRequest = NoRequest
    Workers = {x1, x2}
    maxDepth = 1
    Prompt = TRUE
    Servants = {x1}
    x1 = x1
    Tasks = {x1, x2}
    DueTimes <- MCDueTimes
    Repeating = {x1}
    MaxTime = 3
    SchedulerEndings = {"stop", "drain", "interrupt"}
    Callers = {x1, x2}
    Sync = {x1}
    Calls = 2
    write_buffer_size = 1
    kL0_CompactionTrigger = 1
    kL0_StopWritesTrigger = 2
    Faults = TRUE
    Off = Off
SPECIFICATION QueuesSpec
\* The queues may be ended, and then nothing is left to do.
CHECK_DEADLOCK FALSE
INVARIANTS
    EveryRequestInOnePlace
    AnswersAreTrue
PROPERTIES
    EverybodyIsServed
    StopReturns
