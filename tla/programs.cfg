SPECIFICATION Spec
CONSTANTS
    MaxThreads = 3
    ExampleTasks = 3
    RunCnt = 3
    Cap = 2
    MaxFrames = 3
    MaxPauses = 1
    MaxConns = 2
    MaxMsgs = 2
    BufCap = 2
    FixFds = 2
    MaxFaults = 1
    SpinThreads = {s1, s2, s3}
CHECK_DEADLOCK FALSE
INVARIANTS
    NothingLost
     EngineFinishes ResultReachesAwaiter StaleOnlyNested
    EchoExact OneOperationEach SlotsExact
    SpinExclusion
PROPERTIES
    ProgramEnds EverythingEchoed DescriptorsReturned
