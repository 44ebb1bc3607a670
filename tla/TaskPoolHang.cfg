CONSTANTS
    a = a
    b = b
    c = c
    d = d
    z = z
    N = 3
    Tasks <- MCTasks
    SchedulingTask = SchedulingTask
    NoTask = NoTask
    Children <- MCChain
    Throws = {}
    Flows <- MCOneRoot
SPECIFICATION FairSpec
CHECK_DEADLOCK FALSE
PROPERTIES
    FlowReturns
