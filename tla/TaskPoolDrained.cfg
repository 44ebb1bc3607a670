CONSTANTS
    a = a
    b = b
    c = c
    d = d
    z = z
    N = 3
    Tasks <- MCTasks
    SchedulingTask = SchedulingTask
    NoTask = NoTask
    Children <- MCSplit
    Throws = {}
    Flows <- MCOneRoot
SPECIFICATION Spec
CHECK_DEADLOCK FALSE
INVARIANTS
    FlowDrained
