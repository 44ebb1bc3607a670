CONSTANTS
    a = a
    b = b
    c = c
    d = d
    z = z
    N = 3
    Tasks <- MCTasks
    SchedulingTask = SchedulingTask
    NoTask = NoTask
    Children <- MCFollow
    Throws = {a}
    Flows <- MCPhases
SPECIFICATION Spec
CHECK_DEADLOCK FALSE
INVARIANTS
    TypeOK
    PopFindsTask
    TaskConservation
    BatchDealt
    OneToken
    SchedulerNeverRelocks
    EndsQuiet
    StuckOnlyIfStranded
