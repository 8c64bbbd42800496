\* Two producers, three tasks over four clock ticks.
CONSTANTS
    p1 = p1
    p2 = p2
    Producers <- MC_Producers
    MaxTasks = 2
    MaxTime = 3
    QCap = 1
SPECIFICATION Spec
INVARIANTS
    TypeOK
    NoOversleep
    RunsAtMostOnce
PROPERTIES
    EveryTaskRuns
