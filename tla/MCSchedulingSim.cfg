\* Three tasks that arrive together or one unit apart.
CONSTANTS
    Tasks = 3
    Traces <- SomeTraces
    Arrivals = {0, 1}
    Priorities = {0}
    Configs <- SomeConfigs
SPECIFICATION SimSpec
INVARIANT Consistent
CHECK_DEADLOCK FALSE
