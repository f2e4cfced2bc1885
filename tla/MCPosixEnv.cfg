CONSTANTS
    i1 = i1
    i2 = i2
    i3 = i3
    i4 = i4
    None = None
    t1 = t1
    t2 = t2
    t3 = t3
SPECIFICATION Spec
INVARIANTS
    NoSleepWithWork
    RunsInScheduleOrder
    SlotsConserved
    AllowedNeverNegative
PROPERTY
    EveryScheduledItemRuns
\* Once every item has run and no thread opens a file, the background
\* thread waits forever and the limiter is idle: the Env really stops.
CHECK_DEADLOCK FALSE
