CONSTANTS
    Events <- MCEvents
    MaxEvents = 3
SPECIFICATION Spec
INVARIANT NoSleepOnWork
CHECK_DEADLOCK FALSE
