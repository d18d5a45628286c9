CONSTANTS
    Events <- MCEvents
    MaxEvents = 3
SPECIFICATION Spec
PROPERTY UiReaped
CHECK_DEADLOCK FALSE
