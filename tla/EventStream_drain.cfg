CONSTANTS
    Observers = {o1}
    Capacity = 2
    LiveCapacity = 2
    MaxSequence = 2
    MaxVersion = 2
SPECIFICATION Spec
INVARIANT ClosedAfterDrain
CHECK_DEADLOCK FALSE
