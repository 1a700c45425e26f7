\* A replay window larger than the broadcast ring, as in the native session bus:
\* lag is recoverable, and a reader can fall behind the window as well.
CONSTANTS
    Observers = {o1}
    Capacity = 4
    LiveCapacity = 2
    MaxSequence = 5
    MaxVersion = 2
SPECIFICATION FairSpec
INVARIANTS ClosedAfterEmptyPoll ShutdownIsTyped
PROPERTIES InOrder StreamsProgress
CHECK_DEADLOCK FALSE
