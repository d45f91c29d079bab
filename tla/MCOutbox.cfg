\* Two dispatchers, three rows, batches of two.
SPECIFICATION Spec
CONSTANTS
    m1 = m1
    m2 = m2
    m3 = m3
    d1 = d1
    d2 = d2
    Message <- MCMessage
    Dispatcher <- MCDispatcher
    BatchSize = 2
    Stamp <- MCStamp
    MaxFault = 1
INVARIANTS
    MarkedWasHanded
    DuplicateBound
PROPERTIES
    PublishedForGood
    OrderedHandover
    EveryRowPublished
    KeepsPromise
CHECK_DEADLOCK FALSE
