\* Two callers, three nodes, fair scheduling.
SPECIFICATION FairSpec
CONSTANTS
    Threads = {t1, t2}
    Nodes = {a, b, c}
    HeadNode = HeadNode
    Null = Null
INVARIANT
    RingInv
    NoLostWakeup
    CountsList
PROPERTY
    SequenceEffects
    ImplementsQueue
    FlushReleases
    NotLeftAsleep
