\* Four receivers, every failure of open().
SPECIFICATION FairSpec
CONSTANT ThreadNum = 4
INVARIANT
    HandlerReady
    JoinedOnce
PROPERTY
    AllActivated
    StopsAfterPause
