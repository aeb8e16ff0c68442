SPECIFICATION MCSpec
CONSTANTS
    Waiter = {w1, w2}
    MaxNeed = 1
    RingCapacity = 4
    RefillThreshold = 1
    RefillBatch = 2
    BankRingHeadroom = 3
    Producer = {refill}
    Key = {k1, k2}
    Batch = 2
    DecBatchMax = 1
    DecPendingMax = 1
    QueueCapacity = 2
INVARIANTS NeverDropped NoSleeperWithKeys RefillIsAwake
           NoMissedWakeup OneCopy PendingIsWatched
PROPERTIES SleeperIsServed KeysServed
