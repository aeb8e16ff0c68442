CONSTANTS
    Producer = {refill}
    Key = {k1}
    Batch = 1
    DecBatchMax = 1
    DecPendingMax = 1
    QueueCapacity = 2
SPECIFICATION DecSpec
CHECK_DEADLOCK FALSE
PROPERTY RefusedNeverArrives
