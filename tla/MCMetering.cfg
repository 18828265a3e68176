CONSTANTS
    Chunks = {k1, k2, k3}
    Limits = {0, 1, 2}
    Usages = {0, 2}
    CopyLoops = 2
    QueueCapacity = 1
    RevisionBound = 3
SPECIFICATION FairSpec
INVARIANTS NoDoubleBilling OnlyDeliveredBilled ResetSticks NothingForgotten QuotaEndToEnd
PROPERTIES QueuedIsBilled
