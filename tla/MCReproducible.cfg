\* Four new items, or six that are there, in a heap that calls
\* double once; two datasets or summaries of four samples in all, two series of
\* three; a static pool and another one of three chunks in all; tables of up to four
\* entries; three draws in two trials; two coroutines; a linked list of three nodes.
SPECIFICATION LibrarySpec
CONSTANTS
    Handle <- Handles
    DRank <- Ranks
    IRank <- Urgencies
    Payload = {a}
    Anything = any
    Hash <- FibonacciHash
    InitExp = 1
    Preloads <- Starts
    MaxExp = 2
    MaxCounter = 4
    d1 = d1
    d2 = d2
    m1 = m1
    k1 = k1
    k2 = k2
    Data = {d1, d2}
    Summary = {d1, d2}
    Series = {d1, d2}
    Sample <- MCSample
    Weight <- MCWeight
    Instant <- MCInstant
    InitSize = 2
    MaxSamples = 4
    MaxLag = 2
    MaxBins = 2
    MaxObservations = 3
    MemPool = {m1}
    MaxChunks = 3
    ObjectSize = 3
    PageSize = 4
    Requested = 1
    GrowthLimit = 2
    ListSize = 1
    Bits = 4
    Shares = 6
    MaxEntries = 4
    WordBits = 2
    Dropped = 1
    Streams <- MCStreams
    Chances <- MCChances
    Rates <- MCRates
    MaxDraws = 3
    Coroutine = {k1, k2}
    Embedded = {k2}
    Main = Main
    NoCoroutine = NoCoroutine
    StackSizes = {3, 5}
    MaxStacks = 2
    Node = {n1, n2, n3}
    ListHead = ListHead
    Null = Null
SYMMETRY Names
INVARIANTS
    Reproducible
CHECK_DEADLOCK FALSE
