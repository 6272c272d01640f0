\* The ring buffer, the dictionary, the strings and the event loop, one at a time.
SPECIFICATION LibSpec
CONSTANTS
    Subjects = {"ring", "dict", "sds", "args", "ae", "input"}
    k1 = k1
    k2 = k2
    Byte = {0, 1}
    Zero = 0
    Capacity = 3
    Keys = {k1, k2}
    Vals = {v1}
    Missing = Missing
    Hash <- HashOf
    InitialSize = 1
    ForceRatio = 1
    EmptyVisits = 2
    Sizes = {2, 4, 8}
    Char = {0, 1, 2}
    Nul = 0
    Junk = Junk
    MaxPrealloc = 4
    MaxText = 4
    Unbalanced = Unbalanced
    MaxArgs = 2
    MaxBytes = 2
    SetSizes <- TwoOne
    SharedFds = {1}
    Asked <- OneBoth
    Second = 2
    HandlerOps = 1
    Delays = {1}
    MaxTimers = 2
    MaxClock = 4
    Number <- NumberOf
    Opcodes = {"text", "ping"}
    Length <- LengthOf
    Extended = "126"
    Masked <- MaskedAs
    Scripts <- ClientScripts
    Protocols = {"mix", "tcp"}
    NoMessage = NoMessage
    Lost = Lost
INVARIANTS
    TypeOK
    EntriesFound
    IsMap
    IterationComplete
    ScanComplete
    SdsText
    ArgsReadBack
    AeTypeOK
    DueTimersRun
    AbortsHaveCause
    MessagesIntact
PROPERTIES
    FifoSpec
    ServedWhatFired
    SleepsToNearest
