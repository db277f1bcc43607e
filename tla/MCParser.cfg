CONSTANTS
    Byte <- MCByte
    Chunks <- MCChunks
    MaxDataEvents = 2
    MaxCmdEvents = 2
    MaxSNEvents = 1
    SnCap = 2
    Observed = 3
SPECIFICATION Spec
INVARIANTS
    TypeOK
    EventsOrdered
    InSync
    DataDecoded
    CommandsDecoded
    SubnegotiationDecoded
