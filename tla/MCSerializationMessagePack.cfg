SPECIFICATION SerialSpec
CONSTANTS
    Word = 262144
    Safe = 1048576
    Wide = 67108864
    Samples <- JsonSamples
    Schemas <- MCSchemas
    Records <- MCRecords
    MaxItems = 12
    Messages <- MCMessages
    Single <- MCSingle
INVARIANTS
    MsgPackRoundTrip
