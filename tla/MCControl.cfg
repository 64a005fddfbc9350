SPECIFICATION FairSpec
CONSTANTS
    Sessions = {a}
    NoSession = NoSession
    RecordsMax = 2
    Batch = 2
    MaxSequence = 1
    Commands <- Streams
    Chunks = 2
    None = None
    Garbage = Garbage
INVARIANTS
    NoSilentLoss
    ExecutedOnceInOrder
    StreamsEndWithSession
    MessagesAreWhole
PROPERTIES
    AnswersGetOut
    LossIsReported
    SilentHostLosesStream
