SPECIFICATION RecorderSpec
CONSTANTS
    SeqModulus = 65536
    SeqNumbers = 65536
    TsModulus = 16
    FirstTs = 14
    Depth = 1
    MaxDepth = 2
    MaxSize = 3
    Stream <- MCStream
    MaxFaults = 1
INVARIANTS QueuesKeepOrder FileIsFaithful FramesAreExact
PROPERTIES RecordingIsComplete
CHECK_DEADLOCK FALSE
