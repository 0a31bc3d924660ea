\* Frames of one to four bytes, with or without pauses, round a buffer of five.
CONSTANTS
    bufsz = 5
    Burst = 4
    Total = 14
SPECIFICATION FairSpec
INVARIANTS TypeOK InOrder NothingLeft
PROPERTIES FrameDelivered
CHECK_DEADLOCK FALSE
