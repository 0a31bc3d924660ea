\* A chip that answers a match command twice.
CONSTANTS
    T100ms = 1
    T1s = 1
    T5s = 1
    T10s = 1
    MonitorMax = 0
    BlinkMax = 3
    IoTime = 0
    MyId <- mcMyId
    FlashImages <- BlankFlash
    HubFrames <- NoFrames
    HubWaits = TRUE
    ChipFrames <- MatchedOnly
    Pins = {1}
    UiStacks = {}
    UiEvents <- MatchEvents
    UiSelects = {}
SPECIFICATION UartSpec
INVARIANTS SavedMeansSent
CHECK_DEADLOCK FALSE
