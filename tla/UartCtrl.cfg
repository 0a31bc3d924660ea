\* Commands of the hub on their way to the air conditioner.
CONSTANTS
    T100ms = 1
    T1s = 1
    T5s = 1
    T10s = 1
    MonitorMax = 0
    BlinkMax = 3
    IoTime = 1
    MyId <- mcMyId
    FlashImages <- AnyFlash
    HubFrames <- CtrlFrames
    HubWaits = TRUE
    ChipFrames <- NoFrames
    Pins = {0, 1}
    UiStacks = {}
    UiEvents = {"SEND_ON_TEST"}
    UiSelects = {"MATCH", "LEARN"}
SPECIFICATION UartSpec
INVARIANTS OnlyAcceptedFrames CommandReachesAC Persisted ThreeCopies
