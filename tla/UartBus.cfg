\* Other traffic on the bus while a command is pending.
CONSTANTS
    T100ms = 1
    T1s = 2
    T5s = 2
    T10s = 2
    MonitorMax = 1
    BlinkMax = 3
    IoTime = 2
    MyId <- mcMyId
    FlashImages <- BlankFlash
    HubFrames <- BusFrames
    HubWaits = FALSE
    ChipFrames <- NoFrames
    Pins = {1}
    UiStacks = {}
    UiEvents = {}
    UiSelects = {}
SPECIFICATION UartSpec
INVARIANTS OnlyAcceptedFrames
