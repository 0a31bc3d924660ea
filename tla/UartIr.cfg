\* Matching, saving and learning with a chip that answers at any time, and a user at the pages.
CONSTANTS
    T100ms = 1
    T1s = 1
    T5s = 1
    T10s = 1
    MonitorMax = 0
    BlinkMax = 3
    IoTime = 0
    MyId <- mcMyId
    FlashImages <- BlankFlash
    HubFrames <- NoFrames
    HubWaits = TRUE
    ChipFrames <- IrFrames
    Pins = {1}
    UiStacks <- SomeStacks
    UiEvents <- IrEvents
    UiSelects = {"MATCH", "LEARN"}
SPECIFICATION UartSpec
INVARIANTS CallBackFits Persisted
PROPERTIES SendsAsAsked
CHECK_DEADLOCK FALSE
