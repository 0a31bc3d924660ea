\* Registration against a hub that answers, answers others, commands or is silent.
CONSTANTS
    T100ms = 1
    T1s = 2
    T5s = 5
    T10s = 11
    MonitorMax = 6
    BlinkMax = 3
    IoTime = 2
    MyId <- mcMyId
    FlashImages <- BlankFlash
    HubFrames <- LinkFrames
    HubWaits = TRUE
    ChipFrames <- NoFrames
    Pins = {1}
    UiStacks = {}
    UiEvents = {}
    UiSelects = {}
SPECIFICATION FairUartSpec
INVARIANTS TypeOK
PROPERTIES RegisterJustified RegistersWhenSilent BlinkEnds
