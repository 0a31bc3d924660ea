\* Three buttons, scaled times: short 2..3 samples, long 5; clean presses.
CONSTANTS
    Buttons = {enter, up, down}
    Period = 20
    ShortTime = 40
    LongTime = 100
    BandTime = 20
    CoolTime = 2
    Wrap = 256
    MaxHold = 160
    MinGap = 2
SPECIFICATION Spec
INVARIANTS TypeOK LongReported
PROPERTIES LongOncePerHold Gestures
