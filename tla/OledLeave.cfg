\* The user alone: the UART thread leaves no page.
CONSTANTS
    T1s = 1
    BacklightMax = 1
    UartPops = FALSE
SPECIFICATION LeaveSpec
INVARIANTS LeaveIsFinal
