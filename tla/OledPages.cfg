\* Scaled times; the UART thread may leave a page at any time.
CONSTANTS
    T1s = 1
    BacklightMax = 2
    UartPops = TRUE
SPECIFICATION FairOledSpec
INVARIANTS TypeOK StackFits MenuInBounds DarkMeansIdle
PROPERTIES LightGoesOut HomeCurrent
