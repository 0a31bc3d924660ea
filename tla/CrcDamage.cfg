\* A frame of four bytes, up to five bits damaged: the pattern of the polynomial itself, four bits within 17, is among them.
CONSTANTS
    Size = 2
    Bytes = {{0, 2, 5}}
    MaxHits = 5
SPECIFICATION Spec
INVARIANTS TypeOK IntactAccepted OnlyDamageMatters DamageDetected OddDamageDetected BurstDetected
CHECK_DEADLOCK FALSE
