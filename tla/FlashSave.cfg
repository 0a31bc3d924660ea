\* Saves that may fail and a power that may go, with a CRC that may disagree.
CONSTANTS
    Crcs = {7, 65535}
    Addrs = {0, 1, 2, 255}
    Brands = {0, 65535}
    Ctrls = {65535}
    Behind = {7, 65535}
    CrcOfZeros = 7
    Faulty = TRUE
SPECIFICATION Spec
INVARIANTS TypeOK Durable RestartRestores
