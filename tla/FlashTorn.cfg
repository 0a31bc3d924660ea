\* No fault but the power, and a CRC that agrees after every complete save.
CONSTANTS
    Crcs = {7, 65535}
    Addrs = {1, 2, 255}
    Brands = {0, 65535}
    Ctrls = {65535}
    Behind = {7}
    CrcOfZeros = 7
    Faulty = FALSE
SPECIFICATION Spec
INVARIANTS FirstUseOnly
