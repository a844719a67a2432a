CONSTANTS
    Slots = 2
    QueryLens = {2}
    PacketLens = {0, 3}
    PosLimit = 5
SPECIFICATION Spec
INVARIANTS PosBytesSent
