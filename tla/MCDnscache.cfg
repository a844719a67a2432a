CONSTANTS
    MAXUDP = 1
    MAXTCP = 2
    Interfaces = 1
    Timeout = 1
SPECIFICATION FairSpec
INVARIANTS SlotsOK Ledger FreshIo
PROPERTIES QueriesEnd
