CONSTANTS
    Names <- MCNames
    NoName = "none"
    Above <- MCAbove
    RootZones = {".", "x.c"}
    Special = {"lo"}
    Hosts = {"a.c"}
    CnameOf <- MCCnameOf
    ForwardOnly = FALSE
    MAXLEVEL = 3
    MAXNS = 2
    MAXADDR = 2
    MAXALIAS = 2
    MAXLOOP = 6
SPECIFICATION Spec
INVARIANTS LevelsOK Authority InBailiwick Chain
PROPERTIES Progress
