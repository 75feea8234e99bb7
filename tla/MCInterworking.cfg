SPECIFICATION Spec
CONSTANTS
    home = home
    spot = spot
    paid = paid
    dark = dark
    NoBss = NoBss
    Bss = {spot, paid}
    Capable = {spot, paid}
    FreePublic = {spot}
    Internet = {spot, paid}
    Hidden = {}
    Configured = {}
    Reliable = {}
    Faults = {"send", "memory"}
    Commands = {"FETCH_ANQP", "STOP_FETCH_ANQP", "INTERWORKING_SELECT",
                "INTERWORKING_CONNECT", "ANQP_GET"}
    TokenLimit = 1
    MaxEvents = 3
INVARIANTS
    TypeOK
PROPERTIES
    
    SelectedSuitable
CHECK_DEADLOCK FALSE
