SPECIFICATION Spec
CONSTANTS
    home = home
    spot = spot
    paid = paid
    dark = dark
    NoBss = NoBss
    Bss = {home, spot}
    Capable = {}
    FreePublic = {spot}
    Internet = {spot, dark}
    Hidden = {}
    Configured = {home, spot}
    Reliable = {}
    Faults = {"scan", "driver", "reject"}
    Commands = {"DISCONNECT", "REASSOCIATE", "SCAN", "SET_AUTO"}
    TokenLimit = 1
    MaxEvents = 4
INVARIANTS
    OneConnection
    
CHECK_DEADLOCK FALSE
