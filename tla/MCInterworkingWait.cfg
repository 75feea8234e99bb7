SPECIFICATION Spec
CONSTANTS
    home = home
    spot = spot
    paid = paid
    dark = dark
    NoBss = NoBss
    Bss = {home, spot}
    Capable = {spot}
    FreePublic = {spot}
    Internet = {spot, dark}
    Hidden = {}
    Configured = {home}
    Reliable = {spot}
    Faults = {}
    Commands = {"SET_AUTO", "DISCONNECT"}
    TokenLimit = 2
    MaxEvents = 1
INVARIANTS
    DisconnectHonoured
CHECK_DEADLOCK FALSE
