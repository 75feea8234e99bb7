SPECIFICATION FairSpec
CONSTANTS
    home = home
    spot = spot
    paid = paid
    dark = dark
    NoBss = NoBss
    Bss = {home, spot}
    Capable = {spot}
    FreePublic = {spot}
    Internet = {spot, dark}
    Hidden = {}
    Configured = {home}
    Reliable = {spot}
    Faults = {}
    Commands = {"SET_AUTO"}
    TokenLimit = 2
    MaxEvents = 3
INVARIANTS
    AttemptWatched
    FetchHasQuery
    OnePhase
PROPERTIES
    RoamingReconnects
CHECK_DEADLOCK FALSE
