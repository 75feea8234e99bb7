CONSTANTS
    UpdateCount = 3
    ReplayWindow = 4
    Setups = {"good", "psk", "station_ie", "beacon_ie"}
    MaxAssociations = 2
    MaxRekeys = 2
    MaxRequests = 1
SPECIFICATION Spec
INVARIANTS TypeOK KeysAgree NegotiatedKeyHeld
PROPERTY HandshakeEnds
CHECK_DEADLOCK FALSE
