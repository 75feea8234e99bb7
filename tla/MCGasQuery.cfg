SPECIFICATION FairSpec
CONSTANTS
    q1 = q1
    q2 = q2
    ap1 = ap1
    ap2 = ap2
    Query = {q1, q2}
    Peer = {ap1, ap2}
    AdvProto = {anqp, other}
    anqp = anqp
    other = other
    q3 = q3
    NoProto = NoProto
    TokenLimit = 2
    FragLimit = 2
INVARIANTS
    TokensUnique
    
    SuccessIsWhole
    
PROPERTIES
    EveryQueryReported
    
CHECK_DEADLOCK FALSE
