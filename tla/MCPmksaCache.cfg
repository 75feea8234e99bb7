SPECIFICATION Spec
CONSTANTS
  APs = {a1, a2, a3}
  Keys = {k1, k2}
  Networks = {n1, n2}
  Proactive = {n1}
  Slots = {s1, s2, s3}
  MaxEntries = 2
  Lifetime = 1
  Threshold = 70
  Priorities = {0}
  ScanPriority = 1
  Homes = {a1, a2}
  Neighbours = {a3}
  ReportsCurrent = FALSE
  None = None
SYMMETRY Symmetry
INVARIANTS
  TypeOK
  OneEntryPerAuthenticator
  
  ExpiryScheduled
  
  CandidatesAreServed
