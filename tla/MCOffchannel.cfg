SPECIFICATION Spec
CONSTANTS
  Clients = {"gas", "p2p"}
  Freqs = {1, 2}
  Dst <- MCDst
  None = None
  MaxSends = 4
  MaxListens = 2
CHECK_DEADLOCK FALSE
INVARIANTS
  FrameWatched
  ToldOfOwnFrames

  
