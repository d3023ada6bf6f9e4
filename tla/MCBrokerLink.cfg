SPECIFICATION FairLinkSpec
CONSTANTS
  s1 = s1
  s2 = s2
  d1 = d1
  d2 = d2
  Null = Null
  Sock = {s1, s2}
  Device = {d1, d2}
  MaxLinkFaults = 2
  MaxRebinds = 1
INVARIANTS ConnectedIsRegistered Watched OneOpenSocket
PROPERTIES DialSettles DeadIsNoticed Reconnects
