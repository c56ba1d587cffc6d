SPECIFICATION FairSpec
CONSTANTS
  App = {a1, a2}
  Direct = {d1}
  Named = {n}
  Aside = {q}
  MaxSessions = 1
  ChannelSize = 1
  MaxPackets = 2
INVARIANTS UdpTypeOK HeldSessionsLive OneWriter ActiveExplained
PROPERTY LetGoSessionsEnd
CHECK_DEADLOCK FALSE
