SPECIFICATION Spec
CONSTANTS
  MaxCommand = 3
  Mode <- MCMode
  Default = "rule"
  MaxBytes = 2
  MaxSession = 2
INVARIANTS ChannelTypeOK LatestModeHolds BytesOnce
PROPERTY Settles
CHECK_DEADLOCK FALSE
