SPECIFICATION CoreSpec
CONSTANTS
  Direct = "DIRECT"
  Reject = "REJECT"
  Failed = "Failed"
  NoName = ""
  NoPlan = NoPlan
  Metadata <- MCMetadata
  Preferred <- MCPreferred
  Dest <- MCDest
  Text <- MCText
  Doc <- MCDoc
  Delay <- MCDelay
  Fd = {f1, f2}
  NoFd = NoFd
INVARIANTS CoreTypeOK DescriptorKept PlanApplied StatusKnown
PROPERTY ImplementsEngine
