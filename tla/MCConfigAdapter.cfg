SPECIFICATION MCSpec
CONSTANTS
  Direct = "DIRECT"
  Reject = "REJECT"
  Failed = "Failed"
  NoName = ""
  NoPlan = NoPlan
  Metadata <- MCMetadata
  Preferred <- MCPreferred
  Dest <- MCDest
  Text <- MCText
  Doc <- MCDoc
  Delay <- MCDelay
INVARIANTS SelectionsAreMembers TargetsResolve PlanKeepsPromise
PROPERTY AutoGroupsMove
