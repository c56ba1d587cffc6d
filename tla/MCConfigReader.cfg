SPECIFICATION Spec
CONSTANTS
  Direct = "DIRECT"
  Reject = "REJECT"
  Failed = "Failed"
  NoName = ""
  Text <- MCText
  NoPlan = NoPlan
  Metadata <- MCMetadata
  Preferred <- MCPreferred
  Dest <- MCDest
  Document <- MCDocument
  Lan <- MCLan
  Country <- MCCountry
  Keyworded <- MCKeyworded
  Masked <- MCMasked
CHECK_DEADLOCK FALSE
INVARIANTS NodesArrive ReadersAgree NoDowngrade SettingsArrive MembersArrive FirstLineDecides
