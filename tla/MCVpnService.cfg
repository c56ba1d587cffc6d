SPECIFICATION Spec
CONSTANTS
  Fd = {f1, f2}
  NoFd = NoFd
  s1 = s1
  s2 = s2
  Session = {s1, s2}
  NoSession = NoSession
  Count <- MCCount
  NoChunk = NoChunk
  UiEnds = FALSE
SYMMETRY Instances
INVARIANTS TypeOK EngineOwned ConfigWhole RunningIsCurrent
