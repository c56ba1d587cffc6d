SPECIFICATION Spec
CONSTANTS
  Host = {h1, h2, h3}
  Session = {s1, s2}
  NoOne = NoOne
  RangeSize = 4
  PoolSize = 2
  MaxBelieved = 2
INVARIANTS TypeOK Mirror AnswersHold
PROPERTY SearchEnds
