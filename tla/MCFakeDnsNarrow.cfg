\* A fake-ip-range with fewer addresses than the pool: /17 and longer.
SPECIFICATION Spec
CONSTANTS
  Host = {h1, h2, h3}
  Session = {s1}
  NoOne = NoOne
  RangeSize = 4
  PoolSize = 3
  MaxBelieved = 1
PROPERTY SearchEnds
