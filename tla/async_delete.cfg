SPECIFICATION FairSpec
CONSTANTS
  u1 = u1
  u2 = u2
  u3 = u3
  u4 = u4
  s1 = s1
  s2 = s2
  b1 = b1
  None = None
  Urls = {u1, u2, u4}
  Storages = {s1, s2}
  StorageOf <- TwoStorages
  Bases = {b1}
  BaseOf <- OneBucket
  Pathless = {}
  Calls = {"c1"}
  Ids = {1, 2, 3}
  max_retries = 2
  BatchSize = 2
  ChunkSize = 1
INVARIANTS TypeOK NothingForgotten GivenUpForAReason
PROPERTIES ExhaustedIsReported EveryUrlSettles
