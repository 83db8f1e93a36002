CONSTANTS
  c1 = c1
  c2 = c2
  c3 = c3
  i1 = i1
  i2 = i2
  j1 = j1
  r1 = r1
  None = None
  Crawls = {c1, c2, c3}
  Items = {i1, i2, j1}
  ItemsOf <- MCItemsOf
  Readers = {r1}
  Workers = 2
SPECIFICATION FairSpec
INVARIANT OverWhenReported
PROPERTIES BackendContract JobsEnd
CHECK_DEADLOCK FALSE
