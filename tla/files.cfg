SPECIFICATION Spec
CONSTANTS
  b1 = b1
  None = None
  Buckets = {b1}
  Objects = {o1, o2}
  BucketOf <- OneBucket
  LengthOf <- OwnLength
  Chunked = {}
  Requests = {r1, r2, r3, r4, r5}
  MaxRestarts = 1
SYMMETRY Interchangeable
CHECK_DEADLOCK FALSE
INVARIANTS
  AckedFileKept
  PromisedIsServed
  SetMatchesFiles
