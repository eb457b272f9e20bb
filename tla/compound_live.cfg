SPECIFICATION FairSpec
CONSTANTS
  b1 = b1
  None = None
  Buckets = {b1}
  Objects = {o1}
  BucketOf <- OneBucket
  LengthOf <- OwnLength
  Chunked = {}
  Requests = {r1, r2, r3}
CHECK_DEADLOCK FALSE
PROPERTY AnsweredIfBodiesEnd
