CONSTANTS
  Orders = {o1}
  Dashboards = {d1}
  Streams = {s1,s2,s3}
  Nobody = nobody
  MAX_STREAMS_PER_KEY = 2
  MAX_STREAMS_TOTAL = 2
  MaxTime = 4
SPECIFICATION StreamFairSpec
CHECK_DEADLOCK FALSE
INVARIANT StreamInv
PROPERTY OutcomeIsStreamed
