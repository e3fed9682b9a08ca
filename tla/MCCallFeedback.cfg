\* Five calls: more than the entries, and a race after the site is full.
CONSTANTS
  t1 = t1
  t2 = t2
  t3 = t3
  f = f
  g = g
  h = h
  null = null
  Thread <- Threads
  Callee <- Callees
  Null <- null
  MaxCallees = 2
  MaxRecords = 5
SPECIFICATION FairFeedbackSpec
INVARIANTS FeedbackTypeOK OneEntryPerCallee FilledFromFront MegamorphicIsMeant NoCallLost
PROPERTIES ClaimsAreFinal RecordReturns
CHECK_DEADLOCK FALSE
