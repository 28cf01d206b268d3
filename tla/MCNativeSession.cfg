SPECIFICATION FairSpec
CONSTANTS
  s1 = s1
  s2 = s2
  o1 = o1
  o2 = o2
  o3 = o3
  Session = {s1, s2}
  Owner = {o1, o2, o3}
  SessionOf <- MCSessionOf
  Asked <- MCAsked
  MaxByte = 2
  MaxRequests = 3
  MaxAttempts = 2
  MaxEvents = 1
CHECK_DEADLOCK FALSE
INVARIANTS LockExclusion BarrierDrained
PROPERTIES ImplementsLockTable LostSessionWritesNothing BarrierEnds
