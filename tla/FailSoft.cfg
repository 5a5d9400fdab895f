SPECIFICATION FairSpec
CONSTANTS
  c1 = c1
  c2 = c2
  Causes = {c1, c2}
  MaxDeliveries = 3
  MaxSoft = 2
  MaxFaults = 2
INVARIANT OwedIsOpen
PROPERTY RetryHeeded
CHECK_DEADLOCK FALSE
