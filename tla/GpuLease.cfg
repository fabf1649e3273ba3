CONSTANTS
  Jobs = {j1}
  Runners = {r1}
  Leases = {l1, l2, l3}
  Calls = {c1, c2}
  Sweeper = sweeper
  MaxFailures = 2
  MaxFaults = 1
  FaultKinds = {"db", "crash"}
  Fractions = {50}
  None = None
  CanRun <- AnyRunner
SPECIFICATION LeaseSpec
SYMMETRY Symmetry
CHECK_DEADLOCK FALSE
INVARIANTS LeaseTypeOK OneActiveLease CompleterOwnsLease PolicyOncePerLease GiveUpIsDue
PROPERTIES EndedStaysEnded CountedStaysCounted OnlyVerifiedWorkMovesOn
