CONSTANTS
  Ours = {i1, i2}
  Foreign = {f1}
  PublicImage = FALSE
  Kinds = {"internal"}
  LagFaults = 1
  FaultKinds = {"crash", "create", "destroy", "disk", "queue", "show", "credit", "vanish", "refused", "late"}
  MaxFaults = 2
  AgeBound = 1
  None = None
SPECIFICATION FairScalerSpec
CHECK_DEADLOCK FALSE
INVARIANTS ScalerInv
PROPERTIES ForeignUntouched IdleInstancesEnd
