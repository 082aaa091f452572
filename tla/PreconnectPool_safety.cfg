SPECIFICATION Spec
CONSTANTS
  Socket = {s1, s2, s3, s4, s5}
  TargetPoolCount = 3
  Rejections <- AnyRejection
  MaxSecrets = 1
  MaxRetired = 2
  FailureCap = 2
SYMMETRY SocketSymmetry
INVARIANTS TypeOK PendingExact PoolBound TimersMatchPhase
PROPERTIES HaltedUntilReregistration FailuresBackOff SuppliesTunnels
