SPECIFICATION FairSpec
CONSTANTS
  Socket = {s1, s2, s3}
  TargetPoolCount = 2
  Rejections <- FatalOnly
  MaxSecrets = 2
  MaxRetired = 1
  FailureCap = 1
INVARIANTS NeverStalls
PROPERTIES NoSocketHangs PoolRecovers
