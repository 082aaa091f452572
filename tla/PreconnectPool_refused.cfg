SPECIFICATION Spec
CONSTANTS
  Socket = {s1, s2, s3}
  TargetPoolCount = 2
  Rejections <- AnyRejection
  MaxSecrets = 1
  MaxRetired = 1
  FailureCap = 1
INVARIANTS RefusalIsRetried
