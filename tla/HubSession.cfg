SPECIFICATION FairSpec
CONSTANTS
  Refusals <- EveryRefusal
  MaxHandlers = 2
  MaxUuids = 2
  MaxSecrets = 3
INVARIANTS TypeOK IdentityConsistent SettledMeansDurable
PROPERTY Registers
