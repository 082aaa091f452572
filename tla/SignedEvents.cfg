SPECIFICATION Spec
CONSTANTS
  Message = {m1, m2, m3}
  Window = 1
  HubLag = 2
  HubLead = 2
  MaxSecrets = 2
  MaxTime = 4
SYMMETRY MessageSymmetry
INVARIANTS TypeOK AtMostOnce GuardIsExact
