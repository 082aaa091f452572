CONSTANTS
  Tag = {v1, v2, v3}
  None = None
  MaxOrphans = 1
SPECIFICATION Spec
INVARIANTS TypeOK NoDrift
PROPERTIES SaysWhatIs SwitchesVersion HubLearns
