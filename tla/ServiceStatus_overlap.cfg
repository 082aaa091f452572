\* Two commands of one single-container service overlap in every way.
SPECIFICATION Spec
CONSTANTS
  web = web
  api = api
  h1 = h1
  h2 = h2
  Service = {web}
  Handler = {h1, h2}
  Commands <- Overlapping
  ComposePreset = {}
  ComposeBuilt = {}
  HasHealthcheck = {}
  TaggedLatest = {}
  Shadows = {}
  MaxChunk = 2
  MaxEvents = 2
  MaxPerService = 2
  MaxRestarts = 0
INVARIANTS
  TypeOK
  SnapshotFollows
  StatusIsEarned
