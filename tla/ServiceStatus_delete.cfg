\* A DELETE that Docker refuses.
SPECIFICATION Spec
CONSTANTS
  web = web
  api = api
  h1 = h1
  h2 = h2
  Service = {web}
  Handler = {h1}
  Commands <- DeployAndDelete
  ComposePreset = {}
  ComposeBuilt = {}
  HasHealthcheck = {}
  TaggedLatest = {web}
  Shadows = {}
  MaxChunk = 1
  MaxEvents = 2
  MaxPerService = 1
  MaxRestarts = 0
PROPERTY
  RemovedIsGone
