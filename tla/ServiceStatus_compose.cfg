\* One compose service with a health check, one command at a time, and a
\* second service whose name is a prefix of the container's.
SPECIFICATION Spec
CONSTANTS
  web = web
  api = api
  h1 = h1
  h2 = h2
  Service = {web, api}
  Handler = {h1, h2}
  Commands <- Everything
  ComposePreset = {web}
  ComposeBuilt = {web}
  HasHealthcheck = {web}
  TaggedLatest = {}
  Shadows <- WebLooksLikeApi
  MaxChunk = 2
  MaxEvents = 2
  MaxPerService = 1
  MaxRestarts = 1
INVARIANTS
  SnapshotFollows
  StatusIsEarned
