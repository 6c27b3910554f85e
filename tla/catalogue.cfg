SPECIFICATION FairSpec
CONSTANTS
  v1 = v1
  v2 = v2
  path = path
  level = level
  repo = repo
  port = port
  None = None
  Versions = {v1, v2}
  Settings = {path, level}
  Params = {repo, port}
  Hosts = {h1}
  Docs <- MCDocs
  Files <- MCFiles
  FileParams = {}
  MaxInputs = 3
  MaxFaults = 1
INVARIANTS TypeOK OneActive ActiveAsRecorded TableRenderable
PROPERTIES SettingsKept QueuedIsSaved
CHECK_DEADLOCK FALSE
