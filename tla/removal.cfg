SPECIFICATION Spec
CONSTANTS
  Apps = {a1}
  Versions = {v1, half}
  RoleVersions = {v1}
  RefusedVersions = {}
  DiskFails = FALSE
  Absent = Absent
  NoConfig = NoConfig
  NoRecord = NoRecord
  MaxAttempts = 1
  MaxQueue = 1
  MaxRequests = 2
  MaxRestarts = 0
  MaxFaults = 0
CHECK_DEADLOCK FALSE
PROPERTIES RemovedFromHost
