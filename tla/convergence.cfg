SPECIFICATION FairSpec
CONSTANTS
  Apps = {a1}
  Versions = {v1, v2}
  RoleVersions = {v1, v2}
  RefusedVersions = {v1, v2}
  DiskFails = TRUE
  Absent = Absent
  NoConfig = NoConfig
  NoRecord = NoRecord
  MaxAttempts = 2
  MaxQueue = 1
  MaxRequests = 2
  MaxRestarts = 1
  MaxFaults = 1
CHECK_DEADLOCK FALSE
INVARIANTS TypeOK
PROPERTIES LeftoverIgnoredWhileUp EventuallyConverged Quiet
