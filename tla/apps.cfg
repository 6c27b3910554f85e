SPECIFICATION FairSpec
CONSTANTS
  comms = comms
  kube = kube
  v1 = v1
  v2 = v2
  factory = factory
  tuned = tuned
  Absent = Absent
  NoConfig = NoConfig
  Apps = {comms, kube}
  Releases = {v1, v2}
  Settings = {factory, tuned}
  Factory = factory
  Comms = comms
  Rank <- MCRank
  Goals <- MCGoals
  Preinstalled <- MCPreinstalled
  MaxAttempts = 2
  MaxMessages = 3
  MaxFaults = 2
INVARIANTS TypeOK UpgradeNeedsNoNetwork
PROPERTIES ImplementsAppChange ChangeEnds Converges CommsComesBack
