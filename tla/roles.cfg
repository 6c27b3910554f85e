SPECIFICATION Spec
CONSTANTS
  Hosts = {h1}
  Roles = {r1, r2}
  RabbitRoles = {r1, r2}
  Versions = {v1}
  Callers = {c1, c2}
  Poller = Poller
  Nobody = Nobody
  NoHost = NoHost
  NoRole = NoRole
  NoVersion = NoVersion
  MaxCalls = 3
  MaxRestarts = 1
  MaxLosses = 1
CHECK_DEADLOCK FALSE
SYMMETRY Symmetry
INVARIANTS TypeOK Owned NoOrphan NoGhostHost
PROPERTIES ImplementsLifeCycle
