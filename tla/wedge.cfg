SPECIFICATION FairSpec
CONSTANTS
  Hosts = {h1}
  Roles = {r1}
  RabbitRoles = {r1}
  Versions = {v1}
  Callers = {c1}
  Poller = Poller
  Nobody = Nobody
  NoHost = NoHost
  NoRole = NoRole
  NoVersion = NoVersion
  MaxCalls = 1
  MaxRestarts = 0
  MaxLosses = 0
CHECK_DEADLOCK FALSE
PROPERTIES TransientResolved
