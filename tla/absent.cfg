SPECIFICATION FairSpec
CONSTANTS
  Hosts = {h1}
  Roles = {r1}
  RabbitRoles = {}
  Versions = {v1}
  Callers = {c1}
  Poller = Poller
  Nobody = Nobody
  NoHost = NoHost
  NoRole = NoRole
  NoVersion = NoVersion
  MaxCalls = 0
  MaxRestarts = 0
  MaxLosses = 1
CHECK_DEADLOCK FALSE
PROPERTIES AbsentForgotten
