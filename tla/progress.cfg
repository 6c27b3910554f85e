SPECIFICATION FairSpec
CONSTANTS
  Hosts = {h1}
  Roles = {r1, r2}
  RabbitRoles = {}
  Versions = {v1}
  Callers = {c1}
  Poller = Poller
  Nobody = Nobody
  NoHost = NoHost
  NoRole = NoRole
  NoVersion = NoVersion
  MaxCalls = 2
  MaxRestarts = 1
  MaxLosses = 0
PROPERTIES TransientResolved
