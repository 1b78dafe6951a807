SPECIFICATION Spec
CONSTANTS
  Envs = {s, a, b}
  Servers = {s}
  VAs = {v1}
  NoPage = NoPage
  Pages = {p1}
  MaxSends <- ClientSends
  a = a
  b = b
  Null = null
PROPERTY PermissionAsPromised
CHECK_DEADLOCK FALSE
