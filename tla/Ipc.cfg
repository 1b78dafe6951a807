SPECIFICATION Spec
CONSTANTS
  Envs = {s, a, b}
  Servers = {s}
  VAs = {v1}
  NoPage = NoPage
  Pages = {p1}
  MaxSends <- ClientSends
  a = a
  b = b
  Null = null
PROPERTIES
  MessagesMeet
  ReadOnlyStays
  SenderGetsThrough
  BlockedIsServed
CHECK_DEADLOCK FALSE
