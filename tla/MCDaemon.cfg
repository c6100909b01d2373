\* Main loop, database table, clean-up, reload and end of gconfd.
SPECIFICATION Spec
CONSTANTS
  x = x
  m = m
  c = c
  Clients = {c}
  Addresses = {x, m}
  Markup = {m}
  Writable = {x, m}
  PathLists <- MCPathLists
  Requests <- MCRequests
  IdleLimit = 0
  MaxDbs = 2
  MaxOutside = 2
INVARIANTS
  ChangesAreKept
  TableIsTrue
PROPERTIES
  ShutdownEnds
CHECK_DEADLOCK FALSE
