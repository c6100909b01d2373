\* Kills and restarts of gconfd, with its saved state.
SPECIFICATION Spec
CONSTANTS
  p = p
  n1 = n1
  n2 = n2
  Clients = {p}
  Names = {n1, n2}
  NoId = NoId
  NoFile = NoFile
  NoEntry = NoEntry
  Wrap = 3
  MaxDeaths = 2
  MaxFailures = 1
INVARIANTS
  ConnectionsSurvive
  NoneComesBack
CHECK_DEADLOCK FALSE
