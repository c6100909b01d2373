SPECIFICATION Spec
CONSTANTS
  Nil = Nil
  Rejected = Rejected
  Leftover <- TheLeftover
  Values <- TheValues
  MaxSets = 2
  MaxTrips = 2
INVARIANTS AnsweredAsSet ToldOfChanges
PROPERTIES NeighboursSurvive SettlesAfterOneTrip
CHECK_DEADLOCK FALSE
