CONSTANTS
  Node = {"v1", "v2", "w"}
  Pod = {"p1", "p2"}
  NoNode = "none"
  DrainTaint = "drain"
  ForeignTaint = {"other"}
  Victims <- BothVictims
  Stateful = {"p1"}
  Covered = {"p1", "p2"}
  InitialHosts <- Placements
  InitialAllowance <- AnyAllowance
  MaxEvents = 3
  MaxFaults = 1
SPECIFICATION Spec
INVARIANTS
  TypeOK
  UnschedulableWhileDraining
  FirstVictimIsWithinBudget
PROPERTIES
  LeftoverTaintHasACause
  ForeignTaintsSurvive
  EvictionsFollowTheListing
  DrainIsGraceful
  DrainReturns
CHECK_DEADLOCK FALSE
