CONSTANTS
  Node <- MCNode
  Machine <- MCMachine
  Pod <- PodsTwo
  PodSpec <- SpecTwo
  NodeSpec <- PlainNodes
  PDBs <- MCPDBs
  NoNode = "none"
  Handler = {h1, h2}
  NoHandler = NoHandler
  NoRequest = NoRequest
  Request <- RequestScaleDown
  InitState <- InitTwo
  MaxFaults = 1
SPECIFICATION Spec
SYMMETRY Handlers
INVARIANTS
  TypeOK
  NoConcurrentUpdates
  NoOvershoot
  DestinationRemains
  FaultsLeaveOneNodeEach
  SuccessMeansGone
PROPERTIES
  OnlyUnseenPodsAreStranded
  RemovalIsGraceful
