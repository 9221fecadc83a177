CONSTANTS
  Node <- MCNode
  Machine <- MCMachine
  Pod <- PodsOne
  PodSpec <- SpecOne
  NodeSpec <- PlainNodes
  PDBs <- MCPDBs
  NoNode = "none"
  Handler = {h1}
  NoHandler = NoHandler
  NoRequest = NoRequest
  Request <- RequestScaleDown
  InitState <- InitOne
  MaxFaults = 3
SPECIFICATION Spec
INVARIANTS
  FaultsLeaveOneNodeEach
  SuccessMeansGone
PROPERTIES
  RemovalIsGraceful
