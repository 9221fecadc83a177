CONSTANTS
  Node <- MCNode
  Machine <- MCMachine
  Pod <- PodsOne
  PodSpec <- SpecOne
  NodeSpec <- PlainNodes
  PDBs <- MCPDBs
  NoNode = "none"
  Handler = {h1, h2}
  NoHandler = NoHandler
  NoRequest = NoRequest
  Request <- RequestChurn
  InitState <- InitChurn
  MaxFaults = 0
SPECIFICATION Spec
SYMMETRY Handlers
INVARIANTS
  FaultsLeaveOneNodeEach
  NoOvershoot
