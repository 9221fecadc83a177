CONSTANTS
  Node <- MCNode
  Machine <- MCMachine
  Pod <- PodsMixed
  PodSpec <- SpecMixed
  NodeSpec <- AnnotatedNodes
  PDBs <- MCPDBs
  NoNode = "none"
  Handler = {h1, h2}
  NoHandler = NoHandler
  NoRequest = NoRequest
  Request <- RequestAny
  InitState <- InitMixed
  MaxFaults = 1
SPECIFICATION Spec
CHECK_DEADLOCK FALSE
SYMMETRY Handlers
INVARIANTS
  EvictedPodsAreMovable
  ProtectedNodesAreKept
