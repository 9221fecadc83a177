CONSTANTS
  Node <- MCNode
  Machine <- MCMachine
  Pod <- PodsOne
  PodSpec <- SpecOne
  NodeSpec <- PlainNodes
  PDBs <- MCPDBs
  NoNode = "none"
  Handler = {h1, h2}
  NoHandler = NoHandler
  NoRequest = NoRequest
  Request <- RequestScaleDown
  InitState <- InitSmall
  MaxFaults = 1
SPECIFICATION FairSpec
PROPERTIES
  EveryUpdateIsAnswered
