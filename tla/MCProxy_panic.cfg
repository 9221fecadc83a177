CONSTANTS
  Node <- MCNode
  Machine <- MCMachine
  Pod <- PodsMixed
  PodSpec <- SpecMixed
  NodeSpec <- AnnotatedNodes
  PDBs <- MCPDBs
  NoNode = "none"
  Handler = {h1, h2}
  NoHandler = NoHandler
  NoRequest = NoRequest
  Request <- RequestRemoveOne
  InitState <- InitNilRef
  MaxFaults = 0
SPECIFICATION FairSpec
CHECK_DEADLOCK FALSE
PROPERTIES
  EveryUpdateIsAnswered
