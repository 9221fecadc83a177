CONSTANTS
  Node <- MCNode
  Machine <- MCMachine
  Pod <- PodsOne
  PodSpec <- SpecOne
  NodeSpec <- PlainNodes
  PDBs <- MCPDBs
  NoNode = "none"
  Handler = {h1}
  NoHandler = NoHandler
  NoRequest = NoRequest
  Request <- RequestKeepTwo
  InitState <- InitBooting
  MaxFaults = 0
SPECIFICATION Spec
PROPERTIES
  NoMachineGoesBeforeItsNode
