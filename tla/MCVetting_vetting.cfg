CONSTANTS
  Node <- MCNode
  Pod <- MCPod
  NoNode = "none"
  NodeSpec <- MCNodeSpec
  PodSpec <- MCPodSpec
  PDBs = {}
  InitialCluster <- Clusters
  MaxChanges = 2
SPECIFICATION Spec
INVARIANTS
  OneChangeIsSeenWhole
  StillPodsAreCountedOnce
CHECK_DEADLOCK FALSE
