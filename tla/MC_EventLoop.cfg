CONSTANTS
  n1 = n1
  n2 = n2
  l1 = l1
  l2 = l2
  fd1 = fd1
  Nodes <- MCNodes
  Loops <- MCLoops
  Fds <- MCFds
  NoLoop = NoLoop
  NoNode = NoNode
SPECIFICATION Spec
INVARIANT TypeOK
INVARIANT LoopMembership
INVARIANT PolledAreBoundDescriptors
INVARIANT TimersFollowNode
PROPERTY StartedBeforeOtherEvents
PROPERTY WaitStatusReturns
