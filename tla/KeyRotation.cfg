CONSTANTS
  p1 = p1
  p2 = p2
  k1 = k1
  k2 = k2
  NoKey = NoKey
  Pods <- MCPods
  Keys <- MCKeys
  Lifetime = 2
  MaxFaults = 1
  MaxRestarts = 1
SPECIFICATION Spec
INVARIANT EveryTokenVerifies
PROPERTY EveryPodFollows
