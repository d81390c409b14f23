CONSTANTS
  Replicas = {1, 2}
  Keys = {k1, k2}
  Steps = 2
SPECIFICATION KubeSpec
INVARIANTS AnsweredScaleHolds RegisteredIsStored
PROPERTY ScaleReturns
