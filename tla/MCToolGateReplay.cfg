CONSTANTS
  t1 = t1
  t2 = t2
  k1 = k1
  k2 = k2
  Tools = {t1}
  Keys = {k1, k2}
  SideEffects <- OneSideEffect
  Threshold = 2
  NoTool = NoTool
  NoKey = NoKey
SPECIFICATION Spec
PROPERTIES
  ProbeReleased
