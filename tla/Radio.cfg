SPECIFICATION Spec
CONSTANTS
  t1 = t1
  Threads = {t1}
  LoraIds = {95}
  RfIds = {96, 0}
  MaxCount = 3
INVARIANTS
  ModulesExclude
  NeverKilled
  RfQuota
PROPERTIES
  OnlyRfFramesPublished
  RotationGoesOn
  RotationRefined
