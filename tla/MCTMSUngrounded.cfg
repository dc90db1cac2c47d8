SPECIFICATION Spec
CONSTANTS
  a = a
  b = b
  c = c
  d = d
  e = e
  Triple <- MCTriple
  Instance <- MCInstance
  Antecedents <- MCAntecedents
  Conclusions <- MCConclusions
INVARIANTS
  EveryFactGrounded
