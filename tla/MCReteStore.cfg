SPECIFICATION StoreSpec
CONSTANTS
  a = a
  b = b
  c = c
  d = d
  ax = ax
  lit = lit
  Triple <- MCTriple
  Instance <- MCInstance
  Antecedents <- MCAntecedents
  Conclusions <- MCConclusions
  Silent = {"a_d"}
  Malformed = {lit}
  Setups <- MCSetups
  Patterns <- MCPatterns
INVARIANTS
  StoreTypeOK
  StoreWithinEngine
  StatedInStore
  VisibleInStore
PROPERTIES
  ReopenIsNeutral
