SPECIFICATION FairEngineSpec
CONSTANTS
  a = a
  b = b
  c = c
  d = d
  ax = ax
  lit = lit
  Triple <- MCTriple
  Instance <- MCInstance
  Antecedents <- MCAntecedents
  Conclusions <- MCConclusions
  Priority <- MCPriority
  Inputs <- MCInputs
  Silent = {"a_d"}
  Contradicting = {"clash"}
  Faulty = {}
  Tested = {"clash"}
  Malformed = {lit}
  Configurations <- MCConfigurations
INVARIANTS
  EngineTypeOK
  KnownIsWorkingMemory
  NoPhantomPremises
  VisibleConclusionsMaterialized
  MaterializedIsLogged
PROPERTIES
  ImplementsDatabase
  CallsReturn
