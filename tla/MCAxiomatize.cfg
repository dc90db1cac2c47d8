CONSTANTS
  Blanks <- MCBlanks
  Literals <- MCLiterals
  Counts <- MCCounts
  Inputs <- MCInputs
SPECIFICATION Spec
INVARIANTS
  AxiomatizeTypeOK
  TriplesAccounted
  LiftedPartitions
  RoundTrip
CHECK_DEADLOCK FALSE
