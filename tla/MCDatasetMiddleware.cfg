SPECIFICATION DatasetSpec
CONSTANTS
  p = p
  q = q
  bad = bad
  Calls = {c1, c2}
  Triples = {p, q, bad}
  Disallowed = {bad}
  Batches <- MCBatches
  Formats = {"turtle"}
  MaxRevision = 1
  None = None
INVARIANTS
  DatasetTypeOK
  GuardRecordsTrue
  FinalizeOnlyEarned
PROPERTIES
  ChangeEndsFinalizeOnly
  StopNowSticks
  ImplementsSession
  CallsAnswered
\* The run of an agent may end: after stop_now, or at the revision bound.
CHECK_DEADLOCK FALSE
