SPECIFICATION DatasetSpec
CONSTANTS
  p = p
  q = q
  bad = bad
  Calls = {c1}
  Triples = {p, q, bad}
  Disallowed = {bad}
  Batches <- MCBatches
  Formats = {"turtle", "trig"}
  MaxRevision = 1
  None = None
PROPERTY
  UnchangedWhenRejected
CHECK_DEADLOCK FALSE
