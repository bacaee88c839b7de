\* A waiting request against background changes, the traffic flush, failing writes, a restart,
\* and the import of a retired database.
SPECIFICATION FairSpec
CONSTANTS
  Keys = {k}
  Requests = {c}
  Flushers = {janitor}
  Files = {json, imported}
  MaxChanges = 2
  MaxBytes = 1
  MaxRestarts = 2
INVARIANTS AckedUnlessFailed RemovedStaysRemoved LegacyIsKept
PROPERTIES Answered
CHECK_DEADLOCK FALSE
