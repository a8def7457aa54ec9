SPECIFICATION Spec
CONSTANTS
  Syncers = {s1}
  Senders = {a}
  Scopes = {"source"}
  Limits = {1, 2}
  Backfills = {1}
  LastId <- Posts3
  Discussion = FALSE
INVARIANTS TypeOK LeakBound IncrementsSkipNothing
