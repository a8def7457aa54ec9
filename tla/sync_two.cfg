SPECIFICATION Spec
CONSTANTS
  Syncers = {s1, s2}
  Senders = {a}
  Scopes = {}
  Limits = {1, 2}
  Backfills = {}
  LastId <- Posts3
  Discussion = FALSE
SYMMETRY Alike
INVARIANTS ForeignKeys NoSilentSkip Coverage
PROPERTIES KeepsPromise StuckStays
