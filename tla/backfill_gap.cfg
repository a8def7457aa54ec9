SPECIFICATION Spec
CONSTANTS
  Syncers = {s1}
  Senders = {a}
  Scopes = {}
  Limits = {2}
  Backfills = {1}
  LastId <- Posts3
  Discussion = FALSE
INVARIANT NoSilentSkip
