SPECIFICATION AnnSpec
CONSTANTS
  Syncers = {s1, s2}
  Watcher = s1
  Senders = {a}
  Scopes = {}
  Limits = {2}
  Backfills = {}
  LastId <- Posts2Comments2
  Discussion = TRUE
INVARIANTS NewsIsAnnounced NoSilentSkip
