SPECIFICATION LiveSpec
CONSTANTS
  Syncers = {s1}
  Senders = {a}
  Scopes = {"global"}
  Limits = {3}
  Backfills = {}
  LastId <- Posts1Comments2
  Discussion = TRUE
PROPERTIES EventuallySettled CursorsAdvance
