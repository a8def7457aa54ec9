SPECIFICATION LiveSpec
CONSTANTS
  Syncers = {s1}
  Senders = {a}
  Scopes = {}
  Limits = {2}
  Backfills = {}
  LastId <- Posts4
  Discussion = FALSE
PROPERTY EventuallySettled
