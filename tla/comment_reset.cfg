SPECIFICATION SteadySpec
CONSTANTS
  Syncers = {s1}
  Senders = {a}
  Scopes = {}
  Limits = {2}
  Backfills = {1}
  LastId <- Posts2Comments2
  Discussion = TRUE
PROPERTY CommentCursorKept
