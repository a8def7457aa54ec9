SPECIFICATION Spec
CONSTANTS
  a1 = a1  n1 = n1
  Accounts = {a1}
  Names = {n1}
  Sources = {"src"}
  Messages = {1, 2}
  By <- ByOne
  In <- OneSource
  Captioned = {2}
  Places = {"src"}
  Requests = {}
  Editors = {d1}
  Syncers = {s1}
  LastRow = 2
  None = None
INVARIANT EvidenceIsOneMessage
