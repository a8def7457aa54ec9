SPECIFICATION Spec
CONSTANTS
  a1 = a1  n1 = n1
  Accounts = {a1}
  Names = {n1}
  Sources = {"src"}
  Messages = {1}
  By <- ByOne
  In <- OneSource
  Captioned = {}
  Places = {"src"}
  Requests <- Typed
  Editors = {d1, d2}
  Syncers = {s1}
  LastRow = 2
  None = None
SYMMETRY Alike
INVARIANTS TypeOK ExclusionKept
PROPERTY HitsItsSender
