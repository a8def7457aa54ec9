SPECIFICATION Spec
CONSTANTS
  c1 = c1  c2 = c2
  k1 = k1  k2 = k2
  t1 = t1  t2 = t2
  h1 = h1  h2 = h2
  Clients = {c1, c2}
  Codes = {k1, k2}
  Tokens = {t1, t2}
  Handlers = {h1, h2}
SYMMETRY Interchangeable
INVARIANTS TypeOK OwnersRegistered CodeRedeemedOnce TokensGranted AnsweredIsDurable
PROPERTY KeepsGrants
