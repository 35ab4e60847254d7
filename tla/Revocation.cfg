\* Syncs, an operator and a consumer against the revocations of the authority.
SPECIFICATION SpecRunning
CONSTANTS
  Holders = {h1}
  Digests = {d1}
  None = None
  Mandates = {m1}
  Caps = {c1}
  Minters = {t1}
  Consumers = {u1}
  Syncers = {s1, s2}
  DirectKinds = {}
  MandateLimits = {None}
  ChildLimits = {None}
  ActionsLimits = {None}
  Amounts = {0}
  Lifetimes = {1}
  StalenessBounds = {0}
  MaxTime = 3
  MaxFetchLag = 0
  MaxLockWait = 1
SYMMETRY Symmetry
CONSTRAINT MandatesStayActive
PROPERTIES ConsumedInTime
