\* Two minters race for one mandate's budget; the clock stands still.
SPECIFICATION Spec
CONSTANTS
  Holders = {h1}
  Digests = {d1}
  None = None
  Mandates = {m1}
  Caps = {c1, c2, c3}
  Minters = {t1, t2}
  Consumers = {u1}
  Syncers = {}
  DirectKinds = {"read"}
  MandateLimits = {None, 2}
  ChildLimits = {None, 1}
  ActionsLimits = {2}
  Amounts = {1, 2}
  Lifetimes = {1}
  StalenessBounds = {0}
  MaxTime = 0
  MaxFetchLag = 0
  MaxLockWait = 0
SYMMETRY Symmetry
INVARIANTS TypeOK LedgerIsExact ChildrenWithinLimits
PROPERTIES SingleUse EndedMandateIsFrozen
