\* Three events, two sealers, a rotation, a stolen key and a forgery.
CONSTANTS
  Sealers = {x, y}
  Ids = {"first", "second"}
  Keys = {"k1", "k2"}
  Bootstrap <- First
  Declared <- MCDeclared
  Registered <- MCRegistered
  Stealable = {"k1"}
  Data = {"a"}
  Rewritings <- MCRewritings
  MaxEvents = 3
  MaxTime = 1
  MaxForged = 1
  MaxPresented = 3
  None = None
ACTION_CONSTRAINT Restricted
SYMMETRY Symmetry
SPECIFICATION Spec
INVARIANTS TypeOK KeptChainVerifies ForksNeedTheActiveKey InclusionIsExact
CHECK_DEADLOCK FALSE
