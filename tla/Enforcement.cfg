\* Two callers with a capability per plane, wirings that work and one that does not, crashes and revocations.
SPECIFICATION Spec
CONSTANTS
  Callers = {t1, t2}
  Caps = {"c1", "c2", "c3"}
  ActionOf <- MCActionOf
  Actions = {"exec", "get", "tool"}
  PlaneOf <- MCPlaneOf
  Wirings = {good, bad}
  Working = {good}
  None = None
SYMMETRY Symmetry
INVARIANTS TypeOK BurnedByCrashOrWiring ReceiptsAreTrue
PROPERTIES Implements
