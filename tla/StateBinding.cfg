\* Two agents prepare and commit against each other, deployment writes and other uses of their capabilities.
SPECIFICATION BindingSpec
CONSTANTS
  Agents = {t1, t2}
  PreviewIds = {p1, p2}
  Keys = {"balance", "tally"}
  Values = {0, 1}
  CapabilityIds = {"c1", "c2"}
  ActionOf <- MCActionOf
  Actions = {"spend", "note"}
  ReadSets <- MCReadSets
  Plans <- MCPlans
  Deployments <- MCDeployments
  MaxVersion = 3
  Absent = Absent
SYMMETRY Symmetry
INVARIANTS BindingTypeOK CommitsAreExclusive
PROPERTIES Implements
