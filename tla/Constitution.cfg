\* A deployment's chain and a rebuilt one over four approved versions and four others.
CONSTANTS
  a = a
  b = b
  c = c
  d = d
  Keys = {a, b, c, d}
  KeyIds = {1, 2, 3}
  Constitutions <- MCConstitutions
  Version <- MCVersion
  Previous <- MCPrevious
  Proposed <- MCProposed
  Denied <- MCDenied
  NeedsApproval <- MCNeedsApproval
  Bootstrap <- MCBootstrap
  Actions = {"send", "drop"}
  Chains = {kept, rebuilt}
  Dishonest = {d}
  Approved = {"g", "v2", "v3", "x4"}
  MaxSignatures = 2
  None = None
SYMMETRY Symmetry
SPECIFICATION Spec
INVARIANTS TypeOK OnlyApproved ChainsAgree ForwardOnlyQuorum
