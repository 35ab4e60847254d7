\* Chains of up to three receipts among an authority, an honest and a hostile agent.
CONSTANTS
  authority = authority
  honest = honest
  hostile = hostile
  Keys = {authority, honest, hostile}
  Trusted = {authority}
  OffProtocol = {hostile}
  Receipts = {r1, r2, r3}
  Scopes <- MCScopes
  Terms = {"t"}
  Depths = {0, 1, 2}
  Times = {0, 1}
  Grants <- MCGrants
  ForgedChildren <- MCForgedChildren
  Forgeries <- MCForgeries
  Capabilities = {"m1", "m2", "forged"}
  CapabilityOf <- MCCapabilityOf
  Effects = {"readX", "postY"}
  Verb <- MCVerb
  Target <- MCTarget
  None = None
CONSTRAINTS SignedFirst AskedOnce
SYMMETRY Symmetry
SPECIFICATION Spec
INVARIANTS TypeOK AuthorityOnlyNarrows HonestCustody DelegatedVerifies ReceivedIsAuthorized
