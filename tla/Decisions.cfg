\* Three tokens, two threads, records up to the bound plus one per thread.
CONSTANTS
  Threads = {x, y}
  Tokens = {t1, t2, t3}
  Planes = {"mcp"}
  Actions = {"read", "wire"}
  Resources = {"/a", "/a/b"}
  Below <- MCBelow
  Constitutions = {"now"}
  Current = "now"
  Caveats = {"spend5", "eur5", "eur3", "inB", "toH", "toU", "toHUV", "toHU", "once", "thrice", "soon"}
  Kind <- MCKind
  Bound <- MCBound
  Hosts = {"h"}
  Urls = {"/u", "/u/x", "/v"}
  UrlOk <- MCUrlOk
  Currencies = {"EUR"}
  Contexts <- MCContexts
  Roots <- MCRoots
  Strays <- MCStrays
  Requests <- MCRequests
  Governance <- MCGovernance
  NeverShadow = {"wire"}
  InitialMode = "ENFORCE"
  Commands <- MCCommands
  MaxChainDepth = 1
  MaxTime = 1
  MaxRecords = 2
  None = None
CONSTRAINTS FewConsumed ModeWithoutTokens
ACTION_CONSTRAINT SignedFirst
SYMMETRY Symmetry
SPECIFICATION Spec
INVARIANTS TypeOK SubsumptionNarrows RacesAreBounded
PROPERTY SparedOnlyInShadow
CHECK_DEADLOCK FALSE
