\* Two logs of four statements and one, two threads.
CONSTANTS
  Threads = {t, u}
  Logs = {"strict", "open"}
  TrustedLogs = {"strict", "open"}
  Permissive = {"open"}
  Issuers = {"a"}
  IssuerKey <- MCIssuerKey
  Statements <- MCStatements
  KnownTypes = {"decision", "receipt"}
  AllowedTypes <- MCAllowedTypes
  registration_policy <- MCPolicy
  MaxSize <- MCMaxSize
  Stated <- MCStated
  NoValue = NoValue
ACTION_CONSTRAINT Restricted
SYMMETRY Symmetry
SPECIFICATION LogSpec
INVARIANTS LogTypeOK TransparentIsLogged LoneReceiptsVerify
CHECK_DEADLOCK FALSE
