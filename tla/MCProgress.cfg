CONSTANTS
  Parts = {"router", "tasks", "session", "proxy", "oidc", "tenants", "cli", "verdicts"}
  None = None  NoToken = NoToken  NoUser = NoUser  NoEndpoint = NoEndpoint
  acme = acme  ann = ann  root = root  g = g  t1 = t1  r1 = r1
  Tenant = {acme}  KeyID = {"key"}  Model = {"chat"}
  Request = {r1, r2}  Endpoint = {e1, e2}  Config <- Readded
  FailThreshold = 2  ProbeInterval = 2
CHECK_DEADLOCK FALSE
SPECIFICATION MCSpec
PROPERTIES EventuallyRetried PeopleGetIn WaitsEnd
