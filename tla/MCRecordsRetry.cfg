CONSTANTS
  Parts = {"tenants"}
  None = None  Slots = {p1, p2}
  Users = {ann, root}  SuperAdmins = {root}  Names = {acme}  CanFail = TRUE  CanDelete = TRUE
  People = {ann, bob}  Registered = {ann}  Roles = {"viewer"}
  State = {l1, l2}  Callback = {p1, p2}
  Account = {g, m}  Email <- SameAddress  User = {1, 2}  MaxFailures = 1
  Task = {p1, p2}
  MaxAttempts = 1
  BackoffLen = 1
  DbFails = FALSE
  Crashes = FALSE
SYMMETRY Symmetry
CHECK_DEADLOCK FALSE
SPECIFICATION MCSpec
INVARIANT TryingAgainMayWork
