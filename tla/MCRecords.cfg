\* Two tasks, failing database, crashes; fewer delays than retries.
CONSTANTS
  Parts = {"tasks", "tenants", "members", "login"}
  None = None  Slots = {p1, p2}
  Users = {ann, root}  SuperAdmins = {root}  Names = {acme}  CanFail = TRUE  CanDelete = TRUE
  People = {ann, bob}  Registered = {ann}  Roles = {"viewer"}
  State = {l1, l2}  Callback = {p1, p2}
  Account = {g, m}  Email <- SameAddress  User = {1, 2}  MaxFailures = 1
  Task = {p1, p2}
  MaxAttempts = 3
  BackoffLen = 1
  DbFails = TRUE
  Crashes = TRUE
SYMMETRY Symmetry
CONSTRAINT Bounded
CHECK_DEADLOCK FALSE
SPECIFICATION MCSpec
INVARIANTS
  WebhookStatusIsTrue ReceiverAgreesWithRow
  TenantsHaveTheirAdmin OneUserPerPerson MembersAsChosen
PROPERTY NoPostAfterVerdict
