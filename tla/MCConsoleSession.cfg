CONSTANTS
  Parts = {"session", "nav", "traces", "tree", "theme"}
  None = None  NoToken = NoToken  NoUser = NoUser
  t1 = t1  t2 = t2  ann = ann  ben = ben
  acme = acme  orbit = orbit  bot = bot  aide = aide
  Users = {ann, ben}  Tokens = {t1, t2}  Owner <- Issued
  Tenants = {1}  Retries = 1
  Organizations = {acme, orbit}  Agents = {bot, aide}  TenantOf <- Registered
  Traces = {"first", "second"}  Scopes = {acme, orbit}  ScopesOf <- InScope
  StatusOf <- Outcome  ModelOf <- ModelName  SpansOf <- Spanned
  MaxSpans = 3  MaxStart = 2
  Tabs = {b1, b2}
CHECK_DEADLOCK FALSE
SPECIFICATION MCSpec
INVARIANTS SessionMatchesToken ListBelongsToSession ShownIsOfScope TreeIsWhole
PROPERTIES UndisturbedSessionLasts ThemeIsChosen
