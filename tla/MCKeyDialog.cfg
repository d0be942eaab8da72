CONSTANTS
  Parts = {"dialog", "table", "guide", "picker"}
  None = None  acme = acme  bot = bot  ann = ann
  kb = kb  ku = ku  k1 = k1  k2 = k2
  Keys = {kb, ku}  AgentOf <- OfBot  UserOf <- OfAnn  Slots = {s1, s2}
  Life = 1  MaxTimers = 2
  Providers = {"openai", "custom"}  Custom = "custom"  Urls = {"u1"}  ApiKeys = {k1, k2}
  Models = {"m1"}  DefaultUrl <- OwnUrl  ConfigKey <- FileKey  ConfigUrl <- OwnUrl
  Tenants = {acme, beta}
  Agents = {bot}
  Members = {ann}
  TenantOf <- BelongsTo
  MaxCalls = 2
CHECK_DEADLOCK FALSE
CONSTRAINT Bounded
SPECIFICATION MCSpec
INVARIANTS ClosedStaysHidden SecretReachesUser PageIsTrue 
