CONSTANTS
  Parts = {"auth", "login", "keys", "agents"}
  scoped = scoped  acme = acme  globex = globex
  bot = bot  intruder = intruder  None = None
  Key = {scoped}  Tenant = {acme, globex}  Agent = {bot, intruder}
  KeyTenant <- Owners  KeyAgent <- Scopes
  Request = {r1, r2}  AuthTTL = 2  MaxFill = 1
  home = home  away = away  Gateways = {east, west}  Tenants = {home, away}  Procs = {p1, p2}  Tabs = {b1, b2, b3}  Slots = {r1, r2}
  Names = {"bot"}  MaxLogins = 3  MaxKeys = 2
SYMMETRY Symmetry
CHECK_DEADLOCK FALSE
CONSTRAINT Bounded
SPECIFICATION MCSpec
INVARIANTS RefusedAfterTTL ActsForItsKey ExportsOwnTenant AgentsAsShown
PROPERTY StoredIsOwn
