CONSTANTS
  Parts = {"list", "dialog", "events"}
  None = None  acme = acme  orbit = orbit
  secret = secret  custom = custom  bot = bot  aide = aide
  Rules = {secret, custom}
  Agents = {bot}
  AgentOf <- OwnerOf
  MaxCalls = 2
  Texts = {t1, t2}  Slots = {s1, s2}
  Tenants = {acme, orbit}  TenantOf <- Owner  Limit = 1  MaxFires = 2
SYMMETRY Symmetry
CHECK_DEADLOCK FALSE
SPECIFICATION MCSpec
INVARIANTS PanelIsTrue RowsAreTrue RulesAreForWhomShown CountedFiresAreFound
CONSTRAINT Bounded
