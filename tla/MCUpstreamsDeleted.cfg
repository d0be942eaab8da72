CONSTANTS
  Parts = {"console"}
  None = None  NoEndpoint = NoEndpoint
  acme = acme  globex = globex  k1 = k1  k2 = k2  chat = chat
  e1 = e1  e2 = e2  e3 = e3
  Tenant <- TenantPair  KeyID <- KeyPair  Model <- SharedModel
  Request = {r1, r2}  Endpoint = {e1, e2, e3}  Config <- Upstreams
  FailThreshold = 2  ProbeInterval = 2
  Labels = {"prime", "spare"}  Providers = {"openai", "custom"}
  Models = {"gpt", "llama"}  ProviderOf <- Catalogue  MaxRows = 2  MaxCalls = 2
  Values = {0, 1, 2}  WindowSize = 3  MaxRecords = 5
  Endpoints = {e1, e2}  TenantOf <- AcmeOwns  VendorOf <- OneVendor  MaxScore = 1
CHECK_DEADLOCK FALSE
SPECIFICATION MCSpec
INVARIANT DeletedIsNotRouted
