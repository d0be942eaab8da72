CONSTANTS
  Request = {r1}
  Detector = TRUE
  FailThreshold = 2
  ProbeInterval = 1
SPECIFICATION ClaimsSpec
INVARIANT OpenIsFailing
