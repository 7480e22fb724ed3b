\* Two servers side by side, restarted with every mixture of three files,
\* three environments and three env files.
SPECIFICATION Spec
SYMMETRY PlacesAlike
CONSTANTS
  Server = {s1, s2}
  Credential = {c}
  Epoch = {"2025-12", "2026-01", "2026-02"}
  Seed = {"inline seed", "env seed", "file seed"}
  Address = {"cache:6379", "other:6379"}
  Environment <- Environments
  EnvFile <- EnvFiles
  YAML <- Files
  Junk = Junk
  None = None
  DefaultExpiration = 2
  DefaultClients = 2
  MaxRuns = 3
  MaxAccepts = 2
  MaxClock = 2
INVARIANTS
  TypeOK
  ProductionPolicy
  IssuedRedeemable
  AcceptedOncePerStore
CHECK_DEADLOCK FALSE
