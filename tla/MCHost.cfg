SPECIFICATION HostSpec
CONSTANTS
  None = None
  Agents = {"a"}
  Ranks = {"r"}
  Servers = {"v1", "v2"}
  Kinds = {"cancel", "deadline", "item", "supervisor", "root", "stuck", "expire", "survive", "startup", "runner"}
INVARIANTS
  LeaseProof
  NoBlindSignal
  ProfileRetires
  ServingOrdered
  EvidenceHonest
PROPERTIES
  ScopeHonest
CHECK_DEADLOCK FALSE
