SPECIFICATION Spec
CONSTANTS
  acme = acme
  beta = beta
  unregistered = unregistered
  Item = {1, 2}
  Project = {acme, beta}
  NoProject = unregistered
  ProjectOf <- Shared
  Broken = {}
  RequiredRoles <- AllRoles
  Budget = 1
  Duration = 1
  Failures = {"gates"}
  Menu = {"authorize_work", "begin_implementation", "submit_review", "request_changes", "approve_pr", "block", "resolve_block"}
  MaxOps = 3
  MaxFaults = 1
INVARIANTS
  TypeOK
  BegunIsKnown
  WorkflowAhead
  ReviewsWhatWasBuilt
PROPERTIES
  TriageHappens
  WorkSettles
