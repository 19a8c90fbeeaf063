SPECIFICATION Spec
CONSTANTS
  acme = acme
  beta = beta
  unregistered = unregistered
  Item = {1, 2}
  Project = {acme, beta}
  NoProject = unregistered
  ProjectOf <- OneRegistered
  Broken = {}
  RequiredRoles <- AllRoles
  Budget = 1
  Duration = 1
  Failures = {"gates"}
  Menu = {"authorize_work", "approve_pr"}
  MaxOps = 2
  MaxFaults = 0
PROPERTIES
  PastReviewIsHuman
