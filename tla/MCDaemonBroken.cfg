SPECIFICATION Spec
CONSTANTS
  acme = acme
  beta = beta
  unregistered = unregistered
  Item = {1, 2}
  Project = {acme, beta}
  NoProject = unregistered
  ProjectOf <- Own
  Broken = {acme}
  RequiredRoles <- AllRoles
  Budget = 1
  Duration = 1
  Failures = {"gates"}
  Menu = {"authorize_work"}
  MaxOps = 2
  MaxFaults = 0
PROPERTIES
  TriageHappens
