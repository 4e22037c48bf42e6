CONSTANTS
  r1 = r1  r2 = r2  r3 = r3  m1 = m1
  cpu = cpu  disk = disk  vm = vm
  None = None
  Requests <- MCRequests
  Moves <- MCMoves
  Alerts <- MCAlerts
  RuleOf <- MCRuleOf
  ResourceOf <- MCResourceOf
  MaxRetries = 2
SYMMETRY Symmetry
CHECK_DEADLOCK FALSE
SPECIFICATION IncidentSpec
PROPERTY JoinsOpenIncident
