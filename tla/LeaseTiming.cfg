CONSTANTS
  Heartbeat = 4
  RpcTimeout = 2
  Lease = 13
  Slack = 1
SPECIFICATION Spec
INVARIANTS
  LeaseInv
  HealthyLeaseHolds
CHECK_DEADLOCK FALSE
