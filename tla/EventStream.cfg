CONSTANTS
  MaxSubs = 2
  MaxPubs = 3
  MaxHit = 2
SPECIFICATION Spec
INVARIANTS
  LimitedSubscription
PROPERTIES
  PublishOrder
  ImplementsBroadcast
  PublishReturns
CHECK_DEADLOCK FALSE
