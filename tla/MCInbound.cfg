CONSTANTS
  c1 = c1  c2 = c2
  Consumers = {c1, c2}
  Topics = {"fire", "chat", "world"}
  Ack = "ack"
  LifecycleCap = 1
  Second = 2
  Setups <- AllSetups
SPECIFICATION Spec
INVARIANTS
  DeliveredAsEntitled
  AnswersAreTrue
  OpenedAsRegistered
PROPERTIES
  RateIsHeld
CHECK_DEADLOCK FALSE
