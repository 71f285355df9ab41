SPECIFICATION Spec
CONSTANTS
  Clients = {c1}
  Cap = 3
  MaxLines = 1
  Outcomes = {"done"}
INVARIANT SubscribersAreSafe
CHECK_DEADLOCK FALSE
