SPECIFICATION EitherSpec
CONSTANTS
  c1 = c1
  c2 = c2
  i1 = i1
  i2 = i2
  i3 = i3
  Inputs = {i1, i2}
  SystemInputs = {}
  Calls <- MCCalls
  CallLists <- MCPairLists
  ToolExecution = "parallel"
  SteeringMode = "one-at-a-time"
  FollowUpMode = "one-at-a-time"
  ModelFails = FALSE
  AfterHookMayThrow = FALSE
PROPERTIES SteeringIsDelivered
