\* Two event displays, each with one test and one list.
SPECIFICATION Spec
CONSTANTS
  Clients = {"display", "other"}
  Conditions = {"hit"}
  Vars = {"x", "y", "z"}
  Registered = {"x", "y"}
  Lists <- TwoLists
  Tests <- AnyTest
  Waits = {0, 1}
  RpcControl = 1
  MaxCalls <- TwoCalls
  MaxEvents = 3

INVARIANTS InTime WaitsForFirst OneEvent
CHECK_DEADLOCK FALSE
