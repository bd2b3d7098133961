CONSTANTS
  r1 = r1  r2 = r2  r3 = r3
  Unset = Unset
  Attributes <- MCAttributes
  AttributeKey = {"j", "k"}
  Literal <- Strings
  Shape <- MCShape
  FilterLength <- MCFilterLength
  DeletedTopic = "deleted"
  Request = {r1, r2, r3}
  Plan <- MCPlan
SPECIFICATION Spec
INVARIANTS TypeOK StoredIsReadable SomeInSomeOrder FilterMeans
PROPERTIES ServesWhatIsConfigured
\* Every request is answered once and the system stops.
CHECK_DEADLOCK FALSE
