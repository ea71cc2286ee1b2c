SPECIFICATION Spec
CONSTANTS
  h1 = h1
  h2 = h2
  n1 = n1
  n2 = n2
  UserNames = {n1, n2}
  Workloads <- MCRepairs
  TaggedKinds = {"media", "nintendo"}
  Exclusive = TRUE
  Alone = TRUE
  Careful = FALSE
PROPERTIES RepairKeepsAll OrphansDeleted
CHECK_DEADLOCK FALSE
