CONSTANTS
  Hooks = {}
  Sweep = "sweep"
  Runs = {"run"}
  Registered = TRUE
SPECIFICATION Spec
PROPERTY MergedWasSeen
CHECK_DEADLOCK FALSE
