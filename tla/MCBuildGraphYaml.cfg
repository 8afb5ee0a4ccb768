\* A command of a YAML recipe fails.
SPECIFICATION Spec
CONSTANTS
  Targets <- MCTargets
  Root = "all"
  NoOne = NoOne
  Recipes <- YamlRecipes
  Jobs = {1}
  Edited = {"gen"}
  EditKinds = {"source"}
  CleanFailures = TRUE
  MaxInvocations = 1
  MaxEdits = 0
  MaxLag = 0
  MaxFaults = 1
INVARIANT
  SuccessMeansCurrent
CHECK_DEADLOCK FALSE
