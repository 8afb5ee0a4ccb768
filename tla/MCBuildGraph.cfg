SPECIFICATION Spec
CONSTANTS
  Targets <- MCTargets
  Root = "all"
  NoOne = NoOne
  Recipes <- MCRecipes
  Jobs = {1, 2}
  Edited = {"gen", "prog"}
  EditKinds = {"source"}
  CleanFailures = TRUE
  MaxInvocations = 2
  MaxEdits = 1
  MaxLag = 1
  MaxFaults = 1
INVARIANTS
  OneBuilderAtATime
  InputsSettled
  NothingLeftBehind
  SuccessMeansCurrent
PROPERTIES
  ImplementsBuild
  BuildEnds
CHECK_DEADLOCK FALSE
