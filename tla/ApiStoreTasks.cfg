SPECIFICATION Spec
CONSTANTS
  Tasks = {"t1", "t2"}
  Names <- MCNames
  Packages <- MCPackages
  MinTrials = 2
  MaxPosted = 2
INVARIANTS
  EveryTaskIngested
