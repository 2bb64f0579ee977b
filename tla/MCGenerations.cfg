\* Every operation, in any order, with loads that may fail, under two turns with leases.
SPECIFICATION Spec
CONSTANTS
  t1 = t1 t2 = t2
  Turns = {t1, t2}
  Digests = {1}
  Ops = {"install", "reload", "enable", "disable", "uninstall"}
  LoadsFail = TRUE
  MaxGens = 3
  MaxRevisions = 5
INVARIANTS TypeOK KeptWhileLeased LeasedGenerationRuns RetiredGenerationStops
  OneActiveGeneration RoutedIsRegistered RoutedPackageOnDisk
SYMMETRY TurnSymmetry
CHECK_DEADLOCK FALSE
