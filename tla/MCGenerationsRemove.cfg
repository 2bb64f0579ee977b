\* Uninstalled at any time and installed again, under two turns with leases.
SPECIFICATION FairSpec
CONSTANTS
  t1 = t1 t2 = t2
  Turns = {t1, t2}
  Digests = {1}
  Ops = {"install", "uninstall"}
  LoadsFail = FALSE
  MaxGens = 2
  MaxRevisions = 8
PROPERTY UninstallCompletes
CHECK_DEADLOCK FALSE
