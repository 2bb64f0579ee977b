\* Three runtimes of one server, a turn, one operation of its owner and any
\* number of others, two failures or announcements.
SPECIFICATION FairSpec
CONSTANTS
  t1 = t1
  Turns = {t1}
  Configs = {1, 2}
  None = 0
  First = 1
  MaxRuntimes = 3
  MaxFaults = 2
  MaxChanges = 1
INVARIANTS RoutedRuntimeLives  SettledAsDesired
PROPERTY ReplacedRuntimesEnd
CHECK_DEADLOCK FALSE
