\* Two application threads race to register, to reconnect and to log, and a file
\* of the application can get the number of a descriptor send() has closed.
CONSTANTS
  Threads = {t1, t2}
  Reader = reader
  NoOne = noone
  Contexts = {c1, c2}
  LogLevels = {3}
  DaemonLevels = {2}
  ConsoleLevel = 0
  Descriptors = {1, 2}
  MaxLogs = 1
  MaxDaemonStarts = 2
  MaxLevelChanges = 0
  MaxFiles = 1
SPECIFICATION Spec
SYMMETRY Symmetric
CHECK_DEADLOCK FALSE
INVARIANTS
  PositionsResolve
  QuiescentDaemonKnowsContexts
  RegistrationLoopIsSafe
