\* test_multithreaded.cpp: two threads log to one context.
CONSTANTS
  Threads = {t1, t2}
  Reader = reader
  NoOne = noone
  Contexts = {c1}
  LogLevels = {3}
  DaemonLevels = {2}
  ConsoleLevel = 0
  Descriptors = {1, 2, 3}
  MaxLogs = 1
  MaxDaemonStarts = 1
  MaxLevelChanges = 1
  MaxFiles = 0
SPECIFICATION Spec
CHECK_DEADLOCK FALSE
INVARIANT LogsCarryIds
