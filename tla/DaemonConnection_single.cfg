\* One application thread; the daemon comes, goes and dies.  Liveness under the
\* fairness of the scheduler; deadlock is checked.
CONSTANTS
  Threads = {t1}
  Reader = reader
  NoOne = noone
  Contexts = {c1, c2}
  LogLevels = {3}
  DaemonLevels = {2, 4}
  ConsoleLevel = 0
  Descriptors = {1}
  MaxLogs = 2
  MaxDaemonStarts = 2
  MaxLevelChanges = 2
  MaxFiles = 1
SPECIFICATION FairSpec
INVARIANTS
  TypeOK
  LogsCarryIds
  LogsAreAnnounced
  NoDescriptorLeaks
  AppFilesIntact
  
  NoOutdatedLevels
PROPERTIES
  ChannelSpec
  
  ShutdownCompletes
  
