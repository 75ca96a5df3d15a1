\* Two threads use two contexts for the first time; the library may refuse the
\* application once and fail to start an entry once.
CONSTANTS
  Threads = {t1, t2}
  Contexts = {c1, c2}
  LogLevels = {4}
  DaemonLevels = {2, 4}
  Builds = {FALSE, TRUE}
  MaxEntries = 2
  MaxValues = 1
  MaxLevelChanges = 1
  MaxAppFailures = 1
  MaxErrors = 1
SPECIFICATION Spec
INVARIANTS
  TypeOK
  AppBeforeContexts
  ContextsAreReady
  MetadataAsRequested
  
  OneApplication
