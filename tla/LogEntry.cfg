\* Two threads share the output mutex while the levels change; one of them may
\* abort the process.
CONSTANTS
  Threads = {t1, t2}
  NoThread = nothread
  Backends <- AllBackends
  LogLevels = {1, 4}
  InitialLevels = {5}
  LevelSettings = {0}
  ArgumentOrders = {"leftToRight"}
  MaxValues = 2
  MaxEntries = 1
  MaxChanges = 1
SPECIFICATION Spec
SYMMETRY Symmetric
INVARIANTS
  TypeOK
  EntriesAreWhole
  
  DisabledBackendsGetNothing

  
