\* Compilers that evaluate arguments from the right.
CONSTANTS
  Threads = {t1}
  NoThread = nothread
  Backends <- ConsoleOnly
  LogLevels = {2}
  InitialLevels = {5}
  LevelSettings = {5}
  ArgumentOrders = {"leftToRight", "rightToLeft"}
  MaxValues = 2
  MaxEntries = 1
  MaxChanges = 0
SPECIFICATION Spec
INVARIANT ValuesAreInOrder
