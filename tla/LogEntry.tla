------------------------------ MODULE LogEntry ------------------------------
(***************************************************************************)
(* A log entry from the check of its level to its end: the macro           *)
(* log_with_context, LogContextT::LogEntry with the backends it writes to, *)
(* and the stream backends (console and file) with their output mutex.     *)
(*                                                                         *)
(* Threads share one context.  The log levels of the backends change at    *)
(* any time: the DLT backend decides once per entry whether it takes part, *)
(* the stream backends ask again at every write.  The text of an entry is  *)
(* abstracted to its pieces: prefix, values in the order they were         *)
(* streamed, suffix.                                                       *)
(***************************************************************************)
EXTENDS Integers, Sequences

CONSTANTS
  Threads, NoThread,
  Backends,          \* the backends of the context, in the order of the tuple
  LogLevels,         \* levels the application logs at
  InitialLevels,     \* levels of the console the environment may ask for
  LevelSettings,     \* levels the levels of the backends are set to
  ArgumentOrders,    \* orders in which the compiler evaluates arguments
  \* Bounds of the state space:
  MaxValues, MaxEntries, MaxChanges

\* LogLevel
None    == 0
Fatal   == 1
Debug   == 5
Verbose == 6
All     == 7

\* Pieces of the text of an entry; a positive number is a value.
Prefix == 0
Suffix == -1

\* Each class of backends occurs once in the tuple.
ASSUME BackendAssumption ==
  /\ Backends \in Seq({"console", "file", "dlt"}) /\ Backends # << >>
  /\ \A i, j \in 1 .. Len(Backends) : Backends[i] = Backends[j] => i = j

ASSUME LevelAssumption ==
  /\ LogLevels \subseteq Fatal .. Verbose /\ LogLevels # {}
  /\ InitialLevels \subseteq None .. Verbose
  /\ LevelSettings \subseteq None .. All
  /\ ArgumentOrders \subseteq {"leftToRight", "rightToLeft"}
  /\ MaxValues \in Nat /\ MaxEntries \in Nat /\ MaxChanges \in Nat
  /\ NoThread \notin Threads

VARIABLES
  level,             \* m_level of the console and the file context, and
                     \* m_activeLogLevel of the DLT context
  s_defaultLogLevel, \* the global level of the console
  fileOpened,        \* FileLogContext::setFilePath has been called
  outputMutex,       \* streamLogContextAbstractOutputMutex
  process,           \* "running" or "aborted"
  \* threads and their entries
  pc, severity, m_contexts, at, args, count, unflushed, flushing,
  changed,           \* threads during whose entry a setting changed
  enabledAtStart,    \* backends that were enabled when the macro asked
  stdio,             \* texts in the buffers of the C library
  output,            \* texts that have reached the console, file and daemon
  entries, changes   \* progress towards the bounds

settings == <<level, s_defaultLogLevel, fileOpened>>
locals   == <<severity, m_contexts, at, args, count, unflushed, flushing>>
ghosts   == <<changed, enabledAtStart>>
vars == <<settings, outputMutex, process, pc, locals, ghosts, stdio, output,
          entries, changes>>

Used == {Backends[i] : i \in 1 .. Len(Backends)}
Streams == {"console", "file"}

\* The LogDataTypes of an entry: what was written, and DltCppLogData::m_enabled.
NewData == [content |-> << >>, enabled |-> FALSE]

\* ConsoleLogContext takes the global level from the environment and its own
\* from that; DefaultConsoleLogContext then sets its own to Debug.
Init ==
  /\ s_defaultLogLevel \in InitialLevels
  /\ \E console \in {s_defaultLogLevel, Debug} :
       level = [b \in Used |-> CASE b = "console" -> console
                                [] b = "file"    -> Debug
                                [] b = "dlt"     -> Verbose]
  /\ fileOpened \in BOOLEAN
  /\ outputMutex = NoThread /\ process = "running"
  /\ pc = [t \in Threads |-> "idle"]
  /\ severity = [t \in Threads |-> CHOOSE l \in LogLevels : TRUE]
  /\ m_contexts = [t \in Threads |-> [b \in Used |-> NewData]]
  /\ at = [t \in Threads |-> 1]
  /\ args = [t \in Threads |-> << >>]
  /\ count = [t \in Threads |-> 0]
  /\ unflushed = [t \in Threads |-> {}]
  /\ flushing = [t \in Threads |-> "console"]
  /\ changed = {} /\ enabledAtStart = [t \in Threads |-> {}]
  /\ stdio = {} /\ output = {}
  /\ entries = [t \in Threads |-> 0] /\ changes = 0

At(t, label) == process = "running" /\ pc[t] = label
Goto(t, label) == pc' = [pc EXCEPT ![t] = label]

-----------------------------------------------------------------------------
(***************************************************************************)
(* The check of the level and the construction of the entry                *)
(***************************************************************************)

\* isEnabled of ConsoleLogContext, FileLogContext and DltCppContextClass.
ContextEnabled(b, l) == l <= level[b] /\ (b = "console" => l <= s_defaultLogLevel)

\* isEnabled of the backend's LogData.
DataEnabled(t, b) ==
  IF b = "dlt" THEN m_contexts[t][b].enabled ELSE ContextEnabled(b, severity[t])

\* log_with_context: a disabled context evaluates nothing.
IsEnabled(t) ==
  /\ At(t, "idle") /\ entries[t] < MaxEntries
  /\ \E l \in LogLevels :
       LET enabled == {b \in Used : ContextEnabled(b, l)}
       IN  /\ Goto(t, IF enabled = {} THEN "idle" ELSE "init")
           /\ severity' = [severity EXCEPT ![t] = l]
           /\ enabledAtStart' = [enabledAtStart EXCEPT ![t] = enabled]
  /\ m_contexts' = [m_contexts EXCEPT ![t] = [b \in Used |-> NewData]]
  /\ at' = [at EXCEPT ![t] = 1]
  /\ count' = [count EXCEPT ![t] = 0]
  /\ changed' = changed \ {t}
  /\ entries' = [entries EXCEPT ![t] = @ + 1]
  /\ UNCHANGED <<settings, outputMutex, process, args, unflushed, flushing,
                 stdio, output, changes>>

\* Every write to a stream backend formats its value and appends the characters
\* to m_content; every write to the DLT appends an argument to its m_content.
Appended(data, pieces) ==
  [content |-> data.content \o pieces, enabled |-> data.enabled]

\* writePrefix
WithPrefix(data) == Appended(data, <<Prefix>>)

\* Mutant: the recursion over the tuple goes one element too far.
InitDataOverrun(t) ==
  /\ At(t, "init")
  /\ IF at[t] > Len(Backends)
     THEN Goto(t, "open") /\ UNCHANGED at
     ELSE at' = [at EXCEPT ![t] = @ + 1] /\ UNCHANGED pc
  /\ UNCHANGED <<settings, outputMutex, process, severity, m_contexts, args,
                 count, unflushed, flushing, ghosts, stdio, output, entries,
                 changes>>

\* for_each_init, one backend after the other.
InitData(t) ==
  /\ At(t, "init")
  /\ LET b == Backends[at[t]]
         enabled == ContextEnabled(b, severity[t])
     IN  m_contexts' = [m_contexts EXCEPT ![t][b] =
           IF b = "dlt" THEN [@ EXCEPT !.enabled = enabled]
           ELSE IF enabled THEN WithPrefix(@) ELSE @]
  /\ IF at[t] = Len(Backends)
     THEN Goto(t, "open") /\ UNCHANGED at
     ELSE at' = [at EXCEPT ![t] = @ + 1] /\ UNCHANGED pc
  /\ UNCHANGED <<settings, outputMutex, process, severity, args, count,
                 unflushed, flushing, ghosts, stdio, output, entries, changes>>

-----------------------------------------------------------------------------
(***************************************************************************)
(* Streaming values                                                        *)
(***************************************************************************)

\* operator<< and writeFormatted write one value, write(args...) several.
StartWrite(t) ==
  /\ At(t, "open")
  /\ \E n \in 1 .. MaxValues - count[t] :
       /\ args' = [args EXCEPT ![t] = [i \in 1 .. n |-> count[t] + i]]
       /\ count' = [count EXCEPT ![t] = @ + n]
  /\ at' = [at EXCEPT ![t] = 1]
  /\ Goto(t, "write")
  /\ UNCHANGED <<settings, outputMutex, process, severity, m_contexts,
                 unflushed, flushing, ghosts, stdio, output, entries, changes>>

Reversed(s) == [i \in 1 .. Len(s) |-> s[Len(s) + 1 - i]]

\* for_each_argument passes (f(arg), 0)... as the arguments of a function: the
\* compiler chooses the order in which they are evaluated.
Evaluated(s, order) == IF order = "leftToRight" THEN s ELSE Reversed(s)

\* Mutant: write() goes on to the next backend of the tuple two by two.
WriteBackendSkips(t) ==
  /\ At(t, "write")
  /\ LET b == Backends[at[t]]
     IN  \E order \in ArgumentOrders :
           m_contexts' = IF DataEnabled(t, b)
                         THEN [m_contexts EXCEPT ![t][b] =
                                 Appended(@, Evaluated(args[t], order))]
                         ELSE m_contexts
  /\ IF at[t] + 1 >= Len(Backends)
     THEN /\ Goto(t, "open") /\ UNCHANGED at
          /\ args' = [args EXCEPT ![t] = << >>]
     ELSE at' = [at EXCEPT ![t] = @ + 2] /\ UNCHANGED <<pc, args>>
  /\ UNCHANGED <<settings, outputMutex, process, severity, count,
                 unflushed, flushing, ghosts, stdio, output, entries, changes>>

\* for_each_in_tuple_ over the backends, each asked whether it is enabled.
WriteBackend(t) ==
  /\ At(t, "write")
  /\ LET b == Backends[at[t]]
     IN  \E order \in ArgumentOrders :
           m_contexts' = IF DataEnabled(t, b)
                         THEN [m_contexts EXCEPT ![t][b] =
                                 Appended(@, Evaluated(args[t], order))]
                         ELSE m_contexts
  /\ IF at[t] = Len(Backends)
     THEN /\ Goto(t, "open") /\ UNCHANGED at
          /\ args' = [args EXCEPT ![t] = << >>]
     ELSE at' = [at EXCEPT ![t] = @ + 1] /\ UNCHANGED <<pc, args>>
  /\ UNCHANGED <<settings, outputMutex, process, severity, count,
                 unflushed, flushing, ghosts, stdio, output, entries, changes>>

-----------------------------------------------------------------------------
(***************************************************************************)
(* The end of the entry: the members of LogEntry are destroyed, then its   *)
(* base LogInfo                                                            *)
(***************************************************************************)

Text(t, b) ==
  [thread |-> t, entry |-> entries[t], backend |-> b, level |-> severity[t],
   content |-> m_contexts[t][b].content, values |-> count[t],
   changed |-> t \in changed, enabledAtStart |-> b \in enabledAtStart[t]]

EndOfStatement(t) ==
  /\ At(t, "open")
  /\ unflushed' = [unflushed EXCEPT ![t] = Used]
  /\ Goto(t, "destroy")
  /\ UNCHANGED <<settings, outputMutex, process, severity, m_contexts, at,
                 args, count, flushing, ghosts, stdio, output, entries, changes>>

\* ~DltCppLogData hands an enabled entry to DaemonConnection::sendLog.  The
\* order of the elements of a std::tuple is up to the C++ library.
DestroyDlt(t) ==
  /\ At(t, "destroy") /\ "dlt" \in unflushed[t]
  /\ output' = IF DataEnabled(t, "dlt") THEN output \cup {Text(t, "dlt")} ELSE output
  /\ unflushed' = [unflushed EXCEPT ![t] = @ \ {"dlt"}]
  /\ UNCHANGED <<settings, outputMutex, process, pc, severity, m_contexts, at,
                 args, count, flushing, ghosts, stdio, entries, changes>>

\* getFile() of the file backend is null until setFilePath is called.
FileAvailable(b) == b = "file" => fileOpened

\* Mutant: flushLog does not ask whether the backend is enabled.
FlushLogAlways(t) ==
  /\ At(t, "destroy")
  /\ \E b \in Streams \cap unflushed[t] :
       /\ unflushed' = [unflushed EXCEPT ![t] = @ \ {b}]
       /\ Goto(t, "suffix")
       /\ flushing' = [flushing EXCEPT ![t] = b]
  /\ UNCHANGED <<settings, outputMutex, process, severity, m_contexts, at,
                 args, count, ghosts, stdio, output, entries, changes>>

\* flushLog asks whether the backend is enabled.
FlushLog(t) ==
  /\ At(t, "destroy")
  /\ \E b \in Streams \cap unflushed[t] :
       /\ unflushed' = [unflushed EXCEPT ![t] = @ \ {b}]
       /\ IF DataEnabled(t, b)
          THEN Goto(t, "suffix") /\ flushing' = [flushing EXCEPT ![t] = b]
          ELSE UNCHANGED <<pc, flushing>>
  /\ UNCHANGED <<settings, outputMutex, process, severity, m_contexts, at,
                 args, count, ghosts, stdio, output, entries, changes>>

\* writeSuffix asks again.
WriteSuffix(t) ==
  /\ At(t, "suffix")
  /\ LET b == flushing[t]
     IN  m_contexts' = IF DataEnabled(t, b)
                       THEN [m_contexts EXCEPT ![t][b] = Appended(@, <<Suffix>>)]
                       ELSE m_contexts
  /\ Goto(t, "lock")
  /\ UNCHANGED <<settings, outputMutex, process, severity, at, args, count,
                 unflushed, flushing, ghosts, stdio, output, entries, changes>>

\* Mutant: the lock of the output mutex is left out.
PrintWithoutLock(t) ==
  /\ At(t, "lock")
  /\ outputMutex' = t
  /\ stdio' = IF FileAvailable(flushing[t])
              THEN stdio \cup {Text(t, flushing[t])} ELSE stdio
  /\ Goto(t, "flush")
  /\ UNCHANGED <<settings, process, locals, ghosts, output, entries, changes>>

\* StreamLogContextAbstract::write: lock and fprintf; a file that has not been
\* opened receives nothing.
LockAndPrint(t) ==
  /\ At(t, "lock") /\ outputMutex = NoThread
  /\ outputMutex' = t
  /\ stdio' = IF FileAvailable(flushing[t])
              THEN stdio \cup {Text(t, flushing[t])} ELSE stdio
  /\ Goto(t, "flush")
  /\ UNCHANGED <<settings, process, locals, ghosts, output, entries, changes>>

\* Mutant: fflush is left to the C library.
UnlockWithoutFlush(t) ==
  /\ At(t, "flush")
  /\ outputMutex' = NoThread
  /\ Goto(t, "destroy")
  /\ UNCHANGED <<settings, process, locals, ghosts, stdio, output, entries, changes>>

\* fflush, then the mutex is released.
FlushAndUnlock(t) ==
  /\ At(t, "flush")
  /\ output' = output \cup {x \in stdio : x.backend = flushing[t]}
  /\ stdio' = {x \in stdio : x.backend # flushing[t]}
  /\ outputMutex' = NoThread
  /\ Goto(t, "destroy")
  /\ UNCHANGED <<settings, process, locals, ghosts, entries, changes>>

\* ~LogInfo: abort() discards what is left in the buffers of the C library.
DestroyLogInfo(t) ==
  /\ At(t, "destroy") /\ unflushed[t] = {}
  /\ IF severity[t] = Fatal THEN process' = "aborted" /\ UNCHANGED pc
                            ELSE Goto(t, "idle") /\ UNCHANGED process
  /\ UNCHANGED <<settings, outputMutex, locals, ghosts, stdio, output, entries, changes>>

-----------------------------------------------------------------------------
(***************************************************************************)
(* Settings, changed by any thread without synchronization                 *)
(***************************************************************************)

Changing ==
  /\ process = "running" /\ changes < MaxChanges
  /\ changes' = changes + 1
  /\ changed' = {t \in Threads : pc[t] # "idle"} \cup changed
  /\ UNCHANGED <<outputMutex, process, pc, locals, enabledAtStart, stdio,
                 output, entries>>

\* setLogLevel of a stream context, setActiveLogLevel of the DLT context.
SetLogLevel ==
  /\ Changing
  /\ \E b \in Used, l \in LevelSettings : level' = [level EXCEPT ![b] = l]
  /\ UNCHANGED <<s_defaultLogLevel, fileOpened>>

SetGlobalLogLevel ==
  /\ Changing
  /\ s_defaultLogLevel' \in LevelSettings
  /\ UNCHANGED <<level, fileOpened>>

SetFilePath ==
  /\ Changing
  /\ fileOpened' = TRUE
  /\ UNCHANGED <<level, s_defaultLogLevel>>

Finished ==
  /\ process = "aborted" \/ \A t \in Threads : pc[t] = "idle"
  /\ UNCHANGED vars

Step(t) ==
  \/ InitData(t) \/ WriteBackend(t) \/ EndOfStatement(t) \/ DestroyDlt(t)
  \/ FlushLog(t) \/ WriteSuffix(t) \/ LockAndPrint(t) \/ FlushAndUnlock(t)
  \/ DestroyLogInfo(t)

Next ==
  \/ \E t \in Threads : IsEnabled(t) \/ StartWrite(t) \/ Step(t)
  \/ SetLogLevel \/ SetGlobalLogLevel \/ SetFilePath
  \/ Finished

Spec == Init /\ [][Next]_vars

-----------------------------------------------------------------------------
(***************************************************************************)
(* Properties                                                              *)
(***************************************************************************)

Data == [content : Seq(Int), enabled : BOOLEAN]

Line == [thread : Threads, entry : Nat, backend : {"console", "file", "dlt"},
         level : LogLevels, content : Seq(Int), values : Nat,
         changed : BOOLEAN, enabledAtStart : BOOLEAN]

\* Types of the settings, of the parts of a log entry and of what is written.
TypeOK ==
  /\ level \in [Used -> None .. All]
  /\ s_defaultLogLevel \in None .. All
  /\ fileOpened \in BOOLEAN
  /\ outputMutex \in Threads \cup {NoThread}
  /\ process \in {"running", "aborted"}
  /\ pc \in [Threads -> {"idle", "init", "open", "write", "destroy", "suffix",
                         "lock", "flush"}]
  /\ severity \in [Threads -> LogLevels]
  /\ m_contexts \in [Threads -> [Used -> Data]]
  /\ at \in [Threads -> 1 .. Len(Backends)]
  /\ args \in [Threads -> Seq(Nat)]
  /\ count \in [Threads -> 0 .. MaxValues]
  /\ unflushed \in [Threads -> SUBSET Used]
  /\ flushing \in [Threads -> Streams]
  /\ changed \subseteq Threads /\ enabledAtStart \in [Threads -> SUBSET Used]
  /\ stdio \subseteq Line /\ output \subseteq Line
  /\ entries \in [Threads -> Nat] /\ changes \in Nat

InOrder(n) == [i \in 1 .. n |-> i]

Whole(x) ==
  x.content = IF x.backend = "dlt" THEN InOrder(x.values)
              ELSE <<Prefix>> \o InOrder(x.values) \o <<Suffix>>

\* An entry that reaches the DLT has all the values that were streamed into it,
\* in order, even when the levels change meanwhile; one that reaches the
\* console or the file has all of them between its prefix and its suffix if no
\* level changed meanwhile.
EntriesAreWhole == \A x \in output : x.backend = "dlt" \/ ~x.changed => Whole(x)

\* abort() in ~LogInfo comes after every backend that accepts the fatal entry
\* has passed it on: to the daemon, or through fflush out of the process.
FatalEntryIsPassedOn ==
  process = "aborted" =>
    \E t \in Threads :
      /\ pc[t] = "destroy" /\ severity[t] = Fatal
      /\ t \notin changed =>
           \A b \in Used : ContextEnabled(b, Fatal) /\ FileAvailable(b) =>
             \E x \in output : /\ x.thread = t /\ x.backend = b
                               /\ x.entry = entries[t]

\* A backend that does not accept the level of an entry receives nothing of it
\* ("ensure that we don't send data to a disabled context"), unless its level
\* changes meanwhile.
DisabledBackendsGetNothing == \A x \in output : ~x.changed => x.enabledAtStart

\* The values passed to write() appear in the order they were passed, as the
\* example says of write("Values can be passed at once ...", ..., " / ", 1234).
ValuesAreInOrder ==
  \A x \in output : \A i, j \in 1 .. Len(x.content) :
    i < j /\ x.content[i] > 0 /\ x.content[j] > 0 => x.content[i] < x.content[j]

\* A thread that is in the middle of an entry during which no setting changed.
Stable(t) == pc[t] # "idle" /\ t \notin changed

\* Backends that must have the entry of t, and those that may have it.
Owed(t) ==
  IF Stable(t) THEN {b \in enabledAtStart[t] : FileAvailable(b)} ELSE {}

Welcome(t) ==
  IF Stable(t) THEN enabledAtStart[t] ELSE IF pc[t] = "idle" THEN {} ELSE Used

Delivery == INSTANCE EntryDelivery WITH
  Destinations <- Used,
  open <- {t \in Threads : pc[t] # "idle"}, entry <- entries,
  owed <- [t \in Threads |-> Owed(t)], welcome <- [t \in Threads |-> Welcome(t)],
  received <- output, aborted <- process = "aborted"

\* A log statement returns, or aborts, when every backend that accepts its entry
\* has passed it on; each backend gets one text of it, while the statement runs,
\* even though the backends are flushed one by one through a shared mutex and
\* the buffers of the C library.
EntriesAreDelivered == Delivery!Spec
=============================================================================
