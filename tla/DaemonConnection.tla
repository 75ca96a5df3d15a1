--------------------------- MODULE DaemonConnection ---------------------------
(***************************************************************************)
(* The connection of an application to the DLT daemon: class               *)
(* DaemonConnection, the DLT side of DltCppContextClass, and the path of a *)
(* log call through LogContextT (checkContext, isEnabled, createLog).      *)
(*                                                                         *)
(* Application threads log concurrently.  registerContext holds the mutex; *)
(* sendLog calls the same initDaemonConnection and send without it.  Every *)
(* step of a thread contains at most one access to the state it shares     *)
(* with the others.  The reader thread applies the log levels the daemon   *)
(* sends.  The daemon is external: it may start, stop, die and restart at  *)
(* any time; the FIFO /tmp/dlt exists while it runs and is left behind     *)
(* without a reader when it dies.  SIGPIPE is assumed to be ignored.       *)
(***************************************************************************)
EXTENDS Integers, Sequences

CONSTANTS
  Threads,         \* application threads
  Reader, NoOne,   \* the reader thread; "no thread" as holder of the mutex
  Contexts,        \* the application's log contexts
  LogLevels,       \* DLT levels of the log calls, 1 (fatal) .. 6 (verbose)
  DaemonLevels,    \* levels the daemon may set, 0 (off) .. 6
  ConsoleLevel,    \* the console backend of each context logs up to this level
  Descriptors,     \* file descriptors the process can have
  \* Bounds of the state space:
  MaxLogs, MaxDaemonStarts, MaxLevelChanges, MaxFiles

Disconnected == -1     \* disconnectedFromDaemonFd, and open()'s failure
Free         == 0      \* an unused descriptor
AppFile      == -1     \* a descriptor of a file the application opened itself
Verbose      == 6      \* DLT_LOG_VERBOSE, the initial m_activeLogLevel
CounterModulus == 256  \* m_messageCount is a uint8_t
None         == -1

ASSUME NameAssumption ==
  Reader \notin Threads /\ NoOne \notin Threads /\ Reader # NoOne

ASSUME DataAssumption ==
  /\ LogLevels \subseteq 1 .. 6
  /\ DaemonLevels \subseteq 0 .. 6
  /\ ConsoleLevel \in 0 .. 6
  /\ Descriptors \subseteq Nat \ {Free}
  /\ MaxLogs \in Nat /\ MaxDaemonStarts \in Nat
  /\ MaxLevelChanges \in Nat /\ MaxFiles \in Nat

VARIABLES
  \* DaemonConnection and DltCppContextClass
  mutex, m_contexts, m_daemonFileDescriptor, m_stopRequested,
  log_level_pos, m_activeLogLevel, m_messageCount, m_bRegistered,
  idsAssigned,     \* extendedHeader.apid and ctid of the context are filled in
  \* the process
  process,         \* "running", "stopping", "joining", "exited" or how it died
  files,           \* what each descriptor refers to: Free, AppFile or the
                   \* number of the daemon start whose FIFO it writes to
  harmed,          \* what happened to the application's own files
  \* application threads
  pc, ctx, level, opened, next, last, out, mcnt, phase,
  dangling,        \* threads whose iterators into m_contexts are invalid
  \* the reader thread
  readerPc, stopPipe, batch,
  \* the daemon and the pipe to the application
  fifo, starts, appKnown, registrations, logs, requested, inbox,
  \* progress towards the bounds
  logCalls, levelChanges, filesOpened

contextVars == <<m_contexts, log_level_pos, m_bRegistered, idsAssigned>>
levelVars   == <<m_activeLogLevel, m_messageCount>>
fdVars      == <<m_daemonFileDescriptor, files, harmed>>
localVars   == <<ctx, level, opened, next, last, out, mcnt, phase, dangling>>
readerVars  == <<readerPc, stopPipe, batch, m_stopRequested>>
daemonVars  == <<fifo, starts, appKnown, registrations, logs,
                 requested, inbox>>
boundVars   == <<logCalls, levelChanges, filesOpened>>

vars == <<mutex, contextVars, levelVars, fdVars, process, pc, localVars,
          readerVars, daemonVars, boundVars>>

SendPcs == {"sendApp", "sendAgain", "sendNew", "sendLog"}

Pcs == {"idle", "getInstance", "lock", "setPosition", "push", "init", "open",
        "blocked", "assign", "range", "iterate", "after", "unlock",
        "registered", "isEnabled", "create"} \cup SendPcs

Message == [ctx : Contexts, pos : Int, ids : BOOLEAN]
Registration == [ctx : Contexts, pos : Int]
LevelMessage == [ctx : Contexts, pos : Int, level : 0 .. 6]
Log == [ctx : Contexts, ids : BOOLEAN, mcnt : 0 .. 255,
        announced : BOOLEAN]

Size == Len(m_contexts)
Alive == process \notin {"aborted", "crashed"}

Init ==
  /\ mutex = NoOne
  /\ m_contexts = << >>
  /\ m_daemonFileDescriptor = Disconnected
  /\ m_stopRequested = FALSE
  /\ log_level_pos = [c \in Contexts |-> -1]
  /\ m_activeLogLevel = [c \in Contexts |-> Verbose]
  /\ m_messageCount = [c \in Contexts |-> 0]
  /\ m_bRegistered = [c \in Contexts |-> FALSE]
  /\ idsAssigned = [c \in Contexts |-> FALSE]
  /\ process = "running"
  /\ files = [d \in Descriptors |-> Free]
  /\ harmed = {}
  /\ pc = [t \in Threads |-> "idle"]
  /\ \E c \in Contexts, l \in LogLevels :
       /\ ctx = [t \in Threads |-> c]
       /\ level = [t \in Threads |-> l]
  /\ opened = [t \in Threads |-> Disconnected]
  /\ next = [t \in Threads |-> 1]
  /\ last = [t \in Threads |-> 0]
  /\ out = [t \in Threads |-> [ctx |-> ctx[t], pos |-> -1, ids |-> FALSE]]
  /\ mcnt = [t \in Threads |-> 0]
  /\ phase = [t \in Threads |-> "write"]
  /\ dangling = {}
  /\ readerPc = "none" /\ stopPipe = FALSE /\ batch = << >>
  /\ fifo = "absent" /\ starts = 0 /\ appKnown = FALSE
  /\ registrations = {} /\ logs = {}
  /\ requested = [c \in Contexts |-> None]
  /\ inbox = << >>
  /\ logCalls = [t \in Threads |-> 0] /\ levelChanges = 0 /\ filesOpened = 0

At(t, label) == Alive /\ pc[t] = label
Goto(t, label) == pc' = [pc EXCEPT ![t] = label]

-----------------------------------------------------------------------------
(***************************************************************************)
(* A log call: log_with_context, LogContextT::isEnabled and checkContext   *)
(***************************************************************************)

\* log_with_context calls isEnabled, which first looks at m_bRegistered.
CheckContext(t, c, l) ==
  /\ At(t, "idle") /\ process = "running" /\ logCalls[t] < MaxLogs
  /\ ctx' = [ctx EXCEPT ![t] = c]
  /\ level' = [level EXCEPT ![t] = l]
  /\ Goto(t, IF m_bRegistered[c] THEN "isEnabled" ELSE "getInstance")
  /\ logCalls' = [logCalls EXCEPT ![t] = @ + 1]
  /\ UNCHANGED <<mutex, contextVars, levelVars, fdVars, process, opened, next,
                 last, out, mcnt, phase, dangling, readerVars, daemonVars,
                 levelChanges, filesOpened>>

\* The first use of the singleton creates the application's FIFO and starts
\* the reader thread; the other threads wait for the static's construction.
GetInstance(t) ==
  /\ At(t, "getInstance")
  /\ readerPc' = IF readerPc = "none" THEN "loop" ELSE readerPc
  /\ Goto(t, "lock")
  /\ UNCHANGED <<mutex, contextVars, levelVars, fdVars, process, localVars,
                 stopPipe, batch, m_stopRequested, daemonVars, boundVars>>

\* DaemonConnection::init calls abort() when the FIFO cannot be created.
InitAborts(t) ==
  /\ At(t, "getInstance") /\ readerPc = "none"
  /\ process' = "aborted"
  /\ UNCHANGED <<mutex, contextVars, levelVars, fdVars, pc, localVars,
                 readerVars, daemonVars, boundVars>>

\* Mutant: registerContext does not wait for the mutex.
LockIgnored(t) ==
  /\ At(t, "lock")
  /\ mutex' = t
  /\ Goto(t, "setPosition")
  /\ UNCHANGED <<contextVars, levelVars, fdVars, process, localVars,
                 readerVars, daemonVars, boundVars>>

\* Mutant: the result of a try_lock() is ignored.
LockTried(t) ==
  /\ At(t, "lock")
  /\ mutex' = IF mutex = NoOne THEN t ELSE mutex
  /\ Goto(t, "setPosition")
  /\ UNCHANGED <<contextVars, levelVars, fdVars, process, localVars,
                 readerVars, daemonVars, boundVars>>

\* DaemonConnection::registerContext, up to the call of initDaemonConnection.
Lock(t) ==
  /\ At(t, "lock") /\ mutex = NoOne
  /\ mutex' = t
  /\ Goto(t, "setPosition")
  /\ UNCHANGED <<contextVars, levelVars, fdVars, process, localVars,
                 readerVars, daemonVars, boundVars>>

SetPosition(t) ==
  /\ At(t, "setPosition")
  /\ log_level_pos' = [log_level_pos EXCEPT ![ctx[t]] = Size]
  /\ Goto(t, "push")
  /\ UNCHANGED <<mutex, m_contexts, m_bRegistered, idsAssigned, levelVars,
                 fdVars, process, localVars, readerVars, daemonVars, boundVars>>

\* std::vector doubles its capacity when it is full.
Reallocates(n) == n = 0 \/ \E k \in 0 .. n : n = 2 ^ k

Iterating(u) == pc[u] \in {"iterate", "sendAgain"}

Push(t) ==
  /\ At(t, "push")
  /\ m_contexts' = Append(m_contexts, ctx[t])
  /\ dangling' = IF Reallocates(Size) THEN {u \in Threads : Iterating(u)}
                                      ELSE dangling
  /\ Goto(t, "init")
  /\ UNCHANGED <<mutex, log_level_pos, m_bRegistered, idsAssigned, levelVars,
                 fdVars, process, ctx, level, opened, next, last, out, mcnt,
                 phase, readerVars, daemonVars, boundVars>>

Unlock(t) ==
  /\ At(t, "unlock")
  /\ mutex' = NoOne
  /\ Goto(t, "registered")
  /\ UNCHANGED <<contextVars, levelVars, fdVars, process, localVars,
                 readerVars, daemonVars, boundVars>>

SetRegistered(t) ==
  /\ At(t, "registered")
  /\ m_bRegistered' = [m_bRegistered EXCEPT ![ctx[t]] = TRUE]
  /\ Goto(t, "isEnabled")
  /\ UNCHANGED <<mutex, m_contexts, log_level_pos, idsAssigned, levelVars,
                 fdVars, process, localVars, readerVars, daemonVars, boundVars>>

\* DltCppContextClass::isEnabled
DltEnabled(c, l) == l <= m_activeLogLevel[c]

\* LogContextT::isEnabled: one backend that accepts the level is enough.
IsEnabled(t) ==
  /\ At(t, "isEnabled")
  /\ Goto(t, IF DltEnabled(ctx[t], level[t]) \/ level[t] <= ConsoleLevel
             THEN "create" ELSE "idle")
  /\ UNCHANGED <<mutex, contextVars, levelVars, fdVars, process, localVars,
                 readerVars, daemonVars, boundVars>>

\* createLog and DltCppLogData::init: m_enabled is latched and the message
\* counter is taken.  The destructor of an entry that is enabled calls sendLog.
CreateLog(t) ==
  /\ At(t, "create")
  /\ mcnt' = [mcnt EXCEPT ![t] = m_messageCount[ctx[t]]]
  /\ m_messageCount' = [m_messageCount EXCEPT ![ctx[t]] = (@ + 1) % CounterModulus]
  /\ Goto(t, IF DltEnabled(ctx[t], level[t]) THEN "init" ELSE "idle")
  /\ UNCHANGED <<mutex, contextVars, m_activeLogLevel, fdVars, process, ctx,
                 level, opened, next, last, out, phase, dangling, readerVars,
                 daemonVars, boundVars>>

-----------------------------------------------------------------------------
(***************************************************************************)
(* initDaemonConnection, under the mutex in registerContext, without it in *)
(* sendLog                                                                 *)
(***************************************************************************)

CheckConnected(t) ==
  /\ At(t, "init")
  /\ Goto(t, IF m_daemonFileDescriptor = Disconnected THEN "open" ELSE "after")
  /\ UNCHANGED <<mutex, contextVars, levelVars, fdVars, process, localVars,
                 readerVars, daemonVars, boundVars>>

LowestFree(d) == files[d] = Free /\ \A e \in Descriptors : files[e] = Free => d <= e

\* open() of the daemon's FIFO for writing.
OpenFifo(t) ==
  /\ At(t, "open") /\ fifo = "reading"
  /\ \E d \in Descriptors :
       /\ LowestFree(d)
       /\ files' = [files EXCEPT ![d] = starts]
       /\ opened' = [opened EXCEPT ![t] = d]
  /\ Goto(t, "assign")
  /\ UNCHANGED <<mutex, contextVars, levelVars, m_daemonFileDescriptor, harmed,
                 process, ctx, level, next, last, out, mcnt, phase, dangling,
                 readerVars, daemonVars, boundVars>>

\* There is no FIFO, or no descriptor left.
OpenFails(t) ==
  /\ At(t, "open")
  /\ \/ fifo = "absent"
     \/ fifo = "reading" /\ \A d \in Descriptors : files[d] # Free
  /\ opened' = [opened EXCEPT ![t] = Disconnected]
  /\ Goto(t, "assign")
  /\ UNCHANGED <<mutex, contextVars, levelVars, fdVars, process, ctx, level,
                 next, last, out, mcnt, phase, dangling, readerVars,
                 daemonVars, boundVars>>

\* The FIFO of a daemon that died has no reader: open() blocks, and a daemon
\* that is started again reads from a new FIFO.
OpenBlocks(t) ==
  /\ At(t, "open") /\ fifo = "dead"
  /\ Goto(t, "blocked")
  /\ UNCHANGED <<mutex, contextVars, levelVars, fdVars, process, localVars,
                 readerVars, daemonVars, boundVars>>

\* The result of open() is stored, whatever another thread stored meanwhile.
Assign(t) ==
  /\ At(t, "assign")
  /\ m_daemonFileDescriptor' = opened[t]
  /\ Goto(t, IF opened[t] = Disconnected THEN "after" ELSE "sendApp")
  /\ UNCHANGED <<mutex, contextVars, levelVars, files, harmed, process,
                 localVars, readerVars, daemonVars, boundVars>>

\* Mutant: the contexts that were registered before are not sent again.
BeginRangeEmpty(t) ==
  /\ At(t, "range")
  /\ next' = [next EXCEPT ![t] = 1]
  /\ last' = [last EXCEPT ![t] = 0]
  /\ dangling' = dangling \ {t}
  /\ Goto(t, "iterate")
  /\ UNCHANGED <<mutex, contextVars, levelVars, fdVars, process, ctx, level,
                 opened, out, mcnt, phase, readerVars, daemonVars, boundVars>>

\* begin() and end() of the loop over m_contexts are taken once.
BeginRange(t) ==
  /\ At(t, "range")
  /\ next' = [next EXCEPT ![t] = 1]
  /\ last' = [last EXCEPT ![t] = Size]
  /\ dangling' = dangling \ {t}
  /\ Goto(t, "iterate")
  /\ UNCHANGED <<mutex, contextVars, levelVars, fdVars, process, ctx, level,
                 opened, out, mcnt, phase, readerVars, daemonVars, boundVars>>

\* Mutant: the IDs go into the registration but not into the log header.
PrepareRegistrationNoIds(t, c) ==
  /\ out' = [out EXCEPT ![t] = [ctx |-> c, pos |-> log_level_pos[c], ids |-> TRUE]]
  /\ UNCHANGED idsAssigned

\* sendContextRegistration, up to the call of send.
PrepareRegistration(t, c) ==
  /\ out' = [out EXCEPT ![t] = [ctx |-> c, pos |-> log_level_pos[c], ids |-> TRUE]]
  /\ idsAssigned' = [idsAssigned EXCEPT ![c] = TRUE]

\* A dangling iterator may still find the old content of the vector.
IterateNext(t) ==
  /\ At(t, "iterate") /\ next[t] <= last[t]
  /\ PrepareRegistration(t, m_contexts[next[t]])
  /\ Goto(t, "sendAgain")
  /\ UNCHANGED <<mutex, m_contexts, log_level_pos, m_bRegistered, levelVars,
                 fdVars, process, ctx, level, opened, next, last, mcnt, phase,
                 dangling, readerVars, daemonVars, boundVars>>

\* Or it reads freed memory as a pointer.
IterateFreed(t) ==
  /\ At(t, "iterate") /\ next[t] <= last[t] /\ t \in dangling
  /\ process' = "crashed"
  /\ UNCHANGED <<mutex, contextVars, levelVars, fdVars, pc, localVars,
                 readerVars, daemonVars, boundVars>>

IterateEnd(t) ==
  /\ At(t, "iterate") /\ next[t] > last[t]
  /\ Goto(t, "after")
  /\ UNCHANGED <<mutex, contextVars, levelVars, fdVars, process, localVars,
                 readerVars, daemonVars, boundVars>>

-----------------------------------------------------------------------------
(***************************************************************************)
(* What follows initDaemonConnection in its two callers                    *)
(***************************************************************************)

\* registerContext sends the new context when there is a connection.
RegisterNew(t) ==
  /\ At(t, "after") /\ mutex = t
  /\ IF m_daemonFileDescriptor = Disconnected
     THEN Goto(t, "unlock") /\ UNCHANGED <<out, idsAssigned>>
     ELSE Goto(t, "sendNew") /\ PrepareRegistration(t, ctx[t])
  /\ UNCHANGED <<mutex, m_contexts, log_level_pos, m_bRegistered, levelVars,
                 fdVars, process, ctx, level, opened, next, last, mcnt, phase,
                 dangling, readerVars, daemonVars, boundVars>>

\* sendLog fills the headers when there is a connection.
SendLog(t) ==
  /\ At(t, "after") /\ mutex # t
  /\ IF m_daemonFileDescriptor = Disconnected
     THEN Goto(t, "idle") /\ UNCHANGED out
     ELSE /\ Goto(t, "sendLog")
          /\ out' = [out EXCEPT ![t] = [ctx |-> ctx[t], pos |-> -1,
                                        ids |-> idsAssigned[ctx[t]]]]
  /\ UNCHANGED <<mutex, contextVars, levelVars, fdVars, process, ctx, level,
                 opened, next, last, mcnt, phase, dangling, readerVars,
                 daemonVars, boundVars>>

-----------------------------------------------------------------------------
(***************************************************************************)
(* DaemonConnection::send                                                  *)
(***************************************************************************)

Sending(t, p) == Alive /\ pc[t] \in SendPcs /\ phase[t] = p

\* The descriptor refers to the FIFO of the daemon that is running.
ToDaemon(d) == d \in Descriptors /\ files[d] = starts /\ fifo = "reading"

\* Where the caller goes on after send.
Return(t) ==
  /\ Goto(t, CASE pc[t] = "sendApp"   -> "range"
               [] pc[t] = "sendAgain" -> "iterate"
               [] pc[t] = "sendNew"   -> "unlock"
               [] pc[t] = "sendLog"   -> "idle")
  /\ next' = IF pc[t] = "sendAgain" THEN [next EXCEPT ![t] = @ + 1] ELSE next

Announced(c) == appKnown /\ \E r \in registrations : r.ctx = c

ReceiveLog(c, ids, count) ==
  logs' = logs \cup
    {[ctx |-> c, ids |-> ids, mcnt |-> count, announced |-> Announced(c)]}

\* writev reaches the daemon.
WriteDelivered(t) ==
  /\ Sending(t, "write") /\ ToDaemon(m_daemonFileDescriptor)
  /\ appKnown' = (appKnown \/ pc[t] = "sendApp")
  /\ registrations' =
       IF pc[t] \in {"sendAgain", "sendNew"}
       THEN registrations \cup {[ctx |-> out[t].ctx, pos |-> out[t].pos]}
       ELSE registrations
  /\ IF pc[t] = "sendLog" THEN ReceiveLog(out[t].ctx, out[t].ids, mcnt[t])
                          ELSE UNCHANGED logs
  /\ Return(t)
  /\ UNCHANGED <<mutex, contextVars, levelVars, fdVars, process, ctx, level,
                 opened, last, out, mcnt, phase, dangling, readerVars, fifo,
                 starts, requested, inbox, boundVars>>

\* writev reaches a file the application has opened meanwhile.
WriteAppFile(t) ==
  /\ Sending(t, "write") /\ m_daemonFileDescriptor \in Descriptors
  /\ files[m_daemonFileDescriptor] = AppFile
  /\ harmed' = harmed \cup {"written"}
  /\ Return(t)
  /\ UNCHANGED <<mutex, contextVars, levelVars, m_daemonFileDescriptor, files,
                 process, ctx, level, opened, last, out, mcnt, phase, dangling,
                 readerVars, daemonVars, boundVars>>

\* writev returns -1: EPIPE or EBADF.
WriteFails(t) ==
  /\ Sending(t, "write") /\ ~ToDaemon(m_daemonFileDescriptor)
  /\ m_daemonFileDescriptor \in Descriptors => files[m_daemonFileDescriptor] # AppFile
  /\ phase' = [phase EXCEPT ![t] = "close"]
  /\ UNCHANGED <<mutex, contextVars, levelVars, fdVars, process, pc, ctx,
                 level, opened, next, last, out, mcnt, dangling, readerVars,
                 daemonVars, boundVars>>

\* Mutant: the descriptor is forgotten without being closed.
CloseForgotten(t) ==
  /\ Sending(t, "close")
  /\ phase' = [phase EXCEPT ![t] = "reset"]
  /\ UNCHANGED <<mutex, contextVars, levelVars, fdVars, process, pc, ctx,
                 level, opened, next, last, out, mcnt, dangling, readerVars,
                 daemonVars, boundVars>>

Close(t) ==
  /\ Sending(t, "close")
  /\ phase' = [phase EXCEPT ![t] = "reset"]
  /\ IF m_daemonFileDescriptor \in Descriptors
     THEN /\ files' = [files EXCEPT ![m_daemonFileDescriptor] = Free]
          /\ harmed' = IF files[m_daemonFileDescriptor] = AppFile
                       THEN harmed \cup {"closed"} ELSE harmed
     ELSE UNCHANGED <<files, harmed>>
  /\ UNCHANGED <<mutex, contextVars, levelVars, m_daemonFileDescriptor,
                 process, pc, ctx, level, opened, next, last, out, mcnt,
                 dangling, readerVars, daemonVars, boundVars>>

\* Mutants: 0 taken for "no descriptor"; the descriptor keeps its value.
ResetToZero(t) ==
  /\ Sending(t, "reset")
  /\ m_daemonFileDescriptor' = 0
  /\ phase' = [phase EXCEPT ![t] = "write"]
  /\ Return(t)
  /\ UNCHANGED <<mutex, contextVars, levelVars, files, harmed, process, ctx,
                 level, opened, last, out, mcnt, dangling, readerVars,
                 daemonVars, boundVars>>

ResetForgotten(t) ==
  /\ Sending(t, "reset")
  /\ phase' = [phase EXCEPT ![t] = "write"]
  /\ Return(t)
  /\ UNCHANGED <<mutex, contextVars, levelVars, fdVars, process, ctx,
                 level, opened, last, out, mcnt, dangling, readerVars,
                 daemonVars, boundVars>>

Reset(t) ==
  /\ Sending(t, "reset")
  /\ m_daemonFileDescriptor' = Disconnected
  /\ phase' = [phase EXCEPT ![t] = "write"]
  /\ Return(t)
  /\ UNCHANGED <<mutex, contextVars, levelVars, files, harmed, process, ctx,
                 level, opened, last, out, mcnt, dangling, readerVars,
                 daemonVars, boundVars>>

-----------------------------------------------------------------------------
(***************************************************************************)
(* The reader thread                                                       *)
(***************************************************************************)

ReaderAt(label) == Alive /\ readerPc = label

CheckStop ==
  /\ ReaderAt("loop")
  /\ readerPc' = IF m_stopRequested THEN "ended" ELSE "poll"
  /\ UNCHANGED <<mutex, contextVars, levelVars, fdVars, process, pc, localVars,
                 stopPipe, batch, m_stopRequested, daemonVars, boundVars>>

\* poll() waits for the application's FIFO or the stop pipe; one read() takes
\* what has arrived.
HandleIncomingMessage ==
  /\ ReaderAt("poll") /\ inbox # << >>
  /\ batch' = inbox
  /\ inbox' = << >>
  /\ readerPc' = "apply"
  /\ UNCHANGED <<mutex, contextVars, levelVars, fdVars, process, pc, localVars,
                 stopPipe, m_stopRequested, fifo, starts, appKnown,
                 registrations, logs, requested, boundVars>>

PollStopped ==
  /\ ReaderAt("poll") /\ inbox = << >> /\ stopPipe
  /\ readerPc' = "loop"
  /\ UNCHANGED <<mutex, contextVars, levelVars, fdVars, process, pc, localVars,
                 stopPipe, batch, m_stopRequested, daemonVars, boundVars>>

LockReader ==
  /\ ReaderAt("apply") /\ batch # << >> /\ mutex = NoOne
  /\ mutex' = Reader
  /\ readerPc' = "applying"
  /\ UNCHANGED <<contextVars, levelVars, fdVars, process, pc, localVars,
                 stopPipe, batch, m_stopRequested, daemonVars, boundVars>>

\* Mutant: the last context is taken for out of range.
ApplyLogLevelOffByOne ==
  /\ ReaderAt("applying")
  /\ LET m == Head(batch)
     IN  IF m.pos + 1 < Size
         THEN m_activeLogLevel' =
                [m_activeLogLevel EXCEPT ![m_contexts[m.pos + 1]] = m.level]
         ELSE UNCHANGED m_activeLogLevel
  /\ batch' = Tail(batch)
  /\ mutex' = NoOne
  /\ readerPc' = "apply"
  /\ UNCHANGED <<contextVars, m_messageCount, fdVars, process, pc, localVars,
                 stopPipe, m_stopRequested, daemonVars, boundVars>>

\* Mutant: the reader does not release the mutex.
ApplyLogLevelKeepsLock ==
  /\ ReaderAt("applying")
  /\ LET m == Head(batch)
     IN  IF m.pos < Size
         THEN m_activeLogLevel' =
                [m_activeLogLevel EXCEPT ![m_contexts[m.pos + 1]] = m.level]
         ELSE UNCHANGED m_activeLogLevel
  /\ batch' = Tail(batch)
  /\ readerPc' = "apply"
  /\ UNCHANGED <<mutex, contextVars, m_messageCount, fdVars, process, pc,
                 localVars, stopPipe, m_stopRequested, daemonVars, boundVars>>

\* Mutant: what one read() returned is applied from its end.
ApplyLogLevelNewestFirst ==
  /\ ReaderAt("applying")
  /\ LET m == batch[Len(batch)]
     IN  IF m.pos < Size
         THEN m_activeLogLevel' =
                [m_activeLogLevel EXCEPT ![m_contexts[m.pos + 1]] = m.level]
         ELSE UNCHANGED m_activeLogLevel
  /\ batch' = SubSeq(batch, 1, Len(batch) - 1)
  /\ mutex' = NoOne
  /\ readerPc' = "apply"
  /\ UNCHANGED <<contextVars, m_messageCount, fdVars, process, pc, localVars,
                 stopPipe, m_stopRequested, daemonVars, boundVars>>

ApplyLogLevel ==
  /\ ReaderAt("applying")
  /\ LET m == Head(batch)
     IN  IF m.pos < Size
         THEN m_activeLogLevel' =
                [m_activeLogLevel EXCEPT ![m_contexts[m.pos + 1]] = m.level]
         ELSE UNCHANGED m_activeLogLevel
  /\ batch' = Tail(batch)
  /\ mutex' = NoOne
  /\ readerPc' = "apply"
  /\ UNCHANGED <<contextVars, m_messageCount, fdVars, process, pc, localVars,
                 stopPipe, m_stopRequested, daemonVars, boundVars>>

BatchDone ==
  /\ ReaderAt("apply") /\ batch = << >>
  /\ readerPc' = "loop"
  /\ UNCHANGED <<mutex, contextVars, levelVars, fdVars, process, pc, localVars,
                 stopPipe, batch, m_stopRequested, daemonVars, boundVars>>

-----------------------------------------------------------------------------
(***************************************************************************)
(* The end of the process: ~DaemonConnection runs when main returns, after *)
(* the application has joined its threads                                  *)
(***************************************************************************)

Exit ==
  /\ process = "running" /\ \A t \in Threads : pc[t] = "idle"
  /\ IF readerPc = "none"
     THEN process' = "exited" /\ UNCHANGED m_stopRequested
     ELSE process' = "stopping" /\ m_stopRequested' = TRUE
  /\ UNCHANGED <<mutex, contextVars, levelVars, fdVars, pc, localVars,
                 readerPc, stopPipe, batch, daemonVars, boundVars>>

\* Mutant: the reader is not woken up.
WakeReaderForgotten ==
  /\ process = "stopping"
  /\ process' = "joining"
  /\ UNCHANGED <<mutex, contextVars, levelVars, fdVars, pc, localVars,
                 readerVars, daemonVars, boundVars>>

WakeReader ==
  /\ process = "stopping"
  /\ stopPipe' = TRUE
  /\ process' = "joining"
  /\ UNCHANGED <<mutex, contextVars, levelVars, fdVars, pc, localVars,
                 readerPc, batch, m_stopRequested, daemonVars, boundVars>>

Join ==
  /\ process = "joining" /\ readerPc = "ended"
  /\ process' = "exited"
  /\ UNCHANGED <<mutex, contextVars, levelVars, fdVars, pc, localVars,
                 readerVars, daemonVars, boundVars>>

\* open() of the FIFO of a daemon that died does not return.
Hangs(t) == pc[t] = "blocked"

\* The process has ended, or a hanging thread keeps it from ever ending.
Terminated ==
  /\ process \in {"exited", "aborted", "crashed"} \/ \E t \in Threads : Hangs(t)
  /\ UNCHANGED vars

-----------------------------------------------------------------------------
(***************************************************************************)
(* The environment: the daemon and the rest of the application             *)
(***************************************************************************)

DaemonStart ==
  /\ fifo # "reading" /\ starts < MaxDaemonStarts
  /\ fifo' = "reading"
  /\ starts' = starts + 1
  /\ UNCHANGED <<mutex, contextVars, levelVars, fdVars, process, pc, localVars,
                 readerVars, appKnown, registrations, logs,
                 requested, inbox, boundVars>>

\* The daemon ends and what it knew is lost.
DaemonEnds(left) ==
  /\ fifo = "reading"
  /\ fifo' = left
  /\ appKnown' = FALSE /\ registrations' = {} /\ logs' = {}
  /\ UNCHANGED <<mutex, contextVars, levelVars, fdVars, process, pc, localVars,
                 readerVars, starts, requested, inbox, boundVars>>

DaemonStop  == DaemonEnds("absent")
DaemonCrash == DaemonEnds("dead")

\* The user changes the level of a context the daemon knows.
DaemonSetLevel ==
  /\ fifo = "reading" /\ levelChanges < MaxLevelChanges
  /\ \E r \in registrations, l \in DaemonLevels :
       /\ inbox' = Append(inbox, [ctx |-> r.ctx, pos |-> r.pos, level |-> l])
       /\ requested' = [requested EXCEPT ![r.ctx] = l]
  /\ levelChanges' = levelChanges + 1
  /\ UNCHANGED <<mutex, contextVars, levelVars, fdVars, process, pc, localVars,
                 readerVars, fifo, starts, appKnown, registrations, logs,
                 logCalls, filesOpened>>

\* Another part of the application opens a file of its own.
OpenAppFile ==
  /\ process = "running" /\ filesOpened < MaxFiles
  /\ \E d \in Descriptors :
       LowestFree(d) /\ files' = [files EXCEPT ![d] = AppFile]
  /\ filesOpened' = filesOpened + 1
  /\ UNCHANGED <<mutex, contextVars, levelVars, m_daemonFileDescriptor, harmed,
                 process, pc, localVars, readerVars, daemonVars, logCalls,
                 levelChanges>>

-----------------------------------------------------------------------------
LogCall(t) == \E c \in Contexts, l \in LogLevels : CheckContext(t, c, l)

ThreadStep(t) ==
  \/ GetInstance(t) \/ InitAborts(t) \/ Lock(t) \/ SetPosition(t) \/ Push(t)
  \/ Unlock(t) \/ SetRegistered(t) \/ IsEnabled(t) \/ CreateLog(t)
  \/ CheckConnected(t) \/ OpenFifo(t) \/ OpenFails(t) \/ OpenBlocks(t)
  \/ Assign(t) \/ BeginRange(t) \/ IterateNext(t) \/ IterateFreed(t)
  \/ IterateEnd(t) \/ RegisterNew(t) \/ SendLog(t) \/ WriteDelivered(t)
  \/ WriteAppFile(t) \/ WriteFails(t) \/ Close(t) \/ Reset(t)

ReaderStep ==
  \/ CheckStop \/ HandleIncomingMessage \/ PollStopped \/ LockReader
  \/ ApplyLogLevel \/ BatchDone

ShutdownStep == WakeReader \/ Join

Environment ==
  DaemonStart \/ DaemonStop \/ DaemonCrash \/ DaemonSetLevel \/ OpenAppFile

Next ==
  \/ \E t \in Threads : LogCall(t) \/ ThreadStep(t)
  \/ ReaderStep
  \/ Exit \/ ShutdownStep \/ Terminated
  \/ Environment

Spec == Init /\ [][Next]_vars

\* The operating system schedules every thread; nothing makes the application
\* log or exit, or the daemon do anything.
Fairness ==
  /\ \A t \in Threads : WF_vars(ThreadStep(t))
  /\ WF_vars(ReaderStep)
  /\ WF_vars(ShutdownStep)

FairSpec == Spec /\ Fairness

-----------------------------------------------------------------------------
(***************************************************************************)
(* Properties                                                              *)
(***************************************************************************)

ContextTypes ==
  /\ m_contexts \in Seq(Contexts)
  /\ log_level_pos \in [Contexts -> Int]
  /\ m_bRegistered \in [Contexts -> BOOLEAN]
  /\ idsAssigned \in [Contexts -> BOOLEAN]

LevelTypes ==
  /\ m_activeLogLevel \in [Contexts -> 0 .. 6]
  /\ m_messageCount \in [Contexts -> 0 .. 255]

FdTypes ==
  /\ m_daemonFileDescriptor \in Descriptors \cup {Disconnected}
  /\ files \in [Descriptors -> Int]
  /\ harmed \subseteq {"written", "closed"}

LocalTypes ==
  /\ ctx \in [Threads -> Contexts]
  /\ level \in [Threads -> LogLevels]
  /\ opened \in [Threads -> Descriptors \cup {Disconnected}]
  /\ next \in [Threads -> Nat]
  /\ last \in [Threads -> Nat]
  /\ out \in [Threads -> Message]
  /\ mcnt \in [Threads -> 0 .. 255]
  /\ phase \in [Threads -> {"write", "close", "reset"}]
  /\ dangling \subseteq Threads

ReaderTypes ==
  /\ readerPc \in {"none", "loop", "poll", "apply", "applying", "ended"}
  /\ stopPipe \in BOOLEAN
  /\ batch \in Seq(LevelMessage)
  /\ m_stopRequested \in BOOLEAN

DaemonTypes ==
  /\ fifo \in {"absent", "dead", "reading"}
  /\ starts \in Nat
  /\ appKnown \in BOOLEAN
  /\ registrations \subseteq Registration
  /\ logs \subseteq Log
  /\ requested \in [Contexts -> Int]
  /\ inbox \in Seq(LevelMessage)

\* Types of the members of DaemonConnection and DltCppContextClass, of the
\* locals of the threads and of what the daemon keeps.
TypeOK ==
  /\ mutex \in Threads \cup {Reader, NoOne}
  /\ process \in {"running", "stopping", "joining", "exited", "aborted", "crashed"}
  /\ pc \in [Threads -> Pcs]
  /\ ContextTypes /\ LevelTypes /\ FdTypes
  /\ LocalTypes /\ ReaderTypes /\ DaemonTypes

Resolves(p, c) == p + 1 \in 1 .. Size /\ m_contexts[p + 1] = c

\* Whenever the mutex is free or applyLogLevel holds it, every position the
\* daemon has been told, and every position in a level message on its way or
\* just read, is the index in m_contexts of the context it was announced for:
\* applyLogLevel neither drops a level nor gives it to another context, even
\* when threads race to register the same context or reconnect unlocked.
PositionsResolve ==
  mutex \in {NoOne, Reader} =>
    /\ \A r \in registrations : Resolves(r.pos, r.ctx)
    /\ \A i \in 1 .. Len(inbox) : Resolves(inbox[i].pos, inbox[i].ctx)
    /\ \A i \in 1 .. Len(batch) : Resolves(batch[i].pos, batch[i].ctx)

\* When no log call is under way and the connection leads to the running
\* daemon, the daemon knows the application and every context in m_contexts:
\* no interleaving of registrations, reconnections and failed writes leaves a
\* context out.
QuiescentDaemonKnowsContexts ==
  (/\ process = "running" /\ \A t \in Threads : pc[t] = "idle"
   /\ ToDaemon(m_daemonFileDescriptor))
  => appKnown /\ \A i \in 1 .. Size : Announced(m_contexts[i])

\* A log reaches the daemon with the application and context IDs in its
\* extended header ("Each context is identified by a 4 characters ID").
LogsCarryIds == \A l \in logs : l.ids

\* A log reaches a daemon only after RegisterApp and the RegisterContext of its
\* context, in the same life of the daemon.
LogsAreAnnounced == \A l \in logs : l.announced

\* Every descriptor on a daemon's FIFO is the one in m_daemonFileDescriptor, or
\* about to be: none is leaked.
NoDescriptorLeaks ==
  \A d \in Descriptors :
    files[d] >= 1 => \/ d = m_daemonFileDescriptor
                     \/ \E t \in Threads : pc[t] = "assign" /\ opened[t] = d

\* send() never writes to, or closes, a file that the application opened.
AppFilesIntact == harmed = {}

\* The mutex protects the loop over m_contexts that registerContext runs: no
\* other thread makes the vector reallocate under it.  (The same loop run by
\* sendLog, which does not hold the mutex, has no such protection.)
RegistrationLoopIsSafe ==
  \A t \in dangling : Iterating(t) => mutex # t

\* Once ~DaemonConnection runs, nothing can keep the reader: m_stopRequested is
\* set, the mutex it may still need belongs to no thread of the application and,
\* when the destructor joins it, poll() has a byte to return for.  The reader
\* does not end before, and does not outlive, the connection it works on.
ReaderIsReleased ==
  /\ process \in {"stopping", "joining"} =>
       readerPc # "none" /\ m_stopRequested /\ mutex \in {NoOne, Reader}
  /\ process = "joining" => stopPipe
  /\ readerPc = "ended" => m_stopRequested
  /\ process = "exited" => readerPc \in {"none", "ended"}

\* The requests of the daemon that the reader has not applied yet, each for the
\* context whose position it was announced with.
Pending == batch \o inbox
Outstanding ==
  [i \in 1 .. Len(Pending) |-> [pos |-> Pending[i].ctx, level |-> Pending[i].level]]

Channel == INSTANCE LevelChannel
  WITH Positions <- Contexts, Levels <- 0 .. 6,
       outstanding <- Outstanding, active <- m_activeLogLevel

\* The path from the daemon over the FIFO and the reader thread implements the
\* abstract channel: every level is applied once, in order, to the context it
\* was requested for, whatever registers or reconnects meanwhile.
ChannelSpec == Channel!Spec

\* Of the requests that wait, the last one for a context is what the daemon
\* wants; when none waits, what it wants is in force.
LastRequest(o, i) == \A j \in i + 1 .. Len(o) : o[j].pos # o[i].pos

InForce(o, c, wanted, active) ==
  /\ (\A i \in 1 .. Len(o) : o[i].pos # c) => active = wanted
  /\ \A i \in 1 .. Len(o) : o[i].pos = c /\ LastRequest(o, i) => o[i].level = wanted

\* A request that a later one replaces never comes into force after it, and a
\* context without a request on its way has the level the daemon wants for it:
\* no interleaving of read(), applyLogLevel, registrations and restarts of the
\* daemon leaves a context with an outdated level.
NoOutdatedLevels ==
  \A c \in Contexts :
    requested[c] # None =>
      InForce(Outstanding, c, requested[c], m_activeLogLevel[c])

\* The mutex is held by a thread that waits in open().
MutexIsStuck == \E t \in Threads : Hangs(t) /\ mutex = t

\* Every log call returns, unless the process dies, the call itself waits for a
\* daemon that died, or the call that holds the mutex does.
LogCallsReturn ==
  \A t \in Threads :
    (pc[t] # "idle") ~> (pc[t] = "idle" \/ ~Alive \/ Hangs(t) \/ MutexIsStuck)

\* ~DaemonConnection gets the reader thread out of poll() and joins it,
\* wherever the reader is when m_stopRequested is set.
ShutdownCompletes == (process = "stopping") ~> (process = "exited")

\* The level the daemon requested last for a context becomes, and stays, its
\* active level, unless the process ends or the mutex is never released: a
\* log call that waits in open() without it does not hinder the reader.
LevelsConverge ==
  \A c \in Contexts :
    <>[](\/ process # "running"
         \/ MutexIsStuck
         \/ requested[c] = None
         \/ m_activeLogLevel[c] = requested[c])
=============================================================================
