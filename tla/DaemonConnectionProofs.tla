------------------------ MODULE DaemonConnectionProofs ------------------------
(***************************************************************************)
(* DaemonConnection for any number of threads, contexts, descriptors and   *)
(* daemon restarts: the types, the mutex, the positions that the daemon is *)
(* told, and the end of the reader.                                        *)
(***************************************************************************)
EXTENDS DaemonConnection, TLAPS

\* Where a thread that holds the mutex can be.
LockedPcs == {"setPosition", "push", "init", "open", "blocked", "assign",
              "range", "iterate", "after", "unlock", "sendApp", "sendAgain",
              "sendNew"}

\* registerContext and applyLogLevel exclude each other.
MutexInv ==
  /\ \A t \in Threads :
       /\ pc[t] \in {"setPosition", "push", "sendNew", "unlock"} => mutex = t
       /\ mutex = t => pc[t] \in LockedPcs
  /\ readerPc = "applying" => mutex = Reader /\ batch # << >>

\* The loop over m_contexts stays inside the vector.
RangeInv == \A t \in Threads : next[t] >= 1 /\ last[t] <= Size

\* A position is the index of its context, or registerContext is about to
\* make it so.
Known(p, c) ==
  \/ Resolves(p, c)
  \/ \E t \in Threads : pc[t] = "push" /\ ctx[t] = c /\ p = Size

\* Every position that is kept, about to be sent, with the daemon or coming
\* back from it is known.
PositionInv ==
  /\ \A c \in Contexts : log_level_pos[c] # -1 => Known(log_level_pos[c], c)
  /\ \A i \in 1 .. Size : log_level_pos[m_contexts[i]] # -1
  /\ \A t \in Threads :
       mutex = t /\ pc[t] # "setPosition" => log_level_pos[ctx[t]] # -1
  /\ \A t \in Threads :
       pc[t] \in {"sendAgain", "sendNew"} => Known(out[t].pos, out[t].ctx)
  /\ \A r \in registrations : Known(r.pos, r.ctx)
  /\ \A i \in 1 .. Len(inbox) : Known(inbox[i].pos, inbox[i].ctx)
  /\ \A i \in 1 .. Len(batch) : Known(batch[i].pos, batch[i].ctx)

IInv == TypeOK /\ MutexInv /\ RangeInv /\ PositionInv

-----------------------------------------------------------------------------
(***************************************************************************)
(* Types                                                                   *)
(***************************************************************************)

USE DEF Disconnected, Free, AppFile, Verbose, CounterModulus, None, Size

\* What the tuples of variables leave unchanged, one variable at a time.
LEMMA Frames ==
  /\ ContextTypes /\ UNCHANGED contextVars => ContextTypes'
  /\ LevelTypes /\ UNCHANGED levelVars => LevelTypes'
  /\ FdTypes /\ UNCHANGED fdVars => FdTypes'
  /\ LocalTypes /\ UNCHANGED localVars => LocalTypes'
  /\ ReaderTypes /\ UNCHANGED readerVars => ReaderTypes'
  /\ DaemonTypes /\ UNCHANGED daemonVars => DaemonTypes'
  <1>1. ContextTypes /\ UNCHANGED contextVars => ContextTypes'
    BY DEF ContextTypes, contextVars
  <1>2. LevelTypes /\ UNCHANGED levelVars => LevelTypes'
    BY DEF LevelTypes, levelVars
  <1>3. FdTypes /\ UNCHANGED fdVars => FdTypes'
    BY DEF FdTypes, fdVars
  <1>4. LocalTypes /\ UNCHANGED localVars => LocalTypes'
    BY DEF LocalTypes, localVars
  <1>5. ReaderTypes /\ UNCHANGED readerVars => ReaderTypes'
    BY DEF ReaderTypes, readerVars
  <1>6. DaemonTypes /\ UNCHANGED daemonVars => DaemonTypes'
    BY DEF DaemonTypes, daemonVars
  <1>7. QED
    BY <1>1, <1>2, <1>3, <1>4, <1>5, <1>6

\* A thread goes to a label.
LEMMA GotoType ==
  ASSUME pc \in [Threads -> Pcs], NEW t \in Threads, NEW l \in Pcs, Goto(t, l)
  PROVE  pc' \in [Threads -> Pcs]
  BY DEF Goto

\* The uint8_t message counter wraps into its type.
LEMMA NextCount == \A n \in 0 .. 255 : (n + 1) % 256 \in 0 .. 255
  OBVIOUS

\* The steps of a log call outside initDaemonConnection keep the types.
LEMMA CallType ==
  ASSUME TypeOK, NEW t \in Threads,
         \/ LogCall(t) \/ GetInstance(t) \/ InitAborts(t) \/ Lock(t)
         \/ SetPosition(t) \/ Push(t) \/ Unlock(t) \/ SetRegistered(t)
         \/ IsEnabled(t) \/ CreateLog(t)
  PROVE  TypeOK'
  <1>0. /\ "isEnabled" \in Pcs /\ "getInstance" \in Pcs /\ "lock" \in Pcs
        /\ "setPosition" \in Pcs /\ "push" \in Pcs /\ "init" \in Pcs
        /\ "registered" \in Pcs /\ "create" \in Pcs /\ "idle" \in Pcs
    BY DEF Pcs
  <1>1. CASE LogCall(t)
    <2>1. PICK c \in Contexts, l \in LogLevels : CheckContext(t, c, l)
      BY <1>1 DEF LogCall
    <2>2. LocalTypes'
      BY <2>1 DEF CheckContext, TypeOK, LocalTypes
    <2>3. pc' \in [Threads -> Pcs]
      BY <2>1, <1>0, GotoType DEF CheckContext, TypeOK
    <2>4. QED
      BY <2>1, <2>2, <2>3, Frames DEF CheckContext, TypeOK
  <1>2. CASE GetInstance(t)
    <2>1. ReaderTypes'
      BY <1>2 DEF GetInstance, TypeOK, ReaderTypes
    <2>2. pc' \in [Threads -> Pcs]
      BY <1>2, <1>0, GotoType DEF GetInstance, TypeOK
    <2>3. QED
      BY <1>2, <2>1, <2>2, Frames DEF GetInstance, TypeOK
  <1>3. CASE InitAborts(t)
    BY <1>3, Frames DEF InitAborts, TypeOK
  <1>4. CASE Lock(t)
    <2>1. pc' \in [Threads -> Pcs]
      BY <1>4, <1>0, GotoType DEF Lock, TypeOK
    <2>2. QED
      BY <1>4, <2>1, Frames DEF Lock, TypeOK
  <1>5. CASE SetPosition(t)
    <2>1. ContextTypes'
      BY <1>5 DEF SetPosition, TypeOK, ContextTypes, LocalTypes
    <2>2. pc' \in [Threads -> Pcs]
      BY <1>5, <1>0, GotoType DEF SetPosition, TypeOK
    <2>3. QED
      BY <1>5, <2>1, <2>2, Frames DEF SetPosition, TypeOK
  <1>6. CASE Push(t)
    <2>1. ContextTypes'
      BY <1>6 DEF Push, TypeOK, ContextTypes, LocalTypes
    <2>2. LocalTypes'
      BY <1>6 DEF Push, TypeOK, LocalTypes
    <2>3. pc' \in [Threads -> Pcs]
      BY <1>6, <1>0, GotoType DEF Push, TypeOK
    <2>4. QED
      BY <1>6, <2>1, <2>2, <2>3, Frames DEF Push, TypeOK
  <1>7. CASE Unlock(t)
    <2>1. pc' \in [Threads -> Pcs]
      BY <1>7, <1>0, GotoType DEF Unlock, TypeOK
    <2>2. QED
      BY <1>7, <2>1, Frames DEF Unlock, TypeOK
  <1>8. CASE SetRegistered(t)
    <2>1. ContextTypes'
      BY <1>8 DEF SetRegistered, TypeOK, ContextTypes, LocalTypes
    <2>2. pc' \in [Threads -> Pcs]
      BY <1>8, <1>0, GotoType DEF SetRegistered, TypeOK
    <2>3. QED
      BY <1>8, <2>1, <2>2, Frames DEF SetRegistered, TypeOK
  <1>9. CASE IsEnabled(t)
    <2>1. pc' \in [Threads -> Pcs]
      BY <1>9, <1>0, GotoType DEF IsEnabled, TypeOK
    <2>2. QED
      BY <1>9, <2>1, Frames DEF IsEnabled, TypeOK
  <1>10. CASE CreateLog(t)
    <2>1. LevelTypes'
      <3>1. /\ ctx[t] \in Contexts /\ m_messageCount \in [Contexts -> 0 .. 255]
            /\ m_activeLogLevel \in [Contexts -> 0 .. 6]
        BY DEF TypeOK, LevelTypes, LocalTypes
      <3>2. /\ m_messageCount' = [m_messageCount EXCEPT ![ctx[t]] = (@ + 1) % CounterModulus]
            /\ m_activeLogLevel' = m_activeLogLevel
        BY <1>10 DEF CreateLog
      <3>3. (m_messageCount[ctx[t]] + 1) % CounterModulus \in 0 .. 255
        BY <3>1, NextCount, Zenon
      <3>4. m_messageCount' \in [Contexts -> 0 .. 255]
        BY <3>1, <3>2, <3>3, Zenon
      <3> QED
        BY <3>1, <3>2, <3>4, Zenon DEF LevelTypes
    <2>2. LocalTypes'
      BY <1>10 DEF CreateLog, TypeOK, LevelTypes, LocalTypes
    <2>3. pc' \in [Threads -> Pcs]
      BY <1>10, <1>0, GotoType DEF CreateLog, TypeOK
    <2>4. QED
      BY <1>10, <2>1, <2>2, <2>3, Frames DEF CreateLog, TypeOK
  <1>11. QED
    BY <1>1, <1>2, <1>3, <1>4, <1>5, <1>6, <1>7, <1>8, <1>9, <1>10

\* The steps of initDaemonConnection and of its callers keep the types.
LEMMA ConnectType ==
  ASSUME TypeOK, RangeInv, NEW t \in Threads,
         \/ CheckConnected(t) \/ OpenFifo(t) \/ OpenFails(t) \/ OpenBlocks(t)
         \/ Assign(t) \/ BeginRange(t) \/ IterateNext(t) \/ IterateFreed(t)
         \/ IterateEnd(t) \/ RegisterNew(t) \/ SendLog(t)
  PROVE  TypeOK'
  <1>0. /\ "open" \in Pcs /\ "after" \in Pcs /\ "assign" \in Pcs
        /\ "blocked" \in Pcs /\ "sendApp" \in Pcs /\ "iterate" \in Pcs
        /\ "sendAgain" \in Pcs /\ "unlock" \in Pcs /\ "sendNew" \in Pcs
        /\ "idle" \in Pcs /\ "sendLog" \in Pcs
    BY DEF Pcs, SendPcs
  <1>1. CASE CheckConnected(t)
    <2>1. pc' \in [Threads -> Pcs]
      BY <1>1, <1>0, GotoType DEF CheckConnected, TypeOK
    <2>2. QED
      BY <1>1, <2>1, Frames DEF CheckConnected, TypeOK
  <1>2. CASE OpenFifo(t)
    <2>1. FdTypes'
      BY <1>2 DEF OpenFifo, TypeOK, FdTypes, DaemonTypes
    <2>2. LocalTypes'
      BY <1>2 DEF OpenFifo, TypeOK, LocalTypes
    <2>3. pc' \in [Threads -> Pcs]
      BY <1>2, <1>0, GotoType DEF OpenFifo, TypeOK
    <2>4. QED
      BY <1>2, <2>1, <2>2, <2>3, Frames DEF OpenFifo, TypeOK
  <1>3. CASE OpenFails(t)
    <2>1. LocalTypes'
      BY <1>3 DEF OpenFails, TypeOK, LocalTypes
    <2>2. pc' \in [Threads -> Pcs]
      BY <1>3, <1>0, GotoType DEF OpenFails, TypeOK
    <2>3. QED
      BY <1>3, <2>1, <2>2, Frames DEF OpenFails, TypeOK
  <1>4. CASE OpenBlocks(t)
    <2>1. pc' \in [Threads -> Pcs]
      BY <1>4, <1>0, GotoType DEF OpenBlocks, TypeOK
    <2>2. QED
      BY <1>4, <2>1, Frames DEF OpenBlocks, TypeOK
  <1>5. CASE Assign(t)
    <2>1. FdTypes'
      BY <1>5 DEF Assign, TypeOK, FdTypes, LocalTypes
    <2>2. pc' \in [Threads -> Pcs]
      BY <1>5, <1>0, GotoType DEF Assign, TypeOK
    <2>3. QED
      BY <1>5, <2>1, <2>2, Frames DEF Assign, TypeOK
  <1>6. CASE BeginRange(t)
    <2>1. LocalTypes'
      BY <1>6 DEF BeginRange, TypeOK, LocalTypes, ContextTypes
    <2>2. pc' \in [Threads -> Pcs]
      BY <1>6, <1>0, GotoType DEF BeginRange, TypeOK
    <2>3. QED
      BY <1>6, <2>1, <2>2, Frames DEF BeginRange, TypeOK
  <1>7. CASE IterateNext(t)
    <2>1. m_contexts[next[t]] \in Contexts
      BY <1>7 DEF IterateNext, RangeInv, TypeOK, ContextTypes, LocalTypes
    <2>2. ContextTypes'
      BY <1>7, <2>1 DEF IterateNext, PrepareRegistration, TypeOK, ContextTypes
    <2>3. [ctx |-> m_contexts[next[t]], pos |-> log_level_pos[m_contexts[next[t]]],
           ids |-> TRUE] \in Message
      BY <2>1 DEF Message, TypeOK, ContextTypes
    <2>4. LocalTypes'
      BY <1>7, <2>3 DEF IterateNext, PrepareRegistration, TypeOK, LocalTypes
    <2>5. pc' \in [Threads -> Pcs]
      BY <1>7, <1>0, GotoType DEF IterateNext, TypeOK
    <2>6. QED
      BY <1>7, <2>2, <2>4, <2>5, Frames DEF IterateNext, TypeOK
  <1>8. CASE IterateFreed(t)
    BY <1>8, Frames DEF IterateFreed, TypeOK
  <1>9. CASE IterateEnd(t)
    <2>1. pc' \in [Threads -> Pcs]
      BY <1>9, <1>0, GotoType DEF IterateEnd, TypeOK
    <2>2. QED
      BY <1>9, <2>1, Frames DEF IterateEnd, TypeOK
  <1>10. CASE RegisterNew(t)
    <2>1. ctx[t] \in Contexts
      BY DEF TypeOK, LocalTypes
    <2>2. ContextTypes'
      BY <1>10, <2>1 DEF RegisterNew, PrepareRegistration, TypeOK, ContextTypes
    <2>3. [ctx |-> ctx[t], pos |-> log_level_pos[ctx[t]], ids |-> TRUE] \in Message
      BY <2>1 DEF Message, TypeOK, ContextTypes
    <2>4. LocalTypes'
      BY <1>10, <2>3 DEF RegisterNew, PrepareRegistration, TypeOK, LocalTypes
    <2>5. pc' \in [Threads -> Pcs]
      BY <1>10, <1>0, GotoType DEF RegisterNew, TypeOK
    <2>6. QED
      BY <1>10, <2>2, <2>4, <2>5, Frames DEF RegisterNew, TypeOK
  <1>11. CASE SendLog(t)
    <2>1. ctx[t] \in Contexts /\ idsAssigned[ctx[t]] \in BOOLEAN
      BY DEF TypeOK, LocalTypes, ContextTypes
    <2>2. [ctx |-> ctx[t], pos |-> -1, ids |-> idsAssigned[ctx[t]]] \in Message
      BY <2>1 DEF Message
    <2>3. LocalTypes'
      BY <1>11, <2>2 DEF SendLog, TypeOK, LocalTypes
    <2>4. pc' \in [Threads -> Pcs]
      BY <1>11, <1>0, GotoType DEF SendLog, TypeOK
    <2>5. QED
      BY <1>11, <2>3, <2>4, Frames DEF SendLog, TypeOK
  <1>12. QED
    BY <1>1, <1>2, <1>3, <1>4, <1>5, <1>6, <1>7, <1>8, <1>9, <1>10, <1>11

\* send keeps the types.
LEMMA SendType ==
  ASSUME TypeOK, NEW t \in Threads,
         \/ WriteDelivered(t) \/ WriteAppFile(t) \/ WriteFails(t)
         \/ Close(t) \/ Reset(t)
  PROVE  TypeOK'
  <1>1. ASSUME Return(t), pc[t] \in SendPcs
        PROVE  pc' \in [Threads -> Pcs] /\ next' \in [Threads -> Nat]
    BY <1>1 DEF Return, Goto, Pcs, SendPcs, TypeOK, LocalTypes
  <1>2. CASE WriteDelivered(t)
    <2>1. /\ out[t].ctx \in Contexts /\ out[t].pos \in Int
          /\ out[t].ids \in BOOLEAN /\ mcnt[t] \in Int
      <3>1. out[t] \in Message /\ mcnt[t] \in 0 .. 255
        BY DEF TypeOK, LocalTypes
      <3>2. QED
        BY <3>1 DEF Message
    <2>2. registrations' \subseteq Registration
      <3>1. [ctx |-> out[t].ctx, pos |-> out[t].pos] \in Registration
        BY <2>1 DEF Registration
      <3>2. registrations \subseteq Registration
        BY DEF TypeOK, DaemonTypes
      <3>3. QED
        BY <1>2, <3>1, <3>2 DEF WriteDelivered
    <2>3. logs' \subseteq Log
      <3>1. CASE pc[t] = "sendLog"
        <4>1. ReceiveLog(out[t].ctx, out[t].ids, mcnt[t])
          BY <1>2, <3>1 DEF WriteDelivered
        <4>2. Announced(out[t].ctx) \in BOOLEAN
          BY DEF Announced
        <4> DEFINE received == [ctx |-> out[t].ctx, ids |-> out[t].ids,
                                mcnt |-> mcnt[t],
                                announced |-> Announced(out[t].ctx)]
        <4>3. mcnt[t] \in 0 .. 255
          BY DEF TypeOK, LocalTypes
        <4>4. received \in Log
          BY <2>1, <4>2, <4>3, Zenon DEF Log
        <4>5. logs' = logs \cup {received}
          BY <4>1, Zenon DEF ReceiveLog
        <4> HIDE DEF received
        <4>6. QED
          BY <4>4, <4>5 DEF TypeOK, DaemonTypes
      <3>2. CASE pc[t] # "sendLog"
        BY <1>2, <3>2 DEF WriteDelivered, TypeOK, DaemonTypes
      <3>3. QED
        BY <3>1, <3>2
    <2>4. DaemonTypes'
      BY <1>2, <2>2, <2>3, Zenon DEF WriteDelivered, TypeOK, DaemonTypes
    <2>5. pc' \in [Threads -> Pcs] /\ next' \in [Threads -> Nat]
      BY <1>1, <1>2 DEF WriteDelivered, Sending
    <2>6. LocalTypes'
      BY <1>2, <2>5 DEF WriteDelivered, TypeOK, LocalTypes
    <2>7. QED
      BY <1>2, <2>4, <2>5, <2>6, Frames DEF WriteDelivered, TypeOK
  <1>3. CASE WriteAppFile(t)
    <2>1. pc' \in [Threads -> Pcs] /\ next' \in [Threads -> Nat]
      BY <1>1, <1>3 DEF WriteAppFile, Sending
    <2>2. LocalTypes'
      BY <1>3, <2>1 DEF WriteAppFile, TypeOK, LocalTypes
    <2>3. FdTypes'
      BY <1>3 DEF WriteAppFile, TypeOK, FdTypes
    <2>4. QED
      BY <1>3, <2>1, <2>2, <2>3, Frames DEF WriteAppFile, TypeOK
  <1>4. CASE WriteFails(t)
    <2>1. LocalTypes'
      BY <1>4 DEF WriteFails, TypeOK, LocalTypes
    <2>2. QED
      BY <1>4, <2>1, Frames DEF WriteFails, TypeOK
  <1>5. CASE Close(t)
    <2>1. LocalTypes'
      BY <1>5 DEF Close, TypeOK, LocalTypes
    <2>2. FdTypes'
      <3>1. CASE m_daemonFileDescriptor \in Descriptors
        <4>1. files' \in [Descriptors -> Int]
          BY <1>5, <3>1 DEF Close, TypeOK, FdTypes
        <4>2. harmed' = harmed \/ harmed' = harmed \cup {"closed"}
          BY <1>5, <3>1 DEF Close
        <4>3. harmed' \subseteq {"written", "closed"}
          BY <4>2 DEF TypeOK, FdTypes
        <4>4. QED
          BY <1>5, <4>1, <4>3 DEF Close, TypeOK, FdTypes
      <3>2. CASE m_daemonFileDescriptor \notin Descriptors
        BY <1>5, <3>2 DEF Close, TypeOK, FdTypes
      <3>3. QED
        BY <3>1, <3>2
    <2>3. QED
      BY <1>5, <2>1, <2>2, Frames DEF Close, TypeOK
  <1>6. CASE Reset(t)
    <2>1. pc' \in [Threads -> Pcs] /\ next' \in [Threads -> Nat]
      BY <1>1, <1>6 DEF Reset, Sending
    <2>2. LocalTypes'
      BY <1>6, <2>1 DEF Reset, TypeOK, LocalTypes
    <2>3. FdTypes'
      BY <1>6 DEF Reset, TypeOK, FdTypes
    <2>4. QED
      BY <1>6, <2>1, <2>2, <2>3, Frames DEF Reset, TypeOK
  <1>7. QED
    BY <1>2, <1>3, <1>4, <1>5, <1>6

\* While applyLogLevel holds the mutex, the position it read is an index.
LEMMA AppliedPosition ==
  ASSUME IInv, readerPc = "applying"
  PROVE  /\ batch # << >> /\ Head(batch) \in LevelMessage
         /\ Tail(batch) \in Seq(LevelMessage)
         /\ Resolves(Head(batch).pos, Head(batch).ctx)
  <1>1. mutex = Reader /\ batch # << >> /\ batch \in Seq(LevelMessage)
    BY DEF IInv, MutexInv, TypeOK, ReaderTypes
  <1>2. /\ Head(batch) \in LevelMessage /\ Tail(batch) \in Seq(LevelMessage)
        /\ 1 \in 1 .. Len(batch) /\ Head(batch) = batch[1]
    BY <1>1
  <1>3. \A t \in Threads : pc[t] # "push"
    BY <1>1, NameAssumption DEF IInv, MutexInv
  <1>4. Known(batch[1].pos, batch[1].ctx)
    BY <1>2 DEF IInv, PositionInv
  <1>5. QED
    BY <1>1, <1>2, <1>3, <1>4 DEF Known

\* The reader thread keeps the types.
LEMMA ReaderType ==
  ASSUME IInv, ReaderStep
  PROVE  TypeOK'
  <1>0. TypeOK
    BY DEF IInv
  <1>1. CASE CheckStop
    <2>1. ReaderTypes'
      BY <1>0, <1>1 DEF CheckStop, TypeOK, ReaderTypes
    <2>2. QED
      BY <1>0, <1>1, <2>1, Frames DEF CheckStop, TypeOK
  <1>2. CASE HandleIncomingMessage
    <2>1. ReaderTypes'
      BY <1>0, <1>2 DEF HandleIncomingMessage, TypeOK, ReaderTypes, DaemonTypes
    <2>2. DaemonTypes'
      BY <1>0, <1>2 DEF HandleIncomingMessage, TypeOK, DaemonTypes
    <2>3. QED
      BY <1>0, <1>2, <2>1, <2>2, Frames DEF HandleIncomingMessage, TypeOK
  <1>3. CASE PollStopped
    <2>1. ReaderTypes'
      BY <1>0, <1>3 DEF PollStopped, TypeOK, ReaderTypes
    <2>2. QED
      BY <1>0, <1>3, <2>1, Frames DEF PollStopped, TypeOK
  <1>4. CASE LockReader
    <2>1. ReaderTypes'
      BY <1>0, <1>4 DEF LockReader, TypeOK, ReaderTypes
    <2>2. QED
      BY <1>0, <1>4, <2>1, Frames DEF LockReader, TypeOK
  <1>5. CASE ApplyLogLevel
    <2>1. /\ Head(batch) \in LevelMessage /\ Tail(batch) \in Seq(LevelMessage)
          /\ Resolves(Head(batch).pos, Head(batch).ctx)
      BY <1>5, AppliedPosition DEF ApplyLogLevel, ReaderAt
    <2>2. /\ m_contexts[Head(batch).pos + 1] \in Contexts
          /\ Head(batch).level \in 0 .. 6
      BY <1>0, <2>1 DEF Resolves, LevelMessage, TypeOK, ContextTypes
    <2>3. LevelTypes'
      BY <1>0, <1>5, <2>2 DEF ApplyLogLevel, TypeOK, LevelTypes
    <2>4. ReaderTypes'
      BY <1>0, <1>5, <2>1 DEF ApplyLogLevel, TypeOK, ReaderTypes
    <2>5. QED
      BY <1>0, <1>5, <2>3, <2>4, Frames DEF ApplyLogLevel, TypeOK
  <1>6. CASE BatchDone
    <2>1. ReaderTypes'
      BY <1>0, <1>6 DEF BatchDone, TypeOK, ReaderTypes
    <2>2. QED
      BY <1>0, <1>6, <2>1, Frames DEF BatchDone, TypeOK
  <1>7. QED
    BY <1>1, <1>2, <1>3, <1>4, <1>5, <1>6 DEF ReaderStep

\* Shutdown and environment keep the types.
LEMMA OtherType ==
  ASSUME TypeOK, Exit \/ ShutdownStep \/ Terminated \/ Environment
  PROVE  TypeOK'
  <1>1. CASE Exit
    <2>1. ReaderTypes'
      BY <1>1 DEF Exit, TypeOK, ReaderTypes
    <2>2. QED
      BY <1>1, <2>1, Frames DEF Exit, TypeOK
  <1>2. CASE WakeReader
    <2>1. ReaderTypes'
      BY <1>2 DEF WakeReader, TypeOK, ReaderTypes
    <2>2. QED
      BY <1>2, <2>1, Frames DEF WakeReader, TypeOK
  <1>3. CASE Join
    BY <1>3, Frames DEF Join, TypeOK
  <1>4. CASE Terminated
    BY <1>4, Frames DEF Terminated, TypeOK, vars
  <1>5. CASE DaemonStart
    <2>1. DaemonTypes'
      BY <1>5 DEF DaemonStart, TypeOK, DaemonTypes
    <2>2. QED
      BY <1>5, <2>1, Frames DEF DaemonStart, TypeOK
  <1>6. CASE DaemonStop \/ DaemonCrash
    <2>1. PICK left \in {"absent", "dead"} : DaemonEnds(left)
      BY <1>6 DEF DaemonStop, DaemonCrash
    <2>2. DaemonTypes'
      BY <2>1 DEF DaemonEnds, TypeOK, DaemonTypes
    <2>3. QED
      BY <2>1, <2>2, Frames DEF DaemonEnds, TypeOK
  <1>7. CASE DaemonSetLevel
    <2>1. PICK r \in registrations, l \in DaemonLevels :
            /\ inbox' = Append(inbox, [ctx |-> r.ctx, pos |-> r.pos, level |-> l])
            /\ requested' = [requested EXCEPT ![r.ctx] = l]
      BY <1>7 DEF DaemonSetLevel
    <2>2. /\ [ctx |-> r.ctx, pos |-> r.pos, level |-> l] \in LevelMessage
          /\ l \in Int
      <3>1. r \in Registration
        BY DEF TypeOK, DaemonTypes
      <3>2. r.ctx \in Contexts /\ r.pos \in Int
        BY <3>1 DEF Registration
      <3>3. l \in 0 .. 6
        BY DataAssumption
      <3>4. QED
        BY <3>2, <3>3 DEF LevelMessage
    <2>3. inbox' \in Seq(LevelMessage) /\ requested' \in [Contexts -> Int]
      <3>1. inbox \in Seq(LevelMessage) /\ requested \in [Contexts -> Int]
        BY DEF TypeOK, DaemonTypes
      <3>2. requested' \in [Contexts -> Int]
        BY <2>1, <2>2, <3>1
      <3>3. ASSUME NEW m \in LevelMessage
            PROVE  Append(inbox, m) \in Seq(LevelMessage)
        BY <3>1
      <3>4. QED
        BY <2>1, <2>2, <3>2, <3>3
    <2>4. DaemonTypes'
      BY <1>7, <2>3 DEF DaemonSetLevel, TypeOK, DaemonTypes
    <2>5. QED
      BY <1>7, <2>4, Frames DEF DaemonSetLevel, TypeOK
  <1>8. CASE OpenAppFile
    <2>1. FdTypes'
      BY <1>8 DEF OpenAppFile, TypeOK, FdTypes
    <2>2. QED
      BY <1>8, <2>1, Frames DEF OpenAppFile, TypeOK
  <1>9. QED
    BY <1>1, <1>2, <1>3, <1>4, <1>5, <1>6, <1>7, <1>8
    DEF Environment, ShutdownStep

-----------------------------------------------------------------------------
(***************************************************************************)
(* The mutex and the positions                                             *)
(***************************************************************************)

\* A position stays known while m_contexts stays and no thread leaves "push".
LEMMA KnownStays ==
  ASSUME UNCHANGED m_contexts,
         \A u \in Threads : pc[u] = "push" => pc'[u] = "push" /\ ctx'[u] = ctx[u],
         NEW p, NEW c, Known(p, c)
  PROVE  Known(p, c)'
  BY DEF Known, Resolves

\* The frame of the steps that leave mutex, m_contexts and the positions alone
\* and move one thread t to a label l; t may have sent what it had prepared.
LEMMA ThreadFrame ==
  ASSUME IInv, NEW t \in Threads, NEW l \in Pcs, Goto(t, l),
         pc[t] \notin {"push", "setPosition"},
         l \notin {"setPosition", "push", "sendAgain", "sendNew"},
         l = "unlock" => mutex = t,
         mutex = t => l \in LockedPcs,
         UNCHANGED <<mutex, m_contexts, log_level_pos, batch, inbox>>,
         readerPc' = "applying" => readerPc = "applying",
         \A u \in Threads : u # t \/ mutex = t => ctx'[u] = ctx[u],
         \A u \in Threads : u # t => out'[u] = out[u],
         \A r \in registrations' :
           \/ r \in registrations
           \/ /\ pc[t] \in {"sendAgain", "sendNew"}
              /\ r = [ctx |-> out[t].ctx, pos |-> out[t].pos]
  PROVE  MutexInv' /\ PositionInv'
  <1>1. /\ pc \in [Threads -> Pcs] /\ pc'[t] = l
        /\ \A u \in Threads : u # t => pc'[u] = pc[u]
    BY DEF IInv, TypeOK, Goto
  <1>2. MutexInv'
    BY <1>1 DEF IInv, MutexInv
  <1>3. ASSUME NEW p, NEW c, Known(p, c) PROVE Known(p, c)'
    BY <1>1, <1>3, KnownStays
  <1>4. \A c \in Contexts : log_level_pos'[c] # -1 => Known(log_level_pos[c], c)'
    BY <1>3 DEF IInv, PositionInv
  <1>5. \A i \in 1 .. Len(m_contexts') : log_level_pos'[m_contexts'[i]] # -1
    BY DEF IInv, PositionInv
  <1>6. \A u \in Threads :
          mutex' = u /\ pc'[u] # "setPosition" => log_level_pos'[ctx'[u]] # -1
    BY <1>1 DEF IInv, PositionInv
  <1>7. \A u \in Threads :
          pc'[u] \in {"sendAgain", "sendNew"} => Known(out[u].pos, out[u].ctx)'
    BY <1>1, <1>3 DEF IInv, PositionInv
  <1>8. \A r \in registrations' : Known(r.pos, r.ctx)'
    BY <1>3 DEF IInv, PositionInv
  <1>9. \A i \in 1 .. Len(inbox') : Known(inbox[i].pos, inbox[i].ctx)'
    BY <1>3 DEF IInv, PositionInv
  <1>10. \A i \in 1 .. Len(batch') : Known(batch[i].pos, batch[i].ctx)'
    BY <1>3 DEF IInv, PositionInv
  <1>11. QED
    BY <1>2, <1>4, <1>5, <1>6, <1>7, <1>8, <1>9, <1>10 DEF PositionInv

\* The steps of a thread that neither lock nor prepare a registration.
LEMMA QuietSteps ==
  ASSUME IInv, NEW t \in Threads,
         \/ LogCall(t) \/ GetInstance(t) \/ SetRegistered(t) \/ IsEnabled(t) \/ CreateLog(t)
         \/ CheckConnected(t) \/ OpenFifo(t) \/ OpenFails(t) \/ OpenBlocks(t)
         \/ Assign(t) \/ BeginRange(t) \/ IterateEnd(t) \/ SendLog(t)
  PROVE  MutexInv' /\ PositionInv'
  <1> USE DEF At, contextVars, localVars, readerVars, daemonVars
  <1>0. /\ \A l \in LockedPcs : l \in Pcs
        /\ {"idle", "isEnabled", "getInstance", "lock", "create", "sendLog"}
             \subseteq Pcs
        /\ {"init", "open", "after", "assign", "blocked", "sendApp", "iterate"}
             \subseteq LockedPcs
        /\ mutex = t => pc[t] \in LockedPcs
    BY DEF LockedPcs, Pcs, SendPcs, IInv, MutexInv
  <1>1. CASE LogCall(t)
    <2>1. PICK c \in Contexts, l \in LogLevels : CheckContext(t, c, l)
      BY <1>1 DEF LogCall
    <2>2. mutex # t
      BY <2>1, <1>0 DEF CheckContext, LockedPcs
    <2>3. \A u \in Threads : u # t => ctx'[u] = ctx[u]
      BY <2>1 DEF CheckContext, IInv, TypeOK, LocalTypes
    <2>4. QED
      BY <2>1, <2>2, <2>3, <1>0, ThreadFrame DEF CheckContext
  <1>2. CASE GetInstance(t)
    <2>1. mutex # t
      BY <1>2, <1>0 DEF GetInstance, LockedPcs
    <2>2. QED
      BY <1>2, <2>1, <1>0, ThreadFrame DEF GetInstance
  <1>3. CASE SetRegistered(t)
    <2>1. mutex # t
      BY <1>3, <1>0 DEF SetRegistered, LockedPcs
    <2>2. QED
      BY <1>3, <2>1, <1>0, ThreadFrame DEF SetRegistered
  <1>4. CASE IsEnabled(t)
    <2>1. mutex # t
      BY <1>4, <1>0 DEF IsEnabled, LockedPcs
    <2>2. QED
      BY <1>4, <2>1, <1>0, ThreadFrame DEF IsEnabled
  <1>5. CASE CreateLog(t)
    <2>1. mutex # t
      BY <1>5, <1>0 DEF CreateLog, LockedPcs
    <2>2. QED
      BY <1>5, <2>1, <1>0, ThreadFrame DEF CreateLog
  <1>6. CASE CheckConnected(t)
    BY <1>6, <1>0, ThreadFrame DEF CheckConnected
  <1>7. CASE OpenFifo(t)
    BY <1>7, <1>0, ThreadFrame DEF OpenFifo
  <1>8. CASE OpenFails(t)
    BY <1>8, <1>0, ThreadFrame DEF OpenFails
  <1>9. CASE OpenBlocks(t)
    BY <1>9, <1>0, ThreadFrame DEF OpenBlocks
  <1>10. CASE Assign(t)
    BY <1>10, <1>0, ThreadFrame DEF Assign
  <1>11. CASE BeginRange(t)
    BY <1>11, <1>0, ThreadFrame DEF BeginRange
  <1>12. CASE IterateEnd(t)
    BY <1>12, <1>0, ThreadFrame DEF IterateEnd
  <1>13. CASE SendLog(t)
    <2>1. \A u \in Threads : u # t => out'[u] = out[u]
      BY <1>13 DEF SendLog, IInv, TypeOK, LocalTypes
    <2>2. PICK l \in {"idle", "sendLog"} : Goto(t, l)
      BY <1>13 DEF SendLog
    <2>3. QED
      BY <1>13, <2>1, <2>2, <1>0, ThreadFrame DEF SendLog
  <1>14. QED
    BY <1>1, <1>2, <1>3, <1>4, <1>5, <1>6, <1>7, <1>8, <1>9, <1>10, <1>11, <1>12, <1>13

\* send.
LEMMA SendSteps ==
  ASSUME IInv, NEW t \in Threads,
         \/ WriteDelivered(t) \/ WriteAppFile(t) \/ Reset(t)
  PROVE  MutexInv' /\ PositionInv'
  <1> USE DEF contextVars, readerVars, daemonVars
  <1>1. Return(t) /\ pc[t] \in SendPcs
    BY DEF WriteDelivered, WriteAppFile, Reset, Sending
  <1>2. /\ pc[t] = "sendNew" => mutex = t
        /\ mutex = t => pc[t] # "sendLog"
    BY DEF IInv, MutexInv, LockedPcs
  <1>3. PICK l \in {"range", "iterate", "unlock", "idle"} :
          Goto(t, l) /\ (l = "unlock" => mutex = t) /\ (l = "idle" => mutex # t)
    BY <1>1, <1>2 DEF Return, SendPcs
  <1>4. l \in Pcs /\ (l # "idle" => l \in LockedPcs)
    BY DEF Pcs, LockedPcs
  <1>5. pc[t] \notin {"push", "setPosition"}
    BY <1>1 DEF SendPcs
  <1>6. CASE WriteDelivered(t)
    <2>1. \A r \in registrations' :
            \/ r \in registrations
            \/ /\ pc[t] \in {"sendAgain", "sendNew"}
               /\ r = [ctx |-> out[t].ctx, pos |-> out[t].pos]
      BY <1>6 DEF WriteDelivered
    <2>2. QED
      BY <1>3, <1>4, <1>5, <1>6, <2>1, ThreadFrame DEF WriteDelivered
  <1>7. CASE WriteAppFile(t)
    BY <1>3, <1>4, <1>5, <1>7, ThreadFrame DEF WriteAppFile
  <1>8. CASE Reset(t)
    BY <1>3, <1>4, <1>5, <1>8, ThreadFrame DEF Reset
  <1>9. QED
    BY <1>6, <1>7, <1>8

\* Taking and releasing the mutex.
LEMMA LockSteps ==
  ASSUME IInv, NEW t \in Threads, Lock(t) \/ Unlock(t)
  PROVE  MutexInv' /\ PositionInv'
  <1> USE DEF At, Goto, contextVars, localVars, readerVars, daemonVars
  <1>1. /\ pc \in [Threads -> Pcs]
        /\ \A u \in Threads : u # t => pc'[u] = pc[u]
        /\ UNCHANGED <<m_contexts, log_level_pos, ctx, out, registrations, inbox,
                       batch, readerPc>>
    BY DEF IInv, TypeOK, Lock, Unlock
  <1>2. \/ pc[t] = "lock" /\ mutex = NoOne /\ mutex' = t /\ pc'[t] = "setPosition"
        \/ pc[t] = "unlock" /\ mutex' = NoOne /\ pc'[t] = "registered"
    BY <1>1 DEF Lock, Unlock
  <1>3. /\ \A u \in Threads : mutex = u => pc[u] \in LockedPcs
        /\ \A u \in Threads :
             pc[u] \in {"setPosition", "push", "sendNew", "unlock"} => mutex = u
        /\ readerPc = "applying" => mutex = Reader /\ batch # << >>
    BY DEF IInv, MutexInv
  <1>4. MutexInv'
    <2>1. CASE pc[t] = "lock"
      BY <2>1, <1>1, <1>2, <1>3, NameAssumption DEF MutexInv, LockedPcs
    <2>2. CASE pc[t] = "unlock"
      <3>1. mutex = t
        BY <2>2, <1>3
      <3>2. \A u \in Threads : u # t =>
              pc'[u] \notin {"setPosition", "push", "sendNew", "unlock"}
        BY <3>1, <1>1, <1>3
      <3>3. QED
        BY <2>2, <3>1, <3>2, <1>1, <1>2, <1>3, NameAssumption DEF MutexInv
    <2>3. QED
      BY <2>1, <2>2, <1>2
  <1>5. ASSUME NEW p, NEW c, Known(p, c) PROVE Known(p, c)'
    BY <1>1, <1>2, <1>5, KnownStays
  <1>6. PositionInv'
    <2>1. \A u \in Threads :
            mutex' = u /\ pc'[u] # "setPosition" => log_level_pos'[ctx'[u]] # -1
      BY <1>1, <1>2, NameAssumption
    <2>2. \A u \in Threads :
            pc'[u] \in {"sendAgain", "sendNew"} => Known(out[u].pos, out[u].ctx)'
      BY <1>1, <1>2, <1>5 DEF IInv, PositionInv
    <2>3. QED
      BY <1>1, <1>5, <2>1, <2>2 DEF IInv, PositionInv
  <1>7. QED
    BY <1>4, <1>6

\* registerContext assigns the position before it pushes the context.
LEMMA SetPositionStep ==
  ASSUME IInv, NEW t \in Threads, SetPosition(t)
  PROVE  MutexInv' /\ PositionInv'
  <1> USE DEF At, Goto, localVars, readerVars, daemonVars
  <1>1. /\ pc \in [Threads -> Pcs] /\ ctx \in [Threads -> Contexts]
        /\ log_level_pos \in [Contexts -> Int]
    BY DEF IInv, TypeOK, LocalTypes, ContextTypes
  <1>2. /\ \A u \in Threads : u # t => pc'[u] = pc[u]
        /\ pc[t] = "setPosition" /\ pc'[t] = "push"
        /\ UNCHANGED <<mutex, m_contexts, ctx, out, registrations, inbox, batch,
                       readerPc>>
        /\ log_level_pos'[ctx[t]] = Size
        /\ \A c \in Contexts : c # ctx[t] => log_level_pos'[c] = log_level_pos[c]
    BY <1>1 DEF SetPosition
  <1>3. mutex = t /\ \A u \in Threads : pc[u] # "push"
    BY <1>2 DEF IInv, MutexInv
  <1>4. MutexInv'
    BY <1>2, <1>3 DEF IInv, MutexInv, LockedPcs
  <1>5. ASSUME NEW p, NEW c, Known(p, c) PROVE Known(p, c)'
    BY <1>2, <1>5, KnownStays
  <1>6. Known(log_level_pos[ctx[t]], ctx[t])'
    BY <1>2 DEF Known
  <1>7. Len(m_contexts) \in Nat
    BY DEF IInv, TypeOK, ContextTypes
  <1>8. PositionInv'
    <2>1. \A c \in Contexts : log_level_pos'[c] # -1 => Known(log_level_pos[c], c)'
      BY <1>2, <1>5, <1>6 DEF IInv, PositionInv
    <2>2. \A i \in 1 .. Len(m_contexts') : log_level_pos'[m_contexts'[i]] # -1
      <3>1. \A i \in 1 .. Len(m_contexts) :
              m_contexts[i] \in Contexts /\ log_level_pos[m_contexts[i]] # -1
        BY DEF IInv, PositionInv, TypeOK, ContextTypes
      <3>2. QED
        BY <1>2, <1>7, <3>1
    <2>3. \A u \in Threads :
            mutex' = u /\ pc'[u] # "setPosition" => log_level_pos'[ctx'[u]] # -1
      BY <1>2, <1>3, <1>7
    <2>4. \A u \in Threads :
            pc'[u] \in {"sendAgain", "sendNew"} => Known(out[u].pos, out[u].ctx)'
      BY <1>2, <1>5 DEF IInv, PositionInv
    <2>5. QED
      BY <1>2, <1>5, <2>1, <2>2, <2>3, <2>4 DEF IInv, PositionInv
  <1>9. QED
    BY <1>4, <1>8

\* push_back makes the pending position the index of its context.
LEMMA PushStep ==
  ASSUME IInv, NEW t \in Threads, Push(t)
  PROVE  MutexInv' /\ PositionInv' /\ RangeInv'
  <1> USE DEF At, Goto, readerVars, daemonVars
  <1>1. /\ pc \in [Threads -> Pcs] /\ ctx \in [Threads -> Contexts]
        /\ m_contexts \in Seq(Contexts) /\ ctx[t] \in Contexts
        /\ last \in [Threads -> Nat]
    BY DEF IInv, TypeOK, LocalTypes, ContextTypes
  <1>2. /\ \A u \in Threads : u # t => pc'[u] = pc[u]
        /\ pc[t] = "push" /\ pc'[t] = "init"
        /\ UNCHANGED <<mutex, log_level_pos, ctx, out, registrations, inbox, batch,
                       readerPc, next, last>>
        /\ m_contexts' = Append(m_contexts, ctx[t])
    BY <1>1 DEF Push
  <1>3. mutex = t /\ \A u \in Threads : pc[u] = "push" => u = t
    BY <1>2 DEF IInv, MutexInv
  <1>4. MutexInv'
    BY <1>2, <1>3 DEF IInv, MutexInv, LockedPcs
  <1>5. /\ Len(m_contexts) \in Nat /\ Len(m_contexts') = Len(m_contexts) + 1
        /\ \A i \in 1 .. Len(m_contexts) : m_contexts'[i] = m_contexts[i]
        /\ m_contexts'[Len(m_contexts) + 1] = ctx[t]
    BY <1>1, <1>2
  <1>6. ASSUME NEW p \in Int, NEW c, Known(p, c) PROVE Known(p, c)'
    <2>1. CASE Resolves(p, c)
      BY <2>1, <1>5 DEF Known, Resolves
    <2>2. CASE ~Resolves(p, c)
      <3>1. ctx[t] = c /\ p = Len(m_contexts)
        BY <2>2, <1>3, <1>6 DEF Known
      <3>2. QED
        BY <3>1, <1>5 DEF Known, Resolves
    <2>3. QED
      BY <2>1, <2>2
  <1>7. log_level_pos[ctx[t]] # -1
    BY <1>2, <1>3 DEF IInv, PositionInv
  <1>8. PositionInv'
    <2>1. \A c \in Contexts : log_level_pos'[c] # -1 => Known(log_level_pos[c], c)'
      BY <1>2, <1>6 DEF IInv, PositionInv, TypeOK, ContextTypes
    <2>2. \A i \in 1 .. Len(m_contexts') : log_level_pos'[m_contexts'[i]] # -1
      BY <1>2, <1>5, <1>7 DEF IInv, PositionInv
    <2>3. \A u \in Threads :
            mutex' = u /\ pc'[u] # "setPosition" => log_level_pos'[ctx'[u]] # -1
      BY <1>2, <1>3, <1>7
    <2>4. \A u \in Threads :
            pc'[u] \in {"sendAgain", "sendNew"} => Known(out[u].pos, out[u].ctx)'
      BY <1>2, <1>6 DEF IInv, PositionInv, TypeOK, LocalTypes, Message
    <2>5. \A r \in registrations' : Known(r.pos, r.ctx)'
      BY <1>2, <1>6 DEF IInv, PositionInv, TypeOK, DaemonTypes, Registration
    <2>6. \A i \in 1 .. Len(inbox') : Known(inbox[i].pos, inbox[i].ctx)'
      <3>1. \A i \in 1 .. Len(inbox) : inbox[i] \in LevelMessage
        BY DEF IInv, TypeOK, DaemonTypes
      <3>2. \A i \in 1 .. Len(inbox) : inbox[i].pos \in Int
        BY <3>1 DEF LevelMessage
      <3>3. QED
        BY <1>2, <1>6, <3>2 DEF IInv, PositionInv
    <2>7. \A i \in 1 .. Len(batch') : Known(batch[i].pos, batch[i].ctx)'
      <3>1. \A i \in 1 .. Len(batch) : batch[i] \in LevelMessage
        BY DEF IInv, TypeOK, ReaderTypes
      <3>2. \A i \in 1 .. Len(batch) : batch[i].pos \in Int
        BY <3>1 DEF LevelMessage
      <3>3. QED
        BY <1>2, <1>6, <3>2 DEF IInv, PositionInv
    <2>8. QED
      BY <2>1, <2>2, <2>3, <2>4, <2>5, <2>6, <2>7 DEF PositionInv
  <1>9. RangeInv'
    BY <1>1, <1>2, <1>5 DEF IInv, RangeInv
  <1>10. QED
    BY <1>4, <1>8, <1>9

\* sendContextRegistration reads a position that is known.
LEMMA PrepareFrame ==
  ASSUME IInv, NEW t \in Threads, NEW l \in {"sendAgain", "sendNew"}, Goto(t, l),
         NEW c \in Contexts, PrepareRegistration(t, c), log_level_pos[c] # -1,
         pc[t] \notin {"push", "setPosition"},
         l = "sendNew" => mutex = t,
         UNCHANGED <<mutex, m_contexts, log_level_pos, ctx, registrations, batch,
                     inbox, readerPc>>
  PROVE  MutexInv' /\ PositionInv'
  <1>1. /\ pc \in [Threads -> Pcs] /\ pc'[t] = l
        /\ \A u \in Threads : u # t => pc'[u] = pc[u]
    BY DEF IInv, TypeOK, Goto
  <1>2. /\ \A u \in Threads : u # t => out'[u] = out[u]
        /\ out'[t].pos = log_level_pos[c] /\ out'[t].ctx = c
    BY DEF IInv, TypeOK, LocalTypes, PrepareRegistration
  <1>3. MutexInv'
    BY <1>1 DEF IInv, MutexInv, LockedPcs
  <1>4. ASSUME NEW p, NEW d, Known(p, d) PROVE Known(p, d)'
    BY <1>1, <1>4, KnownStays
  <1>5. Known(out[t].pos, out[t].ctx)'
    <2>1. Known(log_level_pos[c], c)
      BY DEF IInv, PositionInv
    <2>2. Known(log_level_pos[c], c)'
      BY <2>1, <1>4
    <2>3. QED
      BY <2>2, <1>2
  <1>6. \A u \in Threads :
          pc'[u] \in {"sendAgain", "sendNew"} => Known(out[u].pos, out[u].ctx)'
    BY <1>1, <1>2, <1>4, <1>5 DEF IInv, PositionInv
  <1>7. \A u \in Threads :
          mutex' = u /\ pc'[u] # "setPosition" => log_level_pos'[ctx'[u]] # -1
    BY <1>1 DEF IInv, PositionInv
  <1>8. QED
    BY <1>3, <1>4, <1>6, <1>7 DEF IInv, PositionInv

\* The loop of initDaemonConnection and registerContext prepare known positions.
LEMMA RegistrationSteps ==
  ASSUME IInv, NEW t \in Threads, IterateNext(t) \/ RegisterNew(t)
  PROVE  MutexInv' /\ PositionInv'
  <1> USE DEF At, readerVars, daemonVars
  <1>1. CASE IterateNext(t)
    <2>1. next[t] \in 1 .. Len(m_contexts) /\ m_contexts[next[t]] \in Contexts
      BY <1>1 DEF IterateNext, IInv, RangeInv, TypeOK, ContextTypes, LocalTypes
    <2>2. log_level_pos[m_contexts[next[t]]] # -1
      BY <2>1 DEF IInv, PositionInv
    <2>3. QED
      BY <1>1, <2>1, <2>2, PrepareFrame DEF IterateNext
  <1>2. CASE RegisterNew(t) /\ m_daemonFileDescriptor # Disconnected
    <2>1. ctx[t] \in Contexts /\ log_level_pos[ctx[t]] # -1
      BY <1>2 DEF RegisterNew, IInv, PositionInv, TypeOK, LocalTypes
    <2>2. QED
      BY <1>2, <2>1, PrepareFrame DEF RegisterNew
  <1>3. CASE RegisterNew(t) /\ m_daemonFileDescriptor = Disconnected
    <2>1. "unlock" \in Pcs /\ "unlock" \in LockedPcs
      BY DEF Pcs, LockedPcs
    <2>2. QED
      BY <1>3, <2>1, ThreadFrame DEF RegisterNew
  <1>4. QED
    BY <1>1, <1>2, <1>3

\* The frame of the steps that move no application thread.
LEMMA OtherFrame ==
  ASSUME IInv, UNCHANGED <<pc, ctx, out, m_contexts, log_level_pos, mutex>>,
         registrations' \subseteq registrations,
         readerPc' = "applying" => readerPc = "applying" /\ UNCHANGED batch,
         \A i \in 1 .. Len(inbox') :
           \/ \E j \in 1 .. Len(inbox) : inbox'[i] = inbox[j]
           \/ \E r \in registrations : inbox'[i].pos = r.pos /\ inbox'[i].ctx = r.ctx,
         \A i \in 1 .. Len(batch') :
           \/ \E j \in 1 .. Len(inbox) : batch'[i] = inbox[j]
           \/ \E j \in 1 .. Len(batch) : batch'[i] = batch[j]
  PROVE  MutexInv' /\ PositionInv'
  <1>1. MutexInv'
    BY DEF IInv, MutexInv
  <1>2. ASSUME NEW p, NEW c, Known(p, c) PROVE Known(p, c)'
    BY <1>2, KnownStays
  <1>3. \A i \in 1 .. Len(inbox') : Known(inbox[i].pos, inbox[i].ctx)'
    BY <1>2 DEF IInv, PositionInv
  <1>4. \A i \in 1 .. Len(batch') : Known(batch[i].pos, batch[i].ctx)'
    BY <1>2 DEF IInv, PositionInv
  <1>5. QED
    BY <1>1, <1>2, <1>3, <1>4 DEF IInv, PositionInv

\* The steps of a thread that change neither its label nor a position.
LEMMA StandingSteps ==
  ASSUME IInv, NEW t \in Threads,
         InitAborts(t) \/ IterateFreed(t) \/ WriteFails(t) \/ Close(t)
  PROVE  MutexInv' /\ PositionInv'
  <1> USE DEF contextVars, localVars, readerVars, daemonVars
  <1>1. UNCHANGED <<pc, ctx, out, m_contexts, log_level_pos, mutex, registrations,
                    readerPc, inbox, batch>>
    BY DEF InitAborts, IterateFreed, WriteFails, Close
  <1>2. QED
    BY <1>1, OtherFrame

\* The reader thread keeps the mutual exclusion and the positions.
LEMMA ReaderSteps ==
  ASSUME IInv, ReaderStep
  PROVE  MutexInv' /\ PositionInv'
  <1> USE DEF contextVars, localVars, daemonVars, ReaderAt
  <1>1. CASE CheckStop \/ PollStopped \/ BatchDone
    <2>1. UNCHANGED <<pc, ctx, out, m_contexts, log_level_pos, mutex,
                      registrations, inbox, batch>> /\ readerPc' # "applying"
      BY <1>1 DEF CheckStop, PollStopped, BatchDone
    <2>2. QED
      BY <2>1, OtherFrame
  <1>2. CASE HandleIncomingMessage
    <2>1. UNCHANGED <<pc, ctx, out, m_contexts, log_level_pos, mutex,
                      registrations>> /\ readerPc' # "applying"
      BY <1>2 DEF HandleIncomingMessage
    <2>2. batch' = inbox /\ Len(inbox') = 0
      BY <1>2 DEF HandleIncomingMessage
    <2>3. QED
      BY <2>1, <2>2, OtherFrame
  <1>3. CASE LockReader
    <2>1. UNCHANGED <<pc, ctx, out, m_contexts, log_level_pos, registrations,
                      inbox, batch>>
      BY <1>3 DEF LockReader
    <2>2. mutex = NoOne /\ mutex' = Reader /\ batch # << >>
      BY <1>3 DEF LockReader
    <2>3. MutexInv'
      BY <2>1, <2>2, NameAssumption DEF IInv, MutexInv
    <2>4. ASSUME NEW p, NEW c, Known(p, c) PROVE Known(p, c)'
      BY <2>1, <2>4, KnownStays
    <2>5. PositionInv'
      BY <2>1, <2>2, <2>4, NameAssumption DEF IInv, PositionInv
    <2>6. QED
      BY <2>3, <2>5
  <1>4. CASE ApplyLogLevel
    <2>1. UNCHANGED <<pc, ctx, out, m_contexts, log_level_pos, registrations, inbox>>
      BY <1>4 DEF ApplyLogLevel
    <2>2. /\ readerPc = "applying" /\ readerPc' = "apply" /\ mutex' = NoOne
          /\ batch' = Tail(batch)
      BY <1>4 DEF ApplyLogLevel
    <2>3. mutex = Reader /\ batch # << >> /\ batch \in Seq(LevelMessage)
      BY <2>2 DEF IInv, MutexInv, TypeOK, ReaderTypes
    <2>4. MutexInv'
      BY <2>1, <2>2, <2>3, NameAssumption DEF IInv, MutexInv
    <2>5. ASSUME NEW p, NEW c, Known(p, c) PROVE Known(p, c)'
      BY <2>1, <2>5, KnownStays
    <2>6. \A i \in 1 .. Len(batch') :
            i + 1 \in 1 .. Len(batch) /\ batch'[i] = batch[i + 1]
      BY <2>2, <2>3
    <2>7. \A i \in 1 .. Len(batch') : Known(batch[i].pos, batch[i].ctx)'
      BY <2>5, <2>6 DEF IInv, PositionInv
    <2>8. PositionInv'
      BY <2>1, <2>2, <2>5, <2>7, NameAssumption DEF IInv, PositionInv
    <2>9. QED
      BY <2>4, <2>8
  <1>5. QED
    BY <1>1, <1>2, <1>3, <1>4 DEF ReaderStep

\* Shutdown and environment keep the mutual exclusion and the positions.
LEMMA OtherSteps ==
  ASSUME IInv, Exit \/ ShutdownStep \/ Terminated \/ Environment
  PROVE  MutexInv' /\ PositionInv'
  <1> USE DEF contextVars, localVars, readerVars, daemonVars
  <1>1. UNCHANGED <<pc, ctx, out, m_contexts, log_level_pos, mutex, readerPc, batch>>
    BY DEF Exit, ShutdownStep, WakeReader, Join, Terminated, vars, Environment,
           DaemonStart, DaemonStop, DaemonCrash, DaemonEnds, DaemonSetLevel,
           OpenAppFile
  <1>2. CASE DaemonSetLevel
    <2>1. PICK r \in registrations, l \in DaemonLevels :
            inbox' = Append(inbox, [ctx |-> r.ctx, pos |-> r.pos, level |-> l])
      BY <1>2 DEF DaemonSetLevel
    <2>2. inbox \in Seq(LevelMessage)
      BY DEF IInv, TypeOK, DaemonTypes
    <2>3. ASSUME NEW i \in 1 .. Len(inbox')
          PROVE  \/ \E j \in 1 .. Len(inbox) : inbox'[i] = inbox[j]
                 \/ inbox'[i].pos = r.pos /\ inbox'[i].ctx = r.ctx
      BY <2>1, <2>2
    <2>4. UNCHANGED registrations
      BY <1>2 DEF DaemonSetLevel
    <2>5. QED
      BY <1>1, <2>3, <2>4, OtherFrame
  <1>3. CASE ~DaemonSetLevel
    <2>1. UNCHANGED inbox /\ registrations' \subseteq registrations
      BY <1>3 DEF Exit, ShutdownStep, WakeReader, Join, Terminated, vars,
             Environment, DaemonStart, DaemonStop, DaemonCrash, DaemonEnds,
             OpenAppFile
    <2>2. QED
      BY <1>1, <2>1, OtherFrame
  <1>4. QED
    BY <1>2, <1>3

\* Every step keeps the loop over m_contexts inside the vector.
LEMMA RangeStep ==
  ASSUME IInv, [Next]_vars
  PROVE  RangeInv'
  <1> USE DEF contextVars, localVars, At
  <1>1. /\ m_contexts \in Seq(Contexts) /\ Len(m_contexts) \in Nat
        /\ next \in [Threads -> Nat] /\ last \in [Threads -> Nat]
        /\ RangeInv
    BY DEF IInv, TypeOK, ContextTypes, LocalTypes
  <1>2. ASSUME UNCHANGED <<m_contexts, next, last>> PROVE RangeInv'
    BY <1>1, <1>2 DEF RangeInv
  <1>3. ASSUME NEW t \in Threads, Return(t), UNCHANGED <<m_contexts, last>>
        PROVE  RangeInv'
    BY <1>1, <1>3 DEF RangeInv, Return
  <1>4. ASSUME NEW t \in Threads, BeginRange(t) PROVE RangeInv'
    BY <1>1, <1>4 DEF RangeInv, BeginRange
  <1>5. ASSUME NEW t \in Threads, LogCall(t) \/ ThreadStep(t) PROVE RangeInv'
    <2>1. CASE Push(t)
      BY <2>1, PushStep
    <2>2. CASE BeginRange(t)
      BY <2>2, <1>4
    <2>3. CASE WriteDelivered(t) \/ WriteAppFile(t) \/ Reset(t)
      BY <2>3, <1>3 DEF WriteDelivered, WriteAppFile, Reset
    <2>4. CASE LogCall(t) \/ GetInstance(t) \/ InitAborts(t) \/ Lock(t)
               \/ SetPosition(t) \/ Unlock(t) \/ SetRegistered(t) \/ IsEnabled(t)
               \/ CreateLog(t) \/ CheckConnected(t) \/ OpenFifo(t)
               \/ OpenFails(t) \/ OpenBlocks(t)
      BY <2>4, <1>2 DEF LogCall, CheckContext, GetInstance, InitAborts, Lock,
         SetPosition, Unlock, SetRegistered, IsEnabled, CreateLog,
         CheckConnected, OpenFifo, OpenFails, OpenBlocks
    <2>5. CASE Assign(t) \/ IterateNext(t) \/ IterateFreed(t) \/ IterateEnd(t)
               \/ RegisterNew(t) \/ SendLog(t) \/ WriteFails(t) \/ Close(t)
      BY <2>5, <1>2 DEF Assign, IterateNext, IterateFreed, IterateEnd,
         RegisterNew, SendLog, WriteFails, Close
    <2>6. QED
      BY <1>5, <2>1, <2>2, <2>3, <2>4, <2>5 DEF ThreadStep
  <1>6. CASE ReaderStep
    BY <1>6, <1>2 DEF ReaderStep, CheckStop, HandleIncomingMessage, PollStopped,
       LockReader, ApplyLogLevel, BatchDone
  <1>7. CASE Exit \/ ShutdownStep \/ Terminated \/ Environment
    BY <1>7, <1>2 DEF Exit, ShutdownStep, WakeReader, Join, Terminated, vars,
       Environment, DaemonStart, DaemonStop, DaemonCrash, DaemonEnds,
       DaemonSetLevel, OpenAppFile
  <1>8. CASE UNCHANGED vars
    BY <1>8, <1>2 DEF vars
  <1>9. QED
    BY <1>5, <1>6, <1>7, <1>8 DEF Next

-----------------------------------------------------------------------------
(***************************************************************************)
(* The theorems                                                            *)
(***************************************************************************)

\* The inductive invariant holds in a process that has not logged yet.
LEMMA InitIInv == Init => IInv
  <1> SUFFICES ASSUME Init PROVE IInv
    OBVIOUS
  <1> USE DEF Init
  <1>1. PICK c \in Contexts, l \in LogLevels :
          /\ ctx = [t \in Threads |-> c] /\ level = [t \in Threads |-> l]
    OBVIOUS
  <1>2. ContextTypes
    BY DEF ContextTypes
  <1>3. LevelTypes /\ FdTypes
    BY DEF LevelTypes, FdTypes
  <1>4. LocalTypes
    <2>1. out \in [Threads -> Message]
      BY <1>1 DEF Message
    <2>2. /\ ctx \in [Threads -> Contexts] /\ level \in [Threads -> LogLevels]
          /\ opened \in [Threads -> Descriptors \cup {Disconnected}]
          /\ phase \in [Threads -> {"write", "close", "reset"}]
      BY <1>1
    <2>3. /\ next \in [Threads -> Nat] /\ last \in [Threads -> Nat]
          /\ mcnt \in [Threads -> 0 .. 255]
      OBVIOUS
    <2>4. QED
      BY <2>1, <2>2, <2>3 DEF LocalTypes
  <1>5. ReaderTypes /\ DaemonTypes
    <2>1. batch \in Seq(LevelMessage) /\ inbox \in Seq(LevelMessage)
      OBVIOUS
    <2>2. requested \in [Contexts -> Int]
      OBVIOUS
    <2>3. starts \in Nat
      OBVIOUS
    <2>4. QED
      BY <2>1, <2>2, <2>3 DEF ReaderTypes, DaemonTypes
  <1>6. TypeOK
    BY <1>2, <1>3, <1>4, <1>5 DEF TypeOK, Pcs
  <1>7. MutexInv /\ RangeInv /\ PositionInv
    BY NameAssumption DEF MutexInv, RangeInv, PositionInv
  <1>8. QED
    BY <1>6, <1>7 DEF IInv

\* Every step of a thread, of the reader, of the shutdown and of the daemon keeps
\* the inductive invariant.
LEMMA NextIInv == IInv /\ [Next]_vars => IInv'
  <1> SUFFICES ASSUME IInv, [Next]_vars PROVE IInv'
    OBVIOUS
  <1>1. RangeInv'
    BY RangeStep
  <1>2. ASSUME NEW t \in Threads, LogCall(t) \/ ThreadStep(t)
        PROVE  TypeOK' /\ MutexInv' /\ PositionInv'
    <2>1. TypeOK'
      BY <1>2, CallType, ConnectType, SendType DEF ThreadStep, IInv
    <2>2. MutexInv' /\ PositionInv'
      BY <1>2, QuietSteps, SendSteps, LockSteps, SetPositionStep, PushStep,
         RegistrationSteps, StandingSteps DEF ThreadStep
    <2>3. QED
      BY <2>1, <2>2
  <1>3. CASE ReaderStep
    BY <1>1, <1>3, ReaderType, ReaderSteps DEF IInv
  <1>4. CASE Exit \/ ShutdownStep \/ Terminated \/ Environment
    BY <1>1, <1>4, OtherType, OtherSteps DEF IInv
  <1>5. CASE UNCHANGED vars
    <2>1. UNCHANGED <<pc, ctx, out, m_contexts, log_level_pos, mutex, readerPc,
                      batch, inbox, registrations>>
      BY <1>5 DEF vars, contextVars, localVars, readerVars, daemonVars
    <2>2. TypeOK'
      BY <1>5, Frames DEF vars, IInv, TypeOK
    <2>3. QED
      BY <1>1, <2>1, <2>2, OtherFrame DEF IInv
  <1>6. QED
    BY <1>1, <1>2, <1>3, <1>4, <1>5 DEF Next, IInv

\* The inductive invariant holds in every state of DaemonConnection.
LEMMA Invariant == Spec => []IInv
  BY InitIInv, NextIInv, PTL DEF Spec

\* The types of DaemonConnection, for any number of threads, contexts and
\* daemon restarts.
THEOREM TypesCorrect == Spec => []TypeOK
  <1>1. IInv => TypeOK
    BY DEF IInv
  <1>2. QED
    BY <1>1, Invariant, PTL

\* registerContext's critical section and applyLogLevel exclude each other, and
\* a thread in sendLog never holds the mutex.
THEOREM MutualExclusion == Spec => []MutexInv
  <1>1. IInv => MutexInv
    BY DEF IInv
  <1>2. QED
    BY <1>1, Invariant, PTL

\* Every position the daemon knows or sends resolves to the context it was
\* announced for whenever applyLogLevel can use it.
THEOREM LevelsReachTheirContexts == Spec => []PositionsResolve
  <1>1. IInv => PositionsResolve
    <2>1. SUFFICES ASSUME IInv, mutex \in {NoOne, Reader}
                   PROVE  PositionsResolve
      BY DEF PositionsResolve
    <2>2. \A t \in Threads : pc[t] # "push"
      BY <2>1, NameAssumption DEF IInv, MutexInv
    <2>3. ASSUME NEW p, NEW c, Known(p, c) PROVE Resolves(p, c)
      BY <2>2, <2>3 DEF Known
    <2>4. QED
      BY <2>1, <2>3 DEF IInv, PositionInv, PositionsResolve
  <1>2. QED
    BY <1>1, Invariant, PTL
-----------------------------------------------------------------------------
(***************************************************************************)
(* The loop over m_contexts in registerContext                             *)
(***************************************************************************)

\* The property stays true when no thread starts to iterate, gets the mutex or
\* loses its iterators.
LEMMA LoopFrame ==
  ASSUME RegistrationLoopIsSafe, dangling' \subseteq dangling,
         \A u \in Threads : Iterating(u)' => Iterating(u) /\ (mutex' = u => mutex = u),
         dangling \subseteq Threads
  PROVE  RegistrationLoopIsSafe'
  BY DEF RegistrationLoopIsSafe

\* A thread that goes to a label outside the loop, or stays inside it, and leaves
\* the mutex alone.
LEMMA LoopLeft ==
  ASSUME TypeOK, RegistrationLoopIsSafe, NEW t \in Threads, NEW l \in Pcs,
         Goto(t, l), l \notin {"iterate", "sendAgain"} \/ Iterating(t),
         UNCHANGED <<mutex, dangling>>
  PROVE  RegistrationLoopIsSafe'
  <1>1. /\ pc \in [Threads -> Pcs] /\ dangling \subseteq Threads
    BY DEF TypeOK, LocalTypes
  <1>2. \A u \in Threads : Iterating(u)' => Iterating(u) /\ (mutex' = u => mutex = u)
    BY <1>1, NameAssumption DEF Goto, Iterating
  <1>3. QED
    BY <1>1, <1>2, LoopFrame

\* Every step of a thread keeps the loop of registerContext safe.
LEMMA LoopThreadStep ==
  ASSUME IInv, RegistrationLoopIsSafe, NEW t \in Threads, LogCall(t) \/ ThreadStep(t)
  PROVE  RegistrationLoopIsSafe'
  <1> USE DEF localVars, At
  <1>1. /\ pc \in [Threads -> Pcs] /\ dangling \subseteq Threads /\ TypeOK
        /\ MutexInv
    BY DEF IInv, TypeOK, LocalTypes
  <1>2. CASE LogCall(t) \/ GetInstance(t) \/ Lock(t) \/ SetPosition(t)
             \/ Unlock(t) \/ SetRegistered(t) \/ IsEnabled(t) \/ CreateLog(t)
    <2>1. /\ mutex' \in {mutex, t, NoOne} /\ UNCHANGED dangling
          /\ \E l \in Pcs \ {"iterate", "sendAgain"} : Goto(t, l)
      BY <1>2 DEF LogCall, CheckContext, GetInstance, Lock, SetPosition, Unlock,
         SetRegistered, IsEnabled, CreateLog, Pcs
    <2>2. PICK l \in Pcs \ {"iterate", "sendAgain"} : Goto(t, l)
      BY <2>1
    <2>3. l \in Pcs /\ l \notin {"iterate", "sendAgain"}
      OBVIOUS
    <2>4. /\ mutex' = mutex \/ mutex' = t \/ mutex' = NoOne
          /\ UNCHANGED dangling /\ TypeOK
      BY <1>1, <2>1
    <2>5. \A u \in Threads : Iterating(u)' => Iterating(u) /\ (mutex' = u => mutex = u)
      BY <1>1, <2>2, <2>3, <2>4, NameAssumption DEF Goto, Iterating
    <2>6. QED
      BY <1>1, <2>4, <2>5, LoopFrame
  <1>3. CASE CheckConnected(t) \/ OpenFifo(t) \/ OpenFails(t) \/ OpenBlocks(t)
             \/ Assign(t) \/ IterateEnd(t) \/ RegisterNew(t) \/ SendLog(t)
    <2>1. /\ mutex' = mutex /\ UNCHANGED dangling
          /\ \E l \in Pcs \ {"iterate", "sendAgain"} : Goto(t, l)
      BY <1>3 DEF CheckConnected, OpenFifo, OpenFails, OpenBlocks, Assign,
         IterateEnd, RegisterNew, SendLog, Pcs, SendPcs
    <2>2. QED
      BY <1>1, <2>1, LoopLeft
  <1>4. CASE InitAborts(t) \/ IterateFreed(t) \/ WriteFails(t) \/ Close(t)
    <2>1. UNCHANGED <<mutex, dangling, pc>>
      BY <1>4 DEF InitAborts, IterateFreed, WriteFails, Close
    <2>2. \A u \in Threads : Iterating(u)' => Iterating(u) /\ (mutex' = u => mutex = u)
      BY <2>1 DEF Iterating
    <2>3. QED
      BY <1>1, <2>1, <2>2, LoopFrame
  <1>5. CASE IterateNext(t)
    <2>1. /\ mutex' = mutex /\ UNCHANGED dangling /\ Goto(t, "sendAgain")
          /\ Iterating(t) /\ "sendAgain" \in Pcs
      BY <1>5 DEF IterateNext, Iterating, Pcs, SendPcs
    <2>2. QED
      BY <1>1, <2>1, LoopLeft
  <1>6. CASE WriteDelivered(t) \/ WriteAppFile(t) \/ Reset(t)
    <2>1. UNCHANGED <<mutex, dangling>> /\ Return(t) /\ pc[t] \in SendPcs
      BY <1>6 DEF WriteDelivered, WriteAppFile, Reset, Sending
    <2>2. \A u \in Threads : Iterating(u)' => Iterating(u)
      BY <1>1, <2>1 DEF Return, Goto, Iterating, SendPcs
    <2>3. QED
      BY <1>1, <2>1, <2>2, LoopFrame
  <1>7. CASE BeginRange(t)
    <2>1. UNCHANGED mutex /\ dangling' = dangling \ {t} /\ Goto(t, "iterate")
      BY <1>7 DEF BeginRange
    <2>2. \A u \in Threads : u # t => Iterating(u)' = Iterating(u)
      BY <1>1, <2>1 DEF Goto, Iterating
    <2>3. QED
      BY <1>1, <2>1, <2>2 DEF RegistrationLoopIsSafe
  <1>8. CASE Push(t)
    <2>1. /\ UNCHANGED mutex /\ Goto(t, "init") /\ mutex = t /\ pc[t] = "push"
          /\ dangling' \subseteq dangling \cup {u \in Threads : Iterating(u)}
      BY <1>1, <1>8 DEF Push, MutexInv
    <2>2. \A u \in Threads : Iterating(u)' => u # t /\ mutex' # u
      BY <1>1, <2>1 DEF Goto, Iterating
    <2>3. dangling' \subseteq Threads
      BY <1>1, <2>1
    <2>4. QED
      BY <2>2, <2>3 DEF RegistrationLoopIsSafe
  <1>9. QED
    BY <1>2, <1>3, <1>4, <1>5, <1>6, <1>7, <1>8 DEF ThreadStep

\* While registerContext runs the loop over m_contexts under the mutex, no thread
\* makes the vector reallocate, for any number of threads: only the loop that
\* sendLog runs without the mutex is exposed to a concurrent registration.
THEOREM RegistrationLoopSafe == Spec => []RegistrationLoopIsSafe
  <1>1. Init => RegistrationLoopIsSafe
    BY DEF Init, RegistrationLoopIsSafe
  <1>2. IInv /\ RegistrationLoopIsSafe /\ [Next]_vars => RegistrationLoopIsSafe'
    <2> SUFFICES ASSUME IInv, RegistrationLoopIsSafe, [Next]_vars
                 PROVE  RegistrationLoopIsSafe'
      OBVIOUS
    <2>1. dangling \subseteq Threads
      BY DEF IInv, TypeOK, LocalTypes
    <2>2. ASSUME UNCHANGED <<dangling, pc>>, mutex' \notin Threads \/ mutex' = mutex
          PROVE  RegistrationLoopIsSafe'
      BY <2>1, <2>2, LoopFrame DEF Iterating
    <2>3. ASSUME NEW t \in Threads, LogCall(t) \/ ThreadStep(t)
          PROVE  RegistrationLoopIsSafe'
      BY <2>3, LoopThreadStep
    <2>4. CASE ReaderStep
      BY <2>2, <2>4, NameAssumption DEF ReaderStep, CheckStop, PollStopped,
         HandleIncomingMessage, LockReader, ApplyLogLevel, BatchDone, localVars
    <2>5. CASE Exit \/ ShutdownStep \/ Terminated \/ Environment
      BY <2>2, <2>5 DEF Exit, ShutdownStep, WakeReader, Join, Terminated, vars,
         Environment, DaemonStart, DaemonStop, DaemonCrash, DaemonEnds,
         DaemonSetLevel, OpenAppFile, localVars
    <2>6. CASE UNCHANGED vars
      BY <2>2, <2>6 DEF vars, localVars
    <2>7. QED
      BY <2>3, <2>4, <2>5, <2>6 DEF Next
  <1>3. QED
    BY <1>1, <1>2, Invariant, PTL DEF Spec

-----------------------------------------------------------------------------
(***************************************************************************)
(* The reader at the end of the process                                    *)
(***************************************************************************)

\* The application has joined its threads before ~DaemonConnection runs.
CallsAreOver ==
  process \in {"stopping", "joining", "exited"} => \A t \in Threads : pc[t] = "idle"

\* A log call runs before the shutdown; it may start the reader or be the end of
\* the process, but it does not stop the reader.
LEMMA ReleaseThreadStep ==
  ASSUME IInv, CallsAreOver, ReaderIsReleased, NEW t \in Threads,
         LogCall(t) \/ ThreadStep(t)
  PROVE  (CallsAreOver /\ ReaderIsReleased)'
  <1> USE DEF At
  <1>1. process \notin {"stopping", "joining", "exited"}
    <2>1. CASE LogCall(t)
      BY <2>1 DEF LogCall, CheckContext
    <2>2. CASE ThreadStep(t)
      <3>1. pc[t] # "idle"
        BY <2>2 DEF ThreadStep, GetInstance, InitAborts, Lock, SetPosition, Push,
           Unlock, SetRegistered, IsEnabled, CreateLog, CheckConnected, OpenFifo,
           OpenFails, OpenBlocks, Assign, BeginRange, IterateNext, IterateFreed,
           IterateEnd, RegisterNew, SendLog, WriteDelivered, WriteAppFile,
           WriteFails, Close, Reset, Sending, SendPcs
      <3>2. QED
        BY <3>1 DEF CallsAreOver
    <2>3. QED
      BY <2>1, <2>2
  <1>2. /\ process' \in {process, "aborted", "crashed"} /\ UNCHANGED m_stopRequested
        /\ readerPc' = readerPc \/ readerPc' = "loop"
    <2> USE DEF readerVars
    <2>1. CASE LogCall(t) \/ GetInstance(t) \/ InitAborts(t) \/ Lock(t)
               \/ SetPosition(t) \/ Push(t) \/ Unlock(t) \/ SetRegistered(t)
               \/ IsEnabled(t) \/ CreateLog(t)
      BY <2>1 DEF LogCall, CheckContext, GetInstance, InitAborts, Lock,
         SetPosition, Push, Unlock, SetRegistered, IsEnabled, CreateLog
    <2>2. CASE CheckConnected(t) \/ OpenFifo(t) \/ OpenFails(t) \/ OpenBlocks(t)
               \/ Assign(t) \/ BeginRange(t) \/ IterateNext(t)
               \/ IterateFreed(t) \/ IterateEnd(t)
      BY <2>2 DEF CheckConnected, OpenFifo, OpenFails, OpenBlocks, Assign,
         BeginRange, IterateNext, IterateFreed, IterateEnd
    <2>3. CASE RegisterNew(t) \/ SendLog(t) \/ WriteDelivered(t)
               \/ WriteAppFile(t) \/ WriteFails(t) \/ Close(t) \/ Reset(t)
      BY <2>3 DEF RegisterNew, SendLog, WriteDelivered, WriteAppFile, WriteFails,
         Close, Reset
    <2>4. QED
      BY <2>1, <2>2, <2>3 DEF ThreadStep
  <1>3. QED
    BY <1>1, <1>2 DEF CallsAreOver, ReaderIsReleased

\* The reader ends when it is told to; it keeps the mutex from nobody but itself.
LEMMA ReleaseReaderStep ==
  ASSUME CallsAreOver, ReaderIsReleased, ReaderStep
  PROVE  (CallsAreOver /\ ReaderIsReleased)'
  <1>1. /\ UNCHANGED <<process, pc, stopPipe, m_stopRequested>>
        /\ mutex' \in {mutex, NoOne, Reader}
        /\ readerPc \in {"loop", "poll", "apply", "applying"} /\ readerPc' # "none"
        /\ readerPc' = "ended" => m_stopRequested
    BY DEF ReaderStep, CheckStop, HandleIncomingMessage, PollStopped, LockReader,
       ApplyLogLevel, BatchDone, ReaderAt
  <1>2. QED
    BY <1>1 DEF CallsAreOver, ReaderIsReleased

\* The destructor sets the flag, then wakes the reader, then joins it.
LEMMA ReleaseOtherStep ==
  ASSUME IInv, CallsAreOver, ReaderIsReleased,
         Exit \/ ShutdownStep \/ Terminated \/ Environment \/ UNCHANGED vars
  PROVE  (CallsAreOver /\ ReaderIsReleased)'
  <1>1. CASE Exit
    <2>1. /\ \A t \in Threads : pc[t] = "idle" /\ process = "running"
          /\ UNCHANGED <<mutex, pc, readerPc, stopPipe>>
          /\ \/ readerPc = "none" /\ process' = "exited" /\ UNCHANGED m_stopRequested
             \/ readerPc # "none" /\ process' = "stopping" /\ m_stopRequested' = TRUE
      BY <1>1 DEF Exit
    <2>2. mutex \in {NoOne, Reader}
      BY <2>1 DEF IInv, TypeOK, MutexInv, LockedPcs
    <2>3. \/ process' = "exited" \/ process' = "stopping"
      BY <2>1
    <2>4. QED
      BY <1>1, <2>1, <2>2 DEF Exit, CallsAreOver, ReaderIsReleased
  <1>2. CASE WakeReader
    BY <1>2 DEF WakeReader, CallsAreOver, ReaderIsReleased
  <1>3. CASE Join
    BY <1>3 DEF Join, readerVars, CallsAreOver, ReaderIsReleased
  <1>4. CASE Terminated \/ Environment \/ UNCHANGED vars
    <2>1. UNCHANGED <<process, pc, mutex, readerPc, stopPipe, m_stopRequested>>
      BY <1>4 DEF Terminated, Environment, DaemonStart, DaemonStop, DaemonCrash,
         DaemonEnds, DaemonSetLevel, OpenAppFile, vars, readerVars
    <2>2. QED
      BY <2>1 DEF CallsAreOver, ReaderIsReleased
  <1>5. QED
    BY <1>1, <1>2, <1>3, <1>4 DEF ShutdownStep

\* ReaderIsReleased: whatever the threads and the daemon were doing when main
\* returned, the reader that ~DaemonConnection joins waits for nothing that will
\* not come, and is gone when the connection is.
THEOREM ShutdownReleasesReader == Spec => []ReaderIsReleased
  <1>1. Init => CallsAreOver /\ ReaderIsReleased
    BY DEF Init, CallsAreOver, ReaderIsReleased
  <1>2. IInv /\ CallsAreOver /\ ReaderIsReleased /\ [Next]_vars
          => (CallsAreOver /\ ReaderIsReleased)'
    BY ReleaseThreadStep, ReleaseReaderStep, ReleaseOtherStep DEF Next
  <1>3. QED
    BY <1>1, <1>2, Invariant, PTL DEF Spec
=============================================================================
