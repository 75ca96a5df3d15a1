-------------------------- MODULE LevelChannelProofs --------------------------
(***************************************************************************)
(* DaemonConnection implements LevelChannel, for any number of threads,    *)
(* contexts and daemon restarts: the requests of the daemon that wait in   *)
(* the FIFO or in what the reader has just read are the outstanding ones   *)
(* of the channel, and applyLogLevel applies the first of them.  When none *)
(* waits, every context has the level requested last.                      *)
(***************************************************************************)
EXTENDS DaemonConnectionProofs

\* What a read() returned is applied before the reader polls again.
BatchInv == readerPc \notin {"apply", "applying"} => batch = << >>

CInv == IInv /\ BatchInv

Strip(m) == [pos |-> m.ctx, level |-> m.level]

\* Outside the reader's own steps only the first use of the connection moves
\* the reader, and nothing touches what it has read.
LEMMA BatchFrame ==
  ASSUME BatchInv, UNCHANGED batch,
         readerPc' # readerPc => readerPc = "none"
  PROVE  BatchInv'
  BY DEF BatchInv

\* The steps of a thread leave the FIFO, the batch and the levels alone.
LEMMA ThreadLeavesChannel ==
  ASSUME NEW t \in Threads, LogCall(t) \/ ThreadStep(t)
  PROVE  /\ UNCHANGED <<batch, inbox, m_activeLogLevel>>
         /\ readerPc' # readerPc => readerPc = "none"
  <1> USE DEF levelVars, readerVars, daemonVars
  <1>1. CASE LogCall(t) \/ GetInstance(t) \/ InitAborts(t) \/ Lock(t)
             \/ SetPosition(t) \/ Push(t) \/ Unlock(t) \/ SetRegistered(t)
             \/ IsEnabled(t) \/ CreateLog(t)
    BY <1>1 DEF LogCall, CheckContext, GetInstance, InitAborts, Lock,
       SetPosition, Push, Unlock, SetRegistered, IsEnabled, CreateLog
  <1>2. CASE CheckConnected(t) \/ OpenFifo(t) \/ OpenFails(t) \/ OpenBlocks(t)
             \/ Assign(t) \/ BeginRange(t) \/ IterateNext(t)
             \/ IterateFreed(t) \/ IterateEnd(t)
    BY <1>2 DEF CheckConnected, OpenFifo, OpenFails, OpenBlocks, Assign,
       BeginRange, IterateNext, IterateFreed, IterateEnd
  <1>3. CASE RegisterNew(t) \/ SendLog(t) \/ WriteDelivered(t)
             \/ WriteAppFile(t) \/ WriteFails(t) \/ Close(t) \/ Reset(t)
    BY <1>3 DEF RegisterNew, SendLog, WriteDelivered, WriteAppFile, WriteFails,
       Close, Reset
  <1>4. QED
    BY <1>1, <1>2, <1>3 DEF ThreadStep

\* Nor do shutdown and the environment, except for the daemon's request.
LEMMA OtherLeavesChannel ==
  ASSUME Exit \/ ShutdownStep \/ Terminated \/ Environment
  PROVE  /\ UNCHANGED <<batch, readerPc, m_activeLogLevel>>
         /\ DaemonSetLevel \/ UNCHANGED inbox
  <1> USE DEF levelVars, readerVars, daemonVars
  <1>1. CASE Exit \/ ShutdownStep \/ Terminated
    BY <1>1 DEF Exit, ShutdownStep, WakeReader, Join, Terminated, vars
  <1>2. CASE Environment
    BY <1>2 DEF Environment, DaemonStart, DaemonStop, DaemonCrash, DaemonEnds,
       DaemonSetLevel, OpenAppFile
  <1>3. QED
    BY <1>1, <1>2

\* The batch is empty whenever the reader polls.
LEMMA BatchInvariant == Spec => []CInv
  <1>1. Init => BatchInv
    BY DEF Init, BatchInv
  <1>2. CInv /\ [Next]_vars => BatchInv'
    <2> SUFFICES ASSUME BatchInv, [Next]_vars PROVE BatchInv'
      BY DEF CInv
    <2>1. ASSUME NEW t \in Threads, LogCall(t) \/ ThreadStep(t) PROVE BatchInv'
      BY <2>1, ThreadLeavesChannel, BatchFrame
    <2>2. CASE ReaderStep
      BY <2>2 DEF BatchInv, ReaderStep, ReaderAt, CheckStop,
         HandleIncomingMessage, PollStopped, LockReader, ApplyLogLevel, BatchDone
    <2>3. CASE Exit \/ ShutdownStep \/ Terminated \/ Environment
      BY <2>3, OtherLeavesChannel, BatchFrame
    <2>4. CASE UNCHANGED vars
      BY <2>4, BatchFrame DEF vars, readerVars
    <2>5. QED
      BY <2>1, <2>2, <2>3, <2>4 DEF Next
  <1>3. QED
    BY <1>1, <1>2, InitIInv, NextIInv, PTL DEF Spec, CInv

-----------------------------------------------------------------------------
(***************************************************************************)
(* The three kinds of steps that move a request                            *)
(***************************************************************************)

LEMMA PendingType ==
  ASSUME CInv
  PROVE  /\ batch \in Seq(LevelMessage) /\ inbox \in Seq(LevelMessage)
         /\ Pending \in Seq(LevelMessage)
         /\ Outstanding = [i \in 1 .. Len(Pending) |-> Strip(Pending[i])]
  BY DEF CInv, IInv, TypeOK, ReaderTypes, DaemonTypes, Pending, Outstanding, Strip

\* A read() takes the requests from the FIFO in one piece and in order.
LEMMA ReadKeepsOutstanding ==
  ASSUME CInv, HandleIncomingMessage
  PROVE  UNCHANGED <<Outstanding, m_activeLogLevel>>
  <1>1. batch = << >> /\ batch' = inbox /\ inbox' = << >> /\ UNCHANGED m_activeLogLevel
    BY DEF HandleIncomingMessage, ReaderAt, CInv, BatchInv, levelVars
  <1>2. << >> \o inbox = inbox /\ inbox \o << >> = inbox
    BY PendingType
  <1>3. Pending' = Pending
    BY <1>1, <1>2 DEF Pending
  <1>4. QED
    BY <1>1, <1>3 DEF Outstanding

\* A request of the daemon is appended.
LEMMA SetLevelAppends ==
  ASSUME CInv, DaemonSetLevel
  PROVE  /\ UNCHANGED m_activeLogLevel
         /\ \E c \in Contexts, l \in 0 .. 6 :
              /\ Outstanding' = Append(Outstanding, [pos |-> c, level |-> l])
              /\ requested' = [requested EXCEPT ![c] = l]
  <1>1. PICK r \in registrations, l \in DaemonLevels :
          /\ inbox' = Append(inbox, [ctx |-> r.ctx, pos |-> r.pos, level |-> l])
          /\ requested' = [requested EXCEPT ![r.ctx] = l]
    BY DEF DaemonSetLevel
  <1>2. UNCHANGED <<batch, m_activeLogLevel>>
    BY DEF DaemonSetLevel, levelVars, readerVars
  <1> DEFINE m == [ctx |-> r.ctx, pos |-> r.pos, level |-> l]
  <1>3. r.ctx \in Contexts /\ r.pos \in Int /\ l \in 0 .. 6
    BY DataAssumption DEF CInv, IInv, TypeOK, DaemonTypes, Registration
  <1>4. m \in LevelMessage
    BY <1>3 DEF LevelMessage
  <1>5. ASSUME NEW n \in LevelMessage
        PROVE  batch \o Append(inbox, n) = Append(batch \o inbox, n)
    BY PendingType
  <1>6. Pending' = Append(Pending, m)
    BY <1>1, <1>2, <1>4, <1>5 DEF Pending
  <1>7. ASSUME NEW s \in Seq(LevelMessage), NEW n \in LevelMessage
        PROVE  [i \in 1 .. Len(Append(s, n)) |-> Strip(Append(s, n)[i])]
                 = Append([i \in 1 .. Len(s) |-> Strip(s[i])], Strip(n))
    OBVIOUS
  <1>8. Outstanding' = Append(Outstanding, [pos |-> r.ctx, level |-> l])
    <2>1. Outstanding' = [i \in 1 .. Len(Append(Pending, m)) |-> Strip(Append(Pending, m)[i])]
      BY <1>6 DEF Outstanding, Strip
    <2>2. Strip(m) = [pos |-> r.ctx, level |-> l]
      BY DEF Strip
    <2>3. QED
      BY <2>1, <2>2, <1>4, <1>7, PendingType
  <1>9. QED
    BY <1>1, <1>2, <1>3, <1>8

LEMMA SetLevelRequests ==
  ASSUME CInv, DaemonSetLevel
  PROVE  Channel!Request
  BY SetLevelAppends DEF Channel!Request

\* applyLogLevel applies the first outstanding request to the context it is for.
LEMMA ApplyLevelApplies ==
  ASSUME CInv, ApplyLogLevel
  PROVE  Channel!Apply
  <1>1. readerPc = "applying" /\ batch' = Tail(batch) /\ inbox' = inbox
    BY DEF ApplyLogLevel, ReaderAt, daemonVars
  <1> DEFINE m == Head(batch)
  <1>2. /\ batch # << >> /\ m \in LevelMessage
        /\ Resolves(m.pos, m.ctx)
    BY <1>1, AppliedPosition DEF CInv
  <1>3. m.pos < Len(m_contexts) /\ m_contexts[m.pos + 1] = m.ctx
    <2>1. m.pos \in Int
      BY <1>2 DEF LevelMessage
    <2>2. Len(m_contexts) \in Nat
      BY DEF CInv, IInv, TypeOK, ContextTypes
    <2>3. m.pos + 1 \in 1 .. Len(m_contexts) /\ m_contexts[m.pos + 1] = m.ctx
      BY <1>2 DEF Resolves, Size
    <2> HIDE DEF m
    <2>4. QED
      BY <2>1, <2>2, <2>3
  <1>4. m_activeLogLevel' = [m_activeLogLevel EXCEPT ![m.ctx] = m.level]
    <2>1. IF m.pos < Size
          THEN m_activeLogLevel' =
                 [m_activeLogLevel EXCEPT ![m_contexts[m.pos + 1]] = m.level]
          ELSE UNCHANGED m_activeLogLevel
      BY DEF ApplyLogLevel
    <2> HIDE DEF m
    <2>2. QED
      BY <1>3, <2>1 DEF Size
  <1>5. ASSUME NEW s \in Seq(LevelMessage), NEW u \in Seq(LevelMessage), s # << >>
        PROVE  /\ Tail(s) \o u = Tail(s \o u) /\ s \o u # << >>
               /\ (s \o u)[1] = Head(s)
    BY <1>5
  <1>6. Pending' = Tail(Pending) /\ Pending # << >> /\ Pending[1] = m
    BY <1>1, <1>2, <1>5, PendingType DEF Pending
  <1>7. ASSUME NEW s \in Seq(LevelMessage), s # << >>
        PROVE  LET o == [i \in 1 .. Len(s) |-> Strip(s[i])]
               IN  /\ o # << >> /\ Head(o) = Strip(s[1])
                   /\ Tail(o) = [i \in 1 .. Len(Tail(s)) |-> Strip(Tail(s)[i])]
    BY <1>7
  <1>8. /\ Outstanding # << >> /\ Head(Outstanding) = Strip(m)
        /\ Outstanding' = Tail(Outstanding)
    <2>1. Outstanding' = [i \in 1 .. Len(Tail(Pending)) |-> Strip(Tail(Pending)[i])]
      BY <1>6 DEF Outstanding, Strip
    <2>2. QED
      BY <2>1, <1>6, <1>7, PendingType
  <1>9. Head(Outstanding).pos = m.ctx /\ Head(Outstanding).level = m.level
    BY <1>8 DEF Strip
  <1>10. QED
    BY <1>4, <1>8, <1>9 DEF Channel!Apply

-----------------------------------------------------------------------------
\* Only the daemon makes requests; the reader applies them.
LEMMA StepApplies ==
  ASSUME CInv, [Next]_vars
  PROVE  \/ DaemonSetLevel \/ Channel!Apply
         \/ UNCHANGED <<Outstanding, m_activeLogLevel>>
  <1>1. ASSUME UNCHANGED <<batch, inbox, m_activeLogLevel>>
        PROVE  UNCHANGED <<Outstanding, m_activeLogLevel>>
    BY <1>1 DEF Outstanding, Pending
  <1>2. ASSUME NEW t \in Threads, LogCall(t) \/ ThreadStep(t)
        PROVE  UNCHANGED <<Outstanding, m_activeLogLevel>>
    BY <1>1, <1>2, ThreadLeavesChannel
  <1>3. CASE ReaderStep
    <2>1. CASE CheckStop \/ PollStopped \/ LockReader \/ BatchDone
      BY <1>1, <2>1 DEF CheckStop, PollStopped, LockReader, BatchDone,
         levelVars, daemonVars
    <2>2. QED
      BY <1>3, <2>1, ReadKeepsOutstanding, ApplyLevelApplies DEF ReaderStep
  <1>4. CASE Exit \/ ShutdownStep \/ Terminated \/ Environment
    BY <1>1, <1>4, OtherLeavesChannel
  <1>5. CASE UNCHANGED vars
    BY <1>1, <1>5 DEF vars, levelVars, readerVars, daemonVars
  <1>6. QED
    BY <1>2, <1>3, <1>4, <1>5 DEF Next

\* Every step of DaemonConnection is a step of the channel or a stutter.
LEMMA StepRefines ==
  CInv /\ [Next]_vars =>
    [Channel!Request \/ Channel!Apply]_<<Outstanding, m_activeLogLevel>>
  BY StepApplies, SetLevelRequests

\* The path of a log level from the daemon to the contexts, for any number of
\* threads that register, reconnect and log meanwhile: applyLogLevel applies
\* every request exactly once, in order, to the context it was made for.
THEOREM ImplementsChannel == Spec => ChannelSpec
  <1>1. Init => Channel!Init
    <2> SUFFICES ASSUME Init PROVE Channel!Init
      OBVIOUS
    <2>1. Pending = << >>
      BY DEF Init, Pending
    <2>2. Outstanding = << >>
      BY <2>1 DEF Outstanding
    <2>3. m_activeLogLevel \in [Contexts -> Nat]
      <3>1. m_activeLogLevel = [c \in Contexts |-> 6]
        BY DEF Init, Verbose
      <3>2. QED
        BY <3>1
    <2>4. QED
      BY <2>2, <2>3 DEF Channel!Init
  <1>2. QED
    BY <1>1, BatchInvariant, StepRefines, PTL DEF Spec, ChannelSpec, Channel!Spec

-----------------------------------------------------------------------------
(***************************************************************************)
(* What is in force when nothing waits                                     *)
(***************************************************************************)

Requests == Seq([pos : Contexts, level : 0 .. 6])

LEMMA OutstandingType ==
  ASSUME CInv
  PROVE  Outstanding \in Requests
  <1>1. \A i \in 1 .. Len(Pending) :
          Pending[i].ctx \in Contexts /\ Pending[i].level \in 0 .. 6
    <2>1. Pending \in Seq(LevelMessage)
      BY PendingType
    <2>2. \A i \in 1 .. Len(Pending) : Pending[i] \in LevelMessage
      BY <2>1
    <2>3. QED
      BY <2>2 DEF LevelMessage
  <1>2. Len(Pending) \in Nat
    BY PendingType
  <1>3. QED
    BY <1>1, <1>2 DEF Outstanding, Requests

\* A new request decides for its context and leaves the others alone.
LEMMA RequestDecides ==
  ASSUME NEW o \in Requests, NEW c \in Contexts, NEW l \in 0 .. 6, NEW d,
         NEW wanted, NEW now, NEW active,
         d = c => now = l,
         d # c => now = wanted /\ InForce(o, d, wanted, active)
  PROVE  InForce(Append(o, [pos |-> c, level |-> l]), d, now, active)
  <1> DEFINE p == Append(o, [pos |-> c, level |-> l])
  <1>1. /\ Len(o) \in Nat /\ Len(p) = Len(o) + 1
        /\ p[Len(o) + 1].pos = c /\ p[Len(o) + 1].level = l
        /\ \A i \in 1 .. Len(o) : p[i] = o[i]
    BY DEF Requests
  <1> HIDE DEF p
  <1>2. CASE d = c
    <2>1. Len(p) \in 1 .. Len(p)
      BY <1>1
    <2>2. ASSUME NEW i \in 1 .. Len(p), p[i].pos = d, LastRequest(p, i)
          PROVE  p[i].level = now
      <3>1. i = Len(p)
        BY <1>1, <1>2, <2>2 DEF LastRequest
      <3>2. QED
        BY <1>1, <1>2, <3>1
    <2>3. ~(\A i \in 1 .. Len(p) : p[i].pos # d)
      BY <1>1, <1>2, <2>1
    <2>4. QED
      BY <2>2, <2>3 DEF InForce, p
  <1>3. CASE d # c
    <2>1. ASSUME \A i \in 1 .. Len(p) : p[i].pos # d PROVE active = now
      <3>1. \A i \in 1 .. Len(o) : o[i].pos # d
        BY <1>1, <2>1
      <3>2. QED
        BY <1>3, <3>1 DEF InForce
    <2>2. ASSUME NEW i \in 1 .. Len(p), p[i].pos = d, LastRequest(p, i)
          PROVE  p[i].level = now
      <3>1. i \in 1 .. Len(o) /\ p[i] = o[i]
        BY <1>1, <1>3, <2>2
      <3>2. LastRequest(o, i)
        BY <1>1, <2>2, <3>1 DEF LastRequest
      <3>3. QED
        BY <1>3, <2>2, <3>1, <3>2 DEF InForce
    <2>3. QED
      BY <2>1, <2>2 DEF InForce, p
  <1>4. QED
    BY <1>2, <1>3

\* The first request comes into force; it was the last one or others follow it.
LEMMA ApplyDecides ==
  ASSUME NEW o \in Requests, o # << >>, NEW d, NEW wanted, NEW active, NEW now,
         InForce(o, d, wanted, active),
         now = IF Head(o).pos = d THEN Head(o).level ELSE active
  PROVE  InForce(Tail(o), d, wanted, now)
  <1> DEFINE p == Tail(o)
  <1>1. /\ Len(o) \in Nat \ {0} /\ Len(p) = Len(o) - 1 /\ Head(o) = o[1]
        /\ \A i \in 1 .. Len(p) : p[i] = o[i + 1]
    BY DEF Requests
  <1> HIDE DEF p
  <1>2. \A j \in 2 .. Len(o) : j - 1 \in 1 .. Len(p) /\ o[j] = p[j - 1]
    <2>1. SUFFICES ASSUME NEW j \in 2 .. Len(o)
                   PROVE  j - 1 \in 1 .. Len(p) /\ o[j] = p[j - 1]
      OBVIOUS
    <2>2. j - 1 \in 1 .. Len(p) /\ (j - 1) + 1 = j
      BY <1>1
    <2>3. QED
      BY <1>1, <2>2
  <1>3. ASSUME \A i \in 1 .. Len(p) : p[i].pos # d PROVE now = wanted
    <2>1. \A j \in 2 .. Len(o) : o[j].pos # d
      BY <1>2, <1>3
    <2>2. CASE o[1].pos = d
      <3>1. LastRequest(o, 1) /\ 1 \in 1 .. Len(o)
        BY <1>1, <2>1, <2>2 DEF LastRequest
      <3>2. QED
        BY <1>1, <2>2, <3>1 DEF InForce
    <2>3. CASE o[1].pos # d
      <3>1. \A i \in 1 .. Len(o) : o[i].pos # d
        BY <1>1, <2>1, <2>3
      <3>2. QED
        BY <1>1, <2>3, <3>1 DEF InForce
    <2>4. QED
      BY <2>2, <2>3
  <1>4. ASSUME NEW i \in 1 .. Len(p), p[i].pos = d, LastRequest(p, i)
        PROVE  p[i].level = wanted
    <2>1. i + 1 \in 1 .. Len(o) /\ o[i + 1] = p[i]
      BY <1>1
    <2>2. ASSUME NEW j \in (i + 1) + 1 .. Len(o) PROVE o[j].pos # o[i + 1].pos
      <3>1. j - 1 \in i + 1 .. Len(p) /\ o[j] = p[j - 1]
        BY <1>1, <1>2
      <3>2. QED
        BY <1>4, <2>1, <3>1 DEF LastRequest
    <2>3. LastRequest(o, i + 1)
      BY <2>2 DEF LastRequest
    <2>4. QED
      BY <1>4, <2>1, <2>3 DEF InForce
  <1>5. QED
    BY <1>3, <1>4 DEF InForce, p

\* Nothing but the daemon's request changes what the daemon wants.
LEMMA RequestedFrame ==
  ASSUME [Next]_vars
  PROVE  DaemonSetLevel \/ UNCHANGED requested
  <1> USE DEF daemonVars
  <1>1. CASE \E t \in Threads : LogCall(t) \/ ThreadStep(t)
    <2>1. PICK t \in Threads : LogCall(t) \/ ThreadStep(t)
      BY <1>1
    <2>2. CASE LogCall(t) \/ GetInstance(t) \/ InitAborts(t) \/ Lock(t)
               \/ SetPosition(t) \/ Push(t) \/ Unlock(t) \/ SetRegistered(t)
               \/ IsEnabled(t) \/ CreateLog(t)
      BY <2>2 DEF LogCall, CheckContext, GetInstance, InitAborts, Lock,
         SetPosition, Push, Unlock, SetRegistered, IsEnabled, CreateLog
    <2>3. CASE CheckConnected(t) \/ OpenFifo(t) \/ OpenFails(t) \/ OpenBlocks(t)
               \/ Assign(t) \/ BeginRange(t) \/ IterateNext(t)
               \/ IterateFreed(t) \/ IterateEnd(t)
      BY <2>3 DEF CheckConnected, OpenFifo, OpenFails, OpenBlocks, Assign,
         BeginRange, IterateNext, IterateFreed, IterateEnd
    <2>4. CASE RegisterNew(t) \/ SendLog(t) \/ WriteDelivered(t)
               \/ WriteAppFile(t) \/ WriteFails(t) \/ Close(t) \/ Reset(t)
      BY <2>4 DEF RegisterNew, SendLog, WriteDelivered, WriteAppFile, WriteFails,
         Close, Reset
    <2>5. QED
      BY <2>1, <2>2, <2>3, <2>4 DEF ThreadStep
  <1>2. CASE ReaderStep
    BY <1>2 DEF ReaderStep, CheckStop, HandleIncomingMessage, PollStopped,
       LockReader, ApplyLogLevel, BatchDone
  <1>3. CASE Exit \/ ShutdownStep \/ Terminated
    BY <1>3 DEF Exit, ShutdownStep, WakeReader, Join, Terminated, vars
  <1>4. CASE Environment
    BY <1>4 DEF Environment, DaemonStart, DaemonStop, DaemonCrash, DaemonEnds,
       OpenAppFile
  <1>5. CASE UNCHANGED vars
    BY <1>5 DEF vars
  <1>6. QED
    BY <1>1, <1>2, <1>3, <1>4, <1>5 DEF Next

\* Every step keeps outdated levels out.
LEMMA LevelsStep ==
  ASSUME CInv, NoOutdatedLevels, [Next]_vars
  PROVE  NoOutdatedLevels'
  <1> SUFFICES ASSUME NEW d \in Contexts, requested'[d] # None
               PROVE  InForce(Outstanding', d, requested'[d], m_activeLogLevel'[d])
    BY DEF NoOutdatedLevels
  <1>0. /\ requested \in [Contexts -> Int] /\ m_activeLogLevel \in [Contexts -> 0 .. 6]
        /\ Outstanding \in Requests
    BY OutstandingType DEF CInv, IInv, TypeOK, DaemonTypes, LevelTypes
  <1>1. CASE DaemonSetLevel
    <2>1. PICK c \in Contexts, l \in 0 .. 6 :
            /\ Outstanding' = Append(Outstanding, [pos |-> c, level |-> l])
            /\ requested' = [requested EXCEPT ![c] = l]
      BY <1>1, SetLevelAppends
    <2>2. d = c => requested'[d] = l
      BY <1>0, <2>1
    <2>3. d # c =>
            /\ requested'[d] = requested[d]
            /\ InForce(Outstanding, d, requested[d], m_activeLogLevel[d])
      BY <1>0, <2>1 DEF NoOutdatedLevels
    <2>4. InForce(Append(Outstanding, [pos |-> c, level |-> l]), d, requested'[d],
                  m_activeLogLevel[d])
      BY <1>0, <2>2, <2>3, RequestDecides
    <2>5. QED
      BY <1>1, <2>1, <2>4, SetLevelAppends
  <1>2. CASE ~DaemonSetLevel
    <2>0. UNCHANGED requested
      BY <1>2, RequestedFrame
    <2>1. InForce(Outstanding, d, requested[d], m_activeLogLevel[d])
      BY <2>0 DEF NoOutdatedLevels
    <2>2. CASE UNCHANGED <<Outstanding, m_activeLogLevel>>
      BY <2>0, <2>1, <2>2
    <2>3. CASE Channel!Apply
      <3>1. /\ Outstanding # << >> /\ Outstanding' = Tail(Outstanding)
            /\ m_activeLogLevel' =
                 [m_activeLogLevel EXCEPT ![Head(Outstanding).pos] = Head(Outstanding).level]
        BY <2>3 DEF Channel!Apply
      <3>2. m_activeLogLevel'[d] =
              IF Head(Outstanding).pos = d THEN Head(Outstanding).level
              ELSE m_activeLogLevel[d]
        BY <1>0, <3>1
      <3>3. InForce(Tail(Outstanding), d, requested[d], m_activeLogLevel'[d])
        BY <1>0, <2>1, <3>1, <3>2, ApplyDecides
      <3>4. QED
        BY <2>0, <3>1, <3>3
    <2>4. QED
      BY <1>2, <2>2, <2>3, StepApplies
  <1>3. QED
    BY <1>1, <1>2

\* NoOutdatedLevels: whatever registers, reconnects, ends or starts again, a
\* context has the level that the daemon requested last, or that request is on
\* its way and no older one is behind it.
THEOREM LevelsAreUpToDate == Spec => []NoOutdatedLevels
  <1>1. Init => NoOutdatedLevels
    BY DEF Init, NoOutdatedLevels
  <1>2. CInv /\ NoOutdatedLevels /\ [Next]_vars => NoOutdatedLevels'
    BY LevelsStep
  <1>3. QED
    BY <1>1, <1>2, BatchInvariant, PTL DEF Spec
=============================================================================
