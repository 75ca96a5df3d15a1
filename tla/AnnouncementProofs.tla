-------------------------- MODULE AnnouncementProofs --------------------------
(***************************************************************************)
(* What the daemon has been told: for any number of threads, contexts,     *)
(* descriptors and daemon restarts, no interleaving of registrations,      *)
(* reconnections and failed writes leaves a context out.  For a single     *)
(* logging thread also: its descriptors are kept apart from the files of   *)
(* the application, and its logs follow what announces them.               *)
(***************************************************************************)
EXTENDS DaemonConnectionProofs

Connected == ToDaemon(m_daemonFileDescriptor)

\* A thread has met an error of writev and is going to drop the connection.
Resetting == \E t \in Threads : phase[t] # "write"
\* A thread has just stored a new connection.
SendingApp == \E t \in Threads : pc[t] = "sendApp"

\* Only a thread inside send is about to close or to forget the descriptor.
PhaseInv == \A t \in Threads : phase[t] # "write" => pc[t] \in SendPcs

\* The registration under way is that of the context the thread is at.
OutOf(t) ==
  /\ pc[t] = "sendAgain" => /\ next[t] \in 1 .. last[t]
                            /\ out[t].ctx = m_contexts[next[t]]
  /\ pc[t] = "sendNew" => out[t].ctx = ctx[t]

OutInv == \A t \in Threads : OutOf(t)

\* No descriptor leads to a daemon that has not been started yet.
FilesInv ==
  /\ \A d \in Descriptors : files[d] <= starts
  /\ fifo = "reading" => starts >= 1

\* A descriptor that is kept although it is closed will be forgotten, or was
\* stored by a thread that has not used it yet.
FreeInv ==
  m_daemonFileDescriptor \in Descriptors /\ files[m_daemonFileDescriptor] = Free =>
    (\E t \in Threads : phase[t] = "reset") \/ SendingApp

Registered(c) == \E r \in registrations : r.ctx = c

\* Where a thread that holds the mutex has yet to register its own context.
BeforeNew == {"init", "open", "blocked", "assign", "sendApp", "range", "iterate",
              "sendAgain", "after", "sendNew"}

\* Thread t is going to register the context at index i: with all the others,
\* or as the one its log call is for.
WillSend(t, i) ==
  \/ pc[t] \in {"sendApp", "range"}
  \/ pc[t] \in {"iterate", "sendAgain"} /\ i \in next[t] .. last[t]
  \/ mutex = t /\ pc[t] \in BeforeNew /\ ctx[t] = m_contexts[i]

\* Unless it is going to be dropped, a connection to the running daemon is one
\* over which everything was announced, or is going to be by some thread.
AnnounceInv ==
  Connected =>
    \/ Resetting
    \/ /\ appKnown \/ SendingApp
       /\ \A i \in 1 .. Size :
            Registered(m_contexts[i]) \/ \E t \in Threads : WillSend(t, i)

AInv == PhaseInv /\ OutInv /\ FilesInv /\ FreeInv /\ AnnounceInv

-----------------------------------------------------------------------------
(***************************************************************************)
(* Frames                                                                  *)
(***************************************************************************)

USE DEF Disconnected, Free, AppFile, Size

\* What a step of thread t leaves to the others.
OwnStep(t) ==
  /\ \A u \in Threads \ {t} :
       /\ pc'[u] = pc[u] /\ ctx'[u] = ctx[u] /\ next'[u] = next[u]
       /\ last'[u] = last[u] /\ out'[u] = out[u] /\ phase'[u] = phase[u]
       /\ mutex = u => mutex' = u
  /\ Len(m_contexts') >= Size
  /\ \A i \in 1 .. Size : m_contexts'[i] = m_contexts[i]

LEMMA OwnSteps ==
  ASSUME IInv, NEW t \in Threads, LogCall(t) \/ ThreadStep(t)
  PROVE  OwnStep(t)
<1> USE DEF OwnStep, contextVars, localVars, Goto
<1>1. /\ pc \in [Threads -> Pcs] /\ next \in [Threads -> Nat]
      /\ last \in [Threads -> Nat] /\ ctx \in [Threads -> Contexts]
      /\ out \in [Threads -> Message] /\ m_contexts \in Seq(Contexts)
      /\ phase \in [Threads -> {"write", "close", "reset"}]
  BY DEF IInv, TypeOK, LocalTypes, ContextTypes
<1>2. CASE Unlock(t)
  <2>1. mutex = t
    BY <1>2 DEF Unlock, At, IInv, MutexInv
  <2> QED
    BY <1>1, <1>2, <2>1 DEF Unlock
<1>3. CASE LogCall(t)
  BY <1>1, <1>3 DEF LogCall, CheckContext
<1>4. CASE GetInstance(t)
  BY <1>1, <1>4 DEF GetInstance
<1>5. CASE InitAborts(t)
  BY <1>1, <1>5 DEF InitAborts
<1>6. CASE Lock(t)
  BY <1>1, <1>6, NameAssumption DEF Lock
<1>7. CASE SetPosition(t)
  BY <1>1, <1>7 DEF SetPosition
<1>8. CASE SetRegistered(t)
  BY <1>1, <1>8 DEF SetRegistered
<1>9. CASE IsEnabled(t)
  BY <1>1, <1>9 DEF IsEnabled
<1>10. CASE CreateLog(t)
  BY <1>1, <1>10 DEF CreateLog
<1>11. CASE CheckConnected(t)
  BY <1>1, <1>11 DEF CheckConnected
<1>12. CASE OpenFifo(t)
  BY <1>1, <1>12 DEF OpenFifo
<1>13. CASE OpenFails(t)
  BY <1>1, <1>13 DEF OpenFails
<1>14. CASE OpenBlocks(t)
  BY <1>1, <1>14 DEF OpenBlocks
<1>15. CASE Assign(t)
  BY <1>1, <1>15 DEF Assign
<1>16. CASE BeginRange(t)
  BY <1>1, <1>16 DEF BeginRange
<1>17. CASE IterateFreed(t)
  BY <1>1, <1>17 DEF IterateFreed
<1>18. CASE IterateEnd(t)
  BY <1>1, <1>18 DEF IterateEnd
<1>19. CASE IterateNext(t)
  BY <1>1, <1>19 DEF IterateNext, PrepareRegistration
<1>20. CASE RegisterNew(t)
  BY <1>1, <1>20 DEF RegisterNew, PrepareRegistration
<1>21. CASE SendLog(t)
  BY <1>1, <1>21 DEF SendLog
<1>22. CASE WriteDelivered(t)
  BY <1>1, <1>22 DEF WriteDelivered, Return
<1>23. CASE WriteAppFile(t)
  BY <1>1, <1>23 DEF WriteAppFile, Return
<1>24. CASE WriteFails(t)
  BY <1>1, <1>24 DEF WriteFails
<1>25. CASE Close(t)
  BY <1>1, <1>25 DEF Close
<1>26. CASE Reset(t)
  BY <1>1, <1>26 DEF Reset, Return
<1>27. CASE Push(t)
  BY <1>1, <1>27 DEF Push
<1> QED
  BY <1>2, <1>3, <1>4, <1>5, <1>6, <1>7, <1>8, <1>9, <1>10, <1>11, <1>12,
     <1>13, <1>14, <1>15, <1>16, <1>17, <1>18, <1>19, <1>20, <1>21, <1>22,
     <1>23, <1>24, <1>25, <1>26, <1>27
     DEF ThreadStep

\* The other threads still register what they were going to.
LEMMA OthersSend ==
  ASSUME NEW t \in Threads, OwnStep(t), NEW u \in Threads \ {t}, NEW i \in 1 .. Size,
         WillSend(u, i)
  PROVE  WillSend(u, i)'
BY DEF OwnStep, WillSend

\* A step that leaves the connection alone keeps AnnounceInv if thread t has
\* done what it gives up doing.
LEMMA AnnounceFrame ==
  ASSUME NEW t \in Threads, OwnStep(t), AnnounceInv,
         Connected' => Connected,
         UNCHANGED m_contexts,
         appKnown => appKnown', registrations \subseteq registrations',
         Connected /\ phase[t] # "write" => phase'[t] # "write",
         Connected /\ pc[t] = "sendApp" => pc'[t] = "sendApp" \/ appKnown',
         \A i \in 1 .. Size :
           Connected /\ WillSend(t, i) => WillSend(t, i)' \/ Registered(m_contexts[i])'
  PROVE  AnnounceInv'
<1> SUFFICES ASSUME Connected, Connected' PROVE AnnounceInv'
  BY DEF AnnounceInv
<1>1. CASE Resetting
  <2>1. Resetting'
    BY <1>1 DEF Resetting, OwnStep
  <2> QED
    BY <2>1 DEF AnnounceInv
<1>2. CASE ~Resetting
  <2>1. appKnown' \/ SendingApp'
    BY <1>2 DEF AnnounceInv, SendingApp, OwnStep
  <2>2. ASSUME NEW i \in 1 .. Len(m_contexts')
        PROVE  Registered(m_contexts[i])' \/ \E u \in Threads : WillSend(u, i)'
    <3>1. i \in 1 .. Size
      OBVIOUS
    <3>2. Registered(m_contexts[i]) \/ \E u \in Threads : WillSend(u, i)
      BY <1>2, <3>1 DEF AnnounceInv
    <3>3. CASE Registered(m_contexts[i])
      BY <3>3 DEF Registered
    <3>4. CASE \E u \in Threads : WillSend(u, i)
      BY <3>1, <3>4, OthersSend
    <3> QED
      BY <3>2, <3>3, <3>4
  <2> QED
    BY <2>1, <2>2 DEF AnnounceInv
<1> QED
  BY <1>1, <1>2

\* The registrations that the other threads have prepared.
LEMMA OutFrame ==
  ASSUME IInv, OutInv, NEW t \in Threads, OwnStep(t), OutOf(t)'
  PROVE  OutInv'
<1>1. ASSUME NEW u \in Threads \ {t} PROVE OutOf(u)'
  <2>1. OutOf(u) /\ last[u] \in Nat /\ last[u] <= Size
    BY DEF OutInv, IInv, RangeInv, TypeOK, LocalTypes
  <2> QED
    BY <2>1 DEF OwnStep, OutOf
<1> QED
  BY <1>1 DEF OutInv

-----------------------------------------------------------------------------
(***************************************************************************)
(* The steps outside send that leave the connection alone                  *)
(***************************************************************************)

LEMMA QuietFrame ==
  ASSUME IInv, AInv, NEW t \in Threads, OwnStep(t), OutOf(t)',
         pc[t] \notin SendPcs, phase' = phase,
         UNCHANGED <<m_daemonFileDescriptor, files, fifo, starts, appKnown,
                     registrations, m_contexts>>,
         \A i \in 1 .. Size : Connected /\ WillSend(t, i) => WillSend(t, i)'
  PROVE  AInv'
<1>1. OutInv'
  BY OutFrame DEF AInv
<1>2. PhaseInv'
  BY DEF AInv, PhaseInv, OwnStep
<1>3. FilesInv'
  BY DEF AInv, FilesInv
<1>4. FreeInv'
  BY DEF AInv, FreeInv, SendingApp, OwnStep, SendPcs
<1>5. AnnounceInv'
  <2>1. Connected' <=> Connected
    BY DEF Connected, ToDaemon
  <2>2. pc[t] # "sendApp"
    BY DEF SendPcs
  <2> QED
    BY <2>1, <2>2, AnnounceFrame DEF AInv
<1> QED
  BY <1>1, <1>2, <1>3, <1>4, <1>5 DEF AInv

\* A log call up to registerContext, and after it.
LEMMA CallSteps ==
  ASSUME IInv, AInv, NEW t \in Threads,
         \/ LogCall(t) \/ GetInstance(t) \/ InitAborts(t) \/ Lock(t)
         \/ SetPosition(t) \/ Unlock(t) \/ SetRegistered(t) \/ IsEnabled(t)
         \/ CreateLog(t)
  PROVE  AInv'
<1> USE DEF contextVars, fdVars, localVars, daemonVars, At, Goto
<1>1. OwnStep(t)
  BY OwnSteps DEF ThreadStep
<1>2. pc \in [Threads -> Pcs]
  BY DEF IInv, TypeOK
<1>3. /\ pc[t] \notin SendPcs \cup BeforeNew
      /\ pc'[t] \notin {"sendAgain", "sendNew"} /\ phase' = phase
      /\ UNCHANGED <<m_daemonFileDescriptor, files, fifo, starts, appKnown,
                     registrations, m_contexts>>
  BY <1>2 DEF LogCall, CheckContext, GetInstance, InitAborts, Lock, SetPosition,
     Unlock, SetRegistered, IsEnabled, CreateLog, SendPcs, BeforeNew
<1>4. OutOf(t)' /\ \A i \in 1 .. Size : ~WillSend(t, i)
  BY <1>3 DEF OutOf, WillSend, BeforeNew
<1> QED
  BY <1>1, <1>3, <1>4, QuietFrame

\* initDaemonConnection outside send.
LEMMA ConnectSteps ==
  ASSUME IInv, AInv, NEW t \in Threads,
         \/ CheckConnected(t) \/ OpenFails(t) \/ OpenBlocks(t) \/ BeginRange(t)
         \/ IterateNext(t) \/ IterateFreed(t) \/ IterateEnd(t)
  PROVE  AInv'
<1> USE DEF contextVars, fdVars, localVars, daemonVars, At, Goto
<1>1. OwnStep(t)
  BY OwnSteps DEF ThreadStep
<1>2. /\ pc \in [Threads -> Pcs] /\ out \in [Threads -> Message]
      /\ next \in [Threads -> Nat] /\ last \in [Threads -> Nat]
      /\ next[t] >= 1 /\ m_contexts \in Seq(Contexts)
  BY DEF IInv, TypeOK, LocalTypes, ContextTypes, RangeInv
<1>3. /\ pc[t] \notin SendPcs /\ phase' = phase
      /\ UNCHANGED <<m_daemonFileDescriptor, files, fifo, starts, appKnown,
                     registrations, m_contexts, mutex, ctx>>
  BY DEF CheckConnected, OpenFails, OpenBlocks, BeginRange, IterateNext,
     PrepareRegistration, IterateFreed, IterateEnd, SendPcs
<1>4. OutOf(t)' /\ \A i \in 1 .. Size : WillSend(t, i) => WillSend(t, i)'
  <2>1. CASE CheckConnected(t) \/ OpenFails(t) \/ OpenBlocks(t)
    BY <1>2, <1>3, <2>1 DEF CheckConnected, OpenFails, OpenBlocks, OutOf, WillSend, BeforeNew
  <2>2. CASE BeginRange(t)
    BY <1>2, <1>3, <2>2 DEF BeginRange, OutOf, WillSend, BeforeNew
  <2>3. CASE IterateNext(t)
    BY <1>2, <1>3, <2>3 DEF IterateNext, PrepareRegistration, OutOf, WillSend, BeforeNew
  <2>4. CASE IterateFreed(t)
    BY <1>2, <1>3, <2>4 DEF IterateFreed, OutOf, WillSend, BeforeNew
  <2>5. CASE IterateEnd(t)
    BY <1>2, <1>3, <2>5 DEF IterateEnd, OutOf, WillSend, BeforeNew
  <2> QED
    BY <2>1, <2>2, <2>3, <2>4, <2>5
<1> QED
  BY <1>1, <1>3, <1>4, QuietFrame

\* The callers after initDaemonConnection.
LEMMA AfterSteps ==
  ASSUME IInv, AInv, NEW t \in Threads, RegisterNew(t) \/ SendLog(t)
  PROVE  AInv'
<1> USE DEF contextVars, fdVars, localVars, daemonVars, At, Goto
<1>1. OwnStep(t)
  BY OwnSteps DEF ThreadStep
<1>2. /\ pc \in [Threads -> Pcs] /\ out \in [Threads -> Message]
      /\ -1 \notin Descriptors
  BY DataAssumption DEF IInv, TypeOK, LocalTypes
<1>3. /\ pc[t] = "after" /\ pc[t] \notin SendPcs /\ phase' = phase
      /\ UNCHANGED <<m_daemonFileDescriptor, files, fifo, starts, appKnown,
                     registrations, m_contexts, mutex, ctx>>
  BY DEF RegisterNew, SendLog, PrepareRegistration, SendPcs
<1>4. OutOf(t)' /\ \A i \in 1 .. Size : Connected /\ WillSend(t, i) => WillSend(t, i)'
  <2>1. CASE RegisterNew(t)
    BY <1>2, <1>3, <2>1 DEF RegisterNew, PrepareRegistration, OutOf, WillSend,
       BeforeNew, Connected, ToDaemon
  <2>2. CASE SendLog(t)
    BY <1>2, <1>3, <2>2 DEF SendLog, OutOf, WillSend, BeforeNew
  <2> QED
    BY <2>1, <2>2
<1> QED
  BY <1>1, <1>3, <1>4, QuietFrame

-----------------------------------------------------------------------------
(***************************************************************************)
(* A new context, a new connection                                         *)
(***************************************************************************)

\* registerContext adds its context, which it is going to send.
LEMMA PushKeeps ==
  ASSUME IInv, AInv, NEW t \in Threads, Push(t)
  PROVE  AInv'
<1> USE DEF contextVars, fdVars, localVars, daemonVars, At, Goto
<1>1. OwnStep(t)
  BY OwnSteps DEF ThreadStep
<1>2. /\ pc \in [Threads -> Pcs] /\ mutex = t /\ m_contexts \in Seq(Contexts)
      /\ ctx[t] \in Contexts
  BY DEF Push, IInv, TypeOK, LocalTypes, ContextTypes, MutexInv
<1>3. /\ pc[t] = "push" /\ pc'[t] = "init" /\ phase' = phase /\ ctx' = ctx
      /\ UNCHANGED <<m_daemonFileDescriptor, files, fifo, starts, appKnown,
                     registrations, mutex>>
      /\ m_contexts' = Append(m_contexts, ctx[t])
  BY <1>2 DEF Push
<1>4. OutInv'
  BY <1>1, <1>3, OutFrame DEF OutOf, AInv
<1>5. PhaseInv' /\ FilesInv'
  BY <1>1, <1>3 DEF AInv, PhaseInv, FilesInv, OwnStep, SendPcs
<1>6. FreeInv'
  BY <1>1, <1>3 DEF AInv, FreeInv, SendingApp, OwnStep
<1>7. AnnounceInv'
  <2>1. Connected' <=> Connected
    BY <1>3 DEF Connected, ToDaemon
  <2>2. Resetting => Resetting'
    BY <1>3 DEF Resetting
  <2>3. SendingApp => SendingApp'
    BY <1>1, <1>3 DEF SendingApp, OwnStep
  <2>4. \A i \in 1 .. Size : ~WillSend(t, i)
    BY <1>3 DEF WillSend, BeforeNew
  <2>5. ASSUME Connected, ~Resetting, NEW i \in 1 .. Len(m_contexts')
        PROVE  Registered(m_contexts[i])' \/ \E u \in Threads : WillSend(u, i)'
    <3>1. CASE i \in 1 .. Size
      <4>1. Registered(m_contexts[i]) \/ \E u \in Threads \ {t} : WillSend(u, i)
        BY <2>4, <2>5, <3>1 DEF AInv, AnnounceInv
      <4>2. m_contexts'[i] = m_contexts[i]
        BY <1>1, <3>1 DEF OwnStep
      <4> QED
        BY <1>1, <1>3, <3>1, <4>1, <4>2, OthersSend DEF Registered
    <3>2. CASE i = Len(m_contexts')
      <4>1. m_contexts'[i] = ctx'[t]
        BY <1>2, <1>3, <3>2
      <4> QED
        BY <1>2, <1>3, <4>1 DEF WillSend, BeforeNew
    <3> QED
      BY <1>2, <1>3, <3>1, <3>2
  <2> QED
    BY <1>3, <2>1, <2>2, <2>3, <2>5 DEF AInv, AnnounceInv
<1> QED
  BY <1>4, <1>5, <1>6, <1>7 DEF AInv

\* open() may hand out the descriptor that is still kept although another
\* thread has closed it: that thread is going to forget it, or a third one has
\* just stored it and announces everything.
LEMMA OpenKeeps ==
  ASSUME IInv, AInv, NEW t \in Threads, OpenFifo(t)
  PROVE  AInv'
<1> USE DEF contextVars, fdVars, localVars, daemonVars, At, Goto
<1>1. OwnStep(t)
  BY OwnSteps DEF ThreadStep
<1>2. /\ pc \in [Threads -> Pcs] /\ files \in [Descriptors -> Int] /\ starts \in Nat
  BY DEF IInv, TypeOK, FdTypes, DaemonTypes
<1>3. /\ pc[t] = "open" /\ pc'[t] = "assign" /\ phase' = phase /\ fifo = "reading"
      /\ UNCHANGED <<m_daemonFileDescriptor, fifo, starts, appKnown, ctx,
                     registrations, mutex, m_contexts>>
  BY <1>2 DEF OpenFifo
<1>4. PICK d \in Descriptors : files[d] = 0 /\ files' = [files EXCEPT ![d] = starts]
  BY DEF OpenFifo, LowestFree
<1>5. OutInv'
  BY <1>1, <1>3, OutFrame DEF OutOf, AInv
<1>6. PhaseInv' /\ FilesInv'
  BY <1>1, <1>2, <1>3, <1>4 DEF AInv, PhaseInv, FilesInv, OwnStep, SendPcs
<1>7. SendingApp => SendingApp'
  BY <1>1, <1>3 DEF SendingApp, OwnStep
<1>8. FreeInv'
  BY <1>2, <1>3, <1>4, <1>7 DEF AInv, FreeInv, FilesInv
<1>9. AnnounceInv'
  <2>1. CASE Connected' => Connected
    <3>1. \A i \in 1 .. Size : WillSend(t, i) => WillSend(t, i)'
      BY <1>3 DEF WillSend, BeforeNew
    <3> QED
      BY <1>1, <1>3, <2>1, <3>1, AnnounceFrame DEF AInv
  <2>2. CASE Connected' /\ ~Connected
    <3>1. m_daemonFileDescriptor \in Descriptors /\ files[m_daemonFileDescriptor] = 0
      BY <1>2, <1>3, <1>4, <2>2 DEF Connected, ToDaemon
    <3>2. (\E u \in Threads : phase[u] = "reset") \/ SendingApp
      BY <3>1 DEF AInv, FreeInv
    <3>3. CASE \E u \in Threads : phase[u] = "reset"
      BY <1>3, <3>3 DEF AnnounceInv, Resetting
    <3>4. CASE SendingApp
      BY <1>7, <3>4 DEF AnnounceInv, SendingApp, WillSend
    <3> QED
      BY <3>2, <3>3, <3>4
  <2> QED
    BY <2>1, <2>2
<1> QED
  BY <1>5, <1>6, <1>8, <1>9 DEF AInv

\* A thread that stores a connection announces everything over it.
LEMMA AssignKeeps ==
  ASSUME IInv, AInv, NEW t \in Threads, Assign(t)
  PROVE  AInv'
<1> USE DEF contextVars, fdVars, localVars, daemonVars, At, Goto
<1>1. OwnStep(t)
  BY OwnSteps DEF ThreadStep
<1>2. /\ pc \in [Threads -> Pcs] /\ -1 \notin Descriptors
  BY DataAssumption DEF IInv, TypeOK
<1>3. /\ pc[t] = "assign" /\ phase' = phase
      /\ UNCHANGED <<fifo, starts, appKnown, ctx, files, registrations, mutex, m_contexts>>
      /\ m_daemonFileDescriptor' = opened[t]
      /\ pc'[t] = IF opened[t] = -1 THEN "after" ELSE "sendApp"
  BY <1>2 DEF Assign
<1>4. OutInv'
  BY <1>1, <1>3, OutFrame DEF OutOf, AInv
<1>5. PhaseInv' /\ FilesInv'
  BY <1>1, <1>3 DEF AInv, PhaseInv, FilesInv, OwnStep, SendPcs
<1>6. CASE opened[t] = -1
  <2>1. m_daemonFileDescriptor' \notin Descriptors
    BY <1>2, <1>3, <1>6
  <2> QED
    BY <1>4, <1>5, <2>1 DEF AInv, FreeInv, AnnounceInv, Connected, ToDaemon
<1>7. CASE opened[t] # -1
  <2>1. SendingApp' /\ \A i \in 1 .. Len(m_contexts') : WillSend(t, i)'
    BY <1>3, <1>7 DEF SendingApp, WillSend
  <2> QED
    BY <1>4, <1>5, <2>1 DEF AInv, FreeInv, AnnounceInv
<1> QED
  BY <1>6, <1>7

-----------------------------------------------------------------------------
(***************************************************************************)
(* send                                                                    *)
(***************************************************************************)

\* The caller goes on, or the registration is with the daemon.
LEMMA ReturnSteps ==
  ASSUME IInv, AInv, NEW t \in Threads, WriteDelivered(t) \/ WriteAppFile(t)
  PROVE  AInv'
<1> USE DEF contextVars, fdVars, localVars, daemonVars, Goto, Sending
<1>1. OwnStep(t)
  BY OwnSteps DEF ThreadStep
<1>2. /\ pc \in [Threads -> Pcs] /\ next \in [Threads -> Nat] /\ starts \in Nat
      /\ last \in [Threads -> Nat] /\ m_contexts \in Seq(Contexts)
  BY DEF IInv, TypeOK, LocalTypes, ContextTypes, DaemonTypes
<1>3. /\ pc[t] \in SendPcs /\ phase' = phase /\ phase[t] = "write"
      /\ UNCHANGED <<fifo, starts, ctx, files, mutex, m_contexts, last, out,
                     m_daemonFileDescriptor>>
      /\ Return(t) /\ (appKnown => appKnown')
      /\ registrations \subseteq registrations'
  <2>1. CASE WriteDelivered(t)
    <3>1. appKnown => appKnown'
      BY <2>1, Zenon DEF WriteDelivered
    <3> QED
      BY <2>1, <3>1 DEF WriteDelivered
  <2>2. CASE WriteAppFile(t)
    BY <2>2 DEF WriteAppFile
  <2> QED
    BY <2>1, <2>2
<1>4. pc'[t] \in {"range", "iterate", "unlock", "idle"}
  BY <1>2, <1>3 DEF Return, SendPcs
<1>5. OutInv'
  BY <1>1, <1>4, OutFrame DEF OutOf, AInv
<1>6. PhaseInv' /\ FilesInv'
  BY <1>1, <1>3 DEF AInv, PhaseInv, FilesInv, OwnStep
<1>7. m_daemonFileDescriptor \in Descriptors /\ files[m_daemonFileDescriptor] # 0
  <2>1. CASE WriteDelivered(t)
    BY <1>2, <2>1 DEF WriteDelivered, ToDaemon, AInv, FilesInv
  <2>2. CASE WriteAppFile(t)
    BY <2>2 DEF WriteAppFile
  <2> QED
    BY <2>1, <2>2
<1>8. FreeInv'
  BY <1>3, <1>7 DEF FreeInv
<1>9. AnnounceInv'
  <2>1. Connected' <=> Connected
    BY <1>3 DEF Connected, ToDaemon
  <2>2. ASSUME Connected
        PROVE  /\ pc[t] = "sendApp" => appKnown'
               /\ pc[t] \in {"sendAgain", "sendNew"} => Registered(out[t].ctx)'
    <3>1. WriteDelivered(t)
      BY <1>2, <2>2 DEF WriteAppFile, Connected, ToDaemon
    <3>2. /\ pc[t] = "sendApp" => appKnown'
          /\ pc[t] \in {"sendAgain", "sendNew"} =>
               [ctx |-> out[t].ctx, pos |-> out[t].pos] \in registrations'
      BY <3>1 DEF WriteDelivered
    <3> QED
      BY <1>3, <3>2 DEF Registered
  <2>3. ASSUME Connected, NEW i \in 1 .. Size, WillSend(t, i)
        PROVE  WillSend(t, i)' \/ Registered(m_contexts[i])'
    <3>1. OutOf(t)
      BY DEF AInv, OutInv
    <3>2. CASE pc[t] = "sendApp"
      BY <1>2, <1>3, <3>2 DEF Return, WillSend
    <3>3. CASE pc[t] = "sendAgain"
      BY <1>2, <1>3, <2>2, <2>3, <3>1, <3>3 DEF Return, WillSend, OutOf, BeforeNew
    <3>4. CASE pc[t] = "sendNew"
      BY <1>2, <1>3, <2>2, <2>3, <3>1, <3>4 DEF WillSend, OutOf, BeforeNew
    <3>5. CASE pc[t] = "sendLog"
      BY <2>3, <3>5 DEF WillSend, BeforeNew
    <3> QED
      BY <1>3, <3>2, <3>3, <3>4, <3>5 DEF SendPcs
  <2> QED
    BY <1>1, <1>3, <2>1, <2>2, <2>3, AnnounceFrame DEF AInv
<1> QED
  BY <1>5, <1>6, <1>8, <1>9 DEF AInv

\* After an error, the connection is closed and forgotten.
LEMMA ErrorSteps ==
  ASSUME IInv, AInv, NEW t \in Threads, WriteFails(t) \/ Close(t) \/ Reset(t)
  PROVE  AInv'
<1> USE DEF contextVars, fdVars, localVars, daemonVars, Goto, Sending
<1>1. OwnStep(t)
  BY OwnSteps DEF ThreadStep
<1>2. /\ pc \in [Threads -> Pcs] /\ next \in [Threads -> Nat] /\ starts \in Nat
      /\ files \in [Descriptors -> Int] /\ -1 \notin Descriptors
      /\ phase \in [Threads -> {"write", "close", "reset"}]
  BY DataAssumption DEF IInv, TypeOK, LocalTypes, DaemonTypes, FdTypes
<1>3. /\ pc[t] \in SendPcs
      /\ UNCHANGED <<fifo, starts, ctx, mutex, m_contexts, last, out, appKnown,
                     registrations>>
  BY DEF WriteFails, Close, Reset
<1>4. CASE WriteFails(t) \/ Close(t)
  <2>1. /\ UNCHANGED <<pc, next, m_daemonFileDescriptor>>
        /\ phase'[t] \in {"close", "reset"} /\ (Close(t) => phase'[t] = "reset")
    BY <1>2, <1>4 DEF WriteFails, Close
  <2>2. OutInv'
    BY <1>3, <2>1 DEF AInv, OutInv, OutOf
  <2>3. PhaseInv'
    BY <1>1, <1>3, <2>1 DEF AInv, PhaseInv, OwnStep
  <2>4. FilesInv'
    BY <1>2, <1>3, <1>4 DEF AInv, FilesInv, WriteFails, Close
  <2>5. FreeInv'
    <3>1. CASE WriteFails(t)
      <4>1. files' = files /\ phase[t] = "write" /\ m_daemonFileDescriptor' = m_daemonFileDescriptor
        BY <3>1 DEF WriteFails
      <4>2. \A u \in Threads : phase[u] = "reset" => phase'[u] = "reset"
        BY <1>1, <4>1 DEF OwnStep
      <4> QED
        BY <2>1, <4>1, <4>2 DEF AInv, FreeInv, SendingApp
    <3>2. CASE Close(t)
      BY <2>1, <3>2 DEF FreeInv
    <3> QED
      BY <1>4, <3>1, <3>2
  <2>6. AnnounceInv'
    <3>1. Resetting'
      BY <2>1 DEF Resetting
    <3> QED
      BY <3>1 DEF AnnounceInv
  <2> QED
    BY <2>2, <2>3, <2>4, <2>5, <2>6 DEF AInv
<1>5. CASE Reset(t)
  <2>1. /\ phase'[t] = "write" /\ files' = files
        /\ m_daemonFileDescriptor' = -1 /\ Return(t)
    BY <1>2, <1>5 DEF Reset
  <2>2. pc'[t] \in {"range", "iterate", "unlock", "idle"}
    BY <1>2, <1>3, <2>1 DEF Return, SendPcs
  <2>3. OutInv'
    BY <1>1, <2>2, OutFrame DEF OutOf, AInv
  <2>4. PhaseInv' /\ FilesInv'
    BY <1>1, <1>3, <2>1 DEF AInv, PhaseInv, FilesInv, OwnStep
  <2>5. FreeInv' /\ AnnounceInv'
    BY <1>2, <2>1 DEF FreeInv, AnnounceInv, Connected, ToDaemon
  <2> QED
    BY <2>3, <2>4, <2>5 DEF AInv
<1> QED
  BY <1>4, <1>5

-----------------------------------------------------------------------------
(***************************************************************************)
(* The reader, the end of the process, and the environment                 *)
(***************************************************************************)

\* A step of something else, which does not make a connection lead to the
\* daemon: what was announced to the daemon that ended does not matter.
LEMMA OutsideFrame ==
  ASSUME AInv,
         UNCHANGED <<pc, ctx, next, last, out, phase, m_contexts, m_daemonFileDescriptor>>,
         \A u \in Threads : mutex = u => mutex' = u,
         FilesInv', Connected' => Connected /\ UNCHANGED <<appKnown, registrations>>,
         \A d \in Descriptors : files'[d] = 0 => files[d] = 0
  PROVE  AInv'
<1>1. PhaseInv' /\ OutInv'
  BY DEF AInv, PhaseInv, OutInv, OutOf
<1>2. FreeInv'
  BY DEF AInv, FreeInv, SendingApp
<1>3. AnnounceInv'
  <2> SUFFICES ASSUME Connected' PROVE AnnounceInv'
    BY DEF AnnounceInv
  <2>1. ASSUME NEW u \in Threads, NEW i, WillSend(u, i) PROVE WillSend(u, i)'
    BY <2>1 DEF WillSend
  <2>2. /\ (Resetting => Resetting') /\ (SendingApp => SendingApp')
        /\ \A c : Registered(c) => Registered(c)'
    BY DEF Resetting, SendingApp, Registered
  <2> QED
    BY <2>1, <2>2 DEF AInv, AnnounceInv
<1> QED
  BY <1>1, <1>2, <1>3 DEF AInv

\* The reader and the end of the process.
LEMMA ReaderKeeps ==
  ASSUME IInv, AInv, ReaderStep \/ Exit \/ ShutdownStep \/ Terminated \/ UNCHANGED vars
  PROVE  AInv'
<1>1. UNCHANGED <<pc, ctx, next, last, out, phase, m_contexts, m_daemonFileDescriptor,
                  files, fifo, starts, appKnown, registrations>>
  BY DEF ReaderStep, CheckStop, HandleIncomingMessage, PollStopped, LockReader,
     ApplyLogLevel, BatchDone, Exit, ShutdownStep, WakeReader, Join, Terminated, vars,
     contextVars, fdVars, localVars, daemonVars
<1>2. \A u \in Threads : mutex = u => mutex' = u
  BY NameAssumption DEF ReaderStep, CheckStop, HandleIncomingMessage, PollStopped,
     LockReader, ApplyLogLevel, BatchDone, Exit, ShutdownStep, WakeReader, Join,
     Terminated, vars, ReaderAt, IInv, MutexInv
<1>3. FilesInv' /\ (Connected' => Connected)
  BY <1>1 DEF AInv, FilesInv, Connected, ToDaemon
<1> QED
  BY <1>1, <1>2, <1>3, OutsideFrame

\* The daemon and the rest of the application.
LEMMA EnvironmentKeeps ==
  ASSUME IInv, AInv, Environment
  PROVE  AInv'
<1> USE DEF contextVars, fdVars, localVars, daemonVars
<1>1. /\ starts \in Nat /\ files \in [Descriptors -> Int]
  BY DEF IInv, TypeOK, DaemonTypes, FdTypes
<1>2. UNCHANGED <<pc, ctx, next, last, out, phase, m_contexts, m_daemonFileDescriptor, mutex>>
  BY DEF Environment, DaemonStart, DaemonStop, DaemonCrash, DaemonEnds,
     DaemonSetLevel, OpenAppFile
<1>3. CASE DaemonStart
  <2>1. files' = files /\ starts' = starts + 1
    BY <1>3 DEF DaemonStart
  <2>2. FilesInv' /\ ~Connected'
    BY <1>1, <1>2, <2>1 DEF AInv, FilesInv, Connected, ToDaemon
  <2> QED
    BY <1>2, <2>1, <2>2, OutsideFrame
<1>4. CASE DaemonStop \/ DaemonCrash
  <2>1. files' = files /\ starts' = starts /\ fifo' # "reading"
    BY <1>4 DEF DaemonStop, DaemonCrash, DaemonEnds
  <2>2. FilesInv' /\ ~Connected'
    BY <2>1 DEF AInv, FilesInv, Connected, ToDaemon
  <2> QED
    BY <1>2, <2>1, <2>2, OutsideFrame
<1>5. CASE DaemonSetLevel
  <2>1. UNCHANGED <<files, fifo, starts, appKnown, registrations>>
    BY <1>5 DEF DaemonSetLevel
  <2>2. FilesInv' /\ (Connected' => Connected)
    BY <1>2, <2>1 DEF AInv, FilesInv, Connected, ToDaemon
  <2> QED
    BY <1>2, <2>1, <2>2, OutsideFrame
<1>6. CASE OpenAppFile
  <2>1. /\ UNCHANGED <<fifo, starts, appKnown, registrations>>
        /\ \E d \in Descriptors : files' = [files EXCEPT ![d] = -1]
    BY <1>6 DEF OpenAppFile
  <2>2. \A d \in Descriptors : files'[d] = files[d] \/ files'[d] = -1
    BY <1>1, <2>1
  <2>3. FilesInv' /\ (Connected' => Connected)
    BY <1>1, <1>2, <2>1, <2>2 DEF AInv, FilesInv, Connected, ToDaemon
  <2> QED
    BY <1>1, <1>2, <2>1, <2>2, <2>3, OutsideFrame
<1> QED
  BY <1>3, <1>4, <1>5, <1>6 DEF Environment

-----------------------------------------------------------------------------
LEMMA AnnouncedInit == Init => AInv
<1> SUFFICES ASSUME Init PROVE AInv
  OBVIOUS
<1>1. -1 \notin Descriptors
  BY DataAssumption
<1> QED
  BY <1>1 DEF Init, AInv, PhaseInv, OutInv, OutOf, FilesInv, FreeInv, AnnounceInv,
     Connected, ToDaemon

LEMMA AnnouncedStep == IInv /\ AInv /\ [Next]_vars => AInv'
<1> SUFFICES ASSUME IInv, AInv, [Next]_vars PROVE AInv'
  OBVIOUS
<1>1. ASSUME NEW t \in Threads, LogCall(t) \/ ThreadStep(t) PROVE AInv'
  BY <1>1, CallSteps, ConnectSteps, AfterSteps, PushKeeps, OpenKeeps, AssignKeeps,
     ReturnSteps, ErrorSteps DEF ThreadStep
<1>2. CASE ReaderStep \/ Exit \/ ShutdownStep \/ Terminated \/ UNCHANGED vars
  BY <1>2, ReaderKeeps
<1>3. CASE Environment
  BY <1>3, EnvironmentKeeps
<1> QED
  BY <1>1, <1>2, <1>3 DEF Next

LEMMA AnnouncementsHold == Spec => [](IInv /\ AInv)
  BY InitIInv, NextIInv, AnnouncedInit, AnnouncedStep, PTL DEF Spec

\* QuiescentDaemonKnowsContexts: whichever threads registered, reconnected and
\* failed to write meanwhile, once no log call is under way a connection that
\* leads to the running daemon is one over which it has been told of the
\* application and of every context.
THEOREM ContextsAreAnnounced == Spec => []QuiescentDaemonKnowsContexts
<1>1. IInv /\ AInv => QuiescentDaemonKnowsContexts
  <2> SUFFICES ASSUME IInv, AInv, \A t \in Threads : pc[t] = "idle", Connected
               PROVE  appKnown /\ \A i \in 1 .. Size : Announced(m_contexts[i])
    BY DEF QuiescentDaemonKnowsContexts, Connected
  <2>1. ~Resetting
    BY DEF AInv, PhaseInv, Resetting, SendPcs
  <2>2. ~SendingApp /\ \A t \in Threads, i \in 1 .. Size : ~WillSend(t, i)
    BY DEF SendingApp, WillSend, BeforeNew
  <2> QED
    BY <2>1, <2>2 DEF AInv, AnnounceInv, Announced, Registered
<1> QED
  BY <1>1, AnnouncementsHold, PTL

-----------------------------------------------------------------------------
(***************************************************************************)
(* An application that logs from one thread: its descriptors               *)
(***************************************************************************)

OneThread == \A t, u \in Threads : t = u

\* The connection is opened when there is none ...
OpenInv ==
  \A t \in Threads :
    /\ pc[t] \in {"open", "blocked", "assign"} => m_daemonFileDescriptor = -1
    /\ pc[t] = "assign" /\ opened[t] # -1 => files[opened[t]] >= 1

\* ... and the descriptor that is kept is one of a daemon's FIFO until it is
\* closed, when it is nobody's or has become one of the application.
KeptInv ==
  m_daemonFileDescriptor # -1 =>
    IF \E t \in Threads : phase[t] = "reset"
    THEN files[m_daemonFileDescriptor] <= 0
    ELSE files[m_daemonFileDescriptor] >= 1

DescriptorInv == OpenInv /\ KeptInv /\ NoDescriptorLeaks /\ AppFilesIntact

\* The steps that only move the thread.
LEMMA MovingSteps ==
  ASSUME IInv, AInv, DescriptorInv, NEW t \in Threads, OneThread, OwnStep(t),
         UNCHANGED <<m_daemonFileDescriptor, files, harmed, phase>>,
         pc[t] # "assign", pc'[t] # "assign",
         pc'[t] \in {"open", "blocked"} => m_daemonFileDescriptor = -1
  PROVE  DescriptorInv'
<1>1. \A u \in Threads : u = t
  BY DEF OneThread
<1> QED
  BY <1>1 DEF DescriptorInv, OpenInv, KeptInv, NoDescriptorLeaks, AppFilesIntact

LEMMA DescriptorThreadStep ==
  ASSUME IInv, AInv, DescriptorInv, NEW t \in Threads, OneThread,
         LogCall(t) \/ ThreadStep(t)
  PROVE  DescriptorInv'
<1> USE DEF contextVars, fdVars, localVars, At, Goto
<1>0. OwnStep(t)
  BY OwnSteps
<1>1. /\ pc \in [Threads -> Pcs] /\ files \in [Descriptors -> Int] /\ starts \in Nat
      /\ opened \in [Threads -> Descriptors \cup {-1}] /\ -1 \notin Descriptors
      /\ phase \in [Threads -> {"write", "close", "reset"}]
      /\ m_daemonFileDescriptor \in Descriptors \cup {-1}
      /\ \A u \in Threads : u = t
  BY DataAssumption DEF IInv, TypeOK, FdTypes, LocalTypes, DaemonTypes, OneThread
<1>2. phase[t] # "write" => pc[t] \in SendPcs
  BY DEF AInv, PhaseInv
<1>3. CASE \/ LogCall(t) \/ GetInstance(t) \/ InitAborts(t) \/ Lock(t)
           \/ SetPosition(t) \/ Unlock(t) \/ SetRegistered(t) \/ IsEnabled(t)
           \/ CreateLog(t) \/ Push(t)
  <2>1. /\ UNCHANGED <<m_daemonFileDescriptor, files, harmed, phase>>
        /\ pc[t] # "assign" /\ pc'[t] \notin {"assign", "open", "blocked"}
    BY <1>1, <1>3 DEF LogCall, CheckContext, GetInstance, InitAborts, Lock, SetPosition,
       Unlock, SetRegistered, IsEnabled, CreateLog, Push
  <2> QED
    BY <1>0, <2>1, MovingSteps
<1>4. CASE \/ CheckConnected(t) \/ OpenBlocks(t) \/ BeginRange(t) \/ IterateNext(t)
           \/ IterateFreed(t) \/ IterateEnd(t) \/ RegisterNew(t) \/ SendLog(t)
  <2>1. /\ UNCHANGED <<m_daemonFileDescriptor, files, harmed, phase>>
        /\ pc[t] # "assign" /\ pc'[t] # "assign"
        /\ pc'[t] \in {"open", "blocked"} => m_daemonFileDescriptor = -1
    BY <1>1, <1>4 DEF CheckConnected, OpenBlocks, BeginRange, IterateNext,
       PrepareRegistration, IterateFreed, IterateEnd, RegisterNew, SendLog,
       DescriptorInv, OpenInv
  <2> QED
    BY <1>0, <2>1, MovingSteps
<1>5. CASE WriteDelivered(t)
  <2>1. /\ UNCHANGED <<m_daemonFileDescriptor, files, harmed, phase>> /\ Return(t)
        /\ pc[t] \in SendPcs
    BY <1>5 DEF WriteDelivered, Sending
  <2>2. pc[t] # "assign" /\ pc'[t] \notin {"assign", "open", "blocked"}
    BY <1>1, <2>1 DEF Return, SendPcs
  <2> QED
    BY <1>0, <2>1, <2>2, MovingSteps
<1>6. CASE WriteAppFile(t)
  <2>1. /\ phase[t] = "write" /\ m_daemonFileDescriptor \in Descriptors
        /\ files[m_daemonFileDescriptor] = -1
    BY <1>6 DEF WriteAppFile, Sending
  <2> QED
    BY <1>1, <2>1 DEF DescriptorInv, KeptInv
<1>7. CASE WriteFails(t)
  <2>1. /\ UNCHANGED <<pc, opened, m_daemonFileDescriptor, files, harmed>>
        /\ phase[t] = "write" /\ phase'[t] = "close"
    BY <1>1, <1>7 DEF WriteFails, Sending
  <2> QED
    BY <1>1, <2>1 DEF DescriptorInv, OpenInv, KeptInv, NoDescriptorLeaks, AppFilesIntact
<1>8. CASE Close(t)
  <2>1. /\ UNCHANGED <<pc, opened, m_daemonFileDescriptor>>
        /\ phase[t] = "close" /\ phase'[t] = "reset" /\ pc[t] \in SendPcs
    BY <1>1, <1>8 DEF Close, Sending
  <2>2. CASE m_daemonFileDescriptor = -1
    BY <1>1, <1>8, <2>1, <2>2 DEF Close, DescriptorInv, OpenInv, KeptInv,
       NoDescriptorLeaks, AppFilesIntact
  <2>3. CASE m_daemonFileDescriptor \in Descriptors
    <3>1. files[m_daemonFileDescriptor] >= 1
      BY <1>1, <2>1, <2>3 DEF DescriptorInv, KeptInv
    <3>2. files' = [files EXCEPT ![m_daemonFileDescriptor] = 0] /\ harmed' = harmed
      BY <1>8, <2>3, <3>1 DEF Close
    <3> QED
      BY <1>1, <2>1, <2>3, <3>2 DEF SendPcs, DescriptorInv, OpenInv, KeptInv,
         NoDescriptorLeaks, AppFilesIntact
  <2> QED
    BY <1>1, <2>2, <2>3
<1>9. CASE Reset(t)
  <2>1. /\ UNCHANGED <<opened, files, harmed>> /\ Return(t) /\ pc[t] \in SendPcs
        /\ phase[t] = "reset" /\ m_daemonFileDescriptor' = -1
    BY <1>1, <1>9 DEF Reset, Sending
  <2>2. pc[t] # "assign" /\ pc'[t] \notin {"assign", "open", "blocked"}
    BY <1>1, <2>1 DEF Return, SendPcs
  <2>3. \A d \in Descriptors : files[d] <= 0
    BY <1>1, <2>1, <2>2 DEF DescriptorInv, KeptInv, NoDescriptorLeaks
  <2> QED
    BY <1>1, <2>1, <2>2, <2>3 DEF DescriptorInv, OpenInv, KeptInv, NoDescriptorLeaks,
       AppFilesIntact
<1>10. CASE OpenFifo(t)
  <2>1. /\ UNCHANGED <<m_daemonFileDescriptor, harmed>> /\ pc[t] = "open"
        /\ pc'[t] = "assign" /\ starts >= 1
    BY <1>1, <1>10 DEF OpenFifo, AInv, FilesInv
  <2>2. PICK d \in Descriptors : /\ files' = [files EXCEPT ![d] = starts]
                                 /\ opened' = [opened EXCEPT ![t] = d]
    BY <1>10 DEF OpenFifo
  <2>3. m_daemonFileDescriptor = -1 /\ \A e \in Descriptors : files[e] <= 0
    BY <1>1, <2>1 DEF DescriptorInv, OpenInv, NoDescriptorLeaks
  <2> QED
    BY <1>1, <2>1, <2>2, <2>3 DEF DescriptorInv, OpenInv, KeptInv, NoDescriptorLeaks,
       AppFilesIntact
<1>11. CASE OpenFails(t)
  <2>1. /\ UNCHANGED <<m_daemonFileDescriptor, harmed, files>> /\ pc[t] = "open"
        /\ pc'[t] = "assign" /\ opened'[t] = -1
    BY <1>1, <1>11 DEF OpenFails
  <2>2. m_daemonFileDescriptor = -1 /\ \A e \in Descriptors : files[e] <= 0
    BY <1>1, <2>1 DEF DescriptorInv, OpenInv, NoDescriptorLeaks
  <2> QED
    BY <1>1, <2>1, <2>2 DEF DescriptorInv, OpenInv, KeptInv, NoDescriptorLeaks,
       AppFilesIntact
<1>12. CASE Assign(t)
  <2>1. /\ UNCHANGED <<files, harmed, phase, opened>> /\ pc[t] = "assign"
        /\ pc'[t] \in {"after", "sendApp"} /\ m_daemonFileDescriptor' = opened[t]
    BY <1>1, <1>12 DEF Assign
  <2>2. phase[t] = "write"
    BY <1>1, <1>2, <2>1 DEF SendPcs
  <2>3. \A d \in Descriptors : files[d] >= 1 => d = opened[t]
    BY <1>1, <2>1 DEF DescriptorInv, OpenInv, NoDescriptorLeaks
  <2> QED
    BY <1>1, <2>1, <2>2, <2>3 DEF DescriptorInv, OpenInv, KeptInv, NoDescriptorLeaks,
       AppFilesIntact
<1> QED
  BY <1>3, <1>4, <1>5, <1>6, <1>7, <1>8, <1>9, <1>10, <1>11, <1>12 DEF ThreadStep

LEMMA DescriptorStep ==
  ASSUME OneThread, IInv, AInv, DescriptorInv, [Next]_vars
  PROVE  DescriptorInv'
<1> USE DEF DescriptorInv, OpenInv, KeptInv, NoDescriptorLeaks, AppFilesIntact,
       contextVars, fdVars, localVars
<1>1. ASSUME NEW t \in Threads, LogCall(t) \/ ThreadStep(t) PROVE DescriptorInv'
  BY <1>1, DescriptorThreadStep
<1>2. CASE UNCHANGED <<pc, opened, phase, m_daemonFileDescriptor, files, harmed>>
  BY <1>2
<1>3. CASE ReaderStep \/ Exit \/ ShutdownStep \/ Terminated \/ UNCHANGED vars
  BY <1>2, <1>3 DEF ReaderStep, CheckStop, HandleIncomingMessage, PollStopped, LockReader,
     ApplyLogLevel, BatchDone, Exit, ShutdownStep, WakeReader, Join, Terminated, vars
<1>4. CASE DaemonStart \/ DaemonStop \/ DaemonCrash \/ DaemonSetLevel
  BY <1>2, <1>4 DEF DaemonStart, DaemonStop, DaemonCrash, DaemonEnds, DaemonSetLevel
<1>5. CASE OpenAppFile
  <2>1. /\ files \in [Descriptors -> Int]
        /\ opened \in [Threads -> Descriptors \cup {-1}]
        /\ m_daemonFileDescriptor \in Descriptors \cup {-1}
    BY DEF IInv, TypeOK, FdTypes, LocalTypes
  <2>2. UNCHANGED <<pc, opened, phase, m_daemonFileDescriptor, harmed>>
    BY <1>5 DEF OpenAppFile
  <2>3. PICK d \in Descriptors : files[d] = 0 /\ files' = [files EXCEPT ![d] = -1]
    BY <1>5 DEF OpenAppFile, LowestFree
  <2> QED
    BY <2>1, <2>2, <2>3
<1> QED
  BY <1>1, <1>3, <1>4, <1>5 DEF Next, Environment

LEMMA DescriptorsHold ==
  ASSUME OneThread
  PROVE  Spec => []DescriptorInv
<1>1. Init => DescriptorInv
  BY DEF Init, DescriptorInv, OpenInv, KeptInv, NoDescriptorLeaks, AppFilesIntact
<1>2. IInv /\ AInv /\ DescriptorInv /\ [Next]_vars => DescriptorInv'
  BY DescriptorStep
<1> QED
  BY <1>1, <1>2, AnnouncementsHold, PTL DEF Spec

\* NoDescriptorLeaks: with one logging thread, each descriptor on a daemon's FIFO
\* is the one that is kept or about to be, whatever write fails and whichever
\* daemon is running.
THEOREM DescriptorsAreKept ==
  ASSUME OneThread
  PROVE  Spec => []NoDescriptorLeaks
<1>1. DescriptorInv => NoDescriptorLeaks
  BY DEF DescriptorInv
<1> QED
  BY <1>1, DescriptorsHold, PTL

\* AppFilesIntact: with one logging thread, send() neither writes to nor closes a
\* file of the application, although it gets the numbers of closed descriptors.
THEOREM FilesOfTheApplicationAreSafe ==
  ASSUME OneThread
  PROVE  Spec => []AppFilesIntact
<1>1. DescriptorInv => AppFilesIntact
  BY DEF DescriptorInv
<1> QED
  BY <1>1, DescriptorsHold, PTL

-----------------------------------------------------------------------------
(***************************************************************************)
(* An application that logs from one thread: its logs                      *)
(***************************************************************************)

Listed(c) == \E i \in 1 .. Size : m_contexts[i] = c

\* A context that is registered, or whose registration has come so far, is in
\* m_contexts.
ListedInv ==
  /\ \A c \in Contexts : m_bRegistered[c] => Listed(c)
  /\ \A t \in Threads :
       pc[t] \notin {"idle", "getInstance", "lock", "setPosition", "push"} =>
         Listed(ctx[t])

\* What was registered has its ids, and a registration is sent after they were
\* filled in.
IdsInv ==
  /\ \A c \in Contexts : Registered(c) => idsAssigned[c]
  /\ \A t \in Threads : pc[t] \in {"sendAgain", "sendNew"} => idsAssigned[out[t].ctx]

\* A log that can still reach the daemon carries its ids.
LogInv ==
  \A t \in Threads :
    pc[t] = "sendLog" => out[t].ctx = ctx[t] /\ (Connected => out[t].ids)

LogsInv == ListedInv /\ IdsInv /\ LogInv /\ LogsCarryIds /\ LogsAreAnnounced

\* Where an entry of the only thread is sent to a running daemon, its context
\* was announced.
LEMMA AnnouncedBeforeLog ==
  ASSUME OneThread, IInv, AInv, ListedInv, Connected, NEW t \in Threads,
         \/ pc[t] = "after" /\ mutex # t
         \/ pc[t] = "sendLog" /\ phase[t] = "write"
  PROVE  Announced(ctx[t]) /\ Registered(ctx[t]) /\ ctx[t] \in Contexts
<1>1. ctx[t] \in Contexts
  BY DEF IInv, TypeOK, LocalTypes
<1>2. PICK i \in 1 .. Size : m_contexts[i] = ctx[t]
  BY DEF ListedInv, Listed
<1>3. \A u \in Threads : u = t
  BY DEF OneThread
<1>4. ~Resetting
  BY <1>3 DEF AInv, PhaseInv, Resetting, SendPcs
<1>5. ~SendingApp /\ \A u \in Threads : ~WillSend(u, i)
  BY <1>3 DEF SendingApp, WillSend, BeforeNew
<1>6. appKnown /\ Registered(m_contexts[i])
  BY <1>4, <1>5 DEF AInv, AnnounceInv
<1> QED
  BY <1>1, <1>2, <1>6 DEF Announced, Registered

\* The list only grows.
LEMMA ListedStays ==
  ASSUME NEW t \in Threads, OwnStep(t), NEW c, Listed(c)
  PROVE  Listed(c)'
<1>1. PICK i \in 1 .. Size : m_contexts[i] = c
  BY DEF Listed
<1>2. i \in 1 .. Len(m_contexts') /\ m_contexts'[i] = c
  BY <1>1 DEF OwnStep
<1> QED
  BY <1>2 DEF Listed

LEMMA ListedThreadStep ==
  ASSUME IInv, ListedInv, NEW t \in Threads, LogCall(t) \/ ThreadStep(t)
  PROVE  ListedInv'
<1> USE DEF contextVars, localVars, At, Goto
<1> DEFINE Early == {"idle", "getInstance", "lock", "setPosition", "push"}
<1>1. OwnStep(t)
  BY OwnSteps
<1>2. /\ pc \in [Threads -> Pcs] /\ ctx \in [Threads -> Contexts]
      /\ m_bRegistered \in [Contexts -> BOOLEAN] /\ m_contexts \in Seq(Contexts)
  BY DEF IInv, TypeOK, LocalTypes, ContextTypes
<1>3. ASSUME m_bRegistered' = m_bRegistered \/ SetRegistered(t),
             pc'[t] \notin Early => Listed(ctx[t])'
      PROVE  ListedInv'
  <2>1. \A u \in Threads \ {t} : pc'[u] \notin Early => Listed(ctx[u])'
    BY <1>1, ListedStays DEF ListedInv, OwnStep, Listed
  <2>2. ASSUME NEW c \in Contexts, m_bRegistered'[c] PROVE Listed(c)'
    <3>1. CASE m_bRegistered[c]
      BY <1>1, <3>1, ListedStays DEF ListedInv
    <3>2. CASE c = ctx[t] /\ SetRegistered(t)
      BY <1>1, <3>2, ListedStays DEF ListedInv, SetRegistered
    <3> QED
      BY <1>2, <1>3, <2>2, <3>1, <3>2 DEF SetRegistered
  <2> QED
    BY <1>3, <2>1, <2>2 DEF ListedInv
<1>4. CASE LogCall(t)
  <2>1. PICK c \in Contexts, l \in LogLevels : CheckContext(t, c, l)
    BY <1>4 DEF LogCall
  <2>2. /\ ctx'[t] = c /\ UNCHANGED <<m_bRegistered, m_contexts>>
        /\ pc'[t] = IF m_bRegistered[c] THEN "isEnabled" ELSE "getInstance"
    BY <1>2, <2>1 DEF CheckContext
  <2>3. pc'[t] \notin Early => Listed(ctx[t])'
    BY <2>2 DEF ListedInv, Listed
  <2> QED
    BY <1>3, <2>2, <2>3
<1>5. CASE Push(t)
  <2>1. /\ UNCHANGED <<ctx, m_bRegistered>> /\ ctx[t] \in Contexts
        /\ m_contexts' = Append(m_contexts, ctx[t])
    BY <1>2, <1>5 DEF Push
  <2>2. Len(m_contexts') \in 1 .. Len(m_contexts') /\ m_contexts'[Len(m_contexts')] = ctx'[t]
    BY <1>2, <2>1
  <2>3. Listed(ctx[t])'
    BY <2>2 DEF Listed
  <2> QED
    BY <1>3, <2>1, <2>3
<1>6. ASSUME UNCHANGED ctx, m_bRegistered' = m_bRegistered \/ SetRegistered(t),
             pc[t] \in Early => pc'[t] \in Early
      PROVE  ListedInv'
  <2>1. pc'[t] \notin Early => Listed(ctx[t])'
    BY <1>1, <1>6, ListedStays DEF ListedInv
  <2> QED
    BY <1>3, <1>6, <2>1
<1>7. CASE \/ GetInstance(t) \/ InitAborts(t) \/ Lock(t) \/ SetPosition(t) \/ Unlock(t)
           \/ SetRegistered(t) \/ IsEnabled(t) \/ CreateLog(t)
  <2>1. /\ UNCHANGED ctx /\ (m_bRegistered' = m_bRegistered \/ SetRegistered(t))
        /\ (pc[t] \in Early => pc'[t] \in Early)
    BY <1>2, <1>7 DEF GetInstance, InitAborts, Lock, SetPosition, Unlock, SetRegistered,
       IsEnabled, CreateLog
  <2> QED
    BY <1>6, <2>1
<1>8. CASE \/ CheckConnected(t) \/ OpenFifo(t) \/ OpenFails(t) \/ OpenBlocks(t)
           \/ Assign(t) \/ BeginRange(t) \/ IterateNext(t) \/ IterateFreed(t)
           \/ IterateEnd(t) \/ RegisterNew(t) \/ SendLog(t)
  <2>1. UNCHANGED <<ctx, m_bRegistered>> /\ pc[t] \notin Early
    BY <1>8 DEF CheckConnected, OpenFifo, OpenFails, OpenBlocks, Assign, BeginRange,
       IterateNext, PrepareRegistration, IterateFreed, IterateEnd, RegisterNew, SendLog
  <2> QED
    BY <1>6, <2>1
<1>9. CASE WriteDelivered(t) \/ WriteAppFile(t) \/ WriteFails(t) \/ Close(t) \/ Reset(t)
  <2>1. UNCHANGED <<ctx, m_bRegistered>> /\ pc[t] \notin Early
    BY <1>9 DEF WriteDelivered, WriteAppFile, WriteFails, Close, Reset, Sending, SendPcs
  <2> QED
    BY <1>6, <2>1
<1> QED
  BY <1>4, <1>5, <1>7, <1>8, <1>9 DEF ThreadStep

\* What a step of the only thread has to establish: it prepares and sends what it
\* has filled in.
LEMMA LogFrame ==
  ASSUME OneThread, IInv, IdsInv, LogInv, LogsCarryIds, LogsAreAnnounced,
         NEW t \in Threads, OwnStep(t),
         idsAssigned' \in [Contexts -> BOOLEAN],
         \A c \in Contexts : idsAssigned[c] => idsAssigned'[c],
         \A r \in registrations' :
           r \in registrations \/ (r.ctx = out[t].ctx /\ idsAssigned[out[t].ctx]),
         \A l \in logs' : l \in logs \/ (l.ids /\ l.announced),
         pc'[t] \in {"sendAgain", "sendNew"} => idsAssigned'[out'[t].ctx],
         pc'[t] = "sendLog" => out'[t].ctx = ctx'[t] /\ (Connected' => out'[t].ids)
  PROVE  IdsInv' /\ LogInv' /\ LogsCarryIds' /\ LogsAreAnnounced'
<1>1. \A u \in Threads : out[u].ctx \in Contexts
  BY DEF IInv, TypeOK, LocalTypes, Message
<1>2. \A c \in Contexts : Registered(c)' => idsAssigned'[c]
  BY <1>1 DEF IdsInv, Registered
<1>3. \A u \in Threads : pc'[u] \in {"sendAgain", "sendNew"} => idsAssigned'[out'[u].ctx]
  BY <1>1 DEF IdsInv, OwnStep
<1>4. LogInv'
  BY DEF LogInv, OneThread
<1>5. LogsCarryIds' /\ LogsAreAnnounced'
  BY DEF LogsCarryIds, LogsAreAnnounced
<1> QED
  BY <1>2, <1>3, <1>4, <1>5 DEF IdsInv

\* The steps of the thread outside send.
LEMMA LogQuietSteps ==
  ASSUME OneThread, IInv, AInv, LogsInv, NEW t \in Threads,
         \/ LogCall(t) \/ GetInstance(t) \/ InitAborts(t) \/ Lock(t) \/ SetPosition(t)
         \/ Push(t) \/ Unlock(t) \/ SetRegistered(t) \/ IsEnabled(t) \/ CreateLog(t)
         \/ CheckConnected(t) \/ OpenFifo(t) \/ OpenFails(t) \/ OpenBlocks(t)
         \/ Assign(t) \/ BeginRange(t) \/ IterateFreed(t) \/ IterateEnd(t)
  PROVE  IdsInv' /\ LogInv' /\ LogsCarryIds' /\ LogsAreAnnounced'
<1> USE DEF contextVars, fdVars, localVars, daemonVars, At, Goto
<1>1. OwnStep(t)
  BY OwnSteps DEF ThreadStep
<1>2. pc \in [Threads -> Pcs] /\ idsAssigned \in [Contexts -> BOOLEAN]
  BY DEF IInv, TypeOK, ContextTypes
<1>3. /\ UNCHANGED <<idsAssigned, registrations, logs>>
      /\ pc'[t] \notin {"sendAgain", "sendNew", "sendLog"}
  BY <1>2 DEF LogCall, CheckContext, GetInstance, InitAborts, Lock, SetPosition, Push,
     Unlock, SetRegistered, IsEnabled, CreateLog, CheckConnected, OpenFifo, OpenFails,
     OpenBlocks, Assign, BeginRange, IterateFreed, IterateEnd
<1> QED
  BY <1>1, <1>2, <1>3, LogFrame DEF LogsInv

\* sendContextRegistration and sendLog fill in what they are going to send.
LEMMA LogPrepareSteps ==
  ASSUME OneThread, IInv, AInv, LogsInv, NEW t \in Threads,
         IterateNext(t) \/ RegisterNew(t) \/ SendLog(t)
  PROVE  IdsInv' /\ LogInv' /\ LogsCarryIds' /\ LogsAreAnnounced'
<1> USE DEF contextVars, fdVars, localVars, daemonVars, At, Goto
<1>1. OwnStep(t)
  BY OwnSteps DEF ThreadStep
<1>2. /\ pc \in [Threads -> Pcs] /\ idsAssigned \in [Contexts -> BOOLEAN]
      /\ out \in [Threads -> Message] /\ ctx[t] \in Contexts
      /\ m_contexts \in Seq(Contexts)
  BY DEF IInv, TypeOK, LocalTypes, ContextTypes
<1>3. /\ UNCHANGED <<registrations, logs, m_daemonFileDescriptor, files, fifo, starts, ctx>>
  BY DEF IterateNext, RegisterNew, SendLog
<1>4. Connected' <=> Connected
  BY <1>3 DEF Connected, ToDaemon
<1>5. ASSUME NEW c \in Contexts, PrepareRegistration(t, c),
             pc'[t] \in {"sendAgain", "sendNew"}
      PROVE  IdsInv' /\ LogInv' /\ LogsCarryIds' /\ LogsAreAnnounced'
  <2>1. /\ idsAssigned' \in [Contexts -> BOOLEAN] /\ idsAssigned'[out'[t].ctx]
        /\ \A d \in Contexts : idsAssigned[d] => idsAssigned'[d]
    BY <1>2, <1>5 DEF PrepareRegistration
  <2> QED
    BY <1>1, <1>3, <1>4, <1>5, <2>1, LogFrame DEF LogsInv
<1>6. CASE IterateNext(t)
  <2>1. next[t] \in 1 .. Size
    BY <1>6 DEF IterateNext, IInv, RangeInv, TypeOK, LocalTypes
  <2>2. m_contexts[next[t]] \in Contexts
    BY <1>2, <2>1
  <2>3. PrepareRegistration(t, m_contexts[next[t]]) /\ pc'[t] = "sendAgain"
    BY <1>2, <1>6 DEF IterateNext
  <2> QED
    BY <1>5, <2>2, <2>3
<1>7. CASE RegisterNew(t) /\ m_daemonFileDescriptor # -1
  <2>1. PrepareRegistration(t, ctx[t]) /\ pc'[t] = "sendNew"
    BY <1>2, <1>7 DEF RegisterNew
  <2> QED
    BY <1>2, <1>5, <2>1
<1>8. CASE (RegisterNew(t) \/ SendLog(t)) /\ m_daemonFileDescriptor = -1
  <2>1. idsAssigned' = idsAssigned /\ pc'[t] \in {"unlock", "idle"}
    BY <1>2, <1>8 DEF RegisterNew, SendLog
  <2> QED
    BY <1>1, <1>2, <1>3, <1>4, <2>1, LogFrame DEF LogsInv
<1>9. CASE SendLog(t) /\ m_daemonFileDescriptor # -1
  <2>1. /\ idsAssigned' = idsAssigned /\ pc[t] = "after" /\ pc'[t] = "sendLog" /\ mutex # t
        /\ out'[t] = [ctx |-> ctx[t], pos |-> -1, ids |-> idsAssigned[ctx[t]]]
    BY <1>2, <1>9 DEF SendLog
  <2>2. Connected => out'[t].ids
    BY <2>1, AnnouncedBeforeLog DEF LogsInv, IdsInv
  <2> QED
    BY <1>1, <1>2, <1>3, <1>4, <2>1, <2>2, LogFrame DEF LogsInv
<1> QED
  BY <1>6, <1>7, <1>8, <1>9

\* A log that reaches the daemon was announced before.
LEMMA LogSendSteps ==
  ASSUME OneThread, IInv, AInv, LogsInv, NEW t \in Threads,
         \/ WriteDelivered(t) \/ WriteAppFile(t) \/ WriteFails(t) \/ Close(t) \/ Reset(t)
  PROVE  IdsInv' /\ LogInv' /\ LogsCarryIds' /\ LogsAreAnnounced'
<1> USE DEF contextVars, fdVars, localVars, daemonVars, Goto, Sending
<1>1. OwnStep(t)
  BY OwnSteps DEF ThreadStep
<1>2. /\ pc \in [Threads -> Pcs] /\ idsAssigned \in [Contexts -> BOOLEAN]
      /\ files \in [Descriptors -> Int] /\ starts \in Nat /\ -1 \notin Descriptors
      /\ m_daemonFileDescriptor \in Descriptors \cup {-1}
  BY DataAssumption DEF IInv, TypeOK, ContextTypes, FdTypes, DaemonTypes
<1>3. UNCHANGED <<idsAssigned, out, ctx, fifo, starts>> /\ pc[t] \in SendPcs
  BY DEF WriteDelivered, WriteAppFile, WriteFails, Close, Reset
<1>4. ASSUME Return(t) PROVE pc'[t] \in {"range", "iterate", "unlock", "idle"}
  BY <1>2, <1>3, <1>4 DEF Return, SendPcs
<1>5. Connected' => Connected
  <2>1. CASE WriteDelivered(t) \/ WriteAppFile(t) \/ WriteFails(t)
    BY <2>1 DEF WriteDelivered, WriteAppFile, WriteFails, Connected, ToDaemon
  <2>2. CASE Close(t)
    BY <1>2, <1>3, <2>2 DEF Close, Connected, ToDaemon, AInv, FilesInv
  <2>3. CASE Reset(t)
    BY <1>2, <2>3 DEF Reset, Connected, ToDaemon
  <2> QED
    BY <2>1, <2>2, <2>3
<1>6. CASE WriteAppFile(t) \/ Reset(t)
  <2>1. UNCHANGED <<registrations, logs>> /\ Return(t)
    BY <1>6 DEF WriteAppFile, Reset
  <2> QED
    BY <1>1, <1>2, <1>3, <1>4, <1>5, <2>1, LogFrame DEF LogsInv
<1>7. CASE WriteFails(t) \/ Close(t)
  <2>1. UNCHANGED <<registrations, logs, pc>>
    BY <1>7 DEF WriteFails, Close
  <2>2. /\ pc[t] \in {"sendAgain", "sendNew"} => idsAssigned[out[t].ctx]
        /\ pc[t] = "sendLog" => out[t].ctx = ctx[t] /\ (Connected => out[t].ids)
    BY DEF LogsInv, IdsInv, LogInv
  <2> QED
    BY <1>1, <1>2, <1>3, <1>5, <2>1, <2>2, LogFrame DEF LogsInv
<1>8. CASE WriteDelivered(t)
  <2>1. /\ Return(t) /\ Connected /\ phase[t] = "write"
        /\ registrations' =
             IF pc[t] \in {"sendAgain", "sendNew"}
             THEN registrations \cup {[ctx |-> out[t].ctx, pos |-> out[t].pos]}
             ELSE registrations
    BY <1>8 DEF WriteDelivered, Connected
  <2>2. \A r \in registrations' :
          r \in registrations \/ (r.ctx = out[t].ctx /\ idsAssigned[out[t].ctx])
    BY <2>1 DEF LogsInv, IdsInv
  <2>3. \A l \in logs' : l \in logs \/ (l.ids /\ l.announced)
    <3>1. CASE pc[t] # "sendLog"
      BY <1>8, <3>1 DEF WriteDelivered
    <3>2. CASE pc[t] = "sendLog"
      <4>1. ReceiveLog(out[t].ctx, out[t].ids, mcnt[t])
        BY <1>8, <3>2 DEF WriteDelivered
      <4>2. out[t].ids /\ out[t].ctx = ctx[t]
        BY <2>1, <3>2 DEF LogsInv, LogInv
      <4>3. Announced(out[t].ctx)
        BY <2>1, <3>2, <4>2, AnnouncedBeforeLog DEF LogsInv
      <4> DEFINE received == [ctx |-> out[t].ctx, ids |-> out[t].ids, mcnt |-> mcnt[t],
                              announced |-> Announced(out[t].ctx)]
      <4>4. received.ids /\ received.announced
        BY <4>2, <4>3, Zenon
      <4>5. logs' = logs \cup {received}
        BY <4>1, Zenon DEF ReceiveLog
      <4> HIDE DEF received
      <4> QED
        BY <4>4, <4>5
    <3> QED
      BY <3>1, <3>2
  <2> QED
    BY <1>1, <1>2, <1>3, <1>4, <1>5, <2>1, <2>2, <2>3, LogFrame DEF LogsInv
<1> QED
  BY <1>6, <1>7, <1>8

\* The reader, the end of the process, the daemon and the rest of the application.
LEMMA LogOutsideSteps ==
  ASSUME IInv, AInv, LogsInv,
         \/ ReaderStep \/ Exit \/ ShutdownStep \/ Terminated \/ Environment
         \/ UNCHANGED vars
  PROVE  LogsInv'
<1> USE DEF contextVars, fdVars, localVars, daemonVars
<1>1. UNCHANGED <<pc, ctx, out, m_contexts, m_bRegistered, idsAssigned,
                  m_daemonFileDescriptor>>
  BY DEF ReaderStep, CheckStop, HandleIncomingMessage, PollStopped, LockReader,
     ApplyLogLevel, BatchDone, Exit, ShutdownStep, WakeReader, Join, Terminated, vars,
     Environment, DaemonStart, DaemonStop, DaemonCrash, DaemonEnds, DaemonSetLevel,
     OpenAppFile
<1>2. registrations' \subseteq registrations /\ logs' \subseteq logs
  BY DEF ReaderStep, CheckStop, HandleIncomingMessage, PollStopped, LockReader,
     ApplyLogLevel, BatchDone, Exit, ShutdownStep, WakeReader, Join, Terminated, vars,
     Environment, DaemonStart, DaemonStop, DaemonCrash, DaemonEnds, DaemonSetLevel,
     OpenAppFile
<1>3. Connected' => Connected
  <2>1. CASE ReaderStep \/ Exit \/ ShutdownStep \/ Terminated \/ UNCHANGED vars
    BY <2>1 DEF ReaderStep, CheckStop, HandleIncomingMessage, PollStopped, LockReader,
       ApplyLogLevel, BatchDone, Exit, ShutdownStep, WakeReader, Join, Terminated, vars,
       Connected, ToDaemon
  <2>2. /\ starts \in Nat /\ files \in [Descriptors -> Int]
    BY DEF IInv, TypeOK, DaemonTypes, FdTypes
  <2>3. CASE DaemonStart
    BY <2>2, <2>3 DEF DaemonStart, Connected, ToDaemon, AInv, FilesInv
  <2>4. CASE DaemonStop \/ DaemonCrash
    BY <2>4 DEF DaemonStop, DaemonCrash, DaemonEnds, Connected, ToDaemon
  <2>5. CASE DaemonSetLevel
    BY <2>5 DEF DaemonSetLevel, Connected, ToDaemon
  <2>6. CASE OpenAppFile
    BY <2>2, <2>6 DEF OpenAppFile, Connected, ToDaemon
  <2> QED
    BY <2>1, <2>3, <2>4, <2>5, <2>6 DEF Environment
<1>4. ListedInv'
  BY <1>1 DEF LogsInv, ListedInv, Listed
<1>5. IdsInv'
  BY <1>1, <1>2 DEF LogsInv, IdsInv, Registered
<1>6. LogInv'
  BY <1>1, <1>3 DEF LogsInv, LogInv
<1>7. LogsCarryIds' /\ LogsAreAnnounced'
  BY <1>2 DEF LogsInv, LogsCarryIds, LogsAreAnnounced
<1> QED
  BY <1>4, <1>5, <1>6, <1>7 DEF LogsInv

LEMMA LogsStep ==
  ASSUME OneThread, IInv, AInv, LogsInv, [Next]_vars
  PROVE  LogsInv'
<1>1. ASSUME NEW t \in Threads, LogCall(t) \/ ThreadStep(t) PROVE LogsInv'
  <2>1. ListedInv'
    BY <1>1, ListedThreadStep DEF LogsInv
  <2>2. IdsInv' /\ LogInv' /\ LogsCarryIds' /\ LogsAreAnnounced'
    BY <1>1, LogQuietSteps, LogPrepareSteps, LogSendSteps DEF ThreadStep
  <2> QED
    BY <2>1, <2>2 DEF LogsInv
<1>2. CASE \/ ReaderStep \/ Exit \/ ShutdownStep \/ Terminated \/ Environment
           \/ UNCHANGED vars
  BY <1>2, LogOutsideSteps
<1> QED
  BY <1>1, <1>2 DEF Next

LEMMA LogsHold ==
  ASSUME OneThread
  PROVE  Spec => []LogsInv
<1>1. Init => LogsInv
  BY DEF Init, LogsInv, ListedInv, IdsInv, Registered, LogInv, LogsCarryIds, LogsAreAnnounced
<1>2. IInv /\ AInv /\ LogsInv /\ [Next]_vars => LogsInv'
  BY LogsStep
<1> QED
  BY <1>1, <1>2, AnnouncementsHold, PTL DEF Spec

\* LogsCarryIds: with one logging thread, the ids of a log's header are filled in,
\* because the connection it is sent over was announced with its context.
THEOREM OwnLogsCarryIds ==
  ASSUME OneThread
  PROVE  Spec => []LogsCarryIds
<1>1. LogsInv => LogsCarryIds
  BY DEF LogsInv
<1> QED
  BY <1>1, LogsHold, PTL

\* LogsAreAnnounced: with one logging thread, a log follows the registrations of its
\* application and context in the same life of the daemon, however often it
\* restarts.
THEOREM OwnLogsAreAnnounced ==
  ASSUME OneThread
  PROVE  Spec => []LogsAreAnnounced
<1>1. LogsInv => LogsAreAnnounced
  BY DEF LogsInv
<1> QED
  BY <1>1, LogsHold, PTL
=============================================================================
