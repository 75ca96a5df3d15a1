--------------------------- MODULE LogEntryProofs ---------------------------
(***************************************************************************)
(* Theorems about LogEntry: for any number of threads and entries and any  *)
(* tuple of backends, whatever happens to the levels; among them that      *)
(* LogEntry implements EntryDelivery.                                      *)
(***************************************************************************)
EXTENDS LogEntry, SequenceTheorems, TLAPS

\* A thread that is in flushLog of a stream backend.
Flushes(t) == pc[t] \in {"suffix", "lock", "flush"}

FlushingUsed == \A t \in Threads : Flushes(t) => flushing[t] \in Used

\* The answer that the macro got is still the right one ...
AskedAtStart(t) ==
  Stable(t) => \A b \in Used :
                 b \in enabledAtStart[t] <=> ContextEnabled(b, severity[t])

\* ... and it is the one that the DLT backend keeps, once it has been asked ...
Visited(t, b) == \E i \in 1 .. at[t] - 1 : Backends[i] = b

DltDecided(t) ==
  Stable(t) /\ "dlt" \in Used /\ (pc[t] = "init" => Visited(t, "dlt")) =>
    (m_contexts[t]["dlt"].enabled <=> ContextEnabled("dlt", severity[t]))

\* ... and that a stream backend got before it writes.
FlushAccepted(t) ==
  Stable(t) /\ Flushes(t) => ContextEnabled(flushing[t], severity[t])

Decisions == \A t \in Threads : AskedAtStart(t) /\ DltDecided(t) /\ FlushAccepted(t)

LinesAccepted == \A x \in stdio \cup output : ~x.changed => x.enabledAtStart

-----------------------------------------------------------------------------
(***************************************************************************)
(* Types                                                                   *)
(***************************************************************************)

LEMMA BackendsAre ==
  /\ Len(Backends) \in Nat /\ 1 <= Len(Backends)
  /\ \A i \in 1 .. Len(Backends) : Backends[i] \in Used
  /\ Used \subseteq {"console", "file", "dlt"}
BY BackendAssumption DEF Used

\* What is handed to a stream or to the daemon is a line.
LEMMA TextIsLine ==
  ASSUME TypeOK, NEW t \in Threads, NEW b \in Used
  PROVE  Text(t, b) \in Line
BY BackendsAre, LevelAssumption DEF TypeOK, Text, Line, Data

LEMMA AppendedIsData ==
  ASSUME NEW d \in Data, NEW s \in Seq(Int)
  PROVE  /\ Appended(d, s) \in Data
         /\ Appended(d, s).content = d.content \o s
         /\ Appended(d, s).enabled = d.enabled
<1>1. d.content \in Seq(Int) /\ d.enabled \in BOOLEAN
  BY DEF Data
<1>2. d.content \o s \in Seq(Int)
  BY <1>1
<1> QED
  BY <1>1, <1>2 DEF Data, Appended

LEMMA EvaluatedIsSeq ==
  ASSUME NEW s \in Seq(Nat), NEW order
  PROVE  Evaluated(s, order) \in Seq(Int)
<1>1. Reversed(s) \in Seq(Int)
  BY DEF Reversed
<1> QED
  BY <1>1 DEF Evaluated

LEMMA DataAt ==
  ASSUME TypeOK, NEW t \in Threads
  PROVE  /\ at[t] \in 1 .. Len(Backends) /\ Backends[at[t]] \in Used
         /\ m_contexts[t][Backends[at[t]]] \in Data
<1>1. at[t] \in 1 .. Len(Backends)
  BY DEF TypeOK
<1>2. Backends[at[t]] \in Used
  BY <1>1, BackendsAre
<1>3. m_contexts[t] \in [Used -> Data]
  BY DEF TypeOK
<1> QED
  BY <1>1, <1>2, <1>3

\* A backend's data is replaced by data.
LEMMA UpdatedContexts ==
  ASSUME TypeOK, NEW t \in Threads, NEW b \in Used, NEW d \in Data
  PROVE  [m_contexts EXCEPT ![t][b] = d] \in [Threads -> [Used -> Data]]
BY DEF TypeOK

LEMMA TypesInit == Init => TypeOK /\ FlushingUsed
<1> SUFFICES ASSUME Init PROVE TypeOK /\ FlushingUsed
  OBVIOUS
<1>1. s_defaultLogLevel \in None .. All /\ level \in [Used -> None .. All]
  BY LevelAssumption, BackendsAre DEF Init, None, All, Verbose, Debug
<1>2. severity \in [Threads -> LogLevels]
  BY LevelAssumption DEF Init
<1>3. m_contexts \in [Threads -> [Used -> Data]]
  BY DEF Init, NewData, Data
<1>4. at \in [Threads -> 1 .. Len(Backends)]
  BY BackendsAre DEF Init
<1>5. count \in [Threads -> 0 .. MaxValues]
  BY LevelAssumption DEF Init
<1>6. FlushingUsed
  BY DEF Init, FlushingUsed, Flushes
<1> QED
  <2>1. unflushed \in [Threads -> SUBSET Used] /\ enabledAtStart \in [Threads -> SUBSET Used]
    BY DEF Init
  <2>2. args \in [Threads -> Seq(Nat)] /\ flushing \in [Threads -> Streams]
    BY DEF Init, Streams
  <2> QED
    BY <1>1, <1>2, <1>3, <1>4, <1>5, <1>6, <2>1, <2>2 DEF Init, TypeOK

\* What a step does to the data of the backends.
LEMMA ContextsStep ==
  ASSUME TypeOK, FlushingUsed, [Next]_vars
  PROVE  m_contexts' \in [Threads -> [Used -> Data]]
<1>0. m_contexts \in [Threads -> [Used -> Data]]
  BY DEF TypeOK
<1>1. ASSUME NEW t \in Threads, IsEnabled(t) PROVE m_contexts' \in [Threads -> [Used -> Data]]
  BY <1>0, <1>1 DEF IsEnabled, NewData, Data
<1>2. ASSUME NEW t \in Threads, InitData(t) PROVE m_contexts' \in [Threads -> [Used -> Data]]
  <2> DEFINE b == Backends[at[t]]
  <2>0. b \in Used /\ m_contexts[t][b] \in Data
    BY DataAt
  <2>1. WithPrefix(m_contexts[t][b]) \in Data
    <3>1. <<Prefix>> \in Seq(Int)
      BY DEF Prefix
    <3> QED
      BY <2>0, <3>1, AppendedIsData DEF WithPrefix
  <2>2. [m_contexts[t][b] EXCEPT !.enabled = ContextEnabled(b, severity[t])] \in Data
    BY <2>0 DEF Data, ContextEnabled
  <2>3. PICK d \in Data : m_contexts' = [m_contexts EXCEPT ![t][b] = d]
    BY <1>2, <2>0, <2>1, <2>2 DEF InitData
  <2> QED
    BY <2>0, <2>3, UpdatedContexts
<1>3. ASSUME NEW t \in Threads, WriteBackend(t) PROVE m_contexts' \in [Threads -> [Used -> Data]]
  <2> DEFINE b == Backends[at[t]]
  <2>0. b \in Used /\ m_contexts[t][b] \in Data /\ args[t] \in Seq(Nat)
    BY DataAt DEF TypeOK
  <2>1. \A order : Appended(m_contexts[t][b], Evaluated(args[t], order)) \in Data
    BY <2>0, EvaluatedIsSeq, AppendedIsData
  <2>2. CASE m_contexts' = m_contexts
    BY <1>0, <2>2
  <2>3. CASE \E d \in Data : m_contexts' = [m_contexts EXCEPT ![t][b] = d]
    BY <2>0, <2>3, UpdatedContexts
  <2> QED
    BY <1>3, <2>1, <2>2, <2>3 DEF WriteBackend
<1>4. ASSUME NEW t \in Threads, WriteSuffix(t) PROVE m_contexts' \in [Threads -> [Used -> Data]]
  <2> DEFINE b == flushing[t]
  <2>0. b \in Used /\ m_contexts[t][b] \in Data
    BY <1>0, <1>4 DEF WriteSuffix, FlushingUsed, Flushes, At
  <2>1. Appended(m_contexts[t][b], <<Suffix>>) \in Data
    <3>1. <<Suffix>> \in Seq(Int)
      BY DEF Suffix
    <3> QED
      BY <2>0, <3>1, AppendedIsData
  <2>2. CASE m_contexts' = m_contexts
    BY <1>0, <2>2
  <2>3. CASE m_contexts' = [m_contexts EXCEPT ![t][b] = Appended(@, <<Suffix>>)]
    BY <2>0, <2>1, <2>3, UpdatedContexts
  <2> QED
    BY <1>4, <2>2, <2>3 DEF WriteSuffix
<1>5. CASE UNCHANGED m_contexts
  BY <1>0, <1>5
<1> QED
  BY <1>1, <1>2, <1>3, <1>4, <1>5 DEF Next, Step, Finished, vars, locals, StartWrite, EndOfStatement, DestroyDlt, FlushLog, LockAndPrint, FlushAndUnlock, DestroyLogInfo, SetLogLevel, SetGlobalLogLevel, SetFilePath, Changing

\* The values of a statement are numbered on from those that were streamed before.
LEMMA NumberedFrom ==
  ASSUME NEW c \in Nat, NEW n \in Nat
  PROVE  [i \in 1 .. n |-> c + i] \in Seq(Nat)
OBVIOUS

LEMMA TypesStep ==
  ASSUME TypeOK, FlushingUsed, [Next]_vars
  PROVE  TypeOK' /\ FlushingUsed'
<1>0. m_contexts' \in [Threads -> [Used -> Data]]
  BY ContextsStep
<1> USE <1>0 DEF At, Goto, vars, settings, locals, ghosts, TypeOK, FlushingUsed, Flushes
<1>1. ASSUME NEW t \in Threads, IsEnabled(t) PROVE TypeOK' /\ FlushingUsed'
  <2>1. \E l \in LogLevels, enabled \in SUBSET Used :
          /\ \/ pc' = [pc EXCEPT ![t] = "idle"]
             \/ pc' = [pc EXCEPT ![t] = "init"]
          /\ severity' = [severity EXCEPT ![t] = l]
          /\ enabledAtStart' = [enabledAtStart EXCEPT ![t] = enabled]
    BY <1>1 DEF IsEnabled
  <2>2. /\ at' \in [Threads -> 1 .. Len(Backends)]
        /\ count' \in [Threads -> 0 .. MaxValues]
        /\ entries' \in [Threads -> Nat]
        /\ changed' \subseteq Threads
    BY <1>1, BackendsAre, LevelAssumption DEF IsEnabled
  <2> QED
    BY <1>1, <2>1, <2>2 DEF IsEnabled
<1>2. ASSUME NEW t \in Threads, InitData(t) PROVE TypeOK' /\ FlushingUsed'
  <2>1. at[t] # Len(Backends) => at[t] + 1 \in 1 .. Len(Backends)
    BY BackendsAre
  <2>2. at' \in [Threads -> 1 .. Len(Backends)]
    BY <1>2, <2>1 DEF InitData
  <2> QED
    BY <1>2, <2>2 DEF InitData
<1>3. ASSUME NEW t \in Threads, StartWrite(t) PROVE TypeOK' /\ FlushingUsed'
  <2>1. PICK n \in 1 .. MaxValues - count[t] :
          /\ args' = [args EXCEPT ![t] = [i \in 1 .. n |-> count[t] + i]]
          /\ count' = [count EXCEPT ![t] = @ + n]
    BY <1>3 DEF StartWrite
  <2>2. [i \in 1 .. n |-> count[t] + i] \in Seq(Nat)
    <3>1. count[t] \in Nat /\ n \in Nat
      BY LevelAssumption
    <3> QED
      BY <3>1, NumberedFrom, Zenon
  <2>3. /\ args \in [Threads -> Seq(Nat)] /\ count \in [Threads -> 0 .. MaxValues]
        /\ at \in [Threads -> 1 .. Len(Backends)]
        /\ pc \in [Threads -> {"idle", "init", "open", "write", "destroy", "suffix",
                              "lock", "flush"}]
        /\ \A u \in Threads : Flushes(u) => flushing[u] \in Used
    OBVIOUS
  <2>4. /\ at' = [at EXCEPT ![t] = 1] /\ pc' = [pc EXCEPT ![t] = "write"]
        /\ UNCHANGED <<settings, outputMutex, process, severity, unflushed, flushing,
                       ghosts, stdio, output, entries, changes>>
    BY <1>3 DEF StartWrite
  <2> HIDE DEF TypeOK, FlushingUsed, settings, ghosts, Flushes
  <2>5. count[t] \in 0 .. MaxValues /\ count[t] + n \in 0 .. MaxValues
    BY <2>3, LevelAssumption
  <2>6. args' \in [Threads -> Seq(Nat)]
    BY <2>1, <2>2, <2>3
  <2>7. count' \in [Threads -> 0 .. MaxValues]
    BY <2>1, <2>3, <2>5
  <2>8. at' \in [Threads -> 1 .. Len(Backends)]
    BY <2>3, <2>4, BackendsAre
  <2>9. pc' \in [Threads -> {"idle", "init", "open", "write", "destroy", "suffix",
                             "lock", "flush"}]
    BY <2>3, <2>4
  <2>10. FlushingUsed'
    BY <2>3, <2>4 DEF FlushingUsed, Flushes
  <2> QED
    BY <1>0, <2>4, <2>6, <2>7, <2>8, <2>9, <2>10 DEF TypeOK, settings, ghosts
<1>4. ASSUME NEW t \in Threads, WriteBackend(t) PROVE TypeOK' /\ FlushingUsed'
  <2>1. at[t] # Len(Backends) => at[t] + 1 \in 1 .. Len(Backends)
    BY BackendsAre
  <2>2. at' \in [Threads -> 1 .. Len(Backends)]
    BY <1>4, <2>1 DEF WriteBackend
  <2>3. << >> \in Seq(Nat)
    OBVIOUS
  <2>4. args' = args \/ args' = [args EXCEPT ![t] = << >>]
    BY <1>4 DEF WriteBackend
  <2>5. args' \in [Threads -> Seq(Nat)]
    BY <2>3, <2>4
  <2> QED
    BY <1>4, <2>2, <2>5 DEF WriteBackend
<1>5. ASSUME NEW t \in Threads, EndOfStatement(t) PROVE TypeOK' /\ FlushingUsed'
  BY <1>5 DEF EndOfStatement
<1>6. ASSUME NEW t \in Threads, DestroyDlt(t) PROVE TypeOK' /\ FlushingUsed'
  <2>1. Text(t, "dlt") \in Line
    BY <1>6, TextIsLine DEF DestroyDlt
  <2> QED
    BY <1>6, <2>1 DEF DestroyDlt
<1>7. ASSUME NEW t \in Threads, FlushLog(t) PROVE TypeOK' /\ FlushingUsed'
  <2>1. PICK b \in Streams \cap unflushed[t] :
          /\ unflushed' = [unflushed EXCEPT ![t] = @ \ {b}]
          /\ \/ pc' = [pc EXCEPT ![t] = "suffix"] /\ flushing' = [flushing EXCEPT ![t] = b]
             \/ UNCHANGED <<pc, flushing>>
    BY <1>7 DEF FlushLog
  <2>2. b \in Used /\ unflushed' \in [Threads -> SUBSET Used]
    BY <2>1
  <2>3. CASE UNCHANGED <<pc, flushing>>
    BY <1>7, <2>2, <2>3 DEF FlushLog
  <2>4. CASE pc' = [pc EXCEPT ![t] = "suffix"] /\ flushing' = [flushing EXCEPT ![t] = b]
    <3>1. flushing' \in [Threads -> Streams] /\ FlushingUsed'
      BY <2>2, <2>4
    <3> QED
      BY <1>7, <2>2, <2>4, <3>1 DEF FlushLog
  <2> QED
    BY <2>1, <2>3, <2>4
<1>8. ASSUME NEW t \in Threads, WriteSuffix(t) PROVE TypeOK' /\ FlushingUsed'
  BY <1>8 DEF WriteSuffix
<1>9. ASSUME NEW t \in Threads, LockAndPrint(t) PROVE TypeOK' /\ FlushingUsed'
  <2>1. Text(t, flushing[t]) \in Line
    BY <1>9, TextIsLine DEF LockAndPrint
  <2> QED
    BY <1>9, <2>1 DEF LockAndPrint
<1>10. ASSUME NEW t \in Threads, FlushAndUnlock(t) PROVE TypeOK' /\ FlushingUsed'
  BY <1>10 DEF FlushAndUnlock
<1>11. ASSUME NEW t \in Threads, DestroyLogInfo(t) PROVE TypeOK' /\ FlushingUsed'
  BY <1>11 DEF DestroyLogInfo
<1>12. ASSUME SetLogLevel PROVE TypeOK' /\ FlushingUsed'
  BY <1>12, LevelAssumption DEF SetLogLevel, Changing
<1>13. ASSUME SetGlobalLogLevel PROVE TypeOK' /\ FlushingUsed'
  BY <1>13, LevelAssumption DEF SetGlobalLogLevel, Changing
<1>14. ASSUME SetFilePath PROVE TypeOK' /\ FlushingUsed'
  BY <1>14 DEF SetFilePath, Changing
<1>15. CASE UNCHANGED vars
  BY <1>15
<1> QED
  BY <1>1, <1>2, <1>3, <1>4, <1>5, <1>6, <1>7, <1>8, <1>9, <1>10, <1>11, <1>12, <1>13, <1>14, <1>15 DEF Next, Step, Finished

\* TypeOK: the types hold for any number of threads and any tuple of backends.
THEOREM TypesCorrect == Spec => []TypeOK
<1>1. TypeOK /\ FlushingUsed /\ [Next]_vars => (TypeOK /\ FlushingUsed)'
  BY TypesStep
<1> QED
  BY <1>1, TypesInit, PTL DEF Spec

-----------------------------------------------------------------------------
(***************************************************************************)
(* Who is enabled                                                          *)
(***************************************************************************)

\* A step inside an entry changes the entry of its own thread only.
LEMMA EntryFrame ==
  ASSUME TypeOK, NEW t \in Threads, StartWrite(t) \/ Step(t)
  PROVE  /\ UNCHANGED <<settings, ghosts, severity, entries>>
         /\ \A u \in Threads : pc'[u] # "idle" => pc[u] # "idle"
         /\ \A u \in Threads \ {t} :
              /\ pc'[u] = pc[u] /\ m_contexts'[u] = m_contexts[u]
              /\ at'[u] = at[u] /\ args'[u] = args[u] /\ count'[u] = count[u]
              /\ unflushed'[u] = unflushed[u] /\ flushing'[u] = flushing[u]
<1> USE DEF At, Goto, TypeOK, locals, settings, ghosts
<1>1. CASE StartWrite(t)
  BY <1>1 DEF StartWrite
<1>2. CASE InitData(t)
  BY <1>2 DEF InitData
<1>3. CASE WriteBackend(t)
  BY <1>3 DEF WriteBackend
<1>4. CASE EndOfStatement(t)
  BY <1>4 DEF EndOfStatement
<1>5. CASE DestroyDlt(t)
  BY <1>5 DEF DestroyDlt
<1>6. CASE FlushLog(t)
  BY <1>6 DEF FlushLog
<1>7. CASE WriteSuffix(t)
  BY <1>7 DEF WriteSuffix
<1>8. CASE LockAndPrint(t)
  BY <1>8 DEF LockAndPrint
<1>9. CASE FlushAndUnlock(t)
  BY <1>9 DEF FlushAndUnlock
<1>10. CASE DestroyLogInfo(t)
  BY <1>10 DEF DestroyLogInfo
<1> QED
  BY <1>1, <1>2, <1>3, <1>4, <1>5, <1>6, <1>7, <1>8, <1>9, <1>10 DEF Step

\* The check of the level starts an entry that has nothing in it.
LEMMA IsEnabledEffects ==
  ASSUME TypeOK, NEW t \in Threads, IsEnabled(t)
  PROVE  /\ UNCHANGED <<settings, stdio, output>>
         /\ pc'[t] \in {"idle", "init"} /\ at'[t] = 1 /\ count'[t] = 0
         /\ enabledAtStart'[t] = {b \in Used : ContextEnabled(b, severity'[t])}
         /\ m_contexts'[t] = [b \in Used |-> NewData]
         /\ \A u \in Threads \ {t} :
              /\ pc'[u] = pc[u] /\ m_contexts'[u] = m_contexts[u]
              /\ at'[u] = at[u] /\ args'[u] = args[u] /\ count'[u] = count[u]
              /\ unflushed'[u] = unflushed[u] /\ flushing'[u] = flushing[u]
              /\ severity'[u] = severity[u] /\ entries'[u] = entries[u]
              /\ enabledAtStart'[u] = enabledAtStart[u]
              /\ u \in changed' <=> u \in changed
<1>1. PICK l \in LogLevels :
        /\ Goto(t, IF {b \in Used : ContextEnabled(b, l)} = {} THEN "idle" ELSE "init")
        /\ severity' = [severity EXCEPT ![t] = l]
        /\ enabledAtStart' = [enabledAtStart EXCEPT ![t] = {b \in Used : ContextEnabled(b, l)}]
  BY DEF IsEnabled
<1>2. severity'[t] = l /\ enabledAtStart'[t] = {b \in Used : ContextEnabled(b, l)}
  BY <1>1 DEF TypeOK
<1>3. pc'[t] \in {"idle", "init"} /\ \A u \in Threads \ {t} : pc'[u] = pc[u]
  BY <1>1 DEF TypeOK, Goto
<1> QED
  BY <1>1, <1>2, <1>3 DEF IsEnabled, TypeOK, settings

\* A change of a setting is remembered by every thread inside an entry.
LEMMA ChangeFrame ==
  ASSUME TypeOK, SetLogLevel \/ SetGlobalLogLevel \/ SetFilePath
  PROVE  /\ UNCHANGED <<outputMutex, process, pc, locals, enabledAtStart, stdio, output,
                         entries>>
         /\ \A t \in Threads : pc[t] # "idle" => t \in changed'
         /\ changed \subseteq changed'
BY DEF SetLogLevel, SetGlobalLogLevel, SetFilePath, Changing

LEMMA DecisionsInit == Init => Decisions /\ LinesAccepted
BY DEF Init, Decisions, AskedAtStart, DltDecided, FlushAccepted, Stable, Flushes, LinesAccepted

LEMMA AskedStep ==
  ASSUME TypeOK, Decisions, [Next]_vars, NEW t \in Threads
  PROVE  AskedAtStart(t)'
<1> USE DEF Decisions, AskedAtStart, Stable, ContextEnabled
<1>1. ASSUME NEW u \in Threads, IsEnabled(u) PROVE AskedAtStart(t)'
  <2>1. CASE t = u
    BY <1>1, <2>1, IsEnabledEffects DEF settings
  <2>2. CASE t # u
    BY <1>1, <2>2, IsEnabledEffects DEF settings
  <2> QED
    BY <2>1, <2>2
<1>2. ASSUME NEW u \in Threads, StartWrite(u) \/ Step(u) PROVE AskedAtStart(t)'
  BY <1>2, EntryFrame DEF settings, ghosts
<1>3. CASE SetLogLevel \/ SetGlobalLogLevel \/ SetFilePath
  BY <1>3, ChangeFrame
<1>4. CASE UNCHANGED vars
  BY <1>4 DEF vars, settings, locals, ghosts
<1> QED
  BY <1>1, <1>2, <1>3, <1>4 DEF Next, Finished

LEMMA DltDecidedStep ==
  ASSUME TypeOK, FlushingUsed, Decisions, [Next]_vars, NEW t \in Threads
  PROVE  DltDecided(t)'
<1> USE DEF Decisions, DltDecided, Stable, ContextEnabled, Visited
<1>1. ASSUME NEW u \in Threads, IsEnabled(u) PROVE DltDecided(t)'
  <2>1. CASE t = u
    BY <1>1, <2>1, IsEnabledEffects
  <2>2. CASE t # u
    BY <1>1, <2>2, IsEnabledEffects DEF settings
  <2> QED
    BY <2>1, <2>2
<1>2. ASSUME NEW u \in Threads \ {t}, StartWrite(u) \/ Step(u) PROVE DltDecided(t)'
  BY <1>2, EntryFrame DEF settings, ghosts
<1>3. ASSUME InitData(t) PROVE DltDecided(t)'
  <2> DEFINE b == Backends[at[t]]
  <2>0. at[t] \in 1 .. Len(Backends) /\ b \in Used
    BY DataAt
  <2>1. /\ pc[t] = "init"
        /\ UNCHANGED <<settings, ghosts, severity>>
        /\ \/ at[t] = Len(Backends) /\ at' = at
           \/ at'[t] = at[t] + 1
    BY <1>3 DEF InitData, At, TypeOK, ghosts
  <2>2. CASE b = "dlt"
    <3>1. m_contexts'[t]["dlt"].enabled = ContextEnabled("dlt", severity[t])
      BY <1>3, <2>0, <2>2 DEF InitData, TypeOK, Data
    <3> QED
      BY <2>1, <3>1 DEF settings, ghosts
  <2>3. CASE b # "dlt"
    <3>1. "dlt" \in Used => m_contexts'[t]["dlt"] = m_contexts[t]["dlt"]
      BY <1>3, <2>0, <2>3 DEF InitData, TypeOK
    <3>2. "dlt" \in Used /\ (pc'[t] = "init" => Visited(t, "dlt")') => Visited(t, "dlt")
      BY <1>3, <2>0, <2>1, <2>3, BackendsAre DEF InitData, At, Goto, Used, TypeOK
    <3> QED
      BY <2>1, <3>1, <3>2 DEF settings, ghosts
  <2> QED
    BY <2>2, <2>3
<1>4. ASSUME WriteBackend(t) \/ WriteSuffix(t) PROVE DltDecided(t)'
  <2>1. "dlt" \in Used => m_contexts'[t]["dlt"].enabled = m_contexts[t]["dlt"].enabled
    <3>0. m_contexts[t] \in [Used -> Data]
      BY DEF TypeOK
    <3>1. \A d, pieces : Appended(d, pieces).enabled = d.enabled
      BY DEF Appended
    <3>2. CASE m_contexts' = m_contexts
      BY <3>2
    <3>3. CASE \E pieces : \E b \in Used :
                 m_contexts' = [m_contexts EXCEPT ![t][b] = Appended(@, pieces)]
      BY <3>0, <3>1, <3>3 DEF TypeOK
    <3>4. CASE WriteBackend(t)
      BY <3>2, <3>3, <3>4, DataAt DEF WriteBackend
    <3>5. CASE WriteSuffix(t) /\ m_contexts' # m_contexts
      BY <3>3, <3>5 DEF WriteSuffix, FlushingUsed, Flushes, At
    <3> QED
      BY <1>4, <3>2, <3>4, <3>5
  <2>2. pc[t] # "init" /\ pc'[t] # "init" /\ pc[t] # "idle"
    BY <1>4 DEF WriteBackend, WriteSuffix, At, Goto, TypeOK
  <2> QED
    BY <1>4, <2>1, <2>2, EntryFrame DEF Step, settings, ghosts
<1>5. ASSUME \/ StartWrite(t) \/ EndOfStatement(t) \/ DestroyDlt(t) \/ FlushLog(t)
             \/ LockAndPrint(t) \/ FlushAndUnlock(t) \/ DestroyLogInfo(t)
      PROVE  DltDecided(t)'
  <2>1. m_contexts' = m_contexts
    BY <1>5 DEF StartWrite, EndOfStatement, DestroyDlt, FlushLog, LockAndPrint, FlushAndUnlock, DestroyLogInfo, locals
  <2>2. pc[t] # "init" /\ pc[t] # "idle"
    BY <1>5 DEF StartWrite, EndOfStatement, DestroyDlt, FlushLog, LockAndPrint, FlushAndUnlock, DestroyLogInfo, At
  <2> QED
    BY <1>5, <2>1, <2>2, EntryFrame DEF Step, settings, ghosts
<1>6. CASE SetLogLevel \/ SetGlobalLogLevel \/ SetFilePath
  BY <1>6, ChangeFrame
<1>7. CASE UNCHANGED vars
  BY <1>7 DEF vars, settings, locals, ghosts
<1> QED
  BY <1>1, <1>2, <1>3, <1>4, <1>5, <1>6, <1>7 DEF Next, Step, Finished

LEMMA FlushAcceptedStep ==
  ASSUME TypeOK, Decisions, [Next]_vars, NEW t \in Threads
  PROVE  FlushAccepted(t)'
<1> USE DEF Decisions, FlushAccepted, Stable, Flushes, ContextEnabled
<1>1. ASSUME NEW u \in Threads, IsEnabled(u) PROVE FlushAccepted(t)'
  <2>1. CASE t = u
    BY <1>1, <2>1, IsEnabledEffects
  <2>2. CASE t # u
    BY <1>1, <2>2, IsEnabledEffects DEF settings
  <2> QED
    BY <2>1, <2>2
<1>2. ASSUME NEW u \in Threads \ {t}, StartWrite(u) \/ Step(u) PROVE FlushAccepted(t)'
  BY <1>2, EntryFrame DEF settings, ghosts
<1>3. ASSUME FlushLog(t) PROVE FlushAccepted(t)'
  <2>1. PICK b \in Streams \cap unflushed[t] :
          IF DataEnabled(t, b)
          THEN Goto(t, "suffix") /\ flushing' = [flushing EXCEPT ![t] = b]
          ELSE UNCHANGED <<pc, flushing>>
    BY <1>3 DEF FlushLog
  <2>2. DataEnabled(t, b) = ContextEnabled(b, severity[t])
    BY <2>1 DEF DataEnabled, Streams
  <2>3. pc[t] = "destroy" /\ UNCHANGED <<settings, severity, ghosts>>
    BY <1>3 DEF FlushLog, At
  <2> QED
    BY <2>1, <2>2, <2>3 DEF settings, ghosts, Goto, TypeOK
<1>4. ASSUME \/ InitData(t) \/ StartWrite(t) \/ WriteBackend(t) \/ EndOfStatement(t)
             \/ DestroyDlt(t) \/ FlushAndUnlock(t) \/ DestroyLogInfo(t)
      PROVE  FlushAccepted(t)'
  BY <1>4 DEF InitData, StartWrite, WriteBackend, EndOfStatement, DestroyDlt, FlushAndUnlock, DestroyLogInfo, At, Goto, TypeOK
<1>5. ASSUME WriteSuffix(t) \/ LockAndPrint(t) PROVE FlushAccepted(t)'
  <2>1. Flushes(t) /\ flushing' = flushing
    BY <1>5 DEF WriteSuffix, LockAndPrint, At, locals
  <2> QED
    BY <1>5, <2>1, EntryFrame DEF Step, settings, ghosts
<1>6. CASE SetLogLevel \/ SetGlobalLogLevel \/ SetFilePath
  BY <1>6, ChangeFrame
<1>7. CASE UNCHANGED vars
  BY <1>7 DEF vars, settings, locals, ghosts
<1> QED
  BY <1>1, <1>2, <1>3, <1>4, <1>5, <1>6, <1>7 DEF Next, Step, Finished

\* Only an entry that was accepted at its start becomes a line.
LEMMA TextAccepted ==
  ASSUME TypeOK, FlushingUsed, Decisions, NEW t \in Threads
  PROVE  /\ LockAndPrint(t) => (~Text(t, flushing[t]).changed => Text(t, flushing[t]).enabledAtStart)
         /\ DestroyDlt(t) /\ DataEnabled(t, "dlt") =>
              (~Text(t, "dlt").changed => Text(t, "dlt").enabledAtStart)
<1>1. LockAndPrint(t) /\ t \notin changed => flushing[t] \in enabledAtStart[t]
  BY DEF LockAndPrint, At, FlushingUsed, Flushes, Decisions, FlushAccepted, AskedAtStart, Stable
<1>2. DestroyDlt(t) /\ DataEnabled(t, "dlt") /\ t \notin changed => "dlt" \in enabledAtStart[t]
  BY DEF DestroyDlt, At, DataEnabled, Decisions, DltDecided, AskedAtStart, Stable, TypeOK
<1> QED
  BY <1>1, <1>2 DEF Text

\* Where lines come from.
LEMMA LinesFrom ==
  ASSUME TypeOK, FlushingUsed, [Next]_vars, NEW x \in (stdio \cup output)'
  PROVE  \/ x \in stdio \cup output
         \/ \E t \in Threads : LockAndPrint(t) /\ x = Text(t, flushing[t])
         \/ \E t \in Threads : DestroyDlt(t) /\ DataEnabled(t, "dlt") /\ x = Text(t, "dlt")
<1>1. ASSUME NEW t \in Threads, LockAndPrint(t), x \notin stdio \cup output
      PROVE  x = Text(t, flushing[t])
  BY <1>1 DEF LockAndPrint
<1>2. ASSUME NEW t \in Threads, DestroyDlt(t), x \notin stdio \cup output
      PROVE  DataEnabled(t, "dlt") /\ x = Text(t, "dlt")
  BY <1>2 DEF DestroyDlt
<1>3. ASSUME NEW t \in Threads, FlushAndUnlock(t) PROVE x \in stdio \cup output
  BY <1>3 DEF FlushAndUnlock
<1>4. CASE UNCHANGED <<stdio, output>>
  BY <1>4
<1> QED
  BY <1>1, <1>2, <1>3, <1>4 DEF Next, Step, Finished, IsEnabled, InitData, StartWrite, WriteBackend, EndOfStatement, FlushLog, WriteSuffix, DestroyLogInfo, SetLogLevel, SetGlobalLogLevel, SetFilePath, Changing, vars

LEMMA DecisionsStep ==
  ASSUME TypeOK, FlushingUsed, Decisions, LinesAccepted, [Next]_vars
  PROVE  Decisions' /\ LinesAccepted'
<1>1. Decisions'
  BY AskedStep, DltDecidedStep, FlushAcceptedStep DEF Decisions
<1>2. LinesAccepted'
  BY LinesFrom, TextAccepted DEF LinesAccepted
<1> QED
  BY <1>1, <1>2

LEMMA DecisionsHold == Spec => [](TypeOK /\ FlushingUsed /\ Decisions /\ LinesAccepted)
<1>1. TypeOK /\ FlushingUsed /\ Decisions /\ LinesAccepted /\ [Next]_vars
        => (TypeOK /\ FlushingUsed /\ Decisions /\ LinesAccepted)'
  BY TypesStep, DecisionsStep
<1> QED
  BY <1>1, TypesInit, DecisionsInit, PTL DEF Spec

\* DisabledBackendsGetNothing: the backends are asked at different moments, and
\* while no level changes a backend that rejected an entry gets nothing of it.
THEOREM NothingForTheDisabled == Spec => []DisabledBackendsGetNothing
<1>1. LinesAccepted => DisabledBackendsGetNothing
  BY DEF LinesAccepted, DisabledBackendsGetNothing
<1> QED
  BY <1>1, DecisionsHold, PTL

-----------------------------------------------------------------------------
(***************************************************************************)
(* Who receives the entry before it ends                                   *)
(***************************************************************************)

Given(lines, t, b) ==
  \E x \in lines : x.thread = t /\ x.backend = b /\ x.entry = entries[t]

\* A stream backend that is being flushed has its line once it is printed.
Pending(t, b) ==
  Flushes(t) /\ flushing[t] = b /\ (pc[t] = "flush" => Given(stdio \cup output, t, b))

PassedOn(t) ==
  (pc[t] = "destroy" \/ Flushes(t)) /\ t \notin changed =>
    \A b \in Used : ContextEnabled(b, severity[t]) /\ FileAvailable(b) =>
      b \in unflushed[t] \/ Pending(t, b) \/ Given(output, t, b)

\* abort() is called when nothing is left to flush.
AbortedLast ==
  process = "aborted" =>
    \E t \in Threads : pc[t] = "destroy" /\ severity[t] = Fatal /\ unflushed[t] = {}

Ending == AbortedLast /\ \A t \in Threads : PassedOn(t)

LEMMA EndingInit == Init => Ending
BY DEF Init, Ending, AbortedLast, PassedOn, Flushes

LEMMA AbortedLastStep ==
  ASSUME TypeOK, AbortedLast, [Next]_vars
  PROVE  AbortedLast'
<1>1. CASE process = "aborted"
  <2>1. UNCHANGED vars
    BY <1>1 DEF Next, Step, Finished, IsEnabled, InitData, StartWrite, WriteBackend, EndOfStatement, DestroyDlt, FlushLog, WriteSuffix, LockAndPrint, FlushAndUnlock, DestroyLogInfo, SetLogLevel, SetGlobalLogLevel, SetFilePath, Changing, At
  <2> QED
    BY <2>1 DEF AbortedLast, vars, locals
<1>2. CASE process # "aborted" /\ process' = "aborted"
  <2>1. PICK t \in Threads : DestroyLogInfo(t)
    BY <1>2 DEF Next, Step, Finished, vars, IsEnabled, InitData, StartWrite, WriteBackend, EndOfStatement, DestroyDlt, FlushLog, WriteSuffix, LockAndPrint, FlushAndUnlock, SetLogLevel, SetGlobalLogLevel, SetFilePath, Changing
  <2>2. /\ pc[t] = "destroy" /\ unflushed[t] = {} /\ severity[t] = Fatal
        /\ UNCHANGED <<pc, unflushed, severity>>
    BY <1>2, <2>1 DEF DestroyLogInfo, At, locals
  <2> QED
    BY <2>2 DEF AbortedLast
<1>3. CASE process' # "aborted"
  BY <1>3 DEF AbortedLast
<1> QED
  BY <1>1, <1>2, <1>3

\* Nothing that was written is lost while the process runs.
LEMMA LinesGrow ==
  ASSUME [Next]_vars
  PROVE  output \subseteq output' /\ stdio \cup output \subseteq (stdio \cup output)'
<1>1. CASE \E t \in Threads : FlushAndUnlock(t)
  BY <1>1 DEF FlushAndUnlock
<1>2. CASE \E t \in Threads : LockAndPrint(t)
  BY <1>2 DEF LockAndPrint
<1>3. CASE \E t \in Threads : DestroyDlt(t)
  BY <1>3 DEF DestroyDlt
<1>4. CASE UNCHANGED <<stdio, output>>
  BY <1>4
<1> QED
  BY <1>1, <1>2, <1>3, <1>4 DEF Next, Step, Finished, IsEnabled, InitData, StartWrite, WriteBackend, EndOfStatement, FlushLog, WriteSuffix, DestroyLogInfo, SetLogLevel, SetGlobalLogLevel, SetFilePath, Changing, vars

LEMMA GivenKept ==
  ASSUME [Next]_vars, NEW t \in Threads, entries'[t] = entries[t], NEW b
  PROVE  /\ Given(output, t, b) => Given(output, t, b)'
         /\ Given(stdio \cup output, t, b) => Given(stdio \cup output, t, b)'
BY LinesGrow DEF Given

\* Each step of the entry's own thread passes on what it takes from the rest.
LEMMA PassedOnOwnStep ==
  ASSUME TypeOK, Decisions, NEW t \in Threads, PassedOn(t), StartWrite(t) \/ Step(t)
  PROVE  PassedOn(t)'
<1>0. /\ UNCHANGED <<settings, ghosts, severity, entries>> /\ [Next]_vars
      /\ \A b : ContextEnabled(b, severity[t])' = ContextEnabled(b, severity[t])
      /\ \A b : FileAvailable(b)' = FileAvailable(b)
  BY EntryFrame DEF settings, Next, ContextEnabled, FileAvailable
<1>1. ASSUME InitData(t) \/ StartWrite(t) \/ WriteBackend(t) PROVE PassedOn(t)'
  BY <1>1 DEF InitData, StartWrite, WriteBackend, At, Goto, TypeOK, PassedOn, Flushes
<1>2. ASSUME EndOfStatement(t) PROVE PassedOn(t)'
  BY <1>2 DEF EndOfStatement, PassedOn, TypeOK
<1>3. ASSUME DestroyDlt(t) PROVE PassedOn(t)'
  <2>1. /\ pc[t] = "destroy" /\ pc' = pc /\ flushing' = flushing /\ "dlt" \in Used
        /\ unflushed'[t] = unflushed[t] \ {"dlt"}
    BY <1>3 DEF DestroyDlt, At, TypeOK
  <2>2. t \notin changed /\ ContextEnabled("dlt", severity[t]) => Given(output, t, "dlt")'
    <3>1. t \notin changed /\ ContextEnabled("dlt", severity[t]) => DataEnabled(t, "dlt")
      BY <2>1 DEF Decisions, DltDecided, Stable, DataEnabled
    <3>2. DataEnabled(t, "dlt") => Text(t, "dlt") \in output'
      BY <1>3 DEF DestroyDlt
    <3> QED
      BY <1>0, <3>1, <3>2 DEF Given, Text
  <2> QED
    BY <1>0, <2>1, <2>2, GivenKept DEF PassedOn, Pending, Flushes, ghosts
<1>4. ASSUME FlushLog(t) PROVE PassedOn(t)'
  <2>1. PICK b \in Streams \cap unflushed[t] :
          /\ unflushed' = [unflushed EXCEPT ![t] = @ \ {b}]
          /\ IF DataEnabled(t, b)
             THEN Goto(t, "suffix") /\ flushing' = [flushing EXCEPT ![t] = b]
             ELSE UNCHANGED <<pc, flushing>>
    BY <1>4 DEF FlushLog
  <2>2. pc[t] = "destroy" /\ unflushed'[t] = unflushed[t] \ {b} /\ output' = output
    BY <1>4, <2>1 DEF FlushLog, At, TypeOK
  <2>3. DataEnabled(t, b) = ContextEnabled(b, severity[t])
    BY <2>1 DEF DataEnabled, Streams
  <2>4. CASE DataEnabled(t, b)
    <3>1. pc'[t] = "suffix" /\ flushing'[t] = b
      BY <2>1, <2>4 DEF Goto, TypeOK
    <3> QED
      BY <1>0, <2>2, <3>1, GivenKept DEF PassedOn, Pending, Flushes, ghosts
  <2>5. CASE ~DataEnabled(t, b)
    BY <1>0, <2>1, <2>2, <2>3, <2>5, GivenKept DEF PassedOn, Pending, Flushes, ghosts
  <2> QED
    BY <2>4, <2>5
<1>5. ASSUME WriteSuffix(t) PROVE PassedOn(t)'
  <2>1. /\ pc[t] = "suffix" /\ pc'[t] = "lock" /\ UNCHANGED <<unflushed, flushing, output>>
    BY <1>5 DEF WriteSuffix, At, Goto, TypeOK
  <2> QED
    BY <1>0, <2>1, GivenKept DEF PassedOn, Pending, Flushes, ghosts
<1>6. ASSUME LockAndPrint(t) PROVE PassedOn(t)'
  <2>1. /\ pc[t] = "lock" /\ pc'[t] = "flush" /\ UNCHANGED <<unflushed, flushing, output>>
    BY <1>6 DEF LockAndPrint, At, Goto, TypeOK, locals
  <2>2. FileAvailable(flushing[t]) => Given(stdio \cup output, t, flushing[t])'
    <3>1. FileAvailable(flushing[t]) => Text(t, flushing[t]) \in stdio'
      BY <1>6 DEF LockAndPrint
    <3>2. /\ Text(t, flushing[t]).thread = t /\ Text(t, flushing[t]).backend = flushing[t]
          /\ Text(t, flushing[t]).entry = entries[t]
      BY DEF Text
    <3>3. entries'[t] = entries[t] /\ flushing' = flushing
      BY <1>0, <2>1
    <3> QED
      BY <3>1, <3>2, <3>3 DEF Given
  <2> QED
    BY <1>0, <2>1, <2>2, GivenKept DEF PassedOn, Pending, Flushes, ghosts
<1>7. ASSUME FlushAndUnlock(t) PROVE PassedOn(t)'
  <2>1. /\ pc[t] = "flush" /\ pc'[t] = "destroy" /\ UNCHANGED <<unflushed, flushing>>
    BY <1>7 DEF FlushAndUnlock, At, Goto, TypeOK, locals
  <2>2. Given(stdio \cup output, t, flushing[t]) => Given(output, t, flushing[t])'
    <3>1. output' = output \cup {x \in stdio : x.backend = flushing[t]}
      BY <1>7 DEF FlushAndUnlock
    <3>2. entries'[t] = entries[t] /\ flushing' = flushing
      BY <1>0, <2>1
    <3> QED
      BY <3>1, <3>2 DEF Given
  <2> QED
    BY <1>0, <2>1, <2>2, GivenKept DEF PassedOn, Pending, Flushes, ghosts
<1>8. ASSUME DestroyLogInfo(t) PROVE PassedOn(t)'
  <2>1. /\ pc[t] = "destroy" /\ pc'[t] \in {"destroy", "idle"}
        /\ UNCHANGED <<unflushed, flushing>>
    BY <1>8 DEF DestroyLogInfo, At, Goto, TypeOK, locals
  <2> QED
    BY <1>0, <2>1, GivenKept DEF PassedOn, Pending, Flushes, ghosts
<1> QED
  BY <1>1, <1>2, <1>3, <1>4, <1>5, <1>6, <1>7, <1>8 DEF Step

LEMMA PassedOnStep ==
  ASSUME TypeOK, Decisions, NEW t \in Threads, PassedOn(t), [Next]_vars
  PROVE  PassedOn(t)'
<1>1. ASSUME NEW u \in Threads, IsEnabled(u) PROVE PassedOn(t)'
  <2>1. CASE t = u
    BY <1>1, <2>1, IsEnabledEffects DEF PassedOn, Flushes
  <2>2. CASE t # u
    <3>1. /\ pc'[t] = pc[t] /\ unflushed'[t] = unflushed[t] /\ flushing'[t] = flushing[t]
          /\ severity'[t] = severity[t] /\ entries'[t] = entries[t]
          /\ t \in changed' <=> t \in changed
          /\ UNCHANGED <<settings, stdio, output>>
      BY <1>1, <2>2, IsEnabledEffects
    <3> QED
      BY <3>1, GivenKept DEF PassedOn, Pending, Flushes, ContextEnabled, FileAvailable, settings
  <2> QED
    BY <2>1, <2>2
<1>2. ASSUME NEW u \in Threads \ {t}, StartWrite(u) \/ Step(u) PROVE PassedOn(t)'
  <2>1. /\ pc'[t] = pc[t] /\ unflushed'[t] = unflushed[t] /\ flushing'[t] = flushing[t]
        /\ UNCHANGED <<settings, ghosts, severity, entries>>
    BY <1>2, EntryFrame
  <2> QED
    BY <2>1, GivenKept DEF PassedOn, Pending, Flushes, ContextEnabled, FileAvailable, settings, ghosts
<1>3. ASSUME StartWrite(t) \/ Step(t) PROVE PassedOn(t)'
  BY <1>3, PassedOnOwnStep
<1>4. CASE SetLogLevel \/ SetGlobalLogLevel \/ SetFilePath
  BY <1>4, ChangeFrame DEF PassedOn, Flushes
<1>5. CASE UNCHANGED vars
  BY <1>5 DEF vars, settings, locals, ghosts, PassedOn, Pending, Flushes, Given, ContextEnabled, FileAvailable
<1> QED
  BY <1>1, <1>2, <1>3, <1>4, <1>5 DEF Next, Finished

LEMMA EndingHolds == Spec => []Ending
<1>1. Ending /\ TypeOK /\ Decisions /\ [Next]_vars => Ending'
  BY AbortedLastStep, PassedOnStep DEF Ending
<1> QED
  BY <1>1, EndingInit, DecisionsHold, PTL DEF Spec

\* FatalEntryIsPassedOn: abort() in ~LogInfo, the base of the entry, comes after
\* the members of the entry have passed it on to every backend that accepts it.
THEOREM FatalEntriesArePassedOn == Spec => []FatalEntryIsPassedOn
<1>1. Ending => FatalEntryIsPassedOn
  BY DEF Ending, AbortedLast, PassedOn, Pending, Given, Flushes, FatalEntryIsPassedOn
<1> QED
  BY <1>1, EndingHolds, PTL

-----------------------------------------------------------------------------
(***************************************************************************)
(* What the lines consist of                                               *)
(***************************************************************************)

LEMMA InOrderIsSeq ==
  ASSUME NEW n \in Nat
  PROVE  InOrder(n) \in Seq(Int) /\ Len(InOrder(n)) = n /\ \A i \in 1 .. n : InOrder(n)[i] = i
BY DEF InOrder

\* A text that goes on where another one ends.
LEMMA TextsJoin ==
  ASSUME NEW r \in Seq(Int), NEW s \in Seq(Int), NEW w \in Seq(Int),
         Len(w) = Len(r) + Len(s),
         \A i \in 1 .. Len(r) : w[i] = r[i],
         \A i \in 1 .. Len(s) : w[Len(r) + i] = s[i]
  PROVE  r \o s = w
<1>1. /\ r \o s \in Seq(Int) /\ Len(r \o s) = Len(r) + Len(s)
      /\ \A i \in 1 .. Len(r) + Len(s) :
           (r \o s)[i] = IF i <= Len(r) THEN r[i] ELSE s[i - Len(r)]
  BY ConcatProperties, Zenon
<1>2. Len(r) \in Nat /\ Len(s) \in Nat
  BY LenProperties
<1>3. ASSUME NEW i \in 1 .. Len(r) + Len(s) PROVE (r \o s)[i] = w[i]
  <2>1. CASE i <= Len(r)
    BY <1>1, <1>2, <2>1
  <2>2. CASE i > Len(r)
    <3>1. i - Len(r) \in 1 .. Len(s) /\ i = Len(r) + (i - Len(r))
      BY <1>2, <2>2
    <3>2. w[i] = s[i - Len(r)]
      BY <3>1
    <3> QED
      BY <1>1, <1>2, <2>2, <3>2
  <2> QED
    BY <1>2, <2>1, <2>2
<1> QED
  BY <1>1, <1>3, SeqEqual

\* The arguments of a call continue the values before them.
LEMMA InOrderExtends ==
  ASSUME NEW c \in Nat, NEW n \in Nat, NEW s, s = [i \in 1 .. n |-> c + i]
  PROVE  InOrder(c) \o s = InOrder(c + n)
<1>1. s \in Seq(Int) /\ Len(s) = n /\ \A i \in 1 .. n : s[i] = c + i
  OBVIOUS
<1>2. /\ InOrder(c) \in Seq(Int) /\ Len(InOrder(c)) = c
      /\ \A i \in 1 .. c : InOrder(c)[i] = i
  BY InOrderIsSeq
<1>3. /\ InOrder(c + n) \in Seq(Int) /\ Len(InOrder(c + n)) = c + n
      /\ \A i \in 1 .. c + n : InOrder(c + n)[i] = i
  BY InOrderIsSeq
<1>4. /\ \A i \in 1 .. c : InOrder(c + n)[i] = InOrder(c)[i]
      /\ \A i \in 1 .. n : InOrder(c + n)[c + i] = s[i]
  BY <1>1, <1>2, <1>3
<1>5. /\ Len(InOrder(c + n)) = Len(InOrder(c)) + Len(s)
      /\ \A i \in 1 .. Len(InOrder(c)) : InOrder(c + n)[i] = InOrder(c)[i]
      /\ \A i \in 1 .. Len(s) : InOrder(c + n)[Len(InOrder(c)) + i] = s[i]
  BY <1>1, <1>2, <1>3, <1>4, Zenon
<1>6. s \in Seq(Int) /\ InOrder(c) \in Seq(Int) /\ InOrder(c + n) \in Seq(Int)
  BY <1>1, <1>2, <1>3
<1> QED
  BY <1>5, <1>6, TextsJoin, Zenon

LEMMA PrefixAlone == << >> \o <<Prefix>> = <<Prefix>> \o InOrder(0) /\ InOrder(0) = << >>
<1>1. InOrder(0) = << >>
  BY DEF InOrder
<1>2. <<Prefix>> \in Seq(Int)
  BY DEF Prefix
<1> QED
  BY <1>1, <1>2, ConcatEmptySeq

\* The values that a backend has been asked to write.
Written(t, b) ==
  IF pc[t] = "write" /\ ~Visited(t, b) THEN count[t] - Len(args[t]) ELSE count[t]

\* The arguments of a call are the last values that were counted, and a stream
\* backend is flushed once.
Counted(t) ==
  /\ pc[t] = "init" => count[t] = 0
  /\ pc[t] = "write" =>
       /\ Len(args[t]) <= count[t]
       /\ args[t] = [i \in 1 .. Len(args[t]) |-> count[t] - Len(args[t]) + i]
  /\ Flushes(t) => flushing[t] \notin unflushed[t]

\* The DLT backend has every value of an entry that it accepted.
IsDlt(d) == d = "dlt"

DltContent(t, d) ==
  pc[t] # "idle" /\ (pc[t] = "init" \/ m_contexts[t][d].enabled) =>
    m_contexts[t][d].content = InOrder(Written(t, d))

\* A stream backend that accepts the entry is asked to write, until it is flushed.
Filling(t, b) ==
  \/ pc[t] = "init" /\ Visited(t, b)
  \/ pc[t] \in {"open", "write"}
  \/ (pc[t] = "destroy" \/ Flushes(t)) /\ b \in unflushed[t]
  \/ pc[t] = "suffix" /\ flushing[t] = b

StreamContent(t, b) ==
  /\ pc[t] = "init" /\ ~Visited(t, b) => m_contexts[t][b].content = << >>
  /\ Filling(t, b) => m_contexts[t][b].content = <<Prefix>> \o InOrder(Written(t, b))
  /\ pc[t] = "lock" /\ flushing[t] = b =>
       m_contexts[t][b].content = <<Prefix>> \o InOrder(count[t]) \o <<Suffix>>

StreamContents(t) ==
  Stable(t) => \A b \in Streams \cap Used :
                 ContextEnabled(b, severity[t]) => StreamContent(t, b)

Contents ==
  \A t \in Threads : /\ Counted(t) /\ StreamContents(t)
                     /\ \A d \in Used : IsDlt(d) => DltContent(t, d)

LinesWhole == \A x \in stdio \cup output : x.backend = "dlt" \/ ~x.changed => Whole(x)

LEMMA ContentsInit == Init => Contents /\ LinesWhole
BY DEF Init, Contents, Counted, DltContent, StreamContents, Stable, Flushes, LinesWhole

\* The recursion over the tuple of backends visits every one of them once.
LEMMA VisitedNext ==
  ASSUME TypeOK, NEW t \in Threads, InitData(t) \/ WriteBackend(t)
  PROVE  /\ ~Visited(t, Backends[at[t]])
         /\ \/ /\ pc'[t] = "open"
               /\ \A c \in Used : Visited(t, c) \/ c = Backends[at[t]]
            \/ /\ pc'[t] = pc[t] /\ (WriteBackend(t) => args' = args)
               /\ \A c \in Used : Visited(t, c)' <=> Visited(t, c) \/ c = Backends[at[t]]
<1>0. at[t] \in 1 .. Len(Backends) /\ Len(Backends) \in Nat
  BY DataAt, BackendsAre
<1>1. ~Visited(t, Backends[at[t]])
  BY <1>0, BackendAssumption DEF Visited
<1>2. CASE at[t] = Len(Backends)
  <2>1. pc'[t] = "open"
    BY <1>2 DEF InitData, WriteBackend, Goto, TypeOK
  <2>2. \A c \in Used : Visited(t, c) \/ c = Backends[at[t]]
    BY <1>0, <1>2 DEF Visited, Used
  <2> QED
    BY <1>1, <2>1, <2>2
<1>3. CASE at[t] # Len(Backends)
  <2>1. pc' = pc /\ at'[t] = at[t] + 1 /\ (WriteBackend(t) => args' = args)
    BY <1>3 DEF InitData, WriteBackend, TypeOK
  <2>2. \A c \in Used : Visited(t, c)' <=> Visited(t, c) \/ c = Backends[at[t]]
    BY <1>0, <2>1 DEF Visited
  <2> QED
    BY <1>1, <2>1, <2>2
<1> QED
  BY <1>2, <1>3

LEMMA CountedStep ==
  ASSUME TypeOK, NEW t \in Threads, Counted(t), [Next]_vars
  PROVE  Counted(t)'
<1> USE DEF Counted, Flushes, At, Goto
<1>1. ASSUME NEW u \in Threads, IsEnabled(u) PROVE Counted(t)'
  <2>1. CASE t = u
    BY <1>1, <2>1, IsEnabledEffects
  <2>2. CASE t # u
    BY <1>1, <2>2, IsEnabledEffects
  <2> QED
    BY <2>1, <2>2
<1>2. ASSUME NEW u \in Threads \ {t}, StartWrite(u) \/ Step(u) PROVE Counted(t)'
  BY <1>2, EntryFrame
<1>3. ASSUME StartWrite(t) PROVE Counted(t)'
  <2>1. PICK n \in 1 .. MaxValues - count[t] :
          /\ args' = [args EXCEPT ![t] = [i \in 1 .. n |-> count[t] + i]]
          /\ count' = [count EXCEPT ![t] = @ + n]
    BY <1>3 DEF StartWrite
  <2>2. count[t] \in Nat /\ n \in Nat
    BY LevelAssumption DEF TypeOK
  <2>3. /\ args'[t] = [i \in 1 .. n |-> count[t] + i] /\ count'[t] = count[t] + n
        /\ pc'[t] = "write"
    BY <1>3, <2>1 DEF TypeOK, StartWrite
  <2>4. Len(args'[t]) = n /\ count'[t] - n = count[t]
    BY <2>2, <2>3
  <2> QED
    BY <2>2, <2>3, <2>4
<1>4. ASSUME InitData(t) PROVE Counted(t)'
  BY <1>4 DEF InitData, TypeOK
<1>5. ASSUME WriteBackend(t) PROVE Counted(t)'
  <2>1. /\ pc[t] = "write" /\ count' = count
        /\ pc'[t] = "open" \/ UNCHANGED <<pc, args>>
    BY <1>5 DEF WriteBackend, TypeOK
  <2> QED
    BY <2>1
<1>6. ASSUME EndOfStatement(t) \/ DestroyDlt(t) \/ WriteSuffix(t) PROVE Counted(t)'
  BY <1>6 DEF EndOfStatement, DestroyDlt, WriteSuffix, TypeOK
<1>7. ASSUME FlushLog(t) PROVE Counted(t)'
  <2>1. PICK b \in Streams \cap unflushed[t] :
          /\ unflushed' = [unflushed EXCEPT ![t] = @ \ {b}]
          /\ IF DataEnabled(t, b)
             THEN Goto(t, "suffix") /\ flushing' = [flushing EXCEPT ![t] = b]
             ELSE UNCHANGED <<pc, flushing>>
    BY <1>7 DEF FlushLog
  <2>2. pc[t] = "destroy" /\ UNCHANGED <<count, args>>
    BY <1>7 DEF FlushLog
  <2> QED
    BY <2>1, <2>2 DEF TypeOK
<1>8. ASSUME LockAndPrint(t) \/ FlushAndUnlock(t) \/ DestroyLogInfo(t) PROVE Counted(t)'
  BY <1>8 DEF LockAndPrint, FlushAndUnlock, DestroyLogInfo, TypeOK, locals
<1>9. CASE UNCHANGED <<pc, locals>>
  BY <1>9 DEF locals
<1> QED
  BY <1>1, <1>2, <1>3, <1>4, <1>5, <1>6, <1>7, <1>8, <1>9, ChangeFrame DEF Next, Step, Finished, vars

\* One backend writes all the arguments of the call, the others nothing.
LEMMA WriteEffects ==
  ASSUME ArgumentOrders \subseteq {"leftToRight"},
         TypeOK, NEW t \in Threads, Counted(t), WriteBackend(t),
         NEW b, b = Backends[at[t]]
  PROVE  /\ pc[t] = "write" /\ pc'[t] \in {"open", "write"} /\ b \in Used
         /\ DataEnabled(t, b) =>
              m_contexts'[t][b].content = m_contexts[t][b].content \o args[t]
         /\ m_contexts'[t][b].enabled = m_contexts[t][b].enabled
         /\ Written(t, b) \in Nat /\ args[t] \in Seq(Int)
         /\ InOrder(Written(t, b)) \o args[t] = InOrder(Written(t, b)')
<1>1. pc[t] = "write" /\ b \in Used /\ count' = count /\ count[t] \in Nat
  BY DataAt, LevelAssumption DEF WriteBackend, At, TypeOK
<1>2. pc'[t] = "open" \/ (pc'[t] = "write" /\ args' = args)
  BY <1>1, VisitedNext
<1>3. PICK order \in ArgumentOrders :
        m_contexts' = IF DataEnabled(t, b)
                      THEN [m_contexts EXCEPT ![t][b] = Appended(@, Evaluated(args[t], order))]
                      ELSE m_contexts
  BY DEF WriteBackend
<1>4. Evaluated(args[t], order) = args[t]
  BY DEF Evaluated
<1>5. m_contexts[t] \in [Used -> Data]
  BY DEF TypeOK
<1>6. DataEnabled(t, b) => m_contexts'[t] = [m_contexts[t] EXCEPT ![b] = Appended(@, args[t])]
  BY <1>3, <1>4 DEF TypeOK
<1>7. /\ DataEnabled(t, b) => m_contexts'[t][b] = Appended(m_contexts[t][b], args[t])
      /\ ~DataEnabled(t, b) => m_contexts'[t] = m_contexts[t]
  BY <1>1, <1>3, <1>5, <1>6
<1>8. /\ DataEnabled(t, b) =>
           m_contexts'[t][b].content = m_contexts[t][b].content \o args[t]
      /\ m_contexts'[t][b].enabled = m_contexts[t][b].enabled
  <2>1. /\ Appended(m_contexts[t][b], args[t]).content = m_contexts[t][b].content \o args[t]
        /\ Appended(m_contexts[t][b], args[t]).enabled = m_contexts[t][b].enabled
    BY DEF Appended
  <2>2. CASE DataEnabled(t, b)
    <3>1. m_contexts'[t][b] = Appended(m_contexts[t][b], args[t])
      BY <1>7, <2>2
    <3> QED
      BY <2>1, <3>1
  <2>3. CASE ~DataEnabled(t, b)
    BY <1>7, <2>3
  <2> QED
    BY <2>2, <2>3
<1>9. Written(t, b) = count[t] - Len(args[t]) /\ Written(t, b)' = count[t]
  BY <1>1, <1>2, VisitedNext DEF Written
<1>10. /\ Len(args[t]) \in Nat /\ args[t] \in Seq(Int)
       /\ args[t] = [i \in 1 .. Len(args[t]) |-> Written(t, b) + i]
  BY <1>1, <1>9 DEF Counted, TypeOK
<1>11. Written(t, b) \in Nat /\ Written(t, b) + Len(args[t]) = count[t]
  BY <1>1, <1>9, <1>10 DEF Counted
<1>12. InOrder(Written(t, b)) \o args[t] = InOrder(count[t])
  BY <1>10, <1>11, InOrderExtends
<1> QED
  BY <1>1, <1>2, <1>7, <1>8, <1>9, <1>10, <1>11, <1>12

LEMMA OthersKept ==
  ASSUME TypeOK, NEW t \in Threads, WriteBackend(t),
         NEW c \in Used, c # Backends[at[t]]
  PROVE  m_contexts'[t][c] = m_contexts[t][c] /\ Written(t, c)' = Written(t, c)
<1>1. pc[t] = "write" /\ count' = count
  BY DEF WriteBackend, At
<1>2. m_contexts'[t][c] = m_contexts[t][c]
  BY DataAt DEF WriteBackend, TypeOK
<1>3. pc'[t] = "open" \/ (pc'[t] = "write" /\ args' = args)
  BY <1>1, VisitedNext
<1>4. Written(t, c)' = Written(t, c)
  BY <1>1, <1>3, VisitedNext DEF Written
<1> QED
  BY <1>2, <1>4

\* A call of write() has not reached any backend yet.
LEMMA StartEffects ==
  ASSUME TypeOK, NEW t \in Threads, StartWrite(t)
  PROVE  /\ pc[t] = "open" /\ pc'[t] = "write" /\ m_contexts' = m_contexts
         /\ \A b : Written(t, b) = count[t] /\ Written(t, b)' = count[t]
<1>1. PICK n \in 1 .. MaxValues - count[t] :
        /\ args' = [args EXCEPT ![t] = [i \in 1 .. n |-> count[t] + i]]
        /\ count' = [count EXCEPT ![t] = @ + n]
  BY DEF StartWrite
<1>2. /\ args'[t] = [i \in 1 .. n |-> count[t] + i] /\ count'[t] = count[t] + n
      /\ pc[t] = "open" /\ pc'[t] = "write" /\ at'[t] = 1 /\ m_contexts' = m_contexts
  BY <1>1 DEF StartWrite, At, Goto, TypeOK
<1>3. count[t] \in Nat /\ n \in Nat
  BY LevelAssumption DEF TypeOK
<1>4. Len(args'[t]) = n
  BY <1>2, <1>3
<1>5. \A b : ~Visited(t, b)'
  BY <1>2 DEF Visited
<1>6. \A b : Written(t, b)' = count[t]
  BY <1>2, <1>3, <1>4, <1>5 DEF Written
<1> QED
  BY <1>2, <1>6 DEF Written

LEMMA DltContentStep ==
  ASSUME ArgumentOrders \subseteq {"leftToRight"},
         TypeOK, NEW t \in Threads, Counted(t),
         NEW d \in Used, IsDlt(d), DltContent(t, d), [Next]_vars
  PROVE  DltContent(t, d)'
<1>1. ASSUME NEW u \in Threads, IsEnabled(u) PROVE DltContent(t, d)'
  <2>1. CASE t = u
    <3>1. m_contexts'[t][d] = NewData /\ count'[t] = 0 /\ pc'[t] \in {"idle", "init"}
      BY <1>1, <2>1, IsEnabledEffects
    <3>2. m_contexts'[t][d].content = InOrder(0) /\ Written(t, d)' = 0
      BY <3>1, PrefixAlone DEF NewData, Written, IsDlt
    <3> QED
      BY <3>2 DEF DltContent
  <2>2. CASE t # u
    BY <1>1, <2>2, IsEnabledEffects DEF DltContent, Written, Visited
  <2> QED
    BY <2>1, <2>2
<1>2. ASSUME NEW u \in Threads \ {t}, StartWrite(u) \/ Step(u) PROVE DltContent(t, d)'
  BY <1>2, EntryFrame DEF DltContent, Written, Visited
<1>3. ASSUME StartWrite(t) PROVE DltContent(t, d)'
  BY <1>3, StartEffects DEF DltContent
<1>4. ASSUME InitData(t) PROVE DltContent(t, d)'
  <2>1. m_contexts'[t][d].content = m_contexts[t][d].content
    <3>1. m_contexts[t] \in [Used -> Data]
      BY DEF TypeOK
    <3>2. CASE Backends[at[t]] = "dlt"
      BY <1>4, <3>1, <3>2 DEF InitData, TypeOK, Data, IsDlt
    <3>3. CASE Backends[at[t]] # "dlt"
      BY <1>4, <3>1, <3>3, DataAt DEF InitData, TypeOK, IsDlt
    <3> QED
      BY <3>2, <3>3
  <2>2. pc[t] = "init" /\ pc'[t] \in {"init", "open"} /\ count' = count
    BY <1>4 DEF InitData, At, Goto, TypeOK
  <2> QED
    BY <2>1, <2>2 DEF DltContent, Written
<1>5. ASSUME WriteBackend(t) PROVE DltContent(t, d)'
  <2>0. PICK b : b = Backends[at[t]]
    OBVIOUS
  <2>1. pc[t] = "write" /\ pc'[t] \in {"open", "write"}
    BY <1>5, <2>0, WriteEffects
  <2>2. CASE d = Backends[at[t]]
    <3>1. /\ DataEnabled(t, d) =>
               m_contexts'[t][d].content = m_contexts[t][d].content \o args[t]
          /\ m_contexts'[t][d].enabled = m_contexts[t][d].enabled
          /\ InOrder(Written(t, d)) \o args[t] = InOrder(Written(t, d)')
      BY <1>5, <2>2, WriteEffects
    <3> QED
      BY <2>1, <3>1 DEF DltContent, DataEnabled, IsDlt
  <2>3. CASE d # Backends[at[t]]
    <3>1. m_contexts'[t][d] = m_contexts[t][d] /\ Written(t, d)' = Written(t, d)
      BY <1>5, <2>3, OthersKept
    <3> QED
      BY <2>1, <3>1 DEF DltContent
  <2> QED
    BY <2>2, <2>3
<1>6. ASSUME WriteSuffix(t) PROVE DltContent(t, d)'
  <2>1. /\ pc[t] = "suffix" /\ pc'[t] = "lock" /\ count' = count /\ flushing[t] # "dlt"
    BY <1>6 DEF WriteSuffix, At, Goto, TypeOK, Streams
  <2>2. m_contexts'[t][d] = m_contexts[t][d]
    BY <1>6, <2>1 DEF WriteSuffix, TypeOK, IsDlt
  <2> QED
    BY <2>1, <2>2 DEF DltContent, Written
<1>7. ASSUME \/ EndOfStatement(t) \/ DestroyDlt(t) \/ FlushLog(t) \/ LockAndPrint(t)
             \/ FlushAndUnlock(t) \/ DestroyLogInfo(t)
      PROVE  DltContent(t, d)'
  <2>1. m_contexts' = m_contexts /\ count' = count
    BY <1>7 DEF EndOfStatement, DestroyDlt, FlushLog, LockAndPrint, FlushAndUnlock, DestroyLogInfo, locals
  <2>2. /\ pc[t] \notin {"idle", "init", "write"}
        /\ pc'[t] \notin {"init", "write"}
    BY <1>7 DEF EndOfStatement, DestroyDlt, FlushLog, LockAndPrint, FlushAndUnlock, DestroyLogInfo, At, Goto, TypeOK
  <2> QED
    BY <2>1, <2>2 DEF DltContent, Written
<1>8. CASE UNCHANGED <<pc, locals>>
  BY <1>8 DEF locals, DltContent, Written, Visited
<1> QED
  BY <1>1, <1>2, <1>3, <1>4, <1>5, <1>6, <1>7, <1>8, ChangeFrame DEF Next, Step, Finished, vars

\* A stream backend asks for the level, which has not changed.
LEMMA StreamDataEnabled ==
  ASSUME NEW t \in Threads, NEW b \in Streams \cap Used, ContextEnabled(b, severity[t])
  PROVE  DataEnabled(t, b) /\ b # "dlt"
BY DEF DataEnabled, Streams

LEMMA StreamInitStep ==
  ASSUME TypeOK, NEW t \in Threads, NEW b \in Streams \cap Used, Counted(t),
         ContextEnabled(b, severity[t]), StreamContent(t, b), InitData(t)
  PROVE  StreamContent(t, b)'
<1>1. /\ pc[t] = "init" /\ pc'[t] \in {"init", "open"} /\ count[t] = 0 /\ count' = count
      /\ m_contexts[t] \in [Used -> Data]
  BY DEF InitData, At, Goto, TypeOK, Counted
<1>2. Written(t, b) = 0 /\ Written(t, b)' = 0
  BY <1>1 DEF Written
<1>3. CASE b = Backends[at[t]]
  <2>1. m_contexts'[t][b] = WithPrefix(m_contexts[t][b])
    BY <1>1, <1>3, StreamDataEnabled DEF InitData, TypeOK
  <2>2. m_contexts[t][b].content = << >>
    BY <1>1, <1>3, VisitedNext DEF StreamContent
  <2>3. WithPrefix(m_contexts[t][b]).content = << >> \o <<Prefix>>
    BY <2>2 DEF WithPrefix, Appended
  <2>4. m_contexts'[t][b].content = <<Prefix>> \o InOrder(0)
    BY <2>1, <2>3, PrefixAlone
  <2>5. pc'[t] = "init" => Visited(t, b)'
    BY <1>1, <1>3, VisitedNext
  <2> QED
    BY <1>1, <1>2, <2>4, <2>5 DEF StreamContent
<1>4. CASE b # Backends[at[t]]
  <2>1. m_contexts'[t][b] = m_contexts[t][b]
    BY <1>1, <1>4, DataAt DEF InitData, TypeOK
  <2>2. (pc'[t] = "open" /\ Visited(t, b)) \/ (pc'[t] = "init" /\ (Visited(t, b)' <=> Visited(t, b)))
    BY <1>1, <1>4, VisitedNext
  <2> QED
    BY <1>1, <1>2, <2>1, <2>2 DEF StreamContent, Filling, Flushes
<1> QED
  BY <1>3, <1>4

LEMMA ConcatInt ==
  \A r, s, w \in Seq(Int) : (r \o s) \o w = r \o (s \o w)
BY ConcatAssociative

LEMMA StreamWriteStep ==
  ASSUME ArgumentOrders \subseteq {"leftToRight"},
         TypeOK, NEW t \in Threads, NEW b \in Streams \cap Used, Counted(t),
         ContextEnabled(b, severity[t]), StreamContent(t, b), WriteBackend(t)
  PROVE  StreamContent(t, b)'
<1>1. pc[t] = "write" /\ pc'[t] \in {"open", "write"}
  BY WriteEffects
<1>2. m_contexts[t][b].content = <<Prefix>> \o InOrder(Written(t, b))
  BY <1>1 DEF StreamContent, Filling
<1>3. CASE b = Backends[at[t]]
  <2>1. /\ m_contexts'[t][b].content = m_contexts[t][b].content \o args[t]
        /\ Written(t, b) \in Nat /\ args[t] \in Seq(Int)
        /\ InOrder(Written(t, b)) \o args[t] = InOrder(Written(t, b)')
    BY <1>3, WriteEffects, StreamDataEnabled
  <2>2. InOrder(Written(t, b)) \in Seq(Int) /\ <<Prefix>> \in Seq(Int)
    BY <2>1, InOrderIsSeq DEF Prefix
  <2>3. (<<Prefix>> \o InOrder(Written(t, b))) \o args[t]
          = <<Prefix>> \o (InOrder(Written(t, b)) \o args[t])
    BY <2>1, <2>2, ConcatInt, Zenon
  <2> QED
    BY <1>1, <1>2, <2>1, <2>3 DEF StreamContent
<1>4. CASE b # Backends[at[t]]
  BY <1>1, <1>2, <1>4, OthersKept DEF StreamContent
<1> QED
  BY <1>3, <1>4

LEMMA StreamOwnStep ==
  ASSUME ArgumentOrders \subseteq {"leftToRight"},
         TypeOK, NEW t \in Threads, NEW b \in Streams \cap Used, Counted(t),
         ContextEnabled(b, severity[t]), StreamContent(t, b), StartWrite(t) \/ Step(t)
  PROVE  StreamContent(t, b)'
<1>1. ASSUME StartWrite(t) PROVE StreamContent(t, b)'
  BY <1>1, StartEffects DEF StreamContent, Filling
<1>2. ASSUME InitData(t) PROVE StreamContent(t, b)'
  BY <1>2, StreamInitStep
<1>3. ASSUME WriteBackend(t) PROVE StreamContent(t, b)'
  BY <1>3, StreamWriteStep
<1>4. ASSUME EndOfStatement(t) PROVE StreamContent(t, b)'
  <2>1. pc[t] = "open" /\ pc'[t] = "destroy" /\ UNCHANGED <<m_contexts, count>>
    BY <1>4 DEF EndOfStatement, At, Goto, TypeOK
  <2> QED
    BY <2>1 DEF StreamContent, Filling, Written
<1>5. ASSUME DestroyDlt(t) PROVE StreamContent(t, b)'
  <2>1. /\ pc[t] = "destroy" /\ unflushed'[t] \subseteq unflushed[t]
        /\ UNCHANGED <<pc, m_contexts, count, flushing>>
    BY <1>5 DEF DestroyDlt, At, TypeOK
  <2> QED
    BY <2>1 DEF StreamContent, Filling, Flushes, Written
<1>6. ASSUME FlushLog(t) PROVE StreamContent(t, b)'
  <2>1. PICK c \in Streams \cap unflushed[t] :
          /\ unflushed' = [unflushed EXCEPT ![t] = @ \ {c}]
          /\ IF DataEnabled(t, c)
             THEN Goto(t, "suffix") /\ flushing' = [flushing EXCEPT ![t] = c]
             ELSE UNCHANGED <<pc, flushing>>
    BY <1>6 DEF FlushLog
  <2>2. pc[t] = "destroy" /\ UNCHANGED <<m_contexts, count>>
    BY <1>6 DEF FlushLog, At
  <2>3. unflushed'[t] \subseteq unflushed[t]
    BY <2>1 DEF TypeOK
  <2>4. pc'[t] = "destroy" \/ (pc'[t] = "suffix" /\ flushing'[t] \in unflushed[t])
    BY <2>1, <2>2 DEF TypeOK, Goto
  <2> QED
    BY <2>2, <2>3, <2>4 DEF StreamContent, Filling, Flushes, Written
<1>7. ASSUME WriteSuffix(t) PROVE StreamContent(t, b)'
  <2>1. pc[t] = "suffix" /\ pc'[t] = "lock" /\ UNCHANGED <<count, unflushed, flushing>>
    BY <1>7 DEF WriteSuffix, At, Goto, TypeOK
  <2>2. CASE b = flushing[t]
    <3>1. m_contexts'[t][b] = Appended(m_contexts[t][b], <<Suffix>>)
      BY <1>7, <2>2, StreamDataEnabled DEF WriteSuffix, TypeOK
    <3>2. Appended(m_contexts[t][b], <<Suffix>>).content
            = m_contexts[t][b].content \o <<Suffix>>
      BY DEF Appended
    <3>3. m_contexts[t][b].content = <<Prefix>> \o InOrder(count[t])
      BY <2>1, <2>2 DEF StreamContent, Filling, Written
    <3>4. b \notin unflushed'[t]
      BY <2>1, <2>2 DEF Counted, Flushes
    <3> QED
      BY <2>1, <3>1, <3>2, <3>3, <3>4 DEF StreamContent, Filling
  <2>3. CASE b # flushing[t]
    <3>1. m_contexts'[t][b] = m_contexts[t][b]
      BY <1>7, <2>3 DEF WriteSuffix, TypeOK
    <3> QED
      BY <2>1, <2>3, <3>1 DEF StreamContent, Filling, Flushes, Written
  <2> QED
    BY <2>2, <2>3
<1>8. ASSUME LockAndPrint(t) \/ FlushAndUnlock(t) \/ DestroyLogInfo(t)
      PROVE  StreamContent(t, b)'
  <2>1. /\ pc[t] \in {"lock", "flush", "destroy"} /\ pc'[t] \in {"flush", "destroy", "idle"}
        /\ UNCHANGED <<m_contexts, count, unflushed, flushing>>
    BY <1>8 DEF LockAndPrint, FlushAndUnlock, DestroyLogInfo, At, Goto, TypeOK, locals
  <2> QED
    BY <2>1 DEF StreamContent, Filling, Flushes, Written
<1> QED
  BY <1>1, <1>2, <1>3, <1>4, <1>5, <1>6, <1>7, <1>8 DEF Step

\* The entry of a thread stays as it is when others run.
LEMMA StreamOtherStep ==
  ASSUME NEW t \in Threads, StreamContents(t),
         pc'[t] = pc[t], m_contexts'[t] = m_contexts[t], at'[t] = at[t],
         args'[t] = args[t], count'[t] = count[t], unflushed'[t] = unflushed[t],
         flushing'[t] = flushing[t], severity'[t] = severity[t],
         t \in changed' <=> t \in changed, UNCHANGED settings
  PROVE  StreamContents(t)'
<1> SUFFICES ASSUME Stable(t)', NEW b \in Streams \cap Used, ContextEnabled(b, severity[t])'
             PROVE  StreamContent(t, b)'
  BY DEF StreamContents
<1>1. Stable(t) /\ ContextEnabled(b, severity[t])
  BY DEF Stable, ContextEnabled, settings
<1>2. /\ Visited(t, b)' <=> Visited(t, b)
      /\ Written(t, b)' = Written(t, b)
      /\ Filling(t, b)' <=> Filling(t, b)
  BY DEF Visited, Written, Filling, Flushes
<1>3. StreamContent(t, b)
  BY <1>1 DEF StreamContents
<1> QED
  BY <1>2, <1>3 DEF StreamContent

LEMMA StreamContentsStep ==
  ASSUME ArgumentOrders \subseteq {"leftToRight"},
         TypeOK, NEW t \in Threads, Counted(t), StreamContents(t), [Next]_vars
  PROVE  StreamContents(t)'
<1>1. ASSUME NEW u \in Threads, IsEnabled(u) PROVE StreamContents(t)'
  <2>1. CASE t = u
    <3>1. /\ pc'[t] \in {"idle", "init"} /\ at'[t] = 1
          /\ m_contexts'[t] = [b \in Used |-> NewData]
      BY <1>1, <2>1, IsEnabledEffects
    <3>2. \A b \in Used : ~Visited(t, b)' /\ m_contexts'[t][b].content = << >>
      BY <3>1 DEF Visited, NewData
    <3> QED
      BY <3>1, <3>2 DEF StreamContents, StreamContent, Filling, Flushes, Stable
  <2>2. CASE t # u
    BY <1>1, <2>2, IsEnabledEffects, StreamOtherStep
  <2> QED
    BY <2>1, <2>2
<1>2. ASSUME NEW u \in Threads \ {t}, StartWrite(u) \/ Step(u) PROVE StreamContents(t)'
  BY <1>2, EntryFrame, StreamOtherStep DEF ghosts
<1>3. ASSUME StartWrite(t) \/ Step(t) PROVE StreamContents(t)'
  <2> SUFFICES ASSUME Stable(t)', NEW b \in Streams \cap Used, ContextEnabled(b, severity[t])'
               PROVE  StreamContent(t, b)'
    BY DEF StreamContents
  <2>1. Stable(t) /\ ContextEnabled(b, severity[t])
    BY <1>3, EntryFrame DEF Stable, ContextEnabled, settings, ghosts
  <2> QED
    BY <1>3, <2>1, StreamOwnStep DEF StreamContents
<1>4. CASE SetLogLevel \/ SetGlobalLogLevel \/ SetFilePath
  BY <1>4, ChangeFrame DEF StreamContents, Stable
<1>5. CASE UNCHANGED vars
  BY <1>5 DEF StreamContents, StreamContent, Filling, Flushes, Stable, Written, Visited, ContextEnabled, vars, settings, locals, ghosts
<1> QED
  BY <1>1, <1>2, <1>3, <1>4, <1>5 DEF Next, Finished

\* What becomes a line is whole.
LEMMA TextWhole ==
  ASSUME TypeOK, FlushingUsed, Decisions, Contents, NEW t \in Threads
  PROVE  /\ LockAndPrint(t) /\ t \notin changed => Whole(Text(t, flushing[t]))
         /\ LockAndPrint(t) => flushing[t] # "dlt"
         /\ DestroyDlt(t) /\ DataEnabled(t, "dlt") => Whole(Text(t, "dlt"))
<1>1. ASSUME LockAndPrint(t) PROVE flushing[t] # "dlt" /\ flushing[t] \in Streams \cap Used
  BY <1>1 DEF LockAndPrint, At, TypeOK, FlushingUsed, Flushes, Streams
<1>2. ASSUME LockAndPrint(t), t \notin changed PROVE Whole(Text(t, flushing[t]))
  <2>1. Stable(t) /\ pc[t] = "lock" /\ ContextEnabled(flushing[t], severity[t])
    BY <1>2 DEF LockAndPrint, At, Stable, Decisions, FlushAccepted, Flushes
  <2>2. m_contexts[t][flushing[t]].content = <<Prefix>> \o InOrder(count[t]) \o <<Suffix>>
    BY <1>1, <1>2, <2>1 DEF Contents, StreamContents, StreamContent
  <2> QED
    BY <1>1, <1>2, <2>2 DEF Whole, Text
<1>3. ASSUME DestroyDlt(t), DataEnabled(t, "dlt") PROVE Whole(Text(t, "dlt"))
  <2>1. pc[t] = "destroy" /\ "dlt" \in Used /\ m_contexts[t]["dlt"].enabled
    BY <1>3 DEF DestroyDlt, At, TypeOK, DataEnabled
  <2>2. m_contexts[t]["dlt"].content = InOrder(count[t])
    BY <2>1 DEF Contents, DltContent, IsDlt, Written
  <2> QED
    BY <2>2 DEF Whole, Text
<1> QED
  BY <1>1, <1>2, <1>3

LEMMA LinesWholeStep ==
  ASSUME TypeOK, FlushingUsed, Decisions, Contents, LinesWhole, [Next]_vars
  PROVE  LinesWhole'
<1>1. ASSUME NEW t \in Threads, NEW b PROVE /\ Text(t, b).backend = b
                                           /\ Text(t, b).changed <=> t \in changed
  BY DEF Text
<1>2. ASSUME NEW x \in (stdio \cup output)', x.backend = "dlt" \/ ~x.changed PROVE Whole(x)
  <2>1. CASE x \in stdio \cup output
    BY <1>2, <2>1 DEF LinesWhole
  <2>2. ASSUME NEW t \in Threads, LockAndPrint(t), x = Text(t, flushing[t]) PROVE Whole(x)
    BY <1>1, <1>2, <2>2, TextWhole
  <2>3. ASSUME NEW t \in Threads, DestroyDlt(t), DataEnabled(t, "dlt"), x = Text(t, "dlt")
        PROVE  Whole(x)
    BY <2>3, TextWhole
  <2> QED
    BY <2>1, <2>2, <2>3, LinesFrom
<1> QED
  BY <1>2 DEF LinesWhole, Whole

\* EntriesAreWhole: with a compiler that evaluates arguments from the left, an
\* entry reaches the DLT with every value streamed into it whatever happens to
\* the levels, and the console and the file while no level changes.
THEOREM LinesAreWhole ==
  ASSUME ArgumentOrders \subseteq {"leftToRight"}
  PROVE  Spec => []EntriesAreWhole
<1>1. TypeOK /\ FlushingUsed /\ Decisions /\ Contents /\ LinesWhole /\ [Next]_vars
        => (Contents /\ LinesWhole)'
  BY CountedStep, DltContentStep, StreamContentsStep, LinesWholeStep DEF Contents
<1>2. LinesWhole => EntriesAreWhole
  BY DEF LinesWhole, EntriesAreWhole
<1> QED
  BY <1>1, <1>2, ContentsInit, DecisionsHold, PTL DEF Spec

-----------------------------------------------------------------------------
(***************************************************************************)
(* LogEntry implements EntryDelivery                                       *)
(***************************************************************************)

\* A text of the entry that t is in, or has been in last.
Mine(x, t) == x.thread = t /\ x.entry = entries[t]

\* The buffers of the C library hold at most what the owner of the output mutex
\* has just printed ...
Exclusive ==
  /\ \A t \in Threads : pc[t] = "flush" => outputMutex = t
  /\ \A x \in stdio : /\ pc[x.thread] = "flush" /\ Mine(x, x.thread)
                      /\ x.backend = flushing[x.thread]
  /\ \A x, y \in stdio : x = y

\* ... no text is of an entry to come ...
LinesPast == \A x \in stdio \cup output : x.entry <= entries[x.thread]

\* ... and none is of a backend that the entry has still to be given to.
Fresh(t) ==
  /\ pc[t] \in {"init", "open", "write"} =>
       \A x \in stdio \cup output : ~Mine(x, t)
  /\ pc[t] = "destroy" \/ Flushes(t) =>
       \A x \in stdio \cup output : Mine(x, t) => x.backend \notin unflushed[t]
  /\ Flushes(t) => flushing[t] \notin unflushed[t]
  /\ pc[t] \in {"suffix", "lock"} =>
       \A x \in stdio \cup output : Mine(x, t) => x.backend # flushing[t]
  /\ pc[t] = "flush" =>
       \A x \in output : Mine(x, t) => x.backend # flushing[t]

Once == Exclusive /\ LinesPast /\ \A t \in Threads : Fresh(t)

LEMMA OnceInit == Init => Once
BY DEF Init, Once, Exclusive, LinesPast, Fresh, Flushes

LEMMA TextIs ==
  ASSUME NEW t, NEW b
  PROVE  /\ Text(t, b).thread = t /\ Text(t, b).entry = entries[t]
         /\ Text(t, b).backend = b
BY DEF Text

\* A text in the buffers is of a thread that owns the mutex.
LEMMA FreeMutex ==
  ASSUME TypeOK, Exclusive, outputMutex = NoThread
  PROVE  stdio = {}
<1>1. \A x \in stdio : x.thread \in Threads
  BY DEF TypeOK, Line
<1> QED
  BY <1>1, LevelAssumption DEF Exclusive

LEMMA ExclusiveStep ==
  ASSUME TypeOK, FlushingUsed, Exclusive, [Next]_vars
  PROVE  Exclusive'
<1>0. \A x \in stdio : x.thread \in Threads
  BY DEF TypeOK, Line
<1>1. ASSUME NEW t \in Threads, IsEnabled(t) PROVE Exclusive'
  <2>1. pc[t] = "idle" /\ pc'[t] \in {"idle", "init"} /\ UNCHANGED <<stdio, outputMutex>>
    BY <1>1, IsEnabledEffects DEF IsEnabled, At
  <2>2. \A u \in Threads \ {t} :
          pc'[u] = pc[u] /\ flushing'[u] = flushing[u] /\ entries'[u] = entries[u]
    BY <1>1, IsEnabledEffects
  <2> QED
    BY <1>0, <2>1, <2>2 DEF Exclusive, Mine
<1>2. ASSUME NEW t \in Threads, LockAndPrint(t) PROVE Exclusive'
  <2>1. /\ stdio = {} /\ outputMutex' = t /\ UNCHANGED <<flushing, entries>>
        /\ stdio' \subseteq {Text(t, flushing[t])}
        /\ \A u \in Threads : pc[u] # "flush"
    BY <1>2, FreeMutex, LevelAssumption DEF LockAndPrint, locals, Exclusive
  <2>2. \A u \in Threads : pc'[u] = IF u = t THEN "flush" ELSE pc[u]
    BY <1>2 DEF LockAndPrint, Goto, TypeOK
  <2> QED
    BY <2>1, <2>2, TextIs DEF Exclusive, Mine
<1>3. ASSUME NEW t \in Threads, FlushAndUnlock(t) PROVE Exclusive'
  <2>1. /\ pc[t] = "flush" /\ outputMutex = t /\ UNCHANGED <<flushing, entries>>
        /\ stdio' = {x \in stdio : x.backend # flushing[t]}
    BY <1>3 DEF FlushAndUnlock, At, Exclusive, locals
  <2>2. stdio' = {}
    BY <1>0, <2>1 DEF Exclusive
  <2>3. \A u \in Threads : pc'[u] # "flush"
    BY <1>3, <2>1 DEF FlushAndUnlock, Goto, TypeOK, Exclusive
  <2> QED
    BY <2>2, <2>3 DEF Exclusive
<1>4. ASSUME NEW t \in Threads, UNCHANGED <<stdio, outputMutex, entries>>,
             StartWrite(t) \/ Step(t), pc[t] # "flush" /\ pc'[t] # "flush"
      PROVE  Exclusive'
  BY <1>0, <1>4, EntryFrame DEF Exclusive, Mine
<1>5. ASSUME NEW t \in Threads,
             \/ InitData(t) \/ StartWrite(t) \/ WriteBackend(t) \/ EndOfStatement(t)
             \/ DestroyDlt(t) \/ FlushLog(t) \/ WriteSuffix(t) \/ DestroyLogInfo(t)
      PROVE  Exclusive'
  <2>1. UNCHANGED <<stdio, outputMutex, entries>>
    BY <1>5 DEF InitData, StartWrite, WriteBackend, EndOfStatement, DestroyDlt, FlushLog, WriteSuffix, DestroyLogInfo
  <2>2. pc[t] # "flush" /\ pc'[t] # "flush"
    BY <1>5 DEF InitData, StartWrite, WriteBackend, EndOfStatement, DestroyDlt, FlushLog, WriteSuffix, DestroyLogInfo, At, Goto, TypeOK
  <2> QED
    BY <1>4, <1>5, <2>1, <2>2 DEF Step
<1>6. CASE UNCHANGED <<pc, outputMutex, flushing, stdio, entries>>
  BY <1>6 DEF Exclusive, Mine
<1> QED
  BY <1>1, <1>2, <1>3, <1>5, <1>6, ChangeFrame DEF Next, Step, Finished, vars, locals

LEMMA LinesPastStep ==
  ASSUME TypeOK, FlushingUsed, LinesPast, [Next]_vars
  PROVE  LinesPast'
<1>1. \A x \in stdio \cup output : x.thread \in Threads /\ x.entry \in Nat
  BY DEF TypeOK, Line
<1>2. \A u \in Threads : entries[u] \in Nat /\ entries'[u] \in Nat /\ entries[u] <= entries'[u]
  <2>1. entries \in [Threads -> Nat]
    BY DEF TypeOK
  <2>2. CASE entries' = entries
    BY <2>1, <2>2
  <2>3. CASE \E t \in Threads : entries' = [entries EXCEPT ![t] = @ + 1]
    BY <2>1, <2>3
  <2> QED
    BY <2>2, <2>3, EntryFrame, ChangeFrame DEF Next, Finished, vars, IsEnabled
<1>3. ASSUME NEW t \in Threads, LockAndPrint(t) \/ DestroyDlt(t) PROVE entries' = entries
  BY <1>3 DEF LockAndPrint, DestroyDlt
<1>4. ASSUME NEW x \in (stdio \cup output)' PROVE x.entry <= entries'[x.thread]
  <2>1. CASE x \in stdio \cup output
    BY <1>1, <1>2, <2>1 DEF LinesPast
  <2>2. ASSUME NEW t \in Threads, NEW b, LockAndPrint(t) \/ DestroyDlt(t), x = Text(t, b)
        PROVE  x.entry <= entries'[x.thread]
    <3>1. x.entry = entries[t] /\ x.thread = t
      BY <2>2, TextIs
    <3> QED
      BY <1>2, <3>1
  <2> QED
    BY <2>1, <2>2, LinesFrom
<1> QED
  BY <1>4 DEF LinesPast

\* Which texts there can be after a step of t.
LEMMA TextsOfStep ==
  ASSUME TypeOK, FlushingUsed, NEW t \in Threads, StartWrite(t) \/ Step(t),
         NEW x \in (stdio \cup output)', x \notin stdio \cup output
  PROVE  /\ x.thread = t
         /\ \/ LockAndPrint(t) /\ x.backend = flushing[t]
            \/ DestroyDlt(t) /\ x.backend = "dlt"
<1>1. CASE LockAndPrint(t)
  BY <1>1, TextIs DEF LockAndPrint
<1>2. CASE DestroyDlt(t)
  BY <1>2, TextIs DEF DestroyDlt
<1>3. CASE FlushAndUnlock(t)
  BY <1>3 DEF FlushAndUnlock
<1>4. CASE UNCHANGED <<stdio, output>>
  BY <1>4
<1> QED
  BY <1>1, <1>2, <1>3, <1>4 DEF Step, InitData, StartWrite, WriteBackend, EndOfStatement, FlushLog, WriteSuffix, DestroyLogInfo

LEMMA FreshOwnStep ==
  ASSUME TypeOK, FlushingUsed, NEW t \in Threads, Fresh(t), StartWrite(t) \/ Step(t)
  PROVE  Fresh(t)'
<1>0. entries' = entries /\ \A x : Mine(x, t)' <=> Mine(x, t)
  BY EntryFrame DEF Mine
<1>1. ASSUME StartWrite(t) \/ InitData(t) \/ WriteBackend(t) PROVE Fresh(t)'
  <2>1. /\ pc[t] \in {"init", "open", "write"} /\ pc'[t] \in {"init", "open", "write"}
        /\ UNCHANGED <<stdio, output>>
    BY <1>1 DEF StartWrite, InitData, WriteBackend, At, Goto, TypeOK
  <2> QED
    BY <1>0, <2>1 DEF Fresh, Flushes
<1>2. ASSUME EndOfStatement(t) PROVE Fresh(t)'
  <2>1. pc[t] = "open" /\ pc'[t] = "destroy" /\ UNCHANGED <<stdio, output>>
    BY <1>2 DEF EndOfStatement, At, Goto, TypeOK
  <2> QED
    BY <1>0, <2>1 DEF Fresh, Flushes
<1>3. ASSUME DestroyDlt(t) PROVE Fresh(t)'
  <2>1. /\ pc[t] = "destroy" /\ pc'[t] = "destroy" /\ stdio' = stdio
        /\ unflushed'[t] = unflushed[t] \ {"dlt"} /\ ~LockAndPrint(t)
    BY <1>3 DEF DestroyDlt, LockAndPrint, At, TypeOK
  <2>2. ASSUME NEW x \in (stdio \cup output)', Mine(x, t) PROVE x.backend \notin unflushed'[t]
    BY <1>3, <2>1, <2>2, TextsOfStep DEF Fresh
  <2> QED
    BY <1>0, <2>1, <2>2 DEF Fresh, Flushes
<1>4. ASSUME FlushLog(t) PROVE Fresh(t)'
  <2>1. PICK b \in Streams \cap unflushed[t] :
          /\ unflushed' = [unflushed EXCEPT ![t] = @ \ {b}]
          /\ IF DataEnabled(t, b)
             THEN Goto(t, "suffix") /\ flushing' = [flushing EXCEPT ![t] = b]
             ELSE UNCHANGED <<pc, flushing>>
    BY <1>4 DEF FlushLog
  <2>2. /\ pc[t] = "destroy" /\ unflushed'[t] = unflushed[t] \ {b}
        /\ UNCHANGED <<stdio, output>>
    BY <1>4, <2>1 DEF FlushLog, At, TypeOK
  <2>3. pc'[t] = "destroy" \/ (pc'[t] = "suffix" /\ flushing'[t] = b)
    BY <2>1, <2>2 DEF Goto, TypeOK
  <2> QED
    BY <1>0, <2>1, <2>2, <2>3 DEF Fresh, Flushes
<1>5. ASSUME WriteSuffix(t) PROVE Fresh(t)'
  <2>1. /\ pc[t] = "suffix" /\ pc'[t] = "lock"
        /\ UNCHANGED <<stdio, output, unflushed, flushing>>
    BY <1>5 DEF WriteSuffix, At, Goto, TypeOK
  <2> QED
    BY <1>0, <2>1 DEF Fresh, Flushes
<1>6. ASSUME LockAndPrint(t) PROVE Fresh(t)'
  <2>1. /\ pc[t] = "lock" /\ pc'[t] = "flush" /\ UNCHANGED <<output, unflushed, flushing>>
        /\ ~DestroyDlt(t)
    BY <1>6 DEF LockAndPrint, DestroyDlt, At, Goto, TypeOK, locals
  <2>2. ASSUME NEW x \in (stdio \cup output)', Mine(x, t) PROVE x.backend \notin unflushed'[t]
    BY <1>6, <2>1, <2>2, TextsOfStep DEF Fresh, Flushes
  <2> QED
    BY <1>0, <2>1, <2>2 DEF Fresh, Flushes
<1>7. ASSUME FlushAndUnlock(t) \/ DestroyLogInfo(t) PROVE Fresh(t)'
  <2>1. /\ pc[t] \in {"flush", "destroy"} /\ pc'[t] \in {"destroy", "idle"}
        /\ UNCHANGED <<unflushed, flushing>>
        /\ (stdio \cup output)' \subseteq stdio \cup output
    BY <1>7 DEF FlushAndUnlock, DestroyLogInfo, At, Goto, TypeOK, locals
  <2> QED
    BY <1>0, <2>1 DEF Fresh, Flushes
<1> QED
  BY <1>1, <1>2, <1>3, <1>4, <1>5, <1>6, <1>7 DEF Step

LEMMA FreshOtherStep ==
  ASSUME NEW t \in Threads, Fresh(t),
         pc'[t] = pc[t], unflushed'[t] = unflushed[t], flushing'[t] = flushing[t],
         entries'[t] = entries[t],
         \A x \in (stdio \cup output)' : x.thread = t => x \in stdio \cup output,
         \A x \in output' : x.thread = t => x \in output
  PROVE  Fresh(t)'
<1>1. \A x : Mine(x, t)' <=> Mine(x, t)
  BY DEF Mine
<1>2. /\ \A x \in (stdio \cup output)' : Mine(x, t) => x \in stdio \cup output
      /\ \A x \in output' : Mine(x, t) => x \in output
  BY DEF Mine
<1> QED
  BY <1>1, <1>2 DEF Fresh, Flushes

LEMMA FreshStep ==
  ASSUME TypeOK, FlushingUsed, Once, NEW t \in Threads, [Next]_vars
  PROVE  Fresh(t)'
<1>0. Fresh(t)
  BY DEF Once
<1>1. ASSUME NEW u \in Threads, IsEnabled(u) PROVE Fresh(t)'
  <2>1. CASE t = u
    <3>1. /\ pc'[t] \in {"idle", "init"} /\ UNCHANGED <<stdio, output>>
          /\ entries'[t] = entries[t] + 1 /\ entries[t] \in Nat
      BY <1>1, <2>1, IsEnabledEffects DEF IsEnabled, TypeOK
    <3>2. \A x \in stdio \cup output : x.entry \in Nat
      BY DEF TypeOK, Line
    <3>3. \A x \in stdio \cup output : ~Mine(x, t)'
      BY <3>1, <3>2 DEF Mine, Once, LinesPast
    <3> QED
      BY <3>1, <3>3 DEF Fresh, Flushes
  <2>2. CASE t # u
    BY <1>0, <1>1, <2>2, IsEnabledEffects, FreshOtherStep
  <2> QED
    BY <2>1, <2>2
<1>2. ASSUME NEW u \in Threads \ {t}, StartWrite(u) \/ Step(u) PROVE Fresh(t)'
  <2>1. \A x \in (stdio \cup output)' : x.thread = t => x \in stdio \cup output
    BY <1>2, TextsOfStep
  <2>2. \A x \in output' : x.thread = t => x \in output
    <3>1. CASE FlushAndUnlock(u)
      <4>1. pc[u] = "flush" /\ output' \subseteq output \cup stdio
        BY <3>1 DEF FlushAndUnlock, At
      <4>2. \A x \in stdio : x.thread # t
        BY <1>2, <4>1 DEF Once, Exclusive
      <4> QED
        BY <4>1, <4>2
    <3>2. CASE DestroyDlt(u)
      BY <1>2, <3>2, TextIs DEF DestroyDlt
    <3>3. CASE UNCHANGED output
      BY <3>3
    <3> QED
      BY <1>2, <3>1, <3>2, <3>3 DEF Step, InitData, StartWrite, WriteBackend, EndOfStatement, FlushLog, WriteSuffix, LockAndPrint, DestroyLogInfo
  <2> QED
    BY <1>0, <1>2, <2>1, <2>2, EntryFrame, FreshOtherStep
<1>3. ASSUME StartWrite(t) \/ Step(t) PROVE Fresh(t)'
  BY <1>0, <1>3, FreshOwnStep
<1>4. CASE UNCHANGED <<pc, unflushed, flushing, entries, stdio, output>>
  BY <1>0, <1>4, FreshOtherStep
<1> QED
  BY <1>1, <1>2, <1>3, <1>4, ChangeFrame DEF Next, Finished, vars, locals

LEMMA OnceHolds == Spec => []Once
<1>1. Once /\ TypeOK /\ FlushingUsed /\ [Next]_vars => Once'
  BY ExclusiveStep, LinesPastStep, FreshStep DEF Once
<1> QED
  BY <1>1, OnceInit, DecisionsHold, PTL DEF Spec

Open == {t \in Threads : pc[t] # "idle"}
OwedBackends == [t \in Threads |-> Owed(t)]
WelcomeBackends == [t \in Threads |-> Welcome(t)]

\* The steps inside an entry owe no more and no less.
LEMMA PromisesKept ==
  ASSUME TypeOK, NEW t \in Threads, StartWrite(t) \/ Step(t), pc[t] # "idle"
  PROVE  /\ entries' = entries
         /\ \A u \in Threads \ {t} : Owed(u)' = Owed(u) /\ Welcome(u)' = Welcome(u)
         /\ pc'[t] # "idle" => UNCHANGED <<Open, OwedBackends, WelcomeBackends>>
         /\ pc'[t] = "idle" => Open' = Open \ {t} /\ Owed(t)' = {} /\ Welcome(t)' = {}
<1>1. /\ UNCHANGED <<settings, ghosts, entries>>
      /\ \A u \in Threads \ {t} : pc'[u] = pc[u]
  BY EntryFrame
<1>2. ASSUME NEW u \in Threads, pc'[u] = "idle" <=> pc[u] = "idle"
      PROVE  Owed(u)' = Owed(u) /\ Welcome(u)' = Welcome(u)
  BY <1>1, <1>2 DEF Owed, Welcome, Stable, FileAvailable, settings, ghosts
<1>3. ASSUME pc'[t] # "idle" PROVE UNCHANGED <<Open, OwedBackends, WelcomeBackends>>
  <2>1. \A u \in Threads : Owed(u)' = Owed(u) /\ Welcome(u)' = Welcome(u)
    BY <1>1, <1>2, <1>3
  <2>2. Open' = Open
    BY <1>1, <1>3 DEF Open
  <2> QED
    BY <2>1, <2>2 DEF OwedBackends, WelcomeBackends
<1>4. ASSUME pc'[t] = "idle"
      PROVE  Open' = Open \ {t} /\ Owed(t)' = {} /\ Welcome(t)' = {}
  BY <1>1, <1>4 DEF Open, Owed, Welcome, Stable
<1> QED
  BY <1>1, <1>2, <1>3, <1>4

\* The check of the level begins a statement.
LEMMA IsEnabledBegins ==
  ASSUME TypeOK, NEW t \in Threads, IsEnabled(t)
  PROVE  Delivery!Begin(t)
<1> DEFINE accepting == {b \in Used : ContextEnabled(b, severity'[t])}
           required == {b \in accepting : FileAvailable(b)}
<1>1. /\ UNCHANGED <<settings, output, process>> /\ pc[t] = "idle" /\ process = "running"
      /\ enabledAtStart'[t] = accepting /\ t \notin changed'
      /\ entries' = [entries EXCEPT ![t] = @ + 1]
  BY IsEnabledEffects DEF IsEnabled, At
<1>2. /\ pc'[t] = IF accepting = {} THEN "idle" ELSE "init"
      /\ \A u \in Threads \ {t} : pc'[u] = pc[u]
  <2>1. PICK l \in LogLevels :
          /\ Goto(t, IF {b \in Used : ContextEnabled(b, l)} = {} THEN "idle" ELSE "init")
          /\ severity' = [severity EXCEPT ![t] = l]
    BY DEF IsEnabled
  <2>2. severity'[t] = l
    BY <2>1 DEF TypeOK
  <2> QED
    BY <2>1, <2>2 DEF Goto, TypeOK
<1>3. ASSUME NEW u \in Threads \ {t}
      PROVE  Owed(u)' = Owed(u) /\ Welcome(u)' = Welcome(u)
  <2>1. /\ pc'[u] = pc[u] /\ enabledAtStart'[u] = enabledAtStart[u]
        /\ u \in changed' <=> u \in changed
    BY IsEnabledEffects
  <2> QED
    BY <1>1, <2>1 DEF Owed, Welcome, Stable, FileAvailable, settings
<1>4. Welcome(t)' = accepting /\ Owed(t)' = required
  BY <1>1, <1>2 DEF Owed, Welcome, Stable, FileAvailable, settings
<1>5. Open' = IF accepting = {} THEN Open ELSE Open \cup {t}
  BY <1>1, <1>2 DEF Open
<1>6. /\ OwedBackends' = [OwedBackends EXCEPT ![t] = required]
      /\ WelcomeBackends' = [WelcomeBackends EXCEPT ![t] = accepting]
  BY <1>3, <1>4 DEF OwedBackends, WelcomeBackends
<1>7. accepting \in SUBSET Used /\ required \in SUBSET accepting
  OBVIOUS
<1> HIDE DEF accepting, required
<1> QED
  BY <1>1, <1>5, <1>6, <1>7 DEF Delivery!Begin, Open, OwedBackends, WelcomeBackends

\* A text that arrives is of an open statement, and the first one of it.
LEMMA TextDelivered ==
  ASSUME TypeOK, NEW t \in Threads, StartWrite(t) \/ Step(t), process = "running",
         pc[t] # "idle", pc'[t] # "idle", process' = process,
         NEW b \in Welcome(t), NEW x, Mine(x, t), x.backend = b,
         \A y \in output : Mine(y, t) => y.backend # b,
         output' = output \cup {x}
  PROVE  Delivery!Deliver(t)
<1>1. UNCHANGED <<entries, Open, OwedBackends, WelcomeBackends>>
  BY PromisesKept
<1>2. t \in Open /\ b \in WelcomeBackends[t]
  BY DEF Open, WelcomeBackends
<1>3. x \notin output /\ output' # output /\ x \in output'
  OBVIOUS
<1>4. Delivery!IsFrom(x, t, b) /\ ~Delivery!Has(b, t)
  BY DEF Delivery!IsFrom, Delivery!Has, Mine
<1> QED
  BY <1>1, <1>2, <1>3, <1>4 DEF Delivery!Deliver, Open, OwedBackends, WelcomeBackends

LEMMA DestroyDelivers ==
  ASSUME TypeOK, Decisions, Once, NEW t \in Threads, DestroyDlt(t)
  PROVE  Delivery!Deliver(t) \/ UNCHANGED output
<1>1. SUFFICES ASSUME DataEnabled(t, "dlt") PROVE Delivery!Deliver(t)
  BY DEF DestroyDlt
<1>2. /\ pc[t] = "destroy" /\ "dlt" \in unflushed[t] /\ UNCHANGED <<pc, process>>
      /\ output' = output \cup {Text(t, "dlt")} /\ process = "running" /\ "dlt" \in Used
  BY <1>1 DEF DestroyDlt, At, TypeOK
<1>3. "dlt" \in Welcome(t)
  BY <1>1, <1>2 DEF Welcome, Stable, Decisions, DltDecided, AskedAtStart, DataEnabled
<1>4. \A y \in output : Mine(y, t) => y.backend # "dlt"
  BY <1>2 DEF Once, Fresh
<1>5. Mine(Text(t, "dlt"), t) /\ Text(t, "dlt").backend = "dlt"
  BY TextIs DEF Mine
<1> QED
  BY <1>2, <1>3, <1>4, <1>5, TextDelivered DEF Step

LEMMA FlushDelivers ==
  ASSUME TypeOK, FlushingUsed, Decisions, Once, NEW t \in Threads, FlushAndUnlock(t)
  PROVE  Delivery!Deliver(t) \/ UNCHANGED output
<1>1. /\ pc[t] = "flush" /\ outputMutex = t /\ process = "running"
      /\ UNCHANGED process /\ pc'[t] = "destroy"
      /\ output' = output \cup {x \in stdio : x.backend = flushing[t]}
  BY DEF FlushAndUnlock, At, Goto, TypeOK, Once, Exclusive
<1>2. CASE stdio = {}
  BY <1>1, <1>2
<1>3. ASSUME NEW x \in stdio PROVE Delivery!Deliver(t)
  <2>1. x.thread = t /\ Mine(x, t) /\ x.backend = flushing[t] /\ stdio = {x}
    <3>1. x.thread \in Threads
      BY DEF TypeOK, Line
    <3>2. x.thread = t
      BY <1>1, <3>1 DEF Once, Exclusive
    <3> QED
      BY <3>2 DEF Once, Exclusive
  <2>2. output' = output \cup {x}
    BY <1>1, <2>1
  <2>3. \A y \in output : Mine(y, t) => y.backend # flushing[t]
    BY <1>1 DEF Once, Fresh
  <2>4. flushing[t] \in Welcome(t)
    BY <1>1 DEF Welcome, Stable, Decisions, FlushAccepted, AskedAtStart, Flushes, FlushingUsed
  <2> QED
    BY <1>1, <2>1, <2>2, <2>3, <2>4, TextDelivered DEF Step
<1> QED
  BY <1>2, <1>3

\* A statement is over when what it owes has arrived.
LEMMA NothingOwed ==
  ASSUME TypeOK, Decisions, NEW t \in Threads, PassedOn(t), DestroyLogInfo(t)
  PROVE  Delivery!Complete(t)
<1>1. pc[t] = "destroy" /\ unflushed[t] = {} /\ process = "running"
  BY DEF DestroyLogInfo, At
<1>2. ASSUME NEW b \in Owed(t) PROVE Delivery!Has(b, t)
  <2>1. /\ Stable(t) /\ b \in enabledAtStart[t] /\ FileAvailable(b) /\ b \in Used
        /\ ContextEnabled(b, severity[t])
    BY <1>2 DEF Owed, TypeOK, Decisions, AskedAtStart
  <2>2. Given(output, t, b)
    BY <1>1, <2>1 DEF PassedOn, Pending, Flushes, Stable
  <2> QED
    BY <2>2 DEF Given, Delivery!Has, Delivery!IsFrom
<1>3. t \in Open /\ OwedBackends[t] = Owed(t)
  BY <1>1 DEF Open, OwedBackends
<1> QED
  BY <1>1, <1>2, <1>3 DEF Delivery!Complete, Open, OwedBackends

\* ~LogInfo ends the statement or aborts the process.
LEMMA DestroyEnds ==
  ASSUME TypeOK, Decisions, NEW t \in Threads, PassedOn(t), DestroyLogInfo(t)
  PROVE  Delivery!End(t) \/ Delivery!Abort(t)
<1>1. Delivery!Complete(t)
  BY NothingOwed
<1>2. pc[t] = "destroy" /\ process = "running" /\ output' = output
  BY DEF DestroyLogInfo, At
<1>3. CASE process' = "aborted" /\ UNCHANGED pc
  <2>1. UNCHANGED <<entries, Open, OwedBackends, WelcomeBackends>>
    BY <1>2, <1>3, PromisesKept DEF Step
  <2> QED
    BY <1>1, <1>2, <1>3, <2>1 DEF Delivery!Abort, Open, OwedBackends, WelcomeBackends
<1>4. CASE Goto(t, "idle") /\ UNCHANGED process
  <2>1. pc'[t] = "idle"
    BY <1>4 DEF Goto, TypeOK
  <2>2. /\ entries' = entries /\ Open' = Open \ {t}
        /\ Owed(t)' = {} /\ Welcome(t)' = {}
        /\ \A u \in Threads \ {t} : Owed(u)' = Owed(u) /\ Welcome(u)' = Welcome(u)
    BY <1>2, <2>1, PromisesKept DEF Step
  <2>3. /\ OwedBackends' = [OwedBackends EXCEPT ![t] = {}]
        /\ WelcomeBackends' = [WelcomeBackends EXCEPT ![t] = {}]
    BY <2>2 DEF OwedBackends, WelcomeBackends
  <2> QED
    BY <1>1, <1>2, <1>4, <2>2, <2>3 DEF Delivery!End, Open, OwedBackends, WelcomeBackends
<1> QED
  BY <1>3, <1>4 DEF DestroyLogInfo

\* A setting that changes excuses the entries under way.
LEMMA ChangeDisturbs ==
  ASSUME TypeOK, SetLogLevel \/ SetGlobalLogLevel \/ SetFilePath
  PROVE  Delivery!Disturb
<1>1. /\ process = "running" /\ UNCHANGED <<process, pc, entries, output>>
      /\ \A t \in Threads : pc[t] # "idle" => t \in changed'
  BY ChangeFrame DEF SetLogLevel, SetGlobalLogLevel, SetFilePath, Changing
<1>2. \A t \in Threads :
        Owed(t)' = {} /\ Welcome(t)' = IF t \in Open THEN Used ELSE {}
  BY <1>1 DEF Owed, Welcome, Stable, Open
<1>3. OwedBackends' = [t \in Threads |-> {}]
  BY <1>2 DEF OwedBackends
<1>4. WelcomeBackends' = [t \in Threads |-> IF t \in Open THEN Used ELSE {}]
  BY <1>2 DEF WelcomeBackends
<1> QED
  BY <1>1, <1>3, <1>4 DEF Delivery!Disturb, Open, OwedBackends, WelcomeBackends

\* What the environment of a statement sees of it does not change.
Unseen == UNCHANGED <<Open, entries, OwedBackends, WelcomeBackends, output, process>>

LEMMA EntryStepDelivers ==
  ASSUME TypeOK, FlushingUsed, Decisions, Once, NEW t \in Threads, PassedOn(t),
         StartWrite(t) \/ Step(t)
  PROVE  Delivery!Next \/ Unseen
<1>1. CASE DestroyLogInfo(t)
  BY <1>1, DestroyEnds DEF Delivery!Next
<1>2. CASE DestroyDlt(t) \/ FlushAndUnlock(t)
  <2>1. pc[t] # "idle" /\ pc'[t] # "idle" /\ process' = process
    BY <1>2 DEF DestroyDlt, FlushAndUnlock, At, Goto, TypeOK
  <2>2. UNCHANGED <<entries, Open, OwedBackends, WelcomeBackends>>
    BY <2>1, PromisesKept
  <2> QED
    BY <1>2, <2>1, <2>2, DestroyDelivers, FlushDelivers DEF Delivery!Next, Unseen
<1>3. CASE \/ StartWrite(t) \/ InitData(t) \/ WriteBackend(t) \/ EndOfStatement(t)
           \/ FlushLog(t) \/ WriteSuffix(t) \/ LockAndPrint(t)
  <2>1. UNCHANGED <<output, process>>
    BY <1>3 DEF StartWrite, InitData, WriteBackend, EndOfStatement, FlushLog, WriteSuffix, LockAndPrint
  <2>2. pc[t] # "idle" /\ pc'[t] # "idle"
    BY <1>3 DEF StartWrite, InitData, WriteBackend, EndOfStatement, FlushLog, WriteSuffix, LockAndPrint, At, Goto, TypeOK
  <2>3. UNCHANGED <<entries, Open, OwedBackends, WelcomeBackends>>
    BY <2>2, PromisesKept
  <2> QED
    BY <2>1, <2>3 DEF Unseen
<1> QED
  BY <1>1, <1>2, <1>3 DEF Step

LEMMA DeliveryStep ==
  ASSUME TypeOK, FlushingUsed, Decisions, Once, Ending, [Next]_vars
  PROVE  [Delivery!Next]_(Delivery!vars)
<1>1. ASSUME NEW t \in Threads, IsEnabled(t) PROVE Delivery!Next
  BY <1>1, IsEnabledBegins DEF Delivery!Next
<1>2. ASSUME NEW t \in Threads, StartWrite(t) \/ Step(t) PROVE Delivery!Next \/ Unseen
  BY <1>2, EntryStepDelivers DEF Ending
<1>3. CASE SetLogLevel \/ SetGlobalLogLevel \/ SetFilePath
  BY <1>3, ChangeDisturbs DEF Delivery!Next
<1>4. ASSUME UNCHANGED vars PROVE Unseen
  <2>1. \A t \in Threads : Owed(t)' = Owed(t) /\ Welcome(t)' = Welcome(t)
    BY <1>4 DEF Owed, Welcome, Stable, FileAvailable, vars, settings, ghosts
  <2>2. UNCHANGED <<OwedBackends, WelcomeBackends>>
    BY <2>1 DEF OwedBackends, WelcomeBackends
  <2>3. UNCHANGED <<pc, entries, output, process>>
    BY <1>4 DEF vars
  <2>4. UNCHANGED Open
    BY <2>3 DEF Open
  <2> QED
    BY <2>2, <2>3, <2>4 DEF Unseen
<1>5. Unseen => UNCHANGED Delivery!vars
  BY DEF Unseen, Open, OwedBackends, WelcomeBackends, Delivery!vars
<1> QED
  BY <1>1, <1>2, <1>3, <1>4, <1>5 DEF Next, Finished

LEMMA DeliveryInit == Init => Delivery!Init
<1> SUFFICES ASSUME Init PROVE Delivery!Init
  OBVIOUS
<1>1. \A t \in Threads : Owed(t) = {} /\ Welcome(t) = {}
  BY DEF Init, Owed, Welcome, Stable
<1> QED
  BY <1>1 DEF Init, Delivery!Init

\* EntriesAreDelivered: however many threads share the output mutex and however
\* the levels change, a log statement is over, or has aborted the process, only
\* when the backends that accept its entry have it, and none has it twice.
THEOREM LogEntryImplementsEntryDelivery == Spec => EntriesAreDelivered
<1>1. TypeOK /\ FlushingUsed /\ Decisions /\ Once /\ Ending /\ [Next]_vars
        => [Delivery!Next]_(Delivery!vars)
  BY DeliveryStep
<1> QED
  BY <1>1, DeliveryInit, DecisionsHold, OnceHolds, EndingHolds, PTL
     DEF Spec, EntriesAreDelivered, Delivery!Spec
=============================================================================
