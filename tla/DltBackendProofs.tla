-------------------------- MODULE DltBackendProofs --------------------------
(***************************************************************************)
(* Theorems about DltBackend: the unprotected flags of the first use are   *)
(* enough for any number of threads and contexts.  Each theorem rests on   *)
(* one part of an inductive invariant; the parts say what holds at each    *)
(* program point of a thread that others may be ahead of or behind.        *)
(***************************************************************************)
EXTENDS DltBackend, TLAPS

\* The threads that are past the identifiers, the settings and the application.
HasAppIds(t) == pc[t] \in {"environment", "threadSetting", "initialized", "checkApp",
                           "registerApp", "registerPid", "appDone", "registerContext"}
HasSettings(t) == pc[t] \in {"initialized", "checkApp", "registerApp", "registerPid",
                             "appDone", "registerContext", "registeredContext",
                             "enabled", "init", "open"}
HasApp(t) == pc[t] \in {"appDone", "registerContext"}
HasContext(t) == pc[t] \in {"registeredContext", "enabled", "init", "open"}

\* The pointer is set before it is used, and its id is the only one that a
\* process without warnings and refusals has registered.
AppIds ==
  /\ \A t \in Threads :
       /\ HasAppIds(t) => s_pAppLogContext # "null"
       /\ At(t, "default") => s_pAppLogContext # "application"
       /\ At(t, "registerPid") => appFailures > 0
  /\ applications # {} => s_pAppLogContext # "null"
  /\ OneApplication

\* Reading the settings again changes nothing, and nobody passes them unread.
AsRequested == /\ settings.sourceCodeLocation = requested.sourceCodeLocation
               /\ settings.thread = requested.thread

SettingsRead ==
  /\ \A t \in Threads :
       /\ At(t, "threadSetting") => settings.sourceCodeLocation = requested.sourceCodeLocation
       /\ HasSettings(t) => AsRequested
  /\ \A c \in Contexts : m_bRegistered[c] => AsRequested
  /\ s_initialized => AsRequested
  /\ MetadataAsRequested

\* Whoever finds the application registered is right, or it was refused twice.
AppKnown ==
  /\ (m_appRegistered \/ registered # {} \/ \E t \in Threads : HasApp(t))
       => (applications # {} \/ appFailures > 1)
  /\ \A t \in Threads : At(t, "registerPid") => appFailures > 0

\* A context is only marked when it is registered, and stays so while threads run.
ContextsKnown ==
  /\ \A t \in Threads :
       pc[t] # "exited" => \A c \in Contexts : m_bRegistered[c] => c \in registered
  /\ \A t \in Threads : HasContext(t) => ctx[t] \in registered

\* An entry is started exactly while an enabled one is open.
Bracketed ==
  /\ ~misused
  /\ \A t \in Threads :
       /\ started[t] => m_enabled[t] /\ pc[t] = "open"
       /\ m_enabled[t] /\ pc[t] = "open" => started[t]

-----------------------------------------------------------------------------
\* What registerDLTApp does, one alternative per result of dlt_register_app.
Registers(t, id) ==
  /\ applications' = applications \cup {id} /\ appFailures' = appFailures
  /\ pc' = [pc EXCEPT ![t] = "appDone"]

Refused(t, label) ==
  /\ applications' = applications /\ appFailures' = appFailures + 1
  /\ pc' = [pc EXCEPT ![t] = label]

LEMMA RegisterAppEffects ==
  ASSUME NEW t \in Threads, RegisterApp(t)
  PROVE  /\ pc[t] = "registerApp"
         /\ Registers(t, IdOf(s_pAppLogContext)) \/ Refused(t, "registerPid")
         /\ UNCHANGED <<build, statics, registered, log_level, locals, ghosts, entries,
                        levelChanges, errors>>
BY DEF RegisterApp, At, Goto, AppRegistered, AppRefused, Registers, Refused

LEMMA RegisterPidEffects ==
  ASSUME NEW t \in Threads, RegisterPid(t)
  PROVE  /\ pc[t] = "registerPid"
         /\ Registers(t, "pid") \/ Refused(t, "appDone")
         /\ UNCHANGED <<build, statics, registered, log_level, locals, ghosts, entries,
                        levelChanges, errors>>
BY DEF RegisterPid, At, Goto, AppRegistered, AppRefused, Registers, Refused

\* Each step keeps the types; the id that is registered is never that of a null
\* pointer.
LEMMA TypesStep ==
  ASSUME TypeOK, AppIds, [Next]_vars
  PROVE  TypeOK'
<1> USE BackendAssumption DEF At, Goto, vars, build, statics, library, locals, ghosts, boundVars, TypeOK, Settings, AppIds, HasAppIds
<1>1. ASSUME NEW t \in Threads, CheckContext(t) PROVE TypeOK'
  BY <1>1 DEF CheckContext
<1>2. ASSUME NEW t \in Threads, CheckAppIds(t) PROVE TypeOK'
  BY <1>2 DEF CheckAppIds
<1>3. ASSUME NEW t \in Threads, SetDefaultAppIds(t) PROVE TypeOK'
  BY <1>3 DEF SetDefaultAppIds, IdOf
<1>4. ASSUME NEW t \in Threads, ReadSourceSetting(t) PROVE TypeOK'
  BY <1>4 DEF ReadSourceSetting
<1>5. ASSUME NEW t \in Threads, ReadThreadSetting(t) PROVE TypeOK'
  BY <1>5 DEF ReadThreadSetting
<1>6. ASSUME NEW t \in Threads, SetInitialized(t) PROVE TypeOK'
  BY <1>6 DEF SetInitialized
<1>7. ASSUME NEW t \in Threads, CheckAppRegistered(t) PROVE TypeOK'
  BY <1>7 DEF CheckAppRegistered
<1>8. ASSUME NEW t \in Threads, RegisterApp(t) PROVE TypeOK'
  <2>0. IdOf(s_pAppLogContext) \in {"application", "pid"}
    <3>1. s_pAppLogContext = "application" \/ s_pAppLogContext = "default"
      BY RegisterAppEffects, <1>8
    <3> QED
      BY <3>1 DEF IdOf
  <2>1. CASE Registers(t, IdOf(s_pAppLogContext))
    BY <2>0, <2>1, RegisterAppEffects, <1>8 DEF Registers
  <2>2. CASE Refused(t, "registerPid")
    BY <2>2, RegisterAppEffects, <1>8 DEF Refused
  <2> QED
    BY <2>1, <2>2, RegisterAppEffects, <1>8
<1>9. ASSUME NEW t \in Threads, RegisterPid(t) PROVE TypeOK'
  <2>1. CASE Registers(t, "pid")
    BY <2>1, RegisterPidEffects, <1>9 DEF Registers
  <2>2. CASE Refused(t, "appDone")
    BY <2>2, RegisterPidEffects, <1>9 DEF Refused
  <2> QED
    BY <2>1, <2>2, RegisterPidEffects, <1>9
<1>10. ASSUME NEW t \in Threads, SetAppRegistered(t) PROVE TypeOK'
  BY <1>10 DEF SetAppRegistered
<1>11. ASSUME NEW t \in Threads, RegisterContext(t) PROVE TypeOK'
  BY <1>11 DEF RegisterContext
<1>12. ASSUME NEW t \in Threads, SetRegistered(t) PROVE TypeOK'
  BY <1>12 DEF SetRegistered
<1>13. ASSUME NEW t \in Threads, IsEnabled(t) PROVE TypeOK'
  BY <1>13 DEF IsEnabled, WriteStart
<1>14. ASSUME NEW t \in Threads, InitData(t) PROVE TypeOK'
  BY <1>14 DEF InitData, WriteStart
<1>15. ASSUME NEW t \in Threads, WriteValue(t) PROVE TypeOK'
  BY <1>15 DEF WriteValue
<1>16. ASSUME NEW t \in Threads, DestroyData(t) PROVE TypeOK'
  <2>1. misused' \in BOOLEAN /\ started' \in [Threads -> BOOLEAN]
    BY <1>16 DEF DestroyData
  <2>2. sent' \subseteq Settings
    BY <1>16 DEF DestroyData
  <2> QED
    BY <1>16, <2>1, <2>2 DEF DestroyData
<1>17. ASSUME DefineAppIds PROVE TypeOK'
  BY <1>17 DEF DefineAppIds
<1>18. ASSUME SetLevel PROVE TypeOK'
  BY <1>18 DEF SetLevel
<1>19. ASSUME DestroyContext PROVE TypeOK'
  BY <1>19 DEF DestroyContext
<1>20. CASE UNCHANGED vars
  BY <1>20
<1> QED
  BY <1>1, <1>2, <1>3, <1>4, <1>5, <1>6, <1>7, <1>8, <1>9, <1>10, <1>11, <1>12, <1>13, <1>14, <1>15, <1>16, <1>17, <1>18, <1>19, <1>20 DEF Next, FirstUse, Entry, Done

\* Each step keeps the identifiers.
LEMMA AppIdsStep ==
  ASSUME TypeOK, AppIds, [Next]_vars
  PROVE  AppIds'
<1> USE DEF At, Goto, vars, build, statics, library, locals, ghosts, boundVars, TypeOK, AppIds, HasAppIds, OneApplication
<1>1. ASSUME NEW t \in Threads, CheckContext(t) PROVE AppIds'
  BY <1>1 DEF CheckContext
<1>2. ASSUME NEW t \in Threads, CheckAppIds(t) PROVE AppIds'
  BY <1>2 DEF CheckAppIds
<1>3. ASSUME NEW t \in Threads, SetDefaultAppIds(t) PROVE AppIds'
  BY <1>3 DEF SetDefaultAppIds, IdOf
<1>4. ASSUME NEW t \in Threads, ReadSourceSetting(t) PROVE AppIds'
  BY <1>4 DEF ReadSourceSetting
<1>5. ASSUME NEW t \in Threads, ReadThreadSetting(t) PROVE AppIds'
  BY <1>5 DEF ReadThreadSetting
<1>6. ASSUME NEW t \in Threads, SetInitialized(t) PROVE AppIds'
  BY <1>6 DEF SetInitialized
<1>7. ASSUME NEW t \in Threads, CheckAppRegistered(t) PROVE AppIds'
  BY <1>7 DEF CheckAppRegistered
<1>8. ASSUME NEW t \in Threads, RegisterApp(t) PROVE AppIds'
  <2>1. CASE Registers(t, IdOf(s_pAppLogContext))
    BY <2>1, RegisterAppEffects, <1>8 DEF Registers
  <2>2. CASE Refused(t, "registerPid")
    BY <2>2, RegisterAppEffects, <1>8 DEF Refused
  <2> QED
    BY <2>1, <2>2, RegisterAppEffects, <1>8
<1>9. ASSUME NEW t \in Threads, RegisterPid(t) PROVE AppIds'
  <2>1. CASE Registers(t, "pid")
    BY <2>1, RegisterPidEffects, <1>9 DEF Registers
  <2>2. CASE Refused(t, "appDone")
    BY <2>2, RegisterPidEffects, <1>9 DEF Refused
  <2> QED
    BY <2>1, <2>2, RegisterPidEffects, <1>9
<1>10. ASSUME NEW t \in Threads, SetAppRegistered(t) PROVE AppIds'
  BY <1>10 DEF SetAppRegistered
<1>11. ASSUME NEW t \in Threads, RegisterContext(t) PROVE AppIds'
  BY <1>11 DEF RegisterContext
<1>12. ASSUME NEW t \in Threads, SetRegistered(t) PROVE AppIds'
  BY <1>12 DEF SetRegistered
<1>13. ASSUME NEW t \in Threads, IsEnabled(t) PROVE AppIds'
  BY <1>13 DEF IsEnabled, WriteStart
<1>14. ASSUME NEW t \in Threads, InitData(t) PROVE AppIds'
  BY <1>14 DEF InitData, WriteStart
<1>15. ASSUME NEW t \in Threads, WriteValue(t) PROVE AppIds'
  BY <1>15 DEF WriteValue
<1>16. ASSUME NEW t \in Threads, DestroyData(t) PROVE AppIds'
  BY <1>16 DEF DestroyData
<1>17. ASSUME DefineAppIds PROVE AppIds'
  BY <1>17 DEF DefineAppIds
<1>18. ASSUME SetLevel PROVE AppIds'
  BY <1>18 DEF SetLevel
<1>19. ASSUME DestroyContext PROVE AppIds'
  BY <1>19 DEF DestroyContext
<1>20. CASE UNCHANGED vars
  BY <1>20
<1> QED
  BY <1>1, <1>2, <1>3, <1>4, <1>5, <1>6, <1>7, <1>8, <1>9, <1>10, <1>11, <1>12, <1>13, <1>14, <1>15, <1>16, <1>17, <1>18, <1>19, <1>20 DEF Next, FirstUse, Entry, Done

\* Each step keeps the settings read.
LEMMA SettingsStep ==
  ASSUME TypeOK, SettingsRead, [Next]_vars
  PROVE  SettingsRead'
<1> USE DEF At, Goto, vars, build, statics, library, locals, ghosts, boundVars, TypeOK, Settings, SettingsRead, HasSettings, AsRequested,
            MetadataAsRequested
<1>1. ASSUME NEW t \in Threads, CheckContext(t) PROVE SettingsRead'
  BY <1>1 DEF CheckContext
<1>2. ASSUME NEW t \in Threads, CheckAppIds(t) PROVE SettingsRead'
  BY <1>2 DEF CheckAppIds
<1>3. ASSUME NEW t \in Threads, SetDefaultAppIds(t) PROVE SettingsRead'
  BY <1>3 DEF SetDefaultAppIds, IdOf
<1>4. ASSUME NEW t \in Threads, ReadSourceSetting(t) PROVE SettingsRead'
  BY <1>4 DEF ReadSourceSetting
<1>5. ASSUME NEW t \in Threads, ReadThreadSetting(t) PROVE SettingsRead'
  BY <1>5 DEF ReadThreadSetting
<1>6. ASSUME NEW t \in Threads, SetInitialized(t) PROVE SettingsRead'
  BY <1>6 DEF SetInitialized
<1>7. ASSUME NEW t \in Threads, CheckAppRegistered(t) PROVE SettingsRead'
  BY <1>7 DEF CheckAppRegistered
<1>8. ASSUME NEW t \in Threads, RegisterApp(t) PROVE SettingsRead'
  BY <1>8 DEF RegisterApp, AppRegistered, AppRefused, IdOf
<1>9. ASSUME NEW t \in Threads, RegisterPid(t) PROVE SettingsRead'
  BY <1>9 DEF RegisterPid, AppRegistered, AppRefused
<1>10. ASSUME NEW t \in Threads, SetAppRegistered(t) PROVE SettingsRead'
  BY <1>10 DEF SetAppRegistered
<1>11. ASSUME NEW t \in Threads, RegisterContext(t) PROVE SettingsRead'
  BY <1>11 DEF RegisterContext
<1>12. ASSUME NEW t \in Threads, SetRegistered(t) PROVE SettingsRead'
  BY <1>12 DEF SetRegistered
<1>13. ASSUME NEW t \in Threads, IsEnabled(t) PROVE SettingsRead'
  BY <1>13 DEF IsEnabled, WriteStart
<1>14. ASSUME NEW t \in Threads, InitData(t) PROVE SettingsRead'
  BY <1>14 DEF InitData, WriteStart
<1>15. ASSUME NEW t \in Threads, WriteValue(t) PROVE SettingsRead'
  BY <1>15 DEF WriteValue
<1>16. ASSUME NEW t \in Threads, DestroyData(t) PROVE SettingsRead'
  BY <1>16 DEF DestroyData
<1>17. ASSUME DefineAppIds PROVE SettingsRead'
  BY <1>17 DEF DefineAppIds
<1>18. ASSUME SetLevel PROVE SettingsRead'
  BY <1>18 DEF SetLevel
<1>19. ASSUME DestroyContext PROVE SettingsRead'
  BY <1>19 DEF DestroyContext
<1>20. CASE UNCHANGED vars
  BY <1>20
<1> QED
  BY <1>1, <1>2, <1>3, <1>4, <1>5, <1>6, <1>7, <1>8, <1>9, <1>10, <1>11, <1>12, <1>13, <1>14, <1>15, <1>16, <1>17, <1>18, <1>19, <1>20 DEF Next, FirstUse, Entry, Done

\* Each step keeps the application known.
LEMMA AppStep ==
  ASSUME TypeOK, AppKnown, [Next]_vars
  PROVE  AppKnown'
<1> USE DEF At, Goto, vars, build, statics, library, locals, ghosts, boundVars, TypeOK, AppKnown, HasApp
<1>1. ASSUME NEW t \in Threads, CheckContext(t) PROVE AppKnown'
  BY <1>1 DEF CheckContext
<1>2. ASSUME NEW t \in Threads, CheckAppIds(t) PROVE AppKnown'
  BY <1>2 DEF CheckAppIds
<1>3. ASSUME NEW t \in Threads, SetDefaultAppIds(t) PROVE AppKnown'
  BY <1>3 DEF SetDefaultAppIds, IdOf
<1>4. ASSUME NEW t \in Threads, ReadSourceSetting(t) PROVE AppKnown'
  BY <1>4 DEF ReadSourceSetting
<1>5. ASSUME NEW t \in Threads, ReadThreadSetting(t) PROVE AppKnown'
  BY <1>5 DEF ReadThreadSetting
<1>6. ASSUME NEW t \in Threads, SetInitialized(t) PROVE AppKnown'
  BY <1>6 DEF SetInitialized
<1>7. ASSUME NEW t \in Threads, CheckAppRegistered(t) PROVE AppKnown'
  BY <1>7 DEF CheckAppRegistered
<1>8. ASSUME NEW t \in Threads, RegisterApp(t) PROVE AppKnown'
  <2>1. CASE Registers(t, IdOf(s_pAppLogContext))
    BY <2>1, RegisterAppEffects, <1>8 DEF IdOf, Registers
  <2>2. CASE Refused(t, "registerPid")
    BY <2>2, RegisterAppEffects, <1>8 DEF Refused
  <2> QED
    BY <2>1, <2>2, RegisterAppEffects, <1>8
<1>9. ASSUME NEW t \in Threads, RegisterPid(t) PROVE AppKnown'
  <2>1. CASE Registers(t, "pid")
    BY <2>1, RegisterPidEffects, <1>9 DEF Registers
  <2>2. CASE Refused(t, "appDone")
    BY <2>2, RegisterPidEffects, <1>9 DEF Refused
  <2> QED
    BY <2>1, <2>2, RegisterPidEffects, <1>9
<1>10. ASSUME NEW t \in Threads, SetAppRegistered(t) PROVE AppKnown'
  BY <1>10 DEF SetAppRegistered
<1>11. ASSUME NEW t \in Threads, RegisterContext(t) PROVE AppKnown'
  BY <1>11 DEF RegisterContext
<1>12. ASSUME NEW t \in Threads, SetRegistered(t) PROVE AppKnown'
  BY <1>12 DEF SetRegistered
<1>13. ASSUME NEW t \in Threads, IsEnabled(t) PROVE AppKnown'
  BY <1>13 DEF IsEnabled, WriteStart
<1>14. ASSUME NEW t \in Threads, InitData(t) PROVE AppKnown'
  BY <1>14 DEF InitData, WriteStart
<1>15. ASSUME NEW t \in Threads, WriteValue(t) PROVE AppKnown'
  BY <1>15 DEF WriteValue
<1>16. ASSUME NEW t \in Threads, DestroyData(t) PROVE AppKnown'
  BY <1>16 DEF DestroyData
<1>17. ASSUME DefineAppIds PROVE AppKnown'
  BY <1>17 DEF DefineAppIds
<1>18. ASSUME SetLevel PROVE AppKnown'
  BY <1>18 DEF SetLevel
<1>19. ASSUME DestroyContext PROVE AppKnown'
  BY <1>19 DEF DestroyContext
<1>20. CASE UNCHANGED vars
  BY <1>20
<1> QED
  BY <1>1, <1>2, <1>3, <1>4, <1>5, <1>6, <1>7, <1>8, <1>9, <1>10, <1>11, <1>12, <1>13, <1>14, <1>15, <1>16, <1>17, <1>18, <1>19, <1>20 DEF Next, FirstUse, Entry, Done

\* Each step keeps the contexts known.
LEMMA ContextsStep ==
  ASSUME TypeOK, ContextsKnown, [Next]_vars
  PROVE  ContextsKnown'
<1> USE DEF At, Goto, vars, build, statics, library, locals, ghosts, boundVars, TypeOK, ContextsKnown, HasContext
<1>1. ASSUME NEW t \in Threads, CheckContext(t) PROVE ContextsKnown'
  BY <1>1 DEF CheckContext
<1>2. ASSUME NEW t \in Threads, CheckAppIds(t) PROVE ContextsKnown'
  BY <1>2 DEF CheckAppIds
<1>3. ASSUME NEW t \in Threads, SetDefaultAppIds(t) PROVE ContextsKnown'
  BY <1>3 DEF SetDefaultAppIds, IdOf
<1>4. ASSUME NEW t \in Threads, ReadSourceSetting(t) PROVE ContextsKnown'
  BY <1>4 DEF ReadSourceSetting
<1>5. ASSUME NEW t \in Threads, ReadThreadSetting(t) PROVE ContextsKnown'
  BY <1>5 DEF ReadThreadSetting
<1>6. ASSUME NEW t \in Threads, SetInitialized(t) PROVE ContextsKnown'
  BY <1>6 DEF SetInitialized
<1>7. ASSUME NEW t \in Threads, CheckAppRegistered(t) PROVE ContextsKnown'
  BY <1>7 DEF CheckAppRegistered
<1>8. ASSUME NEW t \in Threads, RegisterApp(t) PROVE ContextsKnown'
  BY <1>8 DEF RegisterApp, AppRegistered, AppRefused, IdOf
<1>9. ASSUME NEW t \in Threads, RegisterPid(t) PROVE ContextsKnown'
  BY <1>9 DEF RegisterPid, AppRegistered, AppRefused
<1>10. ASSUME NEW t \in Threads, SetAppRegistered(t) PROVE ContextsKnown'
  BY <1>10 DEF SetAppRegistered
<1>11. ASSUME NEW t \in Threads, RegisterContext(t) PROVE ContextsKnown'
  BY <1>11 DEF RegisterContext
<1>12. ASSUME NEW t \in Threads, SetRegistered(t) PROVE ContextsKnown'
  BY <1>12 DEF SetRegistered
<1>13. ASSUME NEW t \in Threads, IsEnabled(t) PROVE ContextsKnown'
  BY <1>13 DEF IsEnabled, WriteStart
<1>14. ASSUME NEW t \in Threads, InitData(t) PROVE ContextsKnown'
  BY <1>14 DEF InitData, WriteStart
<1>15. ASSUME NEW t \in Threads, WriteValue(t) PROVE ContextsKnown'
  BY <1>15 DEF WriteValue
<1>16. ASSUME NEW t \in Threads, DestroyData(t) PROVE ContextsKnown'
  BY <1>16 DEF DestroyData
<1>17. ASSUME DefineAppIds PROVE ContextsKnown'
  BY <1>17 DEF DefineAppIds
<1>18. ASSUME SetLevel PROVE ContextsKnown'
  BY <1>18 DEF SetLevel
<1>19. ASSUME DestroyContext PROVE ContextsKnown'
  BY <1>19 DEF DestroyContext
<1>20. CASE UNCHANGED vars
  BY <1>20
<1> QED
  BY <1>1, <1>2, <1>3, <1>4, <1>5, <1>6, <1>7, <1>8, <1>9, <1>10, <1>11, <1>12, <1>13, <1>14, <1>15, <1>16, <1>17, <1>18, <1>19, <1>20 DEF Next, FirstUse, Entry, Done

\* Each step keeps the entries bracketed.
LEMMA BracketsStep ==
  ASSUME TypeOK, Bracketed, [Next]_vars
  PROVE  Bracketed'
<1> USE DEF At, Goto, vars, build, statics, library, locals, ghosts, boundVars, TypeOK, Bracketed
<1>1. ASSUME NEW t \in Threads, CheckContext(t) PROVE Bracketed'
  BY <1>1 DEF CheckContext
<1>2. ASSUME NEW t \in Threads, CheckAppIds(t) PROVE Bracketed'
  BY <1>2 DEF CheckAppIds
<1>3. ASSUME NEW t \in Threads, SetDefaultAppIds(t) PROVE Bracketed'
  BY <1>3 DEF SetDefaultAppIds, IdOf
<1>4. ASSUME NEW t \in Threads, ReadSourceSetting(t) PROVE Bracketed'
  BY <1>4 DEF ReadSourceSetting
<1>5. ASSUME NEW t \in Threads, ReadThreadSetting(t) PROVE Bracketed'
  BY <1>5 DEF ReadThreadSetting
<1>6. ASSUME NEW t \in Threads, SetInitialized(t) PROVE Bracketed'
  BY <1>6 DEF SetInitialized
<1>7. ASSUME NEW t \in Threads, CheckAppRegistered(t) PROVE Bracketed'
  BY <1>7 DEF CheckAppRegistered
<1>8. ASSUME NEW t \in Threads, RegisterApp(t) PROVE Bracketed'
  BY <1>8 DEF RegisterApp, AppRegistered, AppRefused, IdOf
<1>9. ASSUME NEW t \in Threads, RegisterPid(t) PROVE Bracketed'
  BY <1>9 DEF RegisterPid, AppRegistered, AppRefused
<1>10. ASSUME NEW t \in Threads, SetAppRegistered(t) PROVE Bracketed'
  BY <1>10 DEF SetAppRegistered
<1>11. ASSUME NEW t \in Threads, RegisterContext(t) PROVE Bracketed'
  BY <1>11 DEF RegisterContext
<1>12. ASSUME NEW t \in Threads, SetRegistered(t) PROVE Bracketed'
  BY <1>12 DEF SetRegistered
<1>13. ASSUME NEW t \in Threads, IsEnabled(t) PROVE Bracketed'
  BY <1>13 DEF IsEnabled, WriteStart
<1>14. ASSUME NEW t \in Threads, InitData(t) PROVE Bracketed'
  BY <1>14 DEF InitData, WriteStart
<1>15. ASSUME NEW t \in Threads, WriteValue(t) PROVE Bracketed'
  BY <1>15 DEF WriteValue
<1>16. ASSUME NEW t \in Threads, DestroyData(t) PROVE Bracketed'
  BY <1>16 DEF DestroyData
<1>17. ASSUME DefineAppIds PROVE Bracketed'
  BY <1>17 DEF DefineAppIds
<1>18. ASSUME SetLevel PROVE Bracketed'
  BY <1>18 DEF SetLevel
<1>19. ASSUME DestroyContext PROVE Bracketed'
  BY <1>19 DEF DestroyContext
<1>20. CASE UNCHANGED vars
  BY <1>20
<1> QED
  BY <1>1, <1>2, <1>3, <1>4, <1>5, <1>6, <1>7, <1>8, <1>9, <1>10, <1>11, <1>12, <1>13, <1>14, <1>15, <1>16, <1>17, <1>18, <1>19, <1>20 DEF Next, FirstUse, Entry, Done

-----------------------------------------------------------------------------
\* The parts together are inductive.
Inv == TypeOK /\ AppIds /\ SettingsRead /\ AppKnown /\ ContextsKnown /\ Bracketed

LEMMA InvHolds == Spec => []Inv
<1>1. Init => Inv
  <2> SUFFICES ASSUME Init PROVE Inv
    OBVIOUS
  <2> USE BackendAssumption DEF Init, NoSettings, Settings, At
  <2>1. TypeOK
    BY DEF TypeOK
  <2>2. AppIds
    BY DEF AppIds, HasAppIds, OneApplication
  <2>3. SettingsRead
    BY DEF SettingsRead, HasSettings, MetadataAsRequested
  <2>4. AppKnown
    BY DEF AppKnown, HasApp
  <2>5. ContextsKnown
    BY DEF ContextsKnown, HasContext
  <2>6. Bracketed
    BY DEF Bracketed
  <2> QED
    BY <2>1, <2>2, <2>3, <2>4, <2>5, <2>6 DEF Inv
<1>2. Inv /\ [Next]_vars => Inv'
  BY TypesStep, AppIdsStep, SettingsStep, AppStep, ContextsStep, BracketsStep DEF Inv
<1> QED
  BY <1>1, <1>2, PTL DEF Spec

-----------------------------------------------------------------------------
\* The flags, tables and entries keep their types for any number of threads and
\* contexts; in particular registerContext never reads the identifiers through a
\* null pointer, because checkContext sets them first.
THEOREM TypesCorrect == Spec => []TypeOK
BY InvHolds, PTL DEF Inv

\* However many threads race in setDefaultAPPIDSIfNeeded and registerDLTApp, the
\* application is registered under one id unless it was warned or refused.
THEOREM ApplicationHasOneId == Spec => []OneApplication
<1>1. Inv => OneApplication
  BY DEF Inv, AppIds
<1> QED
  BY <1>1, InvHolds, PTL

\* registerContext never registers a context of an application that is unknown,
\* although isDLTAppRegistered() is read and set without a lock.
THEOREM ApplicationComesFirst == Spec => []AppBeforeContexts
<1>1. Inv => AppBeforeContexts
  BY DEF Inv, AppKnown, AppBeforeContexts, TypeOK
<1> QED
  BY <1>1, InvHolds, PTL

\* checkContext leaves no thread with a context that is not registered, although
\* m_bRegistered is read and set without a lock.
THEOREM ContextsComeFirst == Spec => []ContextsAreReady
<1>1. Inv => ContextsAreReady
  BY DEF Inv, ContextsKnown, HasContext, ContextsAreReady
<1> QED
  BY <1>1, InvHolds, PTL

\* LogContextBase::registerContext may run in many threads at once; no entry is
\* finished with settings that are only partly read.
THEOREM EntriesCarryTheirMetadata == Spec => []MetadataAsRequested
<1>1. Inv => MetadataAsRequested
  BY DEF Inv, SettingsRead
<1> QED
  BY <1>1, InvHolds, PTL

\* DltLogData decides once, in init: what it writes belongs to a started entry,
\* which its destructor finishes.
THEOREM EntriesAreFinished == Spec => []EntriesAreBracketed
<1>1. Inv => EntriesAreBracketed
  <2> SUFFICES ASSUME Bracketed PROVE EntriesAreBracketed
    BY DEF Inv
  <2>1. ASSUME NEW t \in Threads, pc[t] \in {"idle", "exited"} PROVE ~started[t]
    BY <2>1 DEF Bracketed
  <2>2. ~misused
    BY DEF Bracketed
  <2> QED
    BY <2>1, <2>2, Zenon DEF EntriesAreBracketed
<1> QED
  BY <1>1, InvHolds, PTL
=============================================================================
