----------------------------- MODULE DltBackend -----------------------------
(***************************************************************************)
(* The backend that uses the DLT library (DltContextClass, DltLogData),    *)
(* and what all backends do when a context is used for the first time: the *)
(* identifiers of the application and the settings of the environment.     *)
(*                                                                         *)
(* Threads log to shared contexts.  Nothing that the first use sets up is  *)
(* protected by a lock: every static flag is read and written on its own.  *)
(* The DLT library is external and modelled from how this code uses it.    *)
(***************************************************************************)
EXTENDS Integers, FiniteSets

CONSTANTS
  Threads,
  Contexts,
  LogLevels,      \* levels the application logs at
  DaemonLevels,   \* levels the library sets for a context
  Builds,         \* values of DLT_2_9, which selects a variant of isEnabled
  \* Bounds of the state space:
  MaxEntries, MaxValues, MaxLevelChanges,
  MaxAppFailures, \* calls of dlt_register_app that fail
  MaxErrors       \* calls of dlt_user_log_write_start that fail

ASSUME BackendAssumption ==
  /\ LogLevels \subseteq 1 .. 6 /\ DaemonLevels \subseteq 0 .. 6
  /\ Contexts # {} /\ LogLevels # {} /\ DaemonLevels # {} /\ Builds \subseteq BOOLEAN
  /\ MaxEntries \in Nat /\ MaxValues \in Nat /\ MaxLevelChanges \in Nat
  /\ MaxAppFailures \in Nat /\ MaxErrors \in Nat

VARIABLES
  \* fixed: the build and the environment of the process
  DLT_2_9, requested,
  \* static variables of ivi-logging
  s_pAppLogContext,     \* "null", "application" or "default"
  settings,             \* the two m_enable... members of LogContextBase
  s_initialized,
  m_appRegistered,
  m_bRegistered,        \* for each context
  \* the DLT library
  applications,         \* ids it has registered the application under
  registered,           \* contexts it has registered
  log_level,            \* their levels
  \* threads
  pc, ctx, severity, m_enabled,
  started,              \* DltContextData: between write_start and write_finish
  count,
  \* history
  warned,               \* about a second definition of the identifiers
  misused,              \* an entry was written to that was not started
  sent,                 \* entries that were finished
  entries, levelChanges, appFailures, errors  \* progress towards the bounds

build      == <<DLT_2_9, requested>>
statics    == <<s_pAppLogContext, settings, s_initialized, m_appRegistered, m_bRegistered>>
library    == <<applications, registered, log_level>>
locals     == <<ctx, severity, m_enabled, started, count>>
ghosts     == <<warned, misused, sent>>
boundVars  == <<entries, levelChanges, appFailures, errors>>
vars == <<build, statics, library, pc, locals, ghosts, boundVars>>

\* What the environment asks for, or what the entries of the DLT carry.
Settings == [sourceCodeLocation : BOOLEAN, thread : BOOLEAN]

NoSettings == [sourceCodeLocation |-> FALSE, thread |-> FALSE]

Init ==
  /\ DLT_2_9 \in Builds /\ requested \in Settings
  /\ s_pAppLogContext = "null"
  /\ settings = NoSettings /\ s_initialized = FALSE
  /\ m_appRegistered = FALSE
  /\ m_bRegistered = [c \in Contexts |-> FALSE]
  /\ applications = {} /\ registered = {}
  /\ log_level \in [Contexts -> DaemonLevels]
  /\ pc = [t \in Threads |-> "idle"]
  /\ ctx = [t \in Threads |-> CHOOSE c \in Contexts : TRUE]
  /\ severity = [t \in Threads |-> CHOOSE l \in LogLevels : TRUE]
  /\ m_enabled = [t \in Threads |-> FALSE]
  /\ started = [t \in Threads |-> FALSE]
  /\ count = [t \in Threads |-> 0]
  /\ warned = FALSE /\ misused = FALSE /\ sent = {}
  /\ entries = [t \in Threads |-> 0]
  /\ levelChanges = 0 /\ appFailures = 0 /\ errors = 0

At(t, label) == pc[t] = label
Goto(t, label) == pc' = [pc EXCEPT ![t] = label]

-----------------------------------------------------------------------------
(***************************************************************************)
(* The identifiers of the application                                      *)
(***************************************************************************)

\* The id of an AppLogContext; the default one has the PID as its id.
IdOf(appLogContext) ==
  CASE appLogContext = "application" -> "application"
    [] appLogContext = "default"     -> "pid"
    [] OTHER                         -> "null pointer"

\* Mutant: no warning is printed.
DefineAppIdsSilently ==
  /\ \A t \in Threads : pc[t] = "idle"
  /\ s_pAppLogContext # "application"
  /\ s_pAppLogContext' = "application"
  /\ UNCHANGED <<build, settings, s_initialized, m_appRegistered, m_bRegistered,
                 library, pc, locals, ghosts, boundVars>>

\* LOG_DEFINE_APP_IDS defines a global AppLogContext.  Global objects are
\* initialized by one thread, and initializers may log before this one runs.
DefineAppIds ==
  /\ \A t \in Threads : pc[t] = "idle"
  /\ s_pAppLogContext # "application"
  /\ warned' = (warned \/ s_pAppLogContext # "null")
  /\ s_pAppLogContext' = "application"
  /\ UNCHANGED <<build, settings, s_initialized, m_appRegistered, m_bRegistered,
                 library, pc, locals, misused, sent, boundVars>>

\* Mutant: the test of the pointer is inverted.
CheckAppIdsInverted(t) ==
  /\ At(t, "appIds")
  /\ Goto(t, IF s_pAppLogContext = "null" THEN "environment" ELSE "default")
  /\ UNCHANGED <<build, statics, library, locals, ghosts, boundVars>>

\* setDefaultAPPIDSIfNeeded: the test, ...
CheckAppIds(t) ==
  /\ At(t, "appIds")
  /\ Goto(t, IF s_pAppLogContext = "null" THEN "default" ELSE "environment")
  /\ UNCHANGED <<build, statics, library, locals, ghosts, boundVars>>

\* ... and the local static, which the first thread constructs while others
\* wait; its constructor and the assignment set the pointer.
SetDefaultAppIds(t) ==
  /\ At(t, "default")
  /\ warned' = (warned \/ s_pAppLogContext = "application")
  /\ s_pAppLogContext' = "default"
  /\ Goto(t, "environment")
  /\ UNCHANGED <<build, settings, s_initialized, m_appRegistered, m_bRegistered,
                 library, locals, misused, sent, boundVars>>

-----------------------------------------------------------------------------
(***************************************************************************)
(* The first use of a context                                              *)
(***************************************************************************)

\* Mutant: checkContext marks the context before it is registered.
CheckContextMarks(t) ==
  /\ At(t, "idle") /\ entries[t] < MaxEntries
  /\ \E c \in Contexts, l \in LogLevels :
       /\ ctx' = [ctx EXCEPT ![t] = c]
       /\ severity' = [severity EXCEPT ![t] = l]
       /\ m_bRegistered' = [m_bRegistered EXCEPT ![c] = TRUE]
       /\ Goto(t, IF m_bRegistered[c] THEN "enabled" ELSE "appIds")
  /\ count' = [count EXCEPT ![t] = 0]
  /\ entries' = [entries EXCEPT ![t] = @ + 1]
  /\ UNCHANGED <<build, s_pAppLogContext, settings, s_initialized, m_appRegistered,
                 library, m_enabled, started, ghosts, levelChanges, appFailures, errors>>

\* A log statement: LogContextT::isEnabled calls checkContext.
CheckContext(t) ==
  /\ At(t, "idle") /\ entries[t] < MaxEntries
  /\ \E c \in Contexts, l \in LogLevels :
       /\ ctx' = [ctx EXCEPT ![t] = c]
       /\ severity' = [severity EXCEPT ![t] = l]
       /\ Goto(t, IF m_bRegistered[c] THEN "enabled" ELSE "appIds")
  /\ count' = [count EXCEPT ![t] = 0]
  /\ entries' = [entries EXCEPT ![t] = @ + 1]
  /\ UNCHANGED <<build, statics, library, m_enabled, started, ghosts,
                 levelChanges, appFailures, errors>>

\* Mutant: s_initialized is set before the second setting is read.
ReadSourceSettingLate(t) ==
  /\ At(t, "environment")
  /\ IF s_initialized THEN Goto(t, "checkApp") /\ UNCHANGED <<s_initialized, settings>>
     ELSE /\ s_initialized' = TRUE
          /\ settings' = [settings EXCEPT !.sourceCodeLocation = requested.sourceCodeLocation]
          /\ Goto(t, "threadSetting")
  /\ UNCHANGED <<build, s_pAppLogContext, m_appRegistered, m_bRegistered, library,
                 locals, ghosts, boundVars>>

\* LogContextBase::registerContext reads two variables of the environment, ...
ReadSourceSetting(t) ==
  /\ At(t, "environment")
  /\ IF s_initialized THEN Goto(t, "checkApp") /\ UNCHANGED settings
     ELSE /\ settings' = [settings EXCEPT !.sourceCodeLocation = requested.sourceCodeLocation]
          /\ Goto(t, "threadSetting")
  /\ UNCHANGED <<build, s_pAppLogContext, s_initialized, m_appRegistered, m_bRegistered,
                 library, locals, ghosts, boundVars>>

\* ... one after the other, ...
ReadThreadSetting(t) ==
  /\ At(t, "threadSetting")
  /\ settings' = [settings EXCEPT !.thread = requested.thread]
  /\ Goto(t, "initialized")
  /\ UNCHANGED <<build, s_pAppLogContext, s_initialized, m_appRegistered, m_bRegistered,
                 library, locals, ghosts, boundVars>>

\* ... and then says so.
SetInitialized(t) ==
  /\ At(t, "initialized")
  /\ s_initialized' = TRUE
  /\ Goto(t, "checkApp")
  /\ UNCHANGED <<build, s_pAppLogContext, settings, m_appRegistered, m_bRegistered,
                 library, locals, ghosts, boundVars>>

\* Mutant: the flag is set before the application is registered.
CheckAppRegisteredSets(t) ==
  /\ At(t, "checkApp")
  /\ m_appRegistered' = TRUE
  /\ Goto(t, IF m_appRegistered THEN "registerContext" ELSE "registerApp")
  /\ UNCHANGED <<build, s_pAppLogContext, settings, s_initialized, m_bRegistered,
                 library, locals, ghosts, boundVars>>

\* DltContextClass::registerContext
CheckAppRegistered(t) ==
  /\ At(t, "checkApp")
  /\ Goto(t, IF m_appRegistered THEN "registerContext" ELSE "registerApp")
  /\ UNCHANGED <<build, statics, library, locals, ghosts, boundVars>>

\* dlt_register_app
AppRegistered(id) == applications' = applications \cup {id} /\ UNCHANGED appFailures

AppRefused ==
  /\ appFailures < MaxAppFailures
  /\ appFailures' = appFailures + 1
  /\ UNCHANGED applications

\* registerDLTApp: the id of the application, ...
RegisterApp(t) ==
  /\ At(t, "registerApp")
  /\ \/ AppRegistered(IdOf(s_pAppLogContext)) /\ Goto(t, "appDone")
     \/ AppRefused /\ Goto(t, "registerPid")
  /\ UNCHANGED <<build, statics, registered, log_level, locals, ghosts, entries,
                 levelChanges, errors>>

\* ... the PID if that is refused, ...
RegisterPid(t) ==
  /\ At(t, "registerPid")
  /\ AppRegistered("pid") \/ AppRefused
  /\ Goto(t, "appDone")
  /\ UNCHANGED <<build, statics, registered, log_level, locals, ghosts, entries,
                 levelChanges, errors>>

\* ... and the flag, whatever the second result was.
SetAppRegistered(t) ==
  /\ At(t, "appDone")
  /\ m_appRegistered' = TRUE
  /\ Goto(t, "registerContext")
  /\ UNCHANGED <<build, s_pAppLogContext, settings, s_initialized, m_bRegistered,
                 library, locals, ghosts, boundVars>>

\* dlt_register_context
RegisterContext(t) ==
  /\ At(t, "registerContext")
  /\ registered' = registered \cup {ctx[t]}
  /\ Goto(t, "registeredContext")
  /\ UNCHANGED <<build, statics, applications, log_level, locals, ghosts, boundVars>>

\* checkContext, after the backends have registered.
SetRegistered(t) ==
  /\ At(t, "registeredContext")
  /\ m_bRegistered' = [m_bRegistered EXCEPT ![ctx[t]] = TRUE]
  /\ Goto(t, "enabled")
  /\ UNCHANGED <<build, s_pAppLogContext, settings, s_initialized, m_appRegistered,
                 library, locals, ghosts, boundVars>>

-----------------------------------------------------------------------------
(***************************************************************************)
(* Entries                                                                 *)
(***************************************************************************)

\* dlt_user_log_write_start: positive if the level is enabled, 0 if it is not,
\* negative for an error.  getDLTLogLevel maps each level to the DLT's own.
WriteStart(t, result) ==
  \/ /\ result = IF ctx[t] \in registered /\ severity[t] <= log_level[ctx[t]] THEN 1 ELSE 0
     /\ UNCHANGED errors
  \/ /\ errors < MaxErrors
     /\ result = -1
     /\ errors' = errors + 1

\* DltContextClass::isEnabled: the library's own test, or the result of starting
\* an entry, where an error counts as true.
IsEnabled(t) ==
  /\ At(t, "enabled")
  /\ IF DLT_2_9
     THEN \E result \in -1 .. 1 :
            /\ WriteStart(t, result)
            /\ Goto(t, IF result # 0 THEN "init" ELSE "idle")
     ELSE /\ Goto(t, IF ctx[t] \in registered /\ severity[t] <= log_level[ctx[t]]
                     THEN "init" ELSE "idle")
          /\ UNCHANGED errors
  /\ UNCHANGED <<build, statics, library, locals, ghosts, entries, levelChanges,
                 appFailures>>

\* Mutant: an error counts as enabled, as it does in isEnabled.
InitDataTrustsErrors(t) ==
  /\ At(t, "init")
  /\ \E result \in -1 .. 1 :
       /\ WriteStart(t, result)
       /\ m_enabled' = [m_enabled EXCEPT ![t] = (result # 0)]
       /\ started' = [started EXCEPT ![t] = (result = 1)]
  /\ Goto(t, "open")
  /\ UNCHANGED <<build, statics, library, ctx, severity, count, ghosts, entries,
                 levelChanges, appFailures>>

\* DltLogData::init decides for the whole entry.
InitData(t) ==
  /\ At(t, "init")
  /\ \E result \in -1 .. 1 :
       /\ WriteStart(t, result)
       /\ m_enabled' = [m_enabled EXCEPT ![t] = (result > 0)]
       /\ started' = [started EXCEPT ![t] = (result = 1)]
  /\ Goto(t, "open")
  /\ UNCHANGED <<build, statics, library, ctx, severity, count, ghosts, entries,
                 levelChanges, appFailures>>

\* write and writeFormatted of a value, which LogEntry passes to an enabled entry.
WriteValue(t) ==
  /\ At(t, "open") /\ count[t] < MaxValues
  /\ count' = [count EXCEPT ![t] = @ + 1]
  /\ misused' = (misused \/ (m_enabled[t] /\ ~started[t]))
  /\ UNCHANGED <<build, statics, library, pc, ctx, severity, m_enabled, started,
                 warned, sent, boundVars>>

\* ~DltLogData: the metadata the settings ask for, and dlt_user_log_write_finish.
DestroyData(t) ==
  /\ At(t, "open")
  /\ IF m_enabled[t]
     THEN /\ misused' = (misused \/ ~started[t])
          /\ sent' = sent \cup {settings}
          /\ started' = [started EXCEPT ![t] = FALSE]
     ELSE UNCHANGED <<misused, sent, started>>
  /\ Goto(t, "idle")
  /\ UNCHANGED <<build, statics, library, ctx, severity, m_enabled, count, warned,
                 boundVars>>

-----------------------------------------------------------------------------
(***************************************************************************)
(* The library and the end of the process                                  *)
(***************************************************************************)

\* The daemon has set another level, which the library stores at any time.
SetLevel ==
  /\ levelChanges < MaxLevelChanges
  /\ \E c \in registered, l \in DaemonLevels : log_level' = [log_level EXCEPT ![c] = l]
  /\ levelChanges' = levelChanges + 1
  /\ UNCHANGED <<build, statics, applications, registered, pc, locals, ghosts,
                 entries, appFailures, errors>>

\* ~DltContextClass unregisters its context; the threads are done with it.
DestroyContext ==
  /\ \A t \in Threads : pc[t] \in {"idle", "exited"}
  /\ \E c \in registered : registered' = registered \ {c}
  /\ pc' = [t \in Threads |-> "exited"]
  /\ UNCHANGED <<build, statics, applications, log_level, locals, ghosts, boundVars>>

Done == (\A t \in Threads : pc[t] \in {"idle", "exited"}) /\ UNCHANGED vars

FirstUse(t) ==
  \/ CheckAppIds(t) \/ SetDefaultAppIds(t)
  \/ ReadSourceSetting(t) \/ ReadThreadSetting(t) \/ SetInitialized(t)
  \/ CheckAppRegistered(t) \/ RegisterApp(t) \/ RegisterPid(t) \/ SetAppRegistered(t)
  \/ RegisterContext(t) \/ SetRegistered(t)

Entry(t) == IsEnabled(t) \/ InitData(t) \/ WriteValue(t) \/ DestroyData(t)

Next ==
  \/ \E t \in Threads : CheckContext(t) \/ FirstUse(t) \/ Entry(t)
  \/ DefineAppIds \/ SetLevel \/ DestroyContext \/ Done

Spec == Init /\ [][Next]_vars

-----------------------------------------------------------------------------
(***************************************************************************)
(* Properties                                                              *)
(***************************************************************************)

\* Types of the flags, of the library's tables and of the entries; the ids are
\* those of an AppLogContext, never read through a null pointer.
TypeOK ==
  /\ DLT_2_9 \in BOOLEAN /\ requested \in Settings
  /\ s_pAppLogContext \in {"null", "application", "default"}
  /\ settings \in Settings /\ s_initialized \in BOOLEAN
  /\ m_appRegistered \in BOOLEAN /\ m_bRegistered \in [Contexts -> BOOLEAN]
  /\ applications \subseteq {"application", "pid"}
  /\ registered \subseteq Contexts /\ log_level \in [Contexts -> 0 .. 6]
  /\ pc \in [Threads -> {"idle", "appIds", "default", "environment", "threadSetting",
                         "initialized", "checkApp", "registerApp", "registerPid",
                         "appDone", "registerContext", "registeredContext", "enabled",
                         "init", "open", "exited"}]
  /\ ctx \in [Threads -> Contexts] /\ severity \in [Threads -> 1 .. 6]
  /\ m_enabled \in [Threads -> BOOLEAN] /\ started \in [Threads -> BOOLEAN]
  /\ count \in [Threads -> Nat]
  /\ warned \in BOOLEAN /\ misused \in BOOLEAN /\ sent \subseteq Settings
  /\ entries \in [Threads -> Nat] /\ levelChanges \in Nat
  /\ appFailures \in Nat /\ errors \in Nat

\* The application is known to the DLT before any of its contexts is, although
\* the threads that race to register it only look at an unprotected flag; one
\* refusal is made up for by the registration under the PID.
AppBeforeContexts == registered # {} /\ appFailures <= 1 => applications # {}

\* A thread that asks for the level of a context, or writes to it, finds it
\* registered, also when another thread is the first to use it.
ContextsAreReady ==
  \A t \in Threads : pc[t] \in {"enabled", "init", "open"} => ctx[t] \in registered

\* Each entry carries the metadata the environment asks for, from the first one
\* on and in every thread.
MetadataAsRequested == sent \subseteq {requested}

\* What is written to the library belongs to an entry that was started, and an
\* entry that was started is finished by the end of its statement, whatever
\* happens to the level meanwhile and if starting it fails.
EntriesAreBracketed ==
  /\ ~misused
  /\ \A t \in Threads : pc[t] \in {"idle", "exited"} => ~started[t]

\* The application has one id, its own if it defines one, unless the library
\* refuses it or the warning of AppLogContext ("Please ensure LOG_DEFINE_APP_IDS
\* macro is called before any log is produced") has been printed.
OneApplication ==
  ~warned /\ appFailures = 0 => applications \subseteq {IdOf(s_pAppLogContext)}
=============================================================================
