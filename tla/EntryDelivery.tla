---------------------------- MODULE EntryDelivery ----------------------------
(***************************************************************************)
(* What a log statement promises to the thread that executes it: while it  *)
(* runs, and at no other time, its entry reaches destinations that accept  *)
(* it, each once; it does not end, nor does it abort the process, before   *)
(* all those that must have the entry do.                                  *)
(***************************************************************************)
EXTENDS Integers

CONSTANTS Threads, Destinations

VARIABLES
  open,        \* threads in the middle of a statement
  entry,       \* the number of the last statement of each thread
  owed,        \* destinations that must have its entry before it ends
  welcome,     \* destinations that may have it
  received,    \* the texts that have arrived
  aborted      \* abort() has ended the process

vars == <<open, entry, owed, welcome, received, aborted>>

Init ==
  /\ open = {} /\ received = {} /\ aborted = FALSE
  /\ entry = [t \in Threads |-> 0]
  /\ owed = [t \in Threads |-> {}]
  /\ welcome = [t \in Threads |-> {}]

IsFrom(x, t, b) == x.thread = t /\ x.entry = entry[t] /\ x.backend = b

Has(b, t) == \E x \in received : IsFrom(x, t, b)

\* A statement that no destination accepts is over at once.
Begin(t) ==
  /\ ~aborted /\ t \notin open
  /\ entry' = [entry EXCEPT ![t] = @ + 1]
  /\ \E accepting \in SUBSET Destinations :
       /\ open' = IF accepting = {} THEN open ELSE open \cup {t}
       /\ welcome' = [welcome EXCEPT ![t] = accepting]
       /\ \E required \in SUBSET accepting : owed' = [owed EXCEPT ![t] = required]
  /\ UNCHANGED <<received, aborted>>

Deliver(t) ==
  /\ ~aborted /\ t \in open /\ received' # received
  /\ \E b \in welcome[t] :
       /\ ~Has(b, t)
       /\ \E x \in received' : IsFrom(x, t, b) /\ received' = received \cup {x}
  /\ UNCHANGED <<open, entry, owed, welcome, aborted>>

Complete(t) == ~aborted /\ t \in open /\ \A b \in owed[t] : Has(b, t)

End(t) ==
  /\ Complete(t)
  /\ open' = open \ {t}
  /\ owed' = [owed EXCEPT ![t] = {}]
  /\ welcome' = [welcome EXCEPT ![t] = {}]
  /\ UNCHANGED <<entry, received, aborted>>

Abort(t) ==
  /\ Complete(t)
  /\ aborted' = TRUE
  /\ UNCHANGED <<open, entry, owed, welcome, received>>

\* When settings change, each destination may or may not get what is under way.
Disturb ==
  /\ ~aborted
  /\ owed' = [t \in Threads |-> {}]
  /\ welcome' = [t \in Threads |-> IF t \in open THEN Destinations ELSE {}]
  /\ UNCHANGED <<open, entry, received, aborted>>

Next ==
  \/ \E t \in Threads : Begin(t) \/ Deliver(t) \/ End(t) \/ Abort(t)
  \/ Disturb

Spec == Init /\ [][Next]_vars
=============================================================================
