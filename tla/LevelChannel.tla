----------------------------- MODULE LevelChannel -----------------------------
(***************************************************************************)
(* What the path from the daemon to the log contexts promises ("The log    *)
(* level of each context can be adjusted at runtime"): the requests of the *)
(* daemon are applied one by one, each to the context it is for, in the    *)
(* order they were made, and none is lost.                                 *)
(***************************************************************************)
EXTENDS Integers, Sequences

CONSTANTS
  Positions,     \* positions of the contexts in m_contexts
  Levels         \* levels the daemon may request

VARIABLES
  outstanding,   \* requests that have not been applied yet
  active         \* the level in force at each position

Init ==
  /\ outstanding = << >>
  /\ active \in [Positions -> Nat]

Request ==
  /\ \E p \in Positions, l \in Levels :
       outstanding' = Append(outstanding, [pos |-> p, level |-> l])
  /\ UNCHANGED active

Apply ==
  /\ outstanding # << >>
  /\ active' = [active EXCEPT ![Head(outstanding).pos] = Head(outstanding).level]
  /\ outstanding' = Tail(outstanding)

Spec == Init /\ [][Request \/ Apply]_<<outstanding, active>>
=============================================================================
