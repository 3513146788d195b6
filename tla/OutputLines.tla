---------------------------- MODULE OutputLines ----------------------------
(***************************************************************************)
(* What the GPIO service promises about the physical lines, independently  *)
(* of how the process starts, fails and stops: a line carries a level that *)
(* is neither its safe default nor low only because a client commanded it  *)
(* while the service was up, and the service never comes up before every   *)
(* output is at its safe default.                                          *)
(***************************************************************************)
CONSTANTS Pins,        \* the pins of the header
          Released     \* the level of a line no one drives

VARIABLES up,    \* the service answers tool calls
          line,  \* the level of each line
          safe   \* the safe defaults configured for each pin ({}: not an output)

vars == <<up, line, safe>>

Init ==
    /\ up = FALSE
    /\ line = [p \in Pins |-> Released]
    /\ safe \in [Pins -> SUBSET {0, 1}]

\* The configuration is read only while the service is down; no line moves.
Configure ==
    /\ ~up
    /\ safe' \in [Pins -> SUBSET {0, 1}]
    /\ UNCHANGED <<up, line>>

\* The service comes up: nothing moves, every output is already safe.
Start ==
    /\ ~up
    /\ \A p \in Pins : safe[p] # {} => line[p] \in safe[p]
    /\ up' = TRUE
    /\ UNCHANGED <<line, safe>>

\* A client commands an output; the hardware follows.
Command ==
    /\ up
    /\ \E p \in Pins, v \in {0, 1} :
         /\ safe[p] # {}
         /\ line' = [line EXCEPT ![p] = v]
    /\ UNCHANGED <<up, safe>>

\* The service goes down in an orderly way or not; lines may lose their drive.
Stop ==
    /\ up' = FALSE
    /\ line' \in [Pins -> {Released, 0, 1}]
    /\ \A p \in Pins : line'[p] \in {line[p], Released}
    /\ UNCHANGED safe

\* While the service is down an output moves only towards a harmless level.
Settle ==
    /\ ~up
    /\ \E p \in Pins :
         /\ safe[p] # {}
         /\ \E v \in safe[p] \union {0, Released} :
              line' = [line EXCEPT ![p] = v]
    /\ UNCHANGED <<up, safe>>

Next == Configure \/ Start \/ Command \/ Stop \/ Settle

Spec == Init /\ [][Next]_vars
=============================================================================
