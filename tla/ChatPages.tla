----------------------------- MODULE ChatPages -----------------------------
(***************************************************************************)
(* Browser windows that keep the page of static/index.html open, composed   *)
(* with ChatService.  A page connects, and when its socket closes it        *)
(* connects again two seconds later, whatever closed it.  The new           *)
(* connection may find the old one's handler still running.                 *)
(***************************************************************************)
EXTENDS Naturals, Sequences

CONSTANTS Conns, None, Pages,
          Turns,      \* user_turns the operators send
          MaxFaults   \* bound on network drops and failures of agent_factory

VARIABLES
    proc, keyed, current, newest, hpc, prior, sock, inbox, owed, told,
    conn,   \* the connection of a page, None while it waits to connect
    turns,  \* turns sent so far
    faults  \* faults so far

Chat == INSTANCE ChatService WITH Keys <- {TRUE}, Frames <- {"turn"}, MaxInbox <- 1

chatVars == <<proc, keyed, current, newest, hpc, prior, sock, inbox, owed, told>>
vars == <<chatVars, conn, turns, faults>>

Init ==
    /\ Chat!Init
    /\ conn = [p \in Pages |-> None]
    /\ turns = 0
    /\ faults = 0

Boot == Chat!Start /\ UNCHANGED <<conn, turns, faults>>

\* connect(): the socket opens and a handler takes it.
Connect(p) ==
    /\ conn[p] = None
    /\ \E c \in Conns :
         /\ \A q \in Pages : conn[q] # c
         /\ Chat!Accept(c)
         /\ conn' = [conn EXCEPT ![p] = c]
    /\ UNCHANGED <<turns, faults>>

\* The "close" event and its timer.
CloseEvent(p) ==
    /\ conn[p] # None
    /\ sock[conn[p]] = "closed"
    /\ conn' = [conn EXCEPT ![p] = None]
    /\ UNCHANGED <<chatVars, turns, faults>>

\* The form is submitted while the socket is open.
Submit(p) ==
    /\ turns < Turns
    /\ turns' = turns + 1
    /\ conn[p] # None
    /\ sock[conn[p]] = "open"
    /\ Chat!PeerSends(conn[p], "turn")
    /\ UNCHANGED <<conn, faults>>

Drop(p) ==
    /\ faults < MaxFaults
    /\ faults' = faults + 1
    /\ conn[p] # None
    /\ Chat!PeerLeaves(conn[p])
    /\ UNCHANGED <<conn, turns>>

FactoryFails(c) ==
    /\ faults < MaxFaults
    /\ faults' = faults + 1
    /\ Chat!MakeAgent(c)
    /\ hpc'[c] = "leave"
    /\ UNCHANGED <<conn, turns>>

HandlerStep(c) ==
    /\ \/ Chat!MakeAgent(c) /\ hpc'[c] = "loop"
       \/ Chat!Supersede(c) \/ Chat!ClosePrior(c) \/ Chat!PriorClosed(c)
       \/ Chat!ReadFrame(c) \/ Chat!LoopEnds(c) \/ Chat!Leave(c) \/ Chat!SendDone(c)
    /\ UNCHANGED <<conn, turns, faults>>

TurnStep(c) == Chat!TurnStops(c) /\ UNCHANGED <<conn, turns, faults>>
SocketStep(c) == Chat!SocketCloses(c) /\ UNCHANGED <<conn, turns, faults>>

Next ==
    \/ Boot
    \/ \E p \in Pages : Connect(p) \/ CloseEvent(p) \/ Submit(p) \/ Drop(p)
    \/ \E c \in Conns : FactoryFails(c) \/ HandlerStep(c) \/ TurnStep(c) \/ SocketStep(c)

Spec == Init /\ [][Next]_vars

\* Open windows run their event handlers and timers, the service its tasks,
\* and a turn comes to an end.
FairSpec ==
    /\ Spec
    /\ WF_vars(Boot)
    /\ \A p \in Pages : WF_vars(Connect(p)) /\ WF_vars(CloseEvent(p))
    /\ \A c \in Conns :
         WF_vars(HandlerStep(c)) /\ WF_vars(TurnStep(c)) /\ WF_vars(SocketStep(c))

-----------------------------------------------------------------------------
(* Properties.                                                             *)

\* A session settles: from some point on one connection keeps it.  For one
\* page this holds over drops and running turns of connections it gave up;
\* of two windows the design says that the most recent one wins.
Settles == \E c \in Conns : <>[](current = c /\ hpc[c] # "leave")
=============================================================================
