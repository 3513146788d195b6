-------------------------- MODULE ChatAgent_proofs --------------------------
(***************************************************************************)
(* The agent process implements the chat service and the tool layer it is   *)
(* composed of, so that their theorems hold of it.  At the end the same for *)
(* ChatPages, the composition of the chat service with browser windows.     *)
(***************************************************************************)
EXTENDS ChatAgent, TLAPS

ChatProofs == INSTANCE ChatService_proofs WITH Keys <- {TRUE}, Frames <- {"turn"}
ToolProofs == INSTANCE AgentTools_proofs WITH Sessions <- Conns

-----------------------------------------------------------------------------
(* Each step is one of a part that leaves the other part alone.            *)

LEMMA StepOfTools == ASSUME [Next]_vars PROVE [Tools!Next]_toolVars
<1>1. ASSUME NEW x \in Calls, CallTool(x) \/ ToolProceeds(x) \/ ToolCancelled(x)
      \/ ToolFails(x) \/ Serve(x)
      PROVE  Tools!Next
  BY <1>1 DEF CallTool, ToolProceeds, ToolCancelled, ToolFails, Serve, Tools!Client, Tools!Next
<1>2. ASSUME NEW c \in Conns, \/ Open(c) \/ Ask(c) \/ BeginTurn(c) \/ EndTurn(c) \/ DropTurn(c)
                              \/ CancelStream(c) \/ HandlerOnly(c) \/ Drops(c)
      PROVE  UNCHANGED toolVars
  BY <1>2 DEF Open, Ask, BeginTurn, EndTurn, DropTurn, CancelStream, HandlerOnly, Drops
<1>3. CASE Boot
  BY <1>3 DEF Boot
<1>4. CASE Environment
  BY <1>4 DEF Environment, Tools!Next
<1>5. CASE UNCHANGED vars
  BY <1>5 DEF vars
<1> QED BY <1>1, <1>2, <1>3, <1>4, <1>5 DEF Next

LEMMA StepOfChat == ASSUME [Next]_vars PROVE [Chat!Next]_chatVars
<1>1. ASSUME NEW x \in Calls, CallTool(x) \/ ToolProceeds(x) \/ ToolCancelled(x)
      \/ ToolFails(x) \/ Serve(x)
      PROVE  UNCHANGED chatVars
  BY <1>1 DEF CallTool, ToolProceeds, ToolCancelled, ToolFails, Serve
<1>2. ASSUME NEW c \in Conns, Open(c) \/ Ask(c) \/ BeginTurn(c) \/ EndTurn(c) \/ DropTurn(c)
      PROVE  Chat!Next
  BY <1>2 DEF Open, Ask, BeginTurn, EndTurn, DropTurn, Chat!Next, Chat!Handler, Chat!Turn
<1>3. ASSUME NEW c \in Conns, CancelStream(c) \/ HandlerOnly(c) \/ Drops(c)
      PROVE  Chat!Next \/ UNCHANGED chatVars
  BY <1>3 DEF CancelStream, HandlerOnly, Drops, Chat!Next, Chat!Handler
<1>4. CASE Boot
  BY <1>4 DEF Boot, Chat!Next
<1>5. CASE Environment
  BY <1>5 DEF Environment
<1>6. CASE UNCHANGED vars
  BY <1>6 DEF vars
<1> QED BY <1>1, <1>2, <1>3, <1>4, <1>5, <1>6 DEF Next

\* Whatever the event loop does with tasks and takeovers, the tools of all
\* connections together are those of AgentTools, with a session per connection.
THEOREM ImplementsTools == Spec => Tools!Spec
<1>1. Init => Tools!Init
  BY DEF Init
<1>2. [Next]_vars => [Tools!Next]_Tools!vars
  BY StepOfTools DEF Tools!vars, toolVars
<1> QED BY <1>1, <1>2, PTL DEF Spec, Tools!Spec

\* Whatever the tools do, connections are handled as in ChatService.
THEOREM ImplementsChat == Spec => Chat!Spec
<1>1. Init => Chat!Init
  BY DEF Init
<1>2. [Next]_vars => [Chat!Next]_Chat!vars
  BY StepOfChat DEF Chat!vars, chatVars
<1> QED BY <1>1, <1>2, PTL DEF Spec, Chat!Spec

-----------------------------------------------------------------------------
(* The parts, and the parts their theorems are about, are the same.        *)

LEMMA SameTools ==
    /\ Tools!Init => ToolProofs!Init
    /\ [Tools!Next]_Tools!vars => [ToolProofs!Next]_ToolProofs!vars
<1>1. ASSUME Tools!Init PROVE ToolProofs!Init
  BY <1>1 DEF Tools!Init, Tools!Locks,
      ToolProofs!Init, ToolProofs!Locks
<1>2. ASSUME NEW x, Tools!Invoke(x) PROVE ToolProofs!Invoke(x)
  BY <1>2 DEF Tools!Invoke, Tools!Goto, Tools!Request, Tools!StartCall, Tools!EnterGuard,
     Tools!Proceed, Tools!LockOf,
      ToolProofs!Invoke, ToolProofs!Goto, ToolProofs!Request, ToolProofs!StartCall,
      ToolProofs!EnterGuard, ToolProofs!Proceed, ToolProofs!LockOf
<1>3. ASSUME NEW x, Tools!ListReturns(x) PROVE ToolProofs!ListReturns(x)
  BY <1>3 DEF Tools!ListReturns, Tools!Goto, Tools!Request, Tools!StartCall, Tools!EnterGuard,
     Tools!Proceed, Tools!LockOf,
      ToolProofs!ListReturns, ToolProofs!Goto, ToolProofs!Request, ToolProofs!StartCall,
      ToolProofs!EnterGuard, ToolProofs!Proceed, ToolProofs!LockOf
<1>4. ASSUME NEW x, Tools!Acquire(x) PROVE ToolProofs!Acquire(x)
  BY <1>4 DEF Tools!Acquire, Tools!LockOf, Tools!StartCall, Tools!Goto, Tools!Request,
      ToolProofs!Acquire, ToolProofs!LockOf, ToolProofs!StartCall, ToolProofs!Goto,
      ToolProofs!Request
<1>5. ASSUME NEW x, Tools!Wake(x) PROVE ToolProofs!Wake(x)
  BY <1>5 DEF Tools!Wake, Tools!Goto, Tools!Request,
      ToolProofs!Wake, ToolProofs!Goto, ToolProofs!Request
<1>6. ASSUME NEW x, Tools!CallReturns(x) PROVE ToolProofs!CallReturns(x)
  BY <1>6 DEF Tools!CallReturns, Tools!Goto, Tools!LeaveGuard, Tools!LockOf,
      ToolProofs!CallReturns, ToolProofs!Goto, ToolProofs!LeaveGuard, ToolProofs!LockOf
<1>7. ASSUME NEW x, Tools!Abort(x) PROVE ToolProofs!Abort(x)
  BY <1>7 DEF Tools!Abort, Tools!Awaiting, Tools!Goto, Tools!LeaveGuard, Tools!LockOf,
      ToolProofs!Abort, ToolProofs!Awaiting, ToolProofs!Goto, ToolProofs!LeaveGuard,
      ToolProofs!LockOf
<1>8. ASSUME NEW x, Tools!CancelWaiting(x) PROVE ToolProofs!CancelWaiting(x)
  BY <1>8 DEF Tools!CancelWaiting, Tools!LockOf, Tools!Without, Tools!Goto,
      ToolProofs!CancelWaiting, ToolProofs!LockOf, ToolProofs!Without, ToolProofs!Goto
<1>9. ASSUME NEW x, Tools!Execute(x) PROVE ToolProofs!Execute(x)
  BY <1>9 DEF Tools!Execute, Tools!Awaiting,
      ToolProofs!Execute, ToolProofs!Awaiting
<1>10. ASSUME Tools!ServerRestart PROVE ToolProofs!ServerRestart
  BY <1>10 DEF Tools!ServerRestart,
      ToolProofs!ServerRestart
<1>11. ASSUME Tools!Tick PROVE ToolProofs!Tick
  BY <1>11 DEF Tools!Tick, Tools!Locks, Tools!Older, Tools!Younger,
      ToolProofs!Tick, ToolProofs!Locks, ToolProofs!Older, ToolProofs!Younger
<1>12. Tools!Next => ToolProofs!Next
  BY <1>2, <1>3, <1>4, <1>5, <1>6, <1>7, <1>8, <1>9, <1>10, <1>11
     DEF Tools!Next, Tools!Client, ToolProofs!Next, ToolProofs!Client
<1> QED BY <1>1, <1>12 DEF Tools!vars, ToolProofs!vars

LEMMA SameChat ==
    /\ Chat!Init => ChatProofs!Init
    /\ [Chat!Next]_Chat!vars => [ChatProofs!Next]_ChatProofs!vars
<1>1. ASSUME Chat!Init PROVE ChatProofs!Init
  BY <1>1 DEF Chat!Init, ChatProofs!Init
<1>2. ASSUME Chat!Start PROVE ChatProofs!Start
  BY <1>2 DEF Chat!Start, ChatProofs!Start
<1>3. ASSUME Chat!Stop PROVE ChatProofs!Stop
  BY <1>3 DEF Chat!Stop, Chat!Closing, ChatProofs!Stop, ChatProofs!Closing
<1>4. ASSUME Chat!Exit PROVE ChatProofs!Exit
  BY <1>4 DEF Chat!Exit, Chat!Fresh, ChatProofs!Exit, ChatProofs!Fresh
<1>5. ASSUME Chat!Kill PROVE ChatProofs!Kill
  BY <1>5 DEF Chat!Kill, Chat!Fresh, ChatProofs!Kill, ChatProofs!Fresh
<1>6. ASSUME NEW c, Chat!Accept(c) PROVE ChatProofs!Accept(c)
  BY <1>6 DEF Chat!Accept, Chat!Take, Chat!Unused, Chat!Evicting, Chat!Goto, ChatProofs!Accept,
     ChatProofs!Take, ChatProofs!Unused, ChatProofs!Evicting, ChatProofs!Goto
<1>7. ASSUME NEW c, Chat!PeerLeaves(c) PROVE ChatProofs!PeerLeaves(c)
  BY <1>7 DEF Chat!PeerLeaves, ChatProofs!PeerLeaves
<1>8. ASSUME NEW c, Chat!SocketCloses(c) PROVE ChatProofs!SocketCloses(c)
  BY <1>8 DEF Chat!SocketCloses, ChatProofs!SocketCloses
<1>9. ASSUME NEW c, NEW f, Chat!PeerSends(c, f) PROVE ChatProofs!PeerSends(c, f)
  BY <1>9 DEF Chat!PeerSends, ChatProofs!PeerSends
<1>10. ASSUME NEW c, Chat!Supersede(c) PROVE ChatProofs!Supersede(c)
  BY <1>10 DEF Chat!Supersede, Chat!Goto, ChatProofs!Supersede, ChatProofs!Goto
<1>11. ASSUME NEW c, Chat!ClosePrior(c) PROVE ChatProofs!ClosePrior(c)
  BY <1>11 DEF Chat!ClosePrior, Chat!Goto, Chat!Closing, ChatProofs!ClosePrior, ChatProofs!Goto,
     ChatProofs!Closing
<1>12. ASSUME NEW c, Chat!PriorClosed(c) PROVE ChatProofs!PriorClosed(c)
  BY <1>12 DEF Chat!PriorClosed, Chat!Goto, ChatProofs!PriorClosed, ChatProofs!Goto
<1>13. ASSUME NEW c, Chat!MakeAgent(c) PROVE ChatProofs!MakeAgent(c)
  BY <1>13 DEF Chat!MakeAgent, Chat!Goto, ChatProofs!MakeAgent, ChatProofs!Goto
<1>14. ASSUME NEW c, Chat!ReadFrame(c) PROVE ChatProofs!ReadFrame(c)
  BY <1>14 DEF Chat!ReadFrame, Chat!Goto, ChatProofs!ReadFrame, ChatProofs!Goto
<1>15. ASSUME NEW c, Chat!LoopEnds(c) PROVE ChatProofs!LoopEnds(c)
  BY <1>15 DEF Chat!LoopEnds, Chat!Goto, ChatProofs!LoopEnds, ChatProofs!Goto
<1>16. ASSUME NEW c, Chat!Leave(c) PROVE ChatProofs!Leave(c)
  BY <1>16 DEF Chat!Leave, Chat!Goto, Chat!Closing, Chat!Forget, ChatProofs!Leave,
     ChatProofs!Goto, ChatProofs!Closing, ChatProofs!Forget
<1>17. ASSUME NEW c, Chat!SendDone(c) PROVE ChatProofs!SendDone(c)
  BY <1>17 DEF Chat!SendDone, Chat!Goto, ChatProofs!SendDone, ChatProofs!Goto
<1>18. ASSUME NEW c, Chat!TurnStops(c) PROVE ChatProofs!TurnStops(c)
  BY <1>18 DEF Chat!TurnStops, Chat!Goto, ChatProofs!TurnStops, ChatProofs!Goto
<1>19. ASSUME NEW c, Chat!TurnUnconfigured(c) PROVE ChatProofs!TurnUnconfigured(c)
  BY <1>19 DEF Chat!TurnUnconfigured, Chat!Goto, ChatProofs!TurnUnconfigured, ChatProofs!Goto
<1>20. ASSUME NEW c, Chat!TurnRejected(c) PROVE ChatProofs!TurnRejected(c)
  BY <1>20 DEF Chat!TurnRejected, Chat!Goto, ChatProofs!TurnRejected, ChatProofs!Goto
<1>21. ASSUME NEW c, Chat!Handler(c) \/ Chat!Turn(c) PROVE ChatProofs!Handler(c)
      \/ ChatProofs!Turn(c)
  BY <1>21, <1>10, <1>11, <1>12, <1>13, <1>14, <1>15, <1>16, <1>17, <1>18, <1>19, <1>20
     DEF Chat!Handler, Chat!Turn, ChatProofs!Handler, ChatProofs!Turn
<1>22. Chat!Next => ChatProofs!Next
  BY <1>2, <1>3, <1>4, <1>5, <1>6, <1>7, <1>8, <1>9, <1>21 DEF Chat!Next, ChatProofs!Next
<1> QED BY <1>1, <1>22 DEF Chat!vars, ChatProofs!vars

-----------------------------------------------------------------------------
\* Two set_output calls of one session are never awaited at once, also while
\* takeovers, failed turns and cancellations end some of them.
THEOREM SessionsSerialized == Spec => []SessionSerialized
<1>1. ToolProofs!ToolsAssumption
  BY AgentAssumption
<1>2. ToolProofs!Spec => []ToolProofs!Serialized
  BY <1>1, ToolProofs!MutualExclusion
<1>3. Tools!Spec => ToolProofs!Spec
  BY SameTools, PTL DEF Tools!Spec, ToolProofs!Spec
<1>4. ToolProofs!Serialized => SessionSerialized
  BY DEF ToolProofs!Serialized, ToolProofs!Setters, ToolProofs!LockOf, SessionSerialized,
         Overlap, Tools!Setters
<1> QED BY <1>2, <1>3, <1>4, ImplementsTools, PTL

\* The session belongs to the newest connection also while tools of older ones
\* still run, and a handler that lost it is cut off or about to be.
THEOREM SessionHeld == Spec => [](Chat!NewestOwns /\ Chat!Displaced)
<1>1. ChatProofs!ChatAssumption
  BY AgentAssumption
<1>2. ChatProofs!Spec => [](ChatProofs!NewestOwns /\ ChatProofs!Displaced)
  BY <1>1, ChatProofs!MostRecentWins, ChatProofs!LosersCutOff, PTL
<1>3. Chat!Spec => ChatProofs!Spec
  BY SameChat, PTL DEF Chat!Spec, ChatProofs!Spec
<1>4. ChatProofs!NewestOwns /\ ChatProofs!Displaced => Chat!NewestOwns /\ Chat!Displaced
  BY DEF ChatProofs!NewestOwns, ChatProofs!Displaced, ChatProofs!Evicting,
         Chat!NewestOwns, Chat!Displaced, Chat!Evicting
<1> QED BY <1>2, <1>3, <1>4, ImplementsChat, PTL

-----------------------------------------------------------------------------
(* Browser windows that connect again and again.                           *)

\* What ChatPages has beside the connections and the state of the chat service.
CONSTANTS Pages, Turns, MaxFaults
VARIABLES conn, turns, faults

Windows == INSTANCE ChatPages
WindowChat == INSTANCE ChatService_proofs WITH Keys <- {TRUE}, Frames <- {"turn"}, MaxInbox <- 1

\* The steps of the chat service are the same in both instances.
LEMMA SameInWindows ==
    ASSUME NEW c
    PROVE  /\ Windows!Chat!Accept(c) => WindowChat!Accept(c)
           /\ Windows!Chat!PeerSends(c, "turn") => WindowChat!PeerSends(c, "turn")
           /\ Windows!Chat!PeerLeaves(c) => WindowChat!PeerLeaves(c)
           /\ Windows!Chat!SocketCloses(c) => WindowChat!SocketCloses(c)
           /\ Windows!Chat!TurnStops(c) => WindowChat!TurnStops(c)
           /\ Windows!Chat!MakeAgent(c) => WindowChat!MakeAgent(c)
           /\ Windows!Chat!Supersede(c) => WindowChat!Supersede(c)
           /\ Windows!Chat!ClosePrior(c) => WindowChat!ClosePrior(c)
           /\ Windows!Chat!PriorClosed(c) => WindowChat!PriorClosed(c)
           /\ Windows!Chat!ReadFrame(c) => WindowChat!ReadFrame(c)
           /\ Windows!Chat!LoopEnds(c) => WindowChat!LoopEnds(c)
           /\ Windows!Chat!Leave(c) => WindowChat!Leave(c)
           /\ Windows!Chat!SendDone(c) => WindowChat!SendDone(c)
<1>1. Windows!Chat!Accept(c) => WindowChat!Accept(c)
  BY DEF Windows!Chat!Accept, Windows!Chat!Take, Windows!Chat!Unused, Windows!Chat!Evicting,
         Windows!Chat!Goto, WindowChat!Accept, WindowChat!Take, WindowChat!Unused,
         WindowChat!Evicting, WindowChat!Goto
<1>2. Windows!Chat!PeerSends(c, "turn") => WindowChat!PeerSends(c, "turn")
  BY DEF Windows!Chat!PeerSends, WindowChat!PeerSends
<1>3. Windows!Chat!PeerLeaves(c) => WindowChat!PeerLeaves(c)
  BY DEF Windows!Chat!PeerLeaves, WindowChat!PeerLeaves
<1>4. Windows!Chat!SocketCloses(c) => WindowChat!SocketCloses(c)
  BY DEF Windows!Chat!SocketCloses, WindowChat!SocketCloses
<1>5. Windows!Chat!TurnStops(c) => WindowChat!TurnStops(c)
  BY DEF Windows!Chat!TurnStops, Windows!Chat!Goto, WindowChat!TurnStops, WindowChat!Goto
<1>6. Windows!Chat!MakeAgent(c) => WindowChat!MakeAgent(c)
  BY DEF Windows!Chat!MakeAgent, Windows!Chat!Goto, WindowChat!MakeAgent, WindowChat!Goto
<1>7. Windows!Chat!Supersede(c) => WindowChat!Supersede(c)
  BY DEF Windows!Chat!Supersede, Windows!Chat!Goto, WindowChat!Supersede, WindowChat!Goto
<1>8. Windows!Chat!ClosePrior(c) => WindowChat!ClosePrior(c)
  BY DEF Windows!Chat!ClosePrior, Windows!Chat!Goto, Windows!Chat!Closing,
         WindowChat!ClosePrior, WindowChat!Goto, WindowChat!Closing
<1>9. Windows!Chat!PriorClosed(c) => WindowChat!PriorClosed(c)
  BY DEF Windows!Chat!PriorClosed, Windows!Chat!Goto, WindowChat!PriorClosed, WindowChat!Goto
<1>10. Windows!Chat!ReadFrame(c) => WindowChat!ReadFrame(c)
  BY DEF Windows!Chat!ReadFrame, Windows!Chat!Goto, WindowChat!ReadFrame, WindowChat!Goto
<1>11. Windows!Chat!LoopEnds(c) => WindowChat!LoopEnds(c)
  BY DEF Windows!Chat!LoopEnds, Windows!Chat!Goto, WindowChat!LoopEnds, WindowChat!Goto
<1>12. Windows!Chat!Leave(c) => WindowChat!Leave(c)
  BY DEF Windows!Chat!Leave, Windows!Chat!Goto, Windows!Chat!Closing, Windows!Chat!Forget,
         WindowChat!Leave, WindowChat!Goto, WindowChat!Closing, WindowChat!Forget
<1>13. Windows!Chat!SendDone(c) => WindowChat!SendDone(c)
  BY DEF Windows!Chat!SendDone, Windows!Chat!Goto, WindowChat!SendDone, WindowChat!Goto
<1> QED BY <1>1, <1>2, <1>3, <1>4, <1>5, <1>6, <1>7, <1>8, <1>9, <1>10, <1>11, <1>12, <1>13

\* A connection belongs to one window.
OneWindowEach ==
    /\ conn \in [Pages -> Conns \union {None}]
    /\ \A p, q \in Pages : conn[p] = conn[q] /\ conn[p] # None => p = q

LEMMA InitWindows == Windows!Init => OneWindowEach /\ WindowChat!Init
<1>1. Windows!Init => OneWindowEach
  BY DEF Windows!Init, OneWindowEach
<1>2. Windows!Init => WindowChat!Init
  BY DEF Windows!Init, Windows!Chat!Init, WindowChat!Init
<1> QED BY <1>1, <1>2

LEMMA StepOneWindowEach ==
    ASSUME OneWindowEach, [Windows!Next]_Windows!vars PROVE OneWindowEach'
<1>1. ASSUME NEW p \in Pages, Windows!Connect(p) PROVE OneWindowEach'
  <2>1. PICK c \in Conns : (\A q \in Pages : conn[q] # c) /\ conn' = [conn EXCEPT ![p] = c]
    BY <1>1 DEF Windows!Connect
  <2> QED BY <2>1 DEF OneWindowEach
<1>2. ASSUME NEW p \in Pages, Windows!CloseEvent(p) PROVE OneWindowEach'
  BY <1>2 DEF Windows!CloseEvent, OneWindowEach
<1>3. CASE UNCHANGED conn
  BY <1>3 DEF OneWindowEach
<1>4. ASSUME NEW p \in Pages, Windows!Submit(p) \/ Windows!Drop(p) PROVE UNCHANGED conn
  BY <1>4 DEF Windows!Submit, Windows!Drop
<1>5. ASSUME NEW c \in Conns, \/ Windows!FactoryFails(c) \/ Windows!HandlerStep(c)
                              \/ Windows!TurnStep(c) \/ Windows!SocketStep(c)
      PROVE  UNCHANGED conn
  BY <1>5 DEF Windows!FactoryFails, Windows!HandlerStep, Windows!TurnStep, Windows!SocketStep
<1>6. Windows!Boot \/ UNCHANGED Windows!vars => UNCHANGED conn
  BY DEF Windows!Boot, Windows!vars
<1> QED BY <1>1, <1>2, <1>3, <1>4, <1>5, <1>6 DEF Windows!Next

LEMMA StepOfWindows ==
    ASSUME OneWindowEach, [Windows!Next]_Windows!vars
    PROVE  [WindowChat!Next]_WindowChat!vars
<1>1. CASE Windows!Boot
  <2>1. WindowChat!Start
    BY <1>1 DEF Windows!Boot, Windows!Chat!Start, WindowChat!Start
  <2> QED BY <2>1 DEF WindowChat!Next
<1>2. ASSUME NEW p \in Pages, Windows!Connect(p) PROVE WindowChat!Next
  <2>1. PICK c \in Conns : Windows!Chat!Accept(c)
    BY <1>2 DEF Windows!Connect
  <2> QED BY <2>1, SameInWindows DEF WindowChat!Next
<1>3. ASSUME NEW p \in Pages, Windows!Submit(p) \/ Windows!Drop(p) PROVE WindowChat!Next
  <2>1. conn[p] \in Conns
    BY <1>3 DEF Windows!Submit, Windows!Drop, OneWindowEach
  <2>2. Windows!Chat!PeerSends(conn[p], "turn") \/ Windows!Chat!PeerLeaves(conn[p])
    BY <1>3 DEF Windows!Submit, Windows!Drop
  <2>3. WindowChat!PeerSends(conn[p], "turn") \/ WindowChat!PeerLeaves(conn[p])
    BY <2>2, SameInWindows
  <2> QED BY <2>1, <2>3 DEF WindowChat!Next
<1>4. ASSUME NEW c \in Conns, Windows!FactoryFails(c) \/ Windows!HandlerStep(c)
      PROVE  WindowChat!Next
  <2>1. WindowChat!Handler(c)
    BY <1>4, SameInWindows DEF Windows!FactoryFails, Windows!HandlerStep, WindowChat!Handler
  <2> QED BY <2>1 DEF WindowChat!Next
<1>5. ASSUME NEW c \in Conns, Windows!TurnStep(c) \/ Windows!SocketStep(c)
      PROVE  WindowChat!Next
  <2>1. WindowChat!Turn(c) \/ WindowChat!SocketCloses(c)
    BY <1>5, SameInWindows DEF Windows!TurnStep, Windows!SocketStep, WindowChat!Turn
  <2> QED BY <2>1 DEF WindowChat!Next
<1>6. ASSUME NEW p \in Pages, Windows!CloseEvent(p) PROVE UNCHANGED WindowChat!vars
  BY <1>6 DEF Windows!CloseEvent, Windows!chatVars, WindowChat!vars
<1>7. CASE UNCHANGED Windows!vars
  BY <1>7 DEF Windows!vars, Windows!chatVars, WindowChat!vars
<1> QED BY <1>1, <1>2, <1>3, <1>4, <1>5, <1>6, <1>7 DEF Windows!Next

\* Windows that connect again whenever their socket closes are peers like any
\* other: over any number of windows the service behaves as ChatService.
THEOREM WindowsImplementChat == Windows!Spec => WindowChat!Spec
<1>1. OneWindowEach /\ [Windows!Next]_Windows!vars
        => OneWindowEach' /\ [WindowChat!Next]_WindowChat!vars
  BY StepOneWindowEach, StepOfWindows
<1> QED BY <1>1, InitWindows, PTL DEF Windows!Spec, WindowChat!Spec

\* Who looks at two windows that are both connected sees one of them about to lose
\* its connection: a handler is on the way to telling it so or to closing it.
Connected(p) == conn[p] # None /\ hpc[conn[p]] # "none" /\ sock[conn[p]] = "open"

OneServed ==
    \A p, q \in Pages :
        p # q /\ Connected(p) /\ Connected(q) =>
            \E d \in Conns : hpc[d] \in {"evict", "close"} /\ prior[d] \in {conn[p], conn[q]}

\* Of any number of windows at most one keeps the session, whatever the order in
\* which they connect, close, time out and connect again.
THEOREM OneWindowServed == Windows!Spec => []OneServed
<1>1. WindowChat!ChatAssumption
  BY AgentAssumption
<1>2. WindowChat!Spec => []WindowChat!Displaced
  BY <1>1, WindowChat!LosersCutOff
<1>3. OneWindowEach /\ WindowChat!Displaced => OneServed
  BY DEF OneWindowEach, WindowChat!Displaced, OneServed, Connected
<1>4. OneWindowEach /\ [Windows!Next]_Windows!vars => OneWindowEach'
  BY StepOneWindowEach
<1> QED BY <1>2, <1>3, <1>4, InitWindows, WindowsImplementChat, PTL DEF Windows!Spec
=============================================================================
