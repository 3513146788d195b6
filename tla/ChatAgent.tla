----------------------------- MODULE ChatAgent -----------------------------
(***************************************************************************)
(* The agent process as a whole: ChatService composed with AgentTools.      *)
(* create_agent builds one RpiIOMCPTools per WebSocket connection, and a    *)
(* turn runs the agent's graph as a task that calls the tools.  Leaving     *)
(* "async for event in agent.astream_events" by an exception drops the      *)
(* stream; its task is cancelled when the event loop closes the generator.  *)
(* Bound: a connection slot is used once and for at most one turn.          *)
(***************************************************************************)
EXTENDS Naturals, Sequences

CONSTANTS Conns, None, MaxInbox,
          Askers,   \* connections whose operator sends a user_turn
          Calls, Devices, Sess, Kind, Dev, K, Served, Cap, MaxRestarts, Free

ASSUME AgentAssumption ==
    /\ None \notin Conns /\ Askers \subseteq Conns
    /\ MaxInbox \in Nat
    /\ Sess \in [Calls -> Conns]
    /\ Kind \in [Calls -> {"set", "query"}]
    /\ Dev \in [Calls -> Devices]
    /\ K \in Nat \ {0}
    /\ Cap \in Nat
    /\ Served \in [1..K -> [devs : SUBSET Devices, interval : 0..Cap]]
    /\ MaxRestarts \in Nat
    /\ Free \notin Calls

VARIABLES
    proc, keyed, current, newest, hpc, prior, sock, inbox, owed, told,
    pc, lock, waiters, remain, since, cache, flight, resp, got, cfg, restarts, quiet,
    stream  \* the task of a connection's turn: "new" and "ready" before there is
            \* one, "live", "dropped" by the handler, "over": ended or cancelled

Chat == INSTANCE ChatService WITH Keys <- {TRUE}, Frames <- {"turn"}
Tools == INSTANCE AgentTools WITH Sessions <- Conns

chatVars == <<proc, keyed, current, newest, hpc, prior, sock, inbox, owed, told>>
toolVars == <<pc, lock, waiters, remain, since, cache, flight, resp, got, cfg, restarts, quiet>>
vars == <<chatVars, toolVars, stream>>

Running(c) == stream[c] \in {"live", "dropped"}
Active(x) == pc[x] \notin {"idle", "done", "failed"}
ActiveOf(c) == {x \in Calls : Sess[x] = c /\ Active(x)}

Init ==
    /\ Chat!Init
    /\ Tools!Init
    /\ stream = [c \in Conns |-> "new"]

Becomes(c, s) == stream' = [stream EXCEPT ![c] = s]

-----------------------------------------------------------------------------
(* Steps of the chat service that touch the stream, and the others.        *)

Open(c) ==
    /\ stream[c] = "new"
    /\ Chat!Accept(c)
    /\ Becomes(c, "ready")
    /\ UNCHANGED toolVars

Ask(c) ==
    /\ c \in Askers
    /\ stream[c] = "ready"
    /\ inbox[c] = <<>>
    /\ Chat!PeerSends(c, "turn")
    /\ UNCHANGED <<toolVars, stream>>

BeginTurn(c) ==
    /\ Chat!ReadFrame(c)
    /\ Becomes(c, "live")
    /\ UNCHANGED toolVars

\* The graph ends when its tool calls have.
EndTurn(c) ==
    /\ ActiveOf(c) = {}
    /\ Chat!TurnStops(c)
    /\ Becomes(c, "over")
    /\ UNCHANGED toolVars

\* An exception: a frame could not be sent, or the model failed.
DropTurn(c) ==
    /\ Chat!TurnStops(c)
    /\ Becomes(c, "dropped")
    /\ UNCHANGED toolVars

CancelStream(c) ==
    /\ stream[c] = "dropped"
    /\ Becomes(c, "over")
    /\ UNCHANGED <<chatVars, toolVars>>

HandlerOnly(c) ==
    /\ \/ Chat!Supersede(c) \/ Chat!ClosePrior(c) \/ Chat!PriorClosed(c)
       \/ Chat!MakeAgent(c) \/ Chat!LoopEnds(c) \/ Chat!Leave(c)
       \/ Chat!SendDone(c) \/ Chat!SocketCloses(c)
    /\ UNCHANGED <<toolVars, stream>>

Boot ==
    /\ Chat!Start
    /\ UNCHANGED <<toolVars, stream>>

Drops(c) ==
    /\ Chat!PeerLeaves(c)
    /\ UNCHANGED <<toolVars, stream>>

-----------------------------------------------------------------------------
(* Steps of the tools.                                                     *)

\* The graph calls a tool while its task runs.
CallTool(x) ==
    /\ Running(Sess[x])
    /\ Tools!Invoke(x)
    /\ UNCHANGED <<chatVars, stream>>

\* A call goes on while its task runs; a cancelled one ends where it waits.
ToolProceeds(x) ==
    /\ Running(Sess[x])
    /\ Tools!ListReturns(x) \/ Tools!Acquire(x) \/ Tools!Wake(x) \/ Tools!CallReturns(x)
    /\ UNCHANGED <<chatVars, stream>>

ToolCancelled(x) ==
    /\ stream[Sess[x]] = "over"
    /\ Tools!Abort(x) \/ Tools!CancelWaiting(x)
    /\ UNCHANGED <<chatVars, stream>>

\* The transport fails, or gives up on a request the server lost.
ToolFails(x) ==
    /\ Running(Sess[x])
    /\ Tools!Abort(x)
    /\ UNCHANGED <<chatVars, stream>>

Serve(x) == Tools!Execute(x) /\ UNCHANGED <<chatVars, stream>>
Environment == (Tools!ServerRestart \/ Tools!Tick) /\ UNCHANGED <<chatVars, stream>>

Next ==
    \/ Boot \/ Environment
    \/ \E c \in Conns :
         \/ Open(c) \/ Ask(c) \/ BeginTurn(c) \/ EndTurn(c) \/ DropTurn(c)
         \/ CancelStream(c) \/ HandlerOnly(c) \/ Drops(c)
    \/ \E x \in Calls :
         CallTool(x) \/ ToolProceeds(x) \/ ToolCancelled(x) \/ ToolFails(x) \/ Serve(x)

Spec == Init /\ [][Next]_vars

\* The event loop runs every ready task, the graph ends when its tools have,
\* the server answers, time passes, and a lost request ends in an exception.
\* A connection and a call take finitely many steps, so fairness to each as a
\* whole is enough.
Fairness ==
    /\ WF_vars(Environment)
    /\ \A c \in Conns : WF_vars(HandlerOnly(c) \/ BeginTurn(c) \/ EndTurn(c) \/ CancelStream(c))
    /\ \A x \in Calls :
         /\ WF_vars(ToolProceeds(x) \/ ToolCancelled(x) \/ Serve(x))
         /\ WF_vars(x \notin flight /\ resp[x] = "none" /\ ToolFails(x))

FairSpec == Spec /\ Fairness

-----------------------------------------------------------------------------
(* Properties.                                                             *)

\* Requests of two set_output calls on one device are awaited at once.
Overlap(x, y) ==
    /\ x # y /\ Dev[x] = Dev[y]
    /\ {x, y} \subseteq Tools!Setters
    /\ pc[x] = "call" /\ pc[y] = "call"

\* Writes of a device by one session never overlap, also while a takeover, a
\* failed turn or a restart of the server cancels some of them: an overlap takes
\* the tools of two sessions.
SessionSerialized == \A x, y \in Calls : Overlap(x, y) => Sess[x] # Sess[y]

\* The tools of a displaced session come to an end, whatever they wait for:
\* the lock, the interval, or an answer of a server that restarted.
DisplacedToolsEnd ==
    \A c \in Conns :
        c # newest /\ stream[c] # "new" ~> ActiveOf(c) = {}

\* What the design says: "Outbound set_output calls for the same device_id are
\* serialized", so that the agent cannot interleave a flap.
DeviceSerialized == \A x, y \in Calls : ~Overlap(x, y)
=============================================================================
