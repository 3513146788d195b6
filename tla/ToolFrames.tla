----------------------------- MODULE ToolFrames -----------------------------
(***************************************************************************)
(* The page of static/index.html and the frames of a turn: the agent's      *)
(* graph runs the tool calls of one model message concurrently, the service *)
(* streams tool_call frames as calls start and tool_result frames as they   *)
(* end, without an id, and the page pairs them by the tool's name, first    *)
(* come first served.  A connection that drops takes its frames with it.    *)
(***************************************************************************)
EXTENDS Naturals, Sequences, SequencesExt

CONSTANTS Calls,    \* tool calls the turns may make
          Tools,    \* tool names
          Name,     \* [Calls -> Tools]
          MaxTurns, \* bound on user turns
          MaxDrops  \* bound on connections that drop

ASSUME FramesAssumption ==
    /\ Name \in [Calls -> Tools] /\ "none" \notin Calls
    /\ MaxTurns \in Nat
    /\ MaxDrops \in Nat

VARIABLES
    link,     \* the socket of the page is open
    enabled,  \* the form of the page is enabled
    asked,    \* user_turns the handler of this connection has not read
    turn,     \* the handler: "idle", "run", "failed"
    begun,    \* calls the graph has started
    ended,    \* calls that ended, or whose stream is gone
    wire,     \* frames on their way to the page
    pending,  \* pendingToolCalls: [Tools -> Seq(Calls)]
    pairs,    \* <<call, result>> shown together; "none" for a call that is not known
    turns, drops,
    muddled   \* calls of one name ran at once, or one ended without a frame

vars == <<link, enabled, asked, turn, begun, ended, wire, pending, pairs, turns, drops, muddled>>

Running == begun \ ended
Frame == {"call", "result"} \X Calls \union {<<"error">>, <<"done">>}

TypeOK ==
    /\ link \in BOOLEAN /\ enabled \in BOOLEAN /\ muddled \in BOOLEAN
    /\ asked \in 0..MaxTurns /\ turns \in 0..MaxTurns /\ drops \in 0..MaxDrops
    /\ turn \in {"idle", "run", "failed"}
    /\ ended \subseteq begun /\ begun \subseteq Calls
    /\ wire \in Seq(Frame)
    /\ pending \in [Tools -> Seq(Calls)]
    /\ pairs \subseteq (Calls \union {"none"}) \X Calls

Init ==
    /\ link = FALSE /\ enabled = FALSE /\ muddled = FALSE
    /\ asked = 0 /\ turns = 0 /\ drops = 0
    /\ turn = "idle"
    /\ begun = {} /\ ended = {}
    /\ wire = <<>>
    /\ pending = [t \in Tools |-> <<>>]
    /\ pairs = {}

-----------------------------------------------------------------------------
(* The page: open, close, submit.                                          *)

\* "open": a new connection, a new handler, and the entries of the old one kept.
Open ==
    /\ ~link
    /\ link' = TRUE
    /\ enabled' = TRUE
    /\ UNCHANGED <<asked, turn, begun, ended, wire, pending, pairs, turns, drops, muddled>>

\* "close": the frames on the wire are lost, and the old handler's stream with them.
Close ==
    /\ link
    /\ drops < MaxDrops
    /\ drops' = drops + 1
    /\ link' = FALSE
    /\ enabled' = FALSE
    /\ asked' = 0
    /\ turn' = "idle"
    /\ ended' = begun
    /\ wire' = <<>>
    /\ muddled' = (muddled \/ Running # {} \/ wire # <<>>)
    /\ UNCHANGED <<begun, pending, pairs, turns>>

Submit ==
    /\ enabled
    /\ turns < MaxTurns
    /\ turns' = turns + 1
    /\ asked' = asked + 1
    /\ enabled' = FALSE
    /\ UNCHANGED <<link, turn, begun, ended, wire, pending, pairs, drops, muddled>>

-----------------------------------------------------------------------------
(* The handler and the graph.                                              *)

Send(f) == wire' = Append(wire, f)

ReadTurn ==
    /\ turn = "idle"
    /\ asked > 0
    /\ asked' = asked - 1
    /\ turn' = "run"
    /\ UNCHANGED <<link, enabled, begun, ended, wire, pending, pairs, turns, drops, muddled>>

\* on_tool_start.
ToolStart(x) ==
    /\ turn = "run"
    /\ x \notin begun
    /\ begun' = begun \union {x}
    /\ Send(<<"call", x>>)
    /\ muddled' = (muddled \/ \E y \in Running : Name[y] = Name[x])
    /\ UNCHANGED <<link, enabled, asked, turn, ended, pending, pairs, turns, drops>>

\* Mutant: a tool that failed sends no frame.
ToolEndUnsent(x) ==
    /\ turn = "run"
    /\ x \in Running
    /\ ended' = ended \union {x}
    /\ Send(<<"result", x>>) \/ UNCHANGED wire
    /\ UNCHANGED <<link, enabled, asked, turn, begun, pending, pairs, turns, drops, muddled>>

\* Mutant: the end of a call whose start was not seen.
ToolEndUnstarted(x) ==
    /\ turn = "run"
    /\ x \notin ended
    /\ ended' = ended \union {x}
    /\ Send(<<"result", x>>)
    /\ UNCHANGED <<link, enabled, asked, turn, begun, pending, pairs, turns, drops, muddled>>

\* on_tool_end.
ToolEnd(x) ==
    /\ turn = "run"
    /\ x \in Running
    /\ ended' = ended \union {x}
    /\ Send(<<"result", x>>)
    /\ UNCHANGED <<link, enabled, asked, turn, begun, pending, pairs, turns, drops, muddled>>

\* An end without an output, or on_tool_error, gives no frame, and the turn goes on.
ToolEndsMute(x) ==
    /\ turn = "run"
    /\ x \in Running
    /\ ended' = ended \union {x}
    /\ muddled' = TRUE
    /\ UNCHANGED <<link, enabled, asked, turn, begun, wire, pending, pairs, turns, drops>>

\* The stream raises: agent_error; calls still running are cancelled.
TurnError ==
    /\ turn = "run"
    /\ turn' = "failed"
    /\ ended' = begun
    /\ Send(<<"error">>)
    /\ muddled' = (muddled \/ Running # {})
    /\ UNCHANGED <<link, enabled, asked, begun, pending, pairs, turns, drops>>

TurnDone ==
    /\ turn = "failed" \/ (turn = "run" /\ Running = {})
    /\ turn' = "idle"
    /\ Send(<<"done">>)
    /\ UNCHANGED <<link, enabled, asked, begun, ended, pending, pairs, turns, drops, muddled>>

-----------------------------------------------------------------------------
(* The "message" handler of the page.                                      *)

Receive(f) ==
    /\ wire # <<>>
    /\ Head(wire) = f
    /\ wire' = Tail(wire)

OnToolCall(x) ==
    /\ Receive(<<"call", x>>)
    /\ pending' = [pending EXCEPT ![Name[x]] = Append(@, x)]
    /\ UNCHANGED <<link, enabled, asked, turn, begun, ended, pairs, turns, drops, muddled>>

\* Mutant: the oldest pending call is looked up and not taken.
OnToolResultKept(x) ==
    /\ Receive(<<"result", x>>)
    /\ LET queue == pending[Name[x]]
       IN  pairs' = pairs \union {<<IF queue = <<>> THEN "none" ELSE Head(queue), x>>}
    /\ UNCHANGED <<link, enabled, asked, turn, begun, ended, pending, turns, drops, muddled>>

OnToolResult(x) ==
    /\ Receive(<<"result", x>>)
    /\ LET queue == pending[Name[x]]
       IN  \/ /\ queue # <<>>
              /\ pairs' = pairs \union {<<Head(queue), x>>}
              /\ pending' = [pending EXCEPT ![Name[x]] = Tail(@)]
           \/ queue = <<>> /\ pairs' = pairs \union {<<"none", x>>} /\ UNCHANGED pending
    /\ UNCHANGED <<link, enabled, asked, turn, begun, ended, turns, drops, muddled>>

\* Mutant: an error leaves the form to agent_done, which the page ignores.
OnEndOnlyError ==
    /\ Receive(<<"done">>) \/ Receive(<<"error">>)
    /\ enabled' = (enabled \/ Head(wire) = <<"error">>)
    /\ UNCHANGED <<link, asked, turn, begun, ended, pending, pairs, turns, drops, muddled>>

\* agent_done, and error but for session_superseded: the form is enabled.
OnEnd ==
    /\ Receive(<<"done">>) \/ Receive(<<"error">>)
    /\ enabled' = TRUE
    /\ UNCHANGED <<link, asked, turn, begun, ended, pending, pairs, turns, drops, muddled>>

Page == OnEnd \/ \E x \in Calls : OnToolCall(x) \/ OnToolResult(x)

Handler == ReadTurn \/ TurnError \/ TurnDone \/ \E x \in Calls : ToolEnd(x) \/ ToolEndsMute(x)

Next == Open \/ Close \/ Submit \/ Handler \/ Page \/ \E x \in Calls : ToolStart(x)

Spec == Init /\ [][Next]_vars

\* The page handles the frames that arrive, a tool ends and then the turn does.
FairSpec == Spec /\ WF_vars(Page) /\ WF_vars(Handler)

-----------------------------------------------------------------------------
(* Properties.                                                             *)

\* A result is shown with the call it answers, unless calls of one name ran at
\* once, or one was cut off by an error, by a dropped connection or without a frame.
PairedUnlessMuddled == ~muddled => \A p \in pairs : p[1] = p[2]

\* Every result that arrives is shown once, and with a call of its name that no other
\* result is shown with; a call is never both pending and paired.
ResultsShownOnce ==
    /\ \A p, q \in pairs : p[2] = q[2] => p = q
    /\ \A p, q \in pairs : p[1] = q[1] /\ p[1] # "none" => p = q
    /\ \A p \in pairs : p[1] # "none" =>
         Name[p[1]] = Name[p[2]] /\ p[1] \notin ToSet(pending[Name[p[1]]])

\* When every frame has arrived and no call lost its frame, no placeholder is left.
NothingPending ==
    ~muddled /\ turn = "idle" /\ wire = <<>> => \A t \in Tools : pending[t] = <<>>

\* The form is enabled again after every turn, or the connection is gone.
FormComesBack == link /\ ~enabled ~> enabled \/ ~link
=============================================================================
