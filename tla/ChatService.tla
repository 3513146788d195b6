---------------------------- MODULE ChatService ----------------------------
(***************************************************************************)
(* The agent's chat service: one handler per WebSocket connection, the      *)
(* most-recent-wins takeover of the session, and the turns a handler runs.  *)
(* A handler is cut where it awaits.  asyncio.Lock around the swap of       *)
(* _current_ws is never contended, because nothing awaits inside it, so the *)
(* swap is one step.  A connection is a slot that is used again once the    *)
(* handler and everybody who refers to it are done.                         *)
(***************************************************************************)
EXTENDS Naturals, Sequences

CONSTANTS Conns,      \* connection slots
          None,       \* no connection
          Keys,       \* what a start may find: a provider key (TRUE) or none (FALSE)
          Frames,     \* what peers send: a user_turn, one whose content is no text
                      \* (null, a number), no JSON object, anything else
          MaxInbox    \* bound on frames received and not yet read

ASSUME ChatAssumption ==
    /\ None \notin Conns
    /\ Keys \subseteq BOOLEAN
    /\ Frames \subseteq {"turn", "odd", "bad", "other"}
    /\ MaxInbox \in Nat

VARIABLES
    proc,    \* the agent process: "up", "stopping" after SIGTERM, "down"
    keyed,   \* its environment has a provider key: create_agent returns a real agent
    current, \* _current_ws
    newest,  \* the connection that took the session last
    hpc,     \* where each handler is; "none": there is none
    prior,   \* the handler's local variable "prior"
    sock,    \* state of the WebSocket; only an "open" one can be written to
    inbox,   \* frames received and not yet read
    owed,    \* the user_turn that was read and whose agent_done is not delivered, or "no"
    told     \* session_superseded was delivered

vars == <<proc, keyed, current, newest, hpc, prior, sock, inbox, owed, told>>

HPCs == {"none", "evict", "close", "wait", "start", "loop", "turn", "done", "leave"}

\* Handlers that will still act on their local variable "prior".
Evicting == {c \in Conns : hpc[c] \in {"evict", "close", "wait"}}

TypeOK ==
    /\ proc \in {"up", "stopping", "down"}
    /\ keyed \in BOOLEAN
    /\ current \in Conns \union {None}
    /\ newest \in Conns \union {None}
    /\ hpc \in [Conns -> HPCs]
    /\ prior \in [Conns -> Conns \union {None}]
    /\ \A c \in Evicting : prior[c] \in Conns
    /\ sock \in [Conns -> {"open", "closing", "closed"}]
    /\ inbox \in [Conns -> Seq(Frames)]
    /\ owed \in [Conns -> {"no", "turn", "odd"}]
    /\ told \in [Conns -> BOOLEAN]

\* Nothing of a process that ended survives.
Fresh ==
    /\ keyed' = FALSE
    /\ current' = None
    /\ newest' = None
    /\ hpc' = [c \in Conns |-> "none"]
    /\ prior' = [c \in Conns |-> None]
    /\ sock' = [c \in Conns |-> "closed"]
    /\ inbox' = [c \in Conns |-> <<>>]
    /\ owed' = [c \in Conns |-> "no"]
    /\ told' = [c \in Conns |-> FALSE]

Init ==
    /\ proc = "down"
    /\ keyed = FALSE
    /\ current = None
    /\ newest = None
    /\ hpc = [c \in Conns |-> "none"]
    /\ prior = [c \in Conns |-> None]
    /\ sock = [c \in Conns |-> "closed"]
    /\ inbox = [c \in Conns |-> <<>>]
    /\ owed = [c \in Conns |-> "no"]
    /\ told = [c \in Conns |-> FALSE]

Goto(c, where) == hpc' = [hpc EXCEPT ![c] = where]

\* ws.close(): nothing can be sent any more, the closing handshake goes on.
Closing(s) == IF s = "open" THEN "closing" ELSE s

-----------------------------------------------------------------------------
(* The process.                                                            *)

Start ==
    /\ proc = "down"
    /\ proc' = "up"
    /\ keyed' \in Keys
    /\ UNCHANGED <<current, newest, hpc, prior, sock, inbox, owed, told>>

\* SIGTERM cancels run_task; leaving "async with serve" closes every
\* connection and waits for the handlers, which are not cancelled.
Stop ==
    /\ proc = "up"
    /\ proc' = "stopping"
    /\ sock' = [c \in Conns |-> Closing(sock[c])]
    /\ UNCHANGED <<keyed, current, newest, hpc, prior, inbox, owed, told>>

\* The handlers are done, or SIGKILL: TimeoutStopSec is over, or a crash.
Exit ==
    /\ proc = "stopping"
    /\ \A c \in Conns : hpc[c] = "none" /\ sock[c] = "closed"
    /\ proc' = "down"
    /\ Fresh

Kill ==
    /\ proc # "down"
    /\ proc' = "down"
    /\ Fresh

-----------------------------------------------------------------------------
(* The network and the peer.                                               *)

PeerSends(c, f) ==
    /\ hpc[c] # "none"
    /\ sock[c] # "closed"
    /\ Len(inbox[c]) < MaxInbox
    /\ inbox' = [inbox EXCEPT ![c] = Append(@, f)]
    /\ UNCHANGED <<proc, keyed, current, newest, hpc, prior, sock, owed, told>>

PeerLeaves(c) ==
    /\ sock[c] = "open"
    /\ sock' = [sock EXCEPT ![c] = "closed"]
    /\ UNCHANGED <<proc, keyed, current, newest, hpc, prior, inbox, owed, told>>

\* The closing handshake ends, by the peer's answer or by its timeout.
SocketCloses(c) ==
    /\ sock[c] = "closing"
    /\ sock' = [sock EXCEPT ![c] = "closed"]
    /\ UNCHANGED <<proc, keyed, current, newest, hpc, prior, inbox, owed, told>>

-----------------------------------------------------------------------------
(* _handle_connection: the takeover.                                       *)

Unused(c) ==
    /\ hpc[c] = "none"
    /\ sock[c] = "closed"
    /\ \A d \in Evicting : prior[d] # c

\* The new connection takes the session; "next" says what its handler does first.
Take(c, next) ==
    /\ proc = "up"
    /\ Unused(c)
    /\ prior' = [prior EXCEPT ![c] = current]
    /\ current' = c
    /\ newest' = c
    /\ Goto(c, next)
    /\ sock' = [sock EXCEPT ![c] = "open"]
    /\ inbox' = [inbox EXCEPT ![c] = <<>>]
    /\ owed' = [owed EXCEPT ![c] = "no"]
    /\ told' = [told EXCEPT ![c] = FALSE]
    /\ UNCHANGED <<proc, keyed>>

\* Mutant: "prior is not None" is not tested.
AcceptUntested(c) == Take(c, "evict")

Accept(c) ==
    \/ current = None /\ Take(c, "start")
    \/ current # None /\ Take(c, "evict")

\* Mutants: the field is read again after an await; the prior is told and not closed.
SupersedeCurrent(c) ==
    /\ hpc[c] = "evict"
    /\ \/ /\ current # None /\ sock[current] = "open"
          /\ told' = [told EXCEPT ![current] = TRUE]
          /\ Goto(c, "close")
       \/ ~(current # None /\ sock[current] = "open") /\ Goto(c, "start") /\ UNCHANGED told
    /\ UNCHANGED <<proc, keyed, current, newest, prior, sock, inbox, owed>>

SupersedeNoClose(c) ==
    /\ hpc[c] = "evict"
    /\ \/ /\ sock[prior[c]] = "open"
          /\ told' = [told EXCEPT ![prior[c]] = TRUE]
       \/ sock[prior[c]] # "open" /\ UNCHANGED told
    /\ Goto(c, "start")
    /\ UNCHANGED <<proc, keyed, current, newest, prior, sock, inbox, owed>>

\* prior.send(session_superseded); if it raises, close() is not called.
Supersede(c) ==
    /\ hpc[c] = "evict"
    /\ \/ /\ sock[prior[c]] = "open"
          /\ told' = [told EXCEPT ![prior[c]] = TRUE]
          /\ Goto(c, "close")
       \/ sock[prior[c]] # "open" /\ Goto(c, "start") /\ UNCHANGED told
    /\ UNCHANGED <<proc, keyed, current, newest, prior, sock, inbox, owed>>

ClosePrior(c) ==
    /\ hpc[c] = "close"
    /\ Goto(c, "wait")
    /\ sock' = [sock EXCEPT ![prior[c]] = Closing(@)]
    /\ UNCHANGED <<proc, keyed, current, newest, prior, inbox, owed, told>>

\* Mutant: the takeover waits for the prior handler.
PriorFinished(c) ==
    /\ hpc[c] = "wait"
    /\ hpc[prior[c]] = "none"
    /\ Goto(c, "start")
    /\ UNCHANGED <<proc, keyed, current, newest, prior, sock, inbox, owed, told>>

PriorClosed(c) ==
    /\ hpc[c] = "wait"
    /\ sock[prior[c]] = "closed"
    /\ Goto(c, "start")
    /\ UNCHANGED <<proc, keyed, current, newest, prior, sock, inbox, owed, told>>

-----------------------------------------------------------------------------
(* _handle_connection: the loop.                                           *)

\* agent_factory() may raise, which leads to the finally clause.
MakeAgent(c) ==
    /\ hpc[c] = "start"
    /\ Goto(c, "loop") \/ Goto(c, "leave")
    /\ UNCHANGED <<proc, keyed, current, newest, prior, sock, inbox, owed, told>>

\* Frames received before the connection closed are still read after it.  A bad
\* frame is answered invalid_frame, which raises on a socket that is not open;
\* so does json.loads itself, with another error, on a frame nested too deep.
ReadFrame(c) ==
    /\ hpc[c] = "loop"
    /\ inbox[c] # <<>>
    /\ inbox' = [inbox EXCEPT ![c] = Tail(@)]
    /\ LET f == Head(inbox[c])
       IN  \/ f \in {"turn", "odd"} /\ Goto(c, "turn") /\ owed' = [owed EXCEPT ![c] = f]
           \/ /\ f = "bad"
              /\ (sock[c] = "open" /\ Goto(c, "loop")) \/ Goto(c, "leave")
              /\ UNCHANGED owed
           \/ f = "other" /\ UNCHANGED <<hpc, owed>>
    /\ UNCHANGED <<proc, keyed, current, newest, prior, sock, told>>

LoopEnds(c) ==
    /\ hpc[c] = "loop"
    /\ inbox[c] = <<>>
    /\ sock[c] = "closed"
    /\ Goto(c, "leave")
    /\ UNCHANGED <<proc, keyed, current, newest, prior, sock, inbox, owed, told>>

\* What is gone with the handler.
Forget(c) ==
    /\ prior' = [prior EXCEPT ![c] = None]
    /\ inbox' = [inbox EXCEPT ![c] = <<>>]
    /\ told' = [told EXCEPT ![c] = FALSE]

\* Mutant: finally clears the session whoever holds it.
LeaveClears(c) ==
    /\ hpc[c] = "leave"
    /\ Goto(c, "none")
    /\ current' = None
    /\ sock' = [sock EXCEPT ![c] = Closing(@)]
    /\ Forget(c)
    /\ UNCHANGED <<proc, keyed, newest, owed>>

\* finally, and the server closes the connection of a handler that returned.
Leave(c) ==
    /\ hpc[c] = "leave"
    /\ Goto(c, "none")
    /\ current' = IF current = c THEN None ELSE current
    /\ sock' = [sock EXCEPT ![c] = Closing(@)]
    /\ Forget(c)
    /\ UNCHANGED <<proc, keyed, newest, owed>>

-----------------------------------------------------------------------------
(* _run_turn.  A frame that is delivered changes nothing here.             *)

\* Mutant: agent_done is sent on success only.
TurnStopsSilently(c) ==
    /\ hpc[c] = "turn"
    /\ keyed /\ owed[c] # "odd"
    /\ Goto(c, "done") \/ Goto(c, "loop")
    /\ UNCHANGED <<proc, keyed, current, newest, prior, sock, inbox, owed, told>>

\* The stream of events ends, or it raises: the model or a tool failed, or a
\* frame was sent to a socket that is not open.  Then agent_error is sent and
\* its failure suppressed; in both cases agent_done is next.
TurnStops(c) ==
    /\ hpc[c] = "turn"
    /\ keyed /\ owed[c] # "odd"
    /\ Goto(c, "done")
    /\ UNCHANGED <<proc, keyed, current, newest, prior, sock, inbox, owed, told>>

\* HumanMessage does not take the content, outside the try of the stream: the
\* handler ends with agent_error, and no agent_done is sent.
TurnRejected(c) ==
    /\ hpc[c] = "turn"
    /\ keyed /\ owed[c] = "odd"
    /\ Goto(c, "leave")
    /\ UNCHANGED <<proc, keyed, current, newest, prior, sock, inbox, owed, told>>

\* Mutant: llm_unconfigured is the last frame of the turn.
TurnUnconfiguredOnly(c) ==
    /\ hpc[c] = "turn"
    /\ ~keyed
    /\ Goto(c, IF sock[c] = "open" THEN "loop" ELSE "leave")
    /\ UNCHANGED <<proc, keyed, current, newest, prior, sock, inbox, owed, told>>

\* Without a provider key: llm_unconfigured; a send that raises ends the handler.
TurnUnconfigured(c) ==
    /\ hpc[c] = "turn"
    /\ ~keyed
    /\ Goto(c, IF sock[c] = "open" THEN "done" ELSE "leave")
    /\ UNCHANGED <<proc, keyed, current, newest, prior, sock, inbox, owed, told>>

SendDone(c) ==
    /\ hpc[c] = "done"
    /\ \/ /\ sock[c] = "open"
          /\ owed' = [owed EXCEPT ![c] = "no"]
          /\ Goto(c, "loop")
       \/ /\ sock[c] # "open"
          /\ UNCHANGED owed
          /\ Goto(c, IF keyed THEN "loop" ELSE "leave")
    /\ UNCHANGED <<proc, keyed, current, newest, prior, sock, inbox, told>>

Turn(c) == TurnStops(c) \/ TurnRejected(c) \/ TurnUnconfigured(c)

Handler(c) ==
    \/ Supersede(c) \/ ClosePrior(c) \/ PriorClosed(c) \/ MakeAgent(c)
    \/ ReadFrame(c) \/ LoopEnds(c) \/ Leave(c) \/ SendDone(c)

Next ==
    \/ Start \/ Stop \/ Exit \/ Kill
    \/ \E c \in Conns :
         \/ Accept(c) \/ Handler(c) \/ Turn(c)
         \/ PeerLeaves(c) \/ SocketCloses(c)
         \/ \E f \in Frames : PeerSends(c, f)

Spec == Init /\ [][Next]_vars

\* The event loop runs every task that is ready, and a closing handshake ends
\* at the latest with its timeout.  Nothing is assumed of the model.
FairSpec == Spec /\ \A c \in Conns : WF_vars(Handler(c)) /\ WF_vars(SocketCloses(c))

-----------------------------------------------------------------------------
(* Properties.                                                             *)

\* Most recent wins: _current_ws is the connection that came last, from its
\* swap to the end of its handler, however the handlers of others end.
NewestOwns ==
    /\ current # None => current = newest /\ hpc[current] # "none"
    /\ newest # None /\ hpc[newest] # "none" => current = newest

\* A handler that lost the session is cut off, or its successor is on the
\* way to cutting it off.
Displaced ==
    \A c \in Conns :
        hpc[c] # "none" /\ c # current /\ sock[c] = "open"
            => \E d \in Conns : hpc[d] \in {"evict", "close"} /\ prior[d] = c

\* Who was told that it lost the session does not have it, although "prior"
\* is used after several awaits.
ToldLost == current # None => ~told[current]

\* The page enables its input on agent_done: a handler that waits for the
\* next frame of an open connection has answered every turn it read.
Answered == \A c \in Conns : hpc[c] = "loop" /\ sock[c] = "open" => owed[c] = "no"

\* A takeover is served whatever the displaced session is doing: a turn that
\* hangs in the model does not hold up the new connection.
TakeoverServes ==
    \A c \in Conns : hpc[c] = "evict" ~> hpc[c] \in {"loop", "none"}

\* The stream of every turn comes to an end.
TurnsEnd == \A c \in Conns : WF_vars(Turn(c))

\* Then a turn is answered, on every path through it and to the end of its
\* handler, unless the connection was lost while the turn ran.  The exception is
\* content that is no text: no agent_done follows, although _run_turn says that
\* it always does; but the connection ends, so that the page does not wait.
TurnAnswered ==
    TurnsEnd => \A c \in Conns :
        hpc[c] = "turn" ~> \/ owed[c] = "no"
                           \/ owed[c] = "turn" /\ hpc[c] \in {"turn", "done"} /\ sock[c] # "open"
                           \/ owed[c] = "odd" /\ sock[c] # "open"

\* Then the handler of a displaced session ends.
DisplacedEnds ==
    TurnsEnd => \A c \in Conns : hpc[c] # "none" /\ c # newest ~> hpc[c] = "none"
=============================================================================
