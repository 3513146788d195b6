------------------------- MODULE ChatService_proofs -------------------------
(***************************************************************************)
(* Theorems of ChatService for any set of connections: the takeover keeps   *)
(* one holder, the newest connection, and cuts off everybody else, whom it  *)
(* tells before it closes the connection.                                   *)
(***************************************************************************)
EXTENDS ChatService, TLAPS

\* Whoever is displacing a connection displaces one that has lost the session.
EvictsLosers == \A c \in Evicting : prior[c] # current

\* A handler owes an agent_done only from reading a turn to its last frame.
OwesInTurn ==
    \A c \in Conns :
        hpc[c] \in {"evict", "close", "wait", "start", "loop"} /\ sock[c] = "open" => owed[c] = "no"

IInv == TypeOK /\ NewestOwns /\ Displaced /\ ToldLost /\ EvictsLosers /\ OwesInTurn

LEMMA InitIInv == Init => IInv
<1> SUFFICES ASSUME Init PROVE IInv
  OBVIOUS
<1>1. <<>> \in Seq(Frames)
  OBVIOUS
<1>2. TypeOK
  BY <1>1 DEF Init, TypeOK, HPCs, Evicting
<1>3. NewestOwns /\ Displaced /\ ToldLost /\ EvictsLosers /\ OwesInTurn
  BY DEF Init, NewestOwns, Displaced, ToldLost, EvictsLosers, OwesInTurn, Evicting
<1> QED BY <1>2, <1>3 DEF IInv

\* A new process starts from the invariant.
LEMMA FreshIInv == ASSUME Fresh, proc' \in {"up", "stopping", "down"} PROVE IInv'
<1>1. <<>> \in Seq(Frames)
  OBVIOUS
<1>2. TypeOK'
  BY <1>1 DEF Fresh, TypeOK, HPCs, Evicting
<1>3. (NewestOwns /\ Displaced /\ ToldLost /\ EvictsLosers /\ OwesInTurn)'
  BY DEF Fresh, NewestOwns, Displaced, ToldLost, EvictsLosers, OwesInTurn, Evicting
<1> QED BY <1>2, <1>3 DEF IInv

LEMMA ClosingType == \A s : Closing(s) # "open" /\ (s \in {"open", "closing", "closed"}
                                => Closing(s) \in {"open", "closing", "closed"})
BY DEF Closing

-----------------------------------------------------------------------------
(* The steps that concern the session.                                     *)

\* A new connection takes the session from nobody or from the holder.
LEMMA TakeStep == ASSUME IInv, NEW c \in Conns, Accept(c) PROVE IInv'
<1> DEFINE next == IF current = None THEN "start" ELSE "evict"
<1>1. Take(c, next)
  BY DEF Accept
<1>2. /\ hpc[c] = "none" /\ \A d \in Evicting : prior[d] # c
      /\ prior' = [prior EXCEPT ![c] = current] /\ current' = c /\ newest' = c
      /\ hpc' = [hpc EXCEPT ![c] = next] /\ sock' = [sock EXCEPT ![c] = "open"]
      /\ inbox' = [inbox EXCEPT ![c] = <<>>] /\ owed' = [owed EXCEPT ![c] = "no"]
      /\ told' = [told EXCEPT ![c] = FALSE] /\ UNCHANGED <<proc, keyed>>
  BY <1>1 DEF Take, Unused, Goto
<1>3. current # c /\ (next = "evict" => current \in Conns)
  BY <1>2, ChatAssumption DEF IInv, TypeOK, NewestOwns
<1>4. next \in {"start", "evict"}
  OBVIOUS
<1>5. TypeOK'
  <2>1. <<>> \in Seq(Frames)
    OBVIOUS
  <2>2. /\ hpc' \in [Conns -> HPCs] /\ prior' \in [Conns -> Conns \union {None}]
        /\ sock' \in [Conns -> {"open", "closing", "closed"}]
        /\ inbox' \in [Conns -> Seq(Frames)]
        /\ owed' \in [Conns -> {"no", "turn", "odd"}] /\ told' \in [Conns -> BOOLEAN]
    BY <1>2, <1>4, <2>1 DEF IInv, TypeOK, HPCs
  <2>3. ASSUME NEW x \in Evicting' PROVE prior'[x] \in Conns
    <3>1. CASE x = c
      BY <1>2, <1>3, <2>3, <3>1 DEF IInv, TypeOK, Evicting
    <3>2. CASE x # c
      BY <1>2, <2>3, <3>2 DEF IInv, TypeOK, Evicting
    <3> QED BY <3>1, <3>2
  <2>4. Evicting' \subseteq Conns
    BY DEF Evicting
  <2> QED BY <1>2, <2>2, <2>3, <2>4 DEF IInv, TypeOK
<1>6. NewestOwns'
  BY <1>2, <1>4 DEF IInv, TypeOK, NewestOwns
<1>7. Displaced'
  <2> SUFFICES ASSUME NEW x \in Conns, hpc'[x] # "none", x # current', sock'[x] = "open"
               PROVE  \E d \in Conns : hpc'[d] \in {"evict", "close"} /\ prior'[d] = x
    BY DEF Displaced
  <2>1. x # c /\ hpc[x] # "none" /\ sock[x] = "open"
    BY <1>2 DEF IInv, TypeOK
  <2>2. CASE x = current
    <3>1. current # None
      BY <2>2, ChatAssumption
    <3>2. hpc'[c] = "evict" /\ prior'[c] = x
      BY <1>2, <2>2, <3>1 DEF IInv, TypeOK
    <3> QED BY <3>2
  <2>3. CASE x # current
    <3>1. PICK d \in Conns : hpc[d] \in {"evict", "close"} /\ prior[d] = x
      BY <2>1, <2>3 DEF IInv, Displaced
    <3>2. d # c
      BY <1>2, <3>1
    <3> QED BY <1>2, <3>1, <3>2 DEF IInv, TypeOK
  <2> QED BY <2>2, <2>3
<1>8. ToldLost' /\ EvictsLosers' /\ OwesInTurn'
  BY <1>2, <1>3 DEF IInv, TypeOK, ToldLost, EvictsLosers, OwesInTurn, Evicting
<1> QED BY <1>5, <1>6, <1>7, <1>8 DEF IInv

\* The displaced connection is told and closed.
LEMMA EvictStep ==
    ASSUME IInv, NEW c \in Conns, Supersede(c) \/ ClosePrior(c) \/ PriorClosed(c)
    PROVE  IInv'
<1>1. c \in Evicting /\ prior[c] \in Conns /\ prior[c] # current
  BY DEF Supersede, ClosePrior, PriorClosed, Evicting, IInv, TypeOK, EvictsLosers
<1>2. /\ UNCHANGED <<proc, keyed, current, newest, prior, inbox, owed>>
      /\ \A x \in Conns \ {c} : hpc'[x] = hpc[x]
      /\ hpc[c] # "none" /\ hpc'[c] \in {"close", "wait", "start"}
      /\ hpc' \in [Conns -> HPCs]
  BY DEF Supersede, ClosePrior, PriorClosed, Goto, IInv, TypeOK, HPCs
<1>3. /\ \A x \in Conns : sock'[x] = "open" => sock[x] = "open"
      /\ sock' \in [Conns -> {"open", "closing", "closed"}]
  BY <1>1, ClosingType DEF Supersede, ClosePrior, PriorClosed, IInv, TypeOK
<1>4. /\ told' \in [Conns -> BOOLEAN]
      /\ \A x \in Conns : told'[x] => told[x] \/ x = prior[c]
  BY <1>1 DEF Supersede, ClosePrior, PriorClosed, IInv, TypeOK
<1>5. sock'[prior[c]] = "open" => hpc'[c] = "close"
  BY <1>1, ClosingType DEF Supersede, ClosePrior, PriorClosed, Goto, IInv, TypeOK
<1>6. TypeOK'
  <2>1. Evicting' \subseteq Evicting
    BY <1>1, <1>2 DEF Evicting
  <2> QED BY <1>2, <1>3, <1>4, <2>1 DEF IInv, TypeOK
<1>7. NewestOwns'
  BY <1>2 DEF IInv, TypeOK, NewestOwns
<1>8. Displaced'
  <2> SUFFICES ASSUME NEW x \in Conns, hpc'[x] # "none", x # current', sock'[x] = "open"
               PROVE  \E d \in Conns : hpc'[d] \in {"evict", "close"} /\ prior'[d] = x
    BY DEF Displaced
  <2>1. PICK d \in Conns : hpc[d] \in {"evict", "close"} /\ prior[d] = x
    BY <1>2, <1>3 DEF IInv, Displaced
  <2> QED BY <1>2, <1>5, <2>1
<1>9. ToldLost'
  BY <1>1, <1>2, <1>4 DEF IInv, TypeOK, ToldLost
<1>10. EvictsLosers' /\ OwesInTurn'
  BY <1>1, <1>2, <1>3 DEF IInv, EvictsLosers, OwesInTurn, Evicting
<1> QED BY <1>6, <1>7, <1>8, <1>9, <1>10 DEF IInv

\* The handler ends and gives the session back if it still holds it.
LEMMA LeaveStep == ASSUME IInv, NEW c \in Conns, Leave(c) PROVE IInv'
<1>1. /\ hpc[c] = "leave" /\ hpc' = [hpc EXCEPT ![c] = "none"]
      /\ current' = (IF current = c THEN None ELSE current)
      /\ sock' = [sock EXCEPT ![c] = Closing(@)] /\ inbox' = [inbox EXCEPT ![c] = <<>>]
      /\ prior' = [prior EXCEPT ![c] = None] /\ told' = [told EXCEPT ![c] = FALSE]
      /\ UNCHANGED <<proc, keyed, newest, owed>>
  BY DEF Leave, Forget, Goto
<1>2. TypeOK'
  <2>1. <<>> \in Seq(Frames)
    OBVIOUS
  <2> QED BY <1>1, <2>1, ClosingType DEF IInv, TypeOK, HPCs, Evicting
<1>3. NewestOwns'
  BY <1>1 DEF IInv, TypeOK, NewestOwns
<1>4. Displaced'
  <2> SUFFICES ASSUME NEW x \in Conns, hpc'[x] # "none", x # current', sock'[x] = "open"
               PROVE  \E d \in Conns : hpc'[d] \in {"evict", "close"} /\ prior'[d] = x
    BY DEF Displaced
  <2>1. x # c /\ x # current /\ hpc[x] # "none" /\ sock[x] = "open"
    BY <1>1 DEF IInv, TypeOK
  <2>2. PICK d \in Conns : hpc[d] \in {"evict", "close"} /\ prior[d] = x
    BY <2>1 DEF IInv, Displaced
  <2> QED BY <1>1, <2>2 DEF IInv, TypeOK
<1>5. ToldLost' /\ EvictsLosers' /\ OwesInTurn'
  BY <1>1, ChatAssumption DEF IInv, TypeOK, ToldLost, EvictsLosers, OwesInTurn, Evicting
<1> QED BY <1>2, <1>3, <1>4, <1>5 DEF IInv

-----------------------------------------------------------------------------
(* The other steps.                                                        *)

\* A handler that has nothing to do with "prior" moves on.
LEMMA LoopStep ==
    ASSUME IInv, NEW c \in Conns,
           MakeAgent(c) \/ ReadFrame(c) \/ LoopEnds(c) \/ Turn(c) \/ SendDone(c)
    PROVE  IInv'
<1>1. /\ UNCHANGED <<proc, keyed, current, newest, prior, sock, told>>
      /\ \A x \in Conns \ {c} : hpc'[x] = hpc[x] /\ owed'[x] = owed[x]
      /\ hpc[c] \in {"start", "loop", "turn", "done"}
      /\ hpc'[c] \in {"loop", "turn", "done", "leave"}
      /\ hpc' \in [Conns -> HPCs]
  BY DEF MakeAgent, ReadFrame, LoopEnds, Turn, TurnStops, TurnRejected, TurnUnconfigured, SendDone,
         Goto, IInv, TypeOK, HPCs
<1>2. owed' \in [Conns -> {"no", "turn", "odd"}]
  BY DEF MakeAgent, ReadFrame, LoopEnds, Turn, TurnStops, TurnRejected, TurnUnconfigured, SendDone,
         IInv, TypeOK
<1>3. inbox' \in [Conns -> Seq(Frames)]
  <2>1. inbox[c] \in Seq(Frames) /\ (inbox[c] # <<>> => Tail(inbox[c]) \in Seq(Frames))
    BY DEF IInv, TypeOK
  <2>2. inbox' = inbox \/ (inbox[c] # <<>> /\ inbox' = [inbox EXCEPT ![c] = Tail(@)])
    <3>1. CASE ReadFrame(c)
      BY <3>1 DEF ReadFrame
    <3>2. CASE ~ReadFrame(c)
      BY <3>2 DEF MakeAgent, LoopEnds, Turn, TurnStops, TurnRejected, TurnUnconfigured, SendDone
    <3> QED BY <3>1, <3>2
  <2>3. CASE inbox' = inbox
    BY <2>3 DEF IInv, TypeOK
  <2>4. CASE inbox[c] # <<>> /\ inbox' = [inbox EXCEPT ![c] = Tail(@)]
    BY <2>1, <2>4 DEF IInv, TypeOK
  <2> QED BY <2>2, <2>3, <2>4
<1>4. Evicting' = Evicting
  BY <1>1 DEF Evicting
<1>5. TypeOK'
  BY <1>1, <1>2, <1>3, <1>4 DEF IInv, TypeOK
<1>6. NewestOwns' /\ Displaced' /\ ToldLost' /\ EvictsLosers'
  <2>1. \A x \in Conns : (hpc'[x] # "none" <=> hpc[x] # "none")
                          /\ (hpc'[x] \in {"evict", "close"} <=> hpc[x] \in {"evict", "close"})
    BY <1>1
  <2>2. NewestOwns'
    BY <1>1, <2>1 DEF IInv, TypeOK, NewestOwns
  <2>3. Displaced'
    BY <1>1, <2>1 DEF IInv, Displaced
  <2> QED BY <1>1, <1>4, <2>2, <2>3 DEF IInv, ToldLost, EvictsLosers
<1>7. ASSUME hpc'[c] = "loop", sock[c] = "open" PROVE owed'[c] = "no"
  <2>1. CASE MakeAgent(c) \/ ReadFrame(c)
    BY <1>7, <2>1 DEF MakeAgent, ReadFrame, Goto, IInv, TypeOK, OwesInTurn
  <2>2. CASE SendDone(c)
    BY <1>7, <2>2 DEF SendDone, IInv, TypeOK
  <2>3. CASE LoopEnds(c) \/ Turn(c)
    BY <1>7, <2>3 DEF LoopEnds, Turn, TurnStops, TurnRejected, TurnUnconfigured, Goto, IInv, TypeOK
  <2> QED BY <2>1, <2>2, <2>3
<1>8. OwesInTurn'
  BY <1>1, <1>7 DEF IInv, OwesInTurn
<1> QED BY <1>5, <1>6, <1>8 DEF IInv

\* Only sockets close or frames arrive.
LEMMA NetworkStep ==
    ASSUME IInv, UNCHANGED <<current, newest, hpc, prior, owed, told>>,
           proc' \in {"up", "stopping", "down"}, keyed' \in BOOLEAN,
           sock' \in [Conns -> {"open", "closing", "closed"}],
           inbox' \in [Conns -> Seq(Frames)],
           \A x \in Conns : sock'[x] = "open" => sock[x] = "open"
    PROVE  IInv'
<1>1. Evicting' = Evicting
  BY DEF Evicting
<1>2. TypeOK'
  BY <1>1 DEF IInv, TypeOK
<1>3. NewestOwns' /\ Displaced' /\ ToldLost' /\ EvictsLosers' /\ OwesInTurn'
  BY <1>1 DEF IInv, NewestOwns, Displaced, ToldLost, EvictsLosers, OwesInTurn
<1> QED BY <1>2, <1>3 DEF IInv

LEMMA Step == ASSUME IInv, [Next]_vars PROVE IInv'
<1>1. CASE Start
  BY <1>1, NetworkStep, ChatAssumption DEF Start, IInv, TypeOK
<1>2. CASE Stop
  <2>1. sock' \in [Conns -> {"open", "closing", "closed"}] /\ \A x \in Conns : sock'[x] # "open"
    BY <1>2, ClosingType DEF Stop, IInv, TypeOK
  <2> QED BY <1>2, <2>1, NetworkStep DEF Stop, IInv, TypeOK
<1>3. CASE Exit \/ Kill
  BY <1>3, FreshIInv DEF Exit, Kill
<1>4. ASSUME NEW c \in Conns, Accept(c) PROVE IInv'
  BY <1>4, TakeStep
<1>5. ASSUME NEW c \in Conns, Handler(c) PROVE IInv'
  BY <1>5, EvictStep, LeaveStep, LoopStep DEF Handler
<1>6. ASSUME NEW c \in Conns, Turn(c) PROVE IInv'
  BY <1>6, LoopStep
<1>7. ASSUME NEW c \in Conns, PeerLeaves(c) \/ SocketCloses(c) PROVE IInv'
  <2>1. /\ sock' \in [Conns -> {"open", "closing", "closed"}]
        /\ \A x \in Conns : sock'[x] = "open" => sock[x] = "open"
    BY <1>7 DEF PeerLeaves, SocketCloses, IInv, TypeOK
  <2> QED BY <1>7, <2>1, NetworkStep DEF PeerLeaves, SocketCloses, IInv, TypeOK
<1>8. ASSUME NEW c \in Conns, NEW f \in Frames, PeerSends(c, f) PROVE IInv'
  <2>1. inbox' \in [Conns -> Seq(Frames)]
    BY <1>8 DEF PeerSends, IInv, TypeOK
  <2> QED BY <1>8, <2>1, NetworkStep DEF PeerSends, IInv, TypeOK
<1>9. CASE UNCHANGED vars
  BY <1>9, NetworkStep DEF vars, IInv, TypeOK
<1> QED BY <1>1, <1>2, <1>3, <1>4, <1>5, <1>6, <1>7, <1>8, <1>9 DEF Next

-----------------------------------------------------------------------------
(* Theorems.                                                               *)

\* The inductive invariant of the takeover.
THEOREM Invariance == Spec => []IInv
<1>1. IInv /\ [Next]_vars => IInv'
  BY Step
<1> QED BY <1>1, InitIInv, PTL DEF Spec

\* Type correctness of the chat service (chat_service.py).
THEOREM TypeCorrect == Spec => []TypeOK
<1>1. IInv => TypeOK
  BY DEF IInv
<1> QED BY <1>1, Invariance, PTL

\* _current_ws is the newest connection, from its swap to its handler's end.
THEOREM MostRecentWins == Spec => []NewestOwns
<1>1. IInv => NewestOwns
  BY DEF IInv
<1> QED BY <1>1, Invariance, PTL

\* Every handler that lost the session is cut off or about to be.
THEOREM LosersCutOff == Spec => []Displaced
<1>1. IInv => Displaced
  BY DEF IInv
<1> QED BY <1>1, Invariance, PTL

\* session_superseded is never sent to the holder of the session.
THEOREM HolderNotTold == Spec => []ToldLost
<1>1. IInv => ToldLost
  BY DEF IInv
<1> QED BY <1>1, Invariance, PTL

\* agent_done was delivered for every turn when the handler waits for the next.
THEOREM TurnsAnswered == Spec => []Answered
<1>1. IInv => Answered
  BY DEF IInv, OwesInTurn, Answered
<1> QED BY <1>1, Invariance, PTL

-----------------------------------------------------------------------------
(* The order of a takeover.                                                *)

\* Who is displaced is told first and closed then, and what the takeover waits
\* for is a closing handshake that is under way, although other connections come
\* and go between its awaits: once its prior connection is not open any more it
\* never is again while the takeover refers to it.
ToldThenClosed ==
    \A c \in Conns :
        /\ hpc[c] \in {"close", "wait"} /\ hpc[prior[c]] # "none" => told[prior[c]]
        /\ hpc[c] = "wait" => sock[prior[c]] # "open"

\* A handler that is not displacing anybody moves, or only sockets close.
LEMMA Bystanders ==
    ASSUME IInv, ToldThenClosed, UNCHANGED <<prior, told>>,
           \A x \in Conns : sock'[x] = "open" => sock[x] = "open",
           \A x \in Conns : hpc'[x] # hpc[x] =>
               hpc'[x] \notin {"close", "wait"} /\ hpc[x] # "none"
    PROVE  ToldThenClosed'
BY DEF IInv, TypeOK, ToldThenClosed, Evicting

LEMMA TakeoverStep == ASSUME IInv, ToldThenClosed, [Next]_vars PROVE ToldThenClosed'
<1>1. CASE Exit \/ Kill
  BY <1>1 DEF Exit, Kill, Fresh, ToldThenClosed
<1>2. ASSUME NEW c \in Conns, Accept(c) PROVE ToldThenClosed'
  <2>0. PICK next \in {"start", "evict"} : Take(c, next)
    BY <1>2 DEF Accept
  <2>1. /\ \A d \in Evicting : prior[d] # c
        /\ hpc'[c] \in {"start", "evict"}
        /\ \A x \in Conns \ {c} : hpc'[x] = hpc[x] /\ prior'[x] = prior[x]
             /\ sock'[x] = sock[x] /\ told'[x] = told[x]
    BY <2>0 DEF Take, Unused, Goto, IInv, TypeOK
  <2>2. \A x \in Conns \ {c} : hpc[x] \in {"close", "wait"} => prior[x] \in Conns \ {c}
    BY <2>1 DEF IInv, TypeOK, Evicting
  <2>3. \A x \in Conns : hpc'[x] \in {"close", "wait"} => x # c
    BY <2>1
  <2> QED BY <2>1, <2>2, <2>3 DEF ToldThenClosed
<1>3. ASSUME NEW c \in Conns, Supersede(c) PROVE ToldThenClosed'
  <2>1. CASE sock[prior[c]] # "open"
    BY <1>3, <2>1, Bystanders DEF Supersede, Goto, IInv, TypeOK
  <2>2. CASE sock[prior[c]] = "open"
    <3>1. /\ hpc[c] = "evict" /\ prior' = prior /\ sock' = sock
          /\ told' = [told EXCEPT ![prior[c]] = TRUE] /\ hpc' = [hpc EXCEPT ![c] = "close"]
      BY <1>3, <2>2 DEF Supersede, Goto
    <3>2. prior[c] \in Conns
      BY <3>1 DEF IInv, TypeOK, Evicting
    <3> QED BY <3>1, <3>2 DEF IInv, TypeOK, ToldThenClosed, Evicting
  <2> QED BY <2>1, <2>2
<1>4. ASSUME NEW c \in Conns, ClosePrior(c) PROVE ToldThenClosed'
  <2>1. /\ hpc[c] = "close" /\ prior' = prior /\ told' = told
        /\ sock' = [sock EXCEPT ![prior[c]] = Closing(@)] /\ hpc' = [hpc EXCEPT ![c] = "wait"]
    BY <1>4 DEF ClosePrior, Goto
  <2>2. prior[c] \in Conns
    BY <2>1 DEF IInv, TypeOK, Evicting
  <2>3. sock'[prior[c]] # "open" /\ \A x \in Conns : sock'[x] = "open" => sock[x] = "open"
    BY <2>1, <2>2, ClosingType DEF IInv, TypeOK
  <2> QED BY <2>1, <2>2, <2>3 DEF IInv, TypeOK, ToldThenClosed, Evicting
<1>5. ASSUME NEW c \in Conns, PriorClosed(c) PROVE ToldThenClosed'
  BY <1>5, Bystanders DEF PriorClosed, Goto, IInv, TypeOK
<1>6. ASSUME NEW c \in Conns, Leave(c) PROVE ToldThenClosed'
  <2>1. /\ hpc[c] = "leave" /\ hpc' = [hpc EXCEPT ![c] = "none"]
        /\ \A x \in Conns \ {c} : prior'[x] = prior[x] /\ told'[x] = told[x]
        /\ \A x \in Conns : sock'[x] = "open" => sock[x] = "open"
    BY <1>6, ClosingType DEF Leave, Forget, Goto, IInv, TypeOK
  <2> QED BY <2>1 DEF IInv, TypeOK, ToldThenClosed, Evicting
<1>7. ASSUME NEW c \in Conns,
             MakeAgent(c) \/ ReadFrame(c) \/ LoopEnds(c) \/ Turn(c) \/ SendDone(c)
      PROVE  ToldThenClosed'
  <2>1. /\ UNCHANGED <<prior, told, sock>> /\ \A x \in Conns \ {c} : hpc'[x] = hpc[x]
        /\ hpc[c] # "none" /\ hpc'[c] \notin {"close", "wait"}
    BY <1>7 DEF MakeAgent, ReadFrame, LoopEnds, Turn, TurnStops, TurnRejected, TurnUnconfigured,
                SendDone, Goto, IInv, TypeOK
  <2> QED BY <2>1, Bystanders
<1>8. CASE UNCHANGED <<hpc, prior, told>> /\ \A x \in Conns : sock'[x] = "open" => sock[x] = "open"
  BY <1>8, Bystanders
<1>9. CASE Start \/ Stop \/ UNCHANGED vars
  BY <1>8, <1>9, ClosingType DEF Start, Stop, vars, IInv, TypeOK
<1>10. ASSUME NEW c \in Conns, \/ PeerLeaves(c) \/ SocketCloses(c)
                               \/ \E f \in Frames : PeerSends(c, f)
       PROVE  ToldThenClosed'
  BY <1>8, <1>10 DEF PeerLeaves, SocketCloses, PeerSends, IInv, TypeOK
<1> QED BY <1>1, <1>2, <1>3, <1>4, <1>5, <1>6, <1>7, <1>9, <1>10 DEF Next, Handler

\* For any number of connections that take the session from one another.
THEOREM TakeoversOrdered == Spec => []ToldThenClosed
<1>1. Init => ToldThenClosed
  BY DEF Init, ToldThenClosed
<1>2. IInv /\ ToldThenClosed /\ [Next]_vars => ToldThenClosed'
  BY TakeoverStep
<1> QED BY <1>1, <1>2, Invariance, PTL DEF Spec
=============================================================================
