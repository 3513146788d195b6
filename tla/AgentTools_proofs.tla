------------------------- MODULE AgentTools_proofs -------------------------
(***************************************************************************)
(* Theorems of AgentTools for any calls, devices, configurations and       *)
(* interval bound.  Type correctness, mutual exclusion, the limiter's       *)
(* readiness and what is said of locks and their waiters hold for any       *)
(* number of sessions; the minimum gap at the hardware for one session.     *)
(***************************************************************************)
EXTENDS AgentTools, SequenceTheorems, TLAPS

-----------------------------------------------------------------------------
(* The pieces of the handlers keep the types of what they change.          *)

LEMMA WithoutType ==
    ASSUME NEW q \in Seq(Calls), NEW j \in 1..Len(q)
    PROVE  Without(q, j) \in Seq(Calls)
<1>1. Len(q) \in Nat /\ Len(q) - 1 \in Nat
  OBVIOUS
<1>2. ASSUME NEW n \in 1..(Len(q) - 1)
      PROVE  (IF n < j THEN q[n] ELSE q[n + 1]) \in Calls
  BY <1>1
<1>3. Without(q, j) \in [1..(Len(q) - 1) -> Calls]
  BY <1>2 DEF Without
<1> QED BY <1>1, <1>3

LEMMA ServedType == \A k \in 1..K : Served[k].interval \in 0..Cap
BY ToolsAssumption

LEMMA LockOfType == \A c \in Calls : LockOf(c) \in Locks
BY ToolsAssumption DEF LockOf, Locks

LEMMA StartCallType ==
    ASSUME TypeOK, NEW c \in Calls, NEW k \in 1..K, StartCall(c, k)
    PROVE  pc' \in [Calls -> PCs] /\ remain' \in [Calls -> 0..Cap] /\ flight' \subseteq Calls
<1>1. Served[k].interval \in 0..Cap /\ since[LockOf(c)] \in 0..Cap /\ Cap \in Nat
  BY ServedType, LockOfType, ToolsAssumption DEF TypeOK
<1>2. Served[k].interval - since[LockOf(c)] > 0
        => Served[k].interval - since[LockOf(c)] \in 0..Cap
  BY <1>1
<1>3. pc' \in [Calls -> PCs] /\ flight' \subseteq Calls
  BY DEF StartCall, Goto, Request, TypeOK, PCs
<1>4. remain' \in [Calls -> 0..Cap]
  BY <1>2 DEF StartCall, TypeOK
<1> QED BY <1>3, <1>4

LEMMA ProceedType ==
    ASSUME TypeOK, NEW c \in Calls, NEW k \in 1..K, Proceed(c, k)
    PROVE  /\ pc' \in [Calls -> PCs]
           /\ lock' \in [Locks -> Calls \union {Free}]
           /\ waiters' \in [Locks -> Seq(Calls)]
           /\ remain' \in [Calls -> 0..Cap]
           /\ flight' \subseteq Calls
<1>1. CASE ~EnterGuard(c, k)
  BY <1>1 DEF Proceed, Goto, Request, TypeOK, PCs
<1>2. CASE EnterGuard(c, k)
  <2>1. CASE lock[LockOf(c)] = Free /\ waiters[LockOf(c)] = <<>>
    <3>1. lock' = [lock EXCEPT ![LockOf(c)] = c] /\ StartCall(c, k) /\ waiters' = waiters
      BY <1>2, <2>1 DEF EnterGuard
    <3> QED BY <3>1, StartCallType DEF TypeOK
  <2>2. CASE ~(lock[LockOf(c)] = Free /\ waiters[LockOf(c)] = <<>>)
    <3>1. waiters' = [waiters EXCEPT ![LockOf(c)] = Append(@, c)] /\ Goto(c, "queue")
          /\ UNCHANGED <<lock, remain, flight>>
      BY <1>2, <2>2 DEF EnterGuard
    <3>2. Append(waiters[LockOf(c)], c) \in Seq(Calls)
      BY LockOfType DEF TypeOK
    <3> QED BY <3>1, <3>2 DEF Goto, TypeOK, PCs
  <2> QED BY <2>1, <2>2
<1> QED BY <1>1, <1>2

LEMMA LeaveGuardType ==
    ASSUME TypeOK, NEW c \in Calls, LeaveGuard(c)
    PROVE  lock' \in [Locks -> Calls \union {Free}] /\ since' \in [Locks -> 0..Cap]
<1>1. CASE Kind[c] = "set"
  <2>1. lock' = [lock EXCEPT ![LockOf(c)] = Free] /\ since' = [since EXCEPT ![LockOf(c)] = 0]
    BY <1>1 DEF LeaveGuard
  <2>2. 0 \in 0..Cap
    BY ToolsAssumption
  <2> QED BY <2>1, <2>2 DEF TypeOK
<1>2. CASE Kind[c] # "set"
  BY <1>2 DEF LeaveGuard, TypeOK
<1> QED BY <1>1, <1>2

-----------------------------------------------------------------------------
(* The invariant of one call.                                              *)

\* Where a call may be by its kind, when its request may be out or answered,
\* that a listing answer carries a configuration, and that a set_output past
\* the check has a limiter and past the lock holds it.
CallInv(c) ==
    /\ pc[c] \in {"queue", "sleep"} => c \in Setters
    /\ pc[c] = "list" => Kind[c] = "query"
    /\ pc[c] \in {"idle", "queue", "sleep"} => c \notin flight
    /\ resp[c] # "none" => Awaiting(c) /\ c \notin flight
    /\ pc[c] \in {"lazy", "list"} /\ resp[c] # "none" => got[c] \in 1..K
    /\ c \in Setters /\ pc[c] \in {"queue", "sleep", "call"} => cache[Sess[c]] # 0
    /\ c \in Setters /\ pc[c] \in {"sleep", "call"} => lock[LockOf(c)] = c

IInv == TypeOK /\ \A c \in Calls : CallInv(c)

LEMMA InitIInv == Init => IInv
<1> SUFFICES ASSUME Init PROVE IInv
  OBVIOUS
<1>0. <<>> \in Seq(Calls)
  OBVIOUS
<1>1. TypeOK
  <2>1. since \in [Locks -> 0..Cap]
    BY DEF Init
  <2>2. remain \in [Calls -> 0..Cap] /\ quiet \in [Devices -> 0..Cap] /\ restarts \in 0..MaxRestarts
    BY ToolsAssumption DEF Init
  <2>3. cache \in [Sessions -> 0..K] /\ got \in [Calls -> 0..K]
    BY ToolsAssumption DEF Init
  <2> QED BY <1>0, <2>1, <2>2, <2>3 DEF Init, TypeOK, PCs
<1>2. \A c \in Calls : CallInv(c)
  BY DEF Init, CallInv
<1> QED BY <1>1, <1>2 DEF IInv

\* Every step keeps the variables in their types.
LEMMA TypeStep == ASSUME IInv, [Next]_vars PROVE TypeOK'
<1> USE DEF IInv
<1>1. ASSUME NEW c \in Calls, Invoke(c) PROVE TypeOK'
  <2>1. CASE cache[Sess[c]] # 0 /\ Proceed(c, cache[Sess[c]])
    <3>1. cache[Sess[c]] \in 1..K
      BY <2>1, ToolsAssumption DEF TypeOK
    <3> QED BY <1>1, <2>1, <3>1, ProceedType DEF Invoke, TypeOK
  <2>2. CASE ~(cache[Sess[c]] # 0 /\ Proceed(c, cache[Sess[c]]))
    BY <1>1, <2>2 DEF Invoke, Request, Goto, TypeOK, PCs
  <2> QED BY <2>1, <2>2
<1>2. ASSUME NEW c \in Calls, ListReturns(c) PROVE TypeOK'
  <2>1. got[c] \in 1..K
    BY <1>2 DEF ListReturns, CallInv
  <2>2. resp' \in [Calls -> {"none", "ok", "error"}] /\ cache' \in [Sessions -> 0..K]
    BY <1>2, <2>1 DEF ListReturns, TypeOK
  <2>3. CASE pc[c] = "lazy" /\ Proceed(c, got[c])
    BY <1>2, <2>1, <2>2, <2>3, ProceedType DEF ListReturns, TypeOK
  <2>4. CASE pc[c] = "list"
    BY <1>2, <2>2, <2>4 DEF ListReturns, Goto, TypeOK, PCs
  <2> QED BY <1>2, <2>3, <2>4 DEF ListReturns
<1>3. ASSUME NEW c \in Calls, Acquire(c) PROVE TypeOK'
  <2>1. cache[Sess[c]] \in 1..K
    BY <1>3, ToolsAssumption DEF Acquire, CallInv, TypeOK
  <2>2. LockOf(c) \in Locks /\ Tail(waiters[LockOf(c)]) \in Seq(Calls)
    BY <1>3, LockOfType DEF Acquire, TypeOK
  <2>3. lock' \in [Locks -> Calls \union {Free}] /\ waiters' \in [Locks -> Seq(Calls)]
    BY <1>3, <2>2 DEF Acquire, TypeOK
  <2> QED BY <1>3, <2>1, <2>3, StartCallType DEF Acquire, TypeOK
<1>4. ASSUME NEW c \in Calls, Wake(c) PROVE TypeOK'
  BY <1>4 DEF Wake, Request, Goto, TypeOK, PCs
<1>5. ASSUME NEW c \in Calls, CallReturns(c) PROVE TypeOK'
  <2>1. pc' \in [Calls -> PCs]
    BY <1>5 DEF CallReturns, Goto, TypeOK, PCs
  <2> QED BY <1>5, <2>1, LeaveGuardType DEF CallReturns, TypeOK
<1>6. ASSUME NEW c \in Calls, Abort(c) PROVE TypeOK'
  <2>1. pc' \in [Calls -> PCs] /\ flight' \subseteq Calls
    BY <1>6 DEF Abort, Goto, TypeOK, PCs
  <2>2. CASE pc[c] = "call" /\ LeaveGuard(c)
    BY <1>6, <2>1, <2>2, LeaveGuardType DEF Abort, TypeOK
  <2>3. CASE UNCHANGED <<lock, since>>
    BY <1>6, <2>1, <2>3 DEF Abort, TypeOK
  <2> QED BY <1>6, <2>2, <2>3 DEF Abort
<1>7. ASSUME NEW c \in Calls, CancelWaiting(c) PROVE TypeOK'
  <2>0. pc' \in [Calls -> PCs]
    BY <1>7 DEF CancelWaiting, Goto, TypeOK, PCs
  <2>1. CASE pc[c] = "queue"
    <3>1. PICK j \in 1..Len(waiters[LockOf(c)]) :
            waiters' = [waiters EXCEPT ![LockOf(c)] = Without(@, j)]
      BY <1>7, <2>1 DEF CancelWaiting
    <3>2. waiters[LockOf(c)] \in Seq(Calls)
      BY LockOfType DEF TypeOK
    <3>3. Without(waiters[LockOf(c)], j) \in Seq(Calls)
      BY <3>2, WithoutType
    <3>4. waiters' \in [Locks -> Seq(Calls)]
      BY <3>1, <3>3 DEF TypeOK
    <3> QED BY <1>7, <2>0, <2>1, <3>4 DEF CancelWaiting, TypeOK
  <2>2. CASE pc[c] = "sleep"
    BY <1>7, <2>0, <2>2 DEF CancelWaiting, TypeOK
  <2> QED BY <1>7, <2>1, <2>2 DEF CancelWaiting
<1>8. ASSUME NEW c \in Calls, Execute(c) PROVE TypeOK'
  <2>1. quiet' \in [Devices -> 0..Cap]
    <3>1. 0 \in 0..Cap /\ quiet \in [Devices -> 0..Cap]
      BY ToolsAssumption DEF TypeOK
    <3>2. [quiet EXCEPT ![Dev[c]] = 0] \in [Devices -> 0..Cap]
      BY <3>1
    <3> QED BY <1>8, <3>1, <3>2 DEF Execute
  <2>2. got' \in [Calls -> 0..K]
    <3>1. cfg \in 0..K
      BY ToolsAssumption DEF TypeOK
    <3> QED BY <1>8, <3>1 DEF Execute, TypeOK
  <2>3. resp' \in [Calls -> {"none", "ok", "error"}]
    BY <1>8 DEF Execute, TypeOK
  <2> QED BY <1>8, <2>1, <2>2, <2>3 DEF Execute, TypeOK
<1>9. CASE ServerRestart
  BY <1>9, ToolsAssumption DEF ServerRestart, TypeOK
<1>10. CASE Tick
  <2>1. \A n \in 0..Cap : Older(n) \in 0..Cap /\ Younger(n) \in 0..Cap
    BY ToolsAssumption DEF Older, Younger
  <2> QED BY <1>10, <2>1 DEF Tick, TypeOK
<1>11. CASE UNCHANGED vars
  BY <1>11 DEF vars, TypeOK
<1> QED BY <1>1, <1>2, <1>3, <1>4, <1>5, <1>6, <1>7, <1>8, <1>9, <1>10, <1>11 DEF Next, Client

-----------------------------------------------------------------------------
(* A step of one call leaves the others as they are.                       *)

\* The place, the request and the held lock of every other call.
Steady(c) ==
    \A x \in Calls \ {c} :
        /\ pc'[x] = pc[x]
        /\ x \in flight' <=> x \in flight
        /\ lock[LockOf(x)] = x => lock'[LockOf(x)] = x

LEMMA SteadyKeeps ==
    ASSUME IInv, NEW c \in Calls, Steady(c),
           \A x \in Calls \ {c} : resp'[x] = resp[x] /\ got'[x] = got[x],
           \A s \in Sessions : cache[s] # 0 => cache'[s] # 0
    PROVE  \A x \in Calls \ {c} : CallInv(x)'
BY ToolsAssumption DEF IInv, CallInv, Steady, Setters, Awaiting, LockOf

LEMMA StartCallSteady ==
    ASSUME TypeOK, NEW c \in Calls, NEW k \in 1..K, StartCall(c, k), c \notin flight
    PROVE  /\ \A x \in Calls \ {c} : pc'[x] = pc[x] /\ (x \in flight' <=> x \in flight)
           /\ pc'[c] \in {"sleep", "call"}
           /\ pc'[c] = "sleep" => c \notin flight'
BY DEF StartCall, Goto, Request, TypeOK

LEMMA ProceedSteady ==
    ASSUME TypeOK, NEW c \in Calls, NEW k \in 1..K, Proceed(c, k), c \notin flight
    PROVE  /\ Steady(c)
           /\ pc'[c] \in {"failed", "queue", "sleep", "call"}
           /\ pc'[c] \in {"queue", "sleep"} => c \in Setters /\ c \notin flight'
           /\ c \in Setters /\ pc'[c] \in {"sleep", "call"} => lock'[LockOf(c)] = c
<1> USE LockOfType
<1>1. CASE Dev[c] \notin Served[k].devs
  BY <1>1 DEF Proceed, Goto, TypeOK, Steady
<1>2. CASE Dev[c] \in Served[k].devs /\ Kind[c] = "query" /\ Request(c, "call")
           /\ UNCHANGED <<lock, waiters, remain>>
  BY <1>2 DEF Request, Goto, TypeOK, Steady, Setters
<1>3. CASE Kind[c] = "set" /\ EnterGuard(c, k)
  <2>1. CASE lock[LockOf(c)] = Free /\ lock' = [lock EXCEPT ![LockOf(c)] = c] /\ StartCall(c, k)
    <3>1. lock'[LockOf(c)] = c
      BY <2>1 DEF TypeOK
    <3>2. \A x \in Calls \ {c} : lock[LockOf(x)] = x => lock'[LockOf(x)] = x
      BY <2>1, ToolsAssumption DEF TypeOK
    <3> QED BY <1>3, <2>1, <3>1, <3>2, StartCallSteady DEF Steady, Setters
  <2>2. CASE Goto(c, "queue") /\ UNCHANGED <<lock, remain, flight>>
    BY <1>3, <2>2 DEF Goto, TypeOK, Steady, Setters
  <2> QED BY <1>3, <2>1, <2>2 DEF EnterGuard
<1> QED BY <1>1, <1>2, <1>3 DEF Proceed

LEMMA LeaveGuardSteady ==
    ASSUME IInv, NEW c \in Calls, pc[c] = "call", LeaveGuard(c)
    PROVE  \A x \in Calls \ {c} : lock[LockOf(x)] = x => lock'[LockOf(x)] = x
<1>1. CASE Kind[c] = "set"
  <2>1. lock[LockOf(c)] = c
    BY <1>1 DEF IInv, CallInv, Setters
  <2>2. lock' = [lock EXCEPT ![LockOf(c)] = Free]
    BY <1>1 DEF LeaveGuard
  <2> QED BY <2>1, <2>2, LockOfType DEF IInv, TypeOK
<1>2. CASE Kind[c] # "set"
  BY <1>2 DEF LeaveGuard
<1> QED BY <1>1, <1>2

-----------------------------------------------------------------------------
(* Every step keeps the invariant of every call.                           *)

LEMMA CallStep == ASSUME IInv, [Next]_vars PROVE \A x \in Calls : CallInv(x)'
<1> USE DEF IInv
<1>1. ASSUME NEW c \in Calls, Invoke(c) PROVE \A x \in Calls : CallInv(x)'
  <2>1. c \notin flight /\ resp[c] = "none"
    BY <1>1 DEF Invoke, CallInv, Awaiting, TypeOK
  <2>2. CASE cache[Sess[c]] # 0 /\ Proceed(c, cache[Sess[c]])
    <3>1. cache[Sess[c]] \in 1..K
      BY <2>2, ToolsAssumption DEF TypeOK
    <3>2. CallInv(c)'
      BY <1>1, <2>1, <2>2, <3>1, ProceedSteady DEF Invoke, CallInv, Awaiting, Setters, LockOf
    <3>3. \A x \in Calls \ {c} : CallInv(x)'
      BY <1>1, <2>1, <2>2, <3>1, ProceedSteady, SteadyKeeps DEF Invoke
    <3> QED BY <3>2, <3>3
  <2>3. CASE /\ \/ Kind[c] = "query" /\ Request(c, "list")
                \/ Request(c, "lazy")
             /\ UNCHANGED <<lock, waiters, remain>>
    <3>1. CallInv(c)'
      BY <1>1, <2>1, <2>3 DEF Invoke, Request, Goto, TypeOK, CallInv, Awaiting, Setters
    <3>2. Steady(c)
      BY <2>3 DEF Request, Goto, TypeOK, Steady
    <3>3. \A x \in Calls \ {c} : CallInv(x)'
      BY <1>1, <3>2, SteadyKeeps DEF Invoke
    <3> QED BY <3>1, <3>3
  <2> QED BY <1>1, <2>2, <2>3 DEF Invoke
<1>2. ASSUME NEW c \in Calls, ListReturns(c) PROVE \A x \in Calls : CallInv(x)'
  <2>1. c \notin flight /\ got[c] \in 1..K
    BY <1>2 DEF ListReturns, CallInv
  <2>2. /\ resp'[c] = "none"
        /\ \A x \in Calls \ {c} : resp'[x] = resp[x] /\ got'[x] = got[x]
        /\ \A s \in Sessions : cache[s] # 0 => cache'[s] # 0
        /\ cache'[Sess[c]] # 0
    <3>1. got[c] # 0 /\ Sess[c] \in Sessions
      BY <2>1, ToolsAssumption
    <3>2. cache' = [cache EXCEPT ![Sess[c]] = got[c]] /\ cache \in [Sessions -> 0..K]
      BY <1>2 DEF ListReturns, TypeOK
    <3>3. (\A s \in Sessions : cache[s] # 0 => cache'[s] # 0) /\ cache'[Sess[c]] # 0
      BY <3>1, <3>2
    <3> QED BY <1>2, <3>3 DEF ListReturns, TypeOK
  <2>3. CASE pc[c] = "lazy" /\ Proceed(c, got[c])
    <3>1. CallInv(c)'
      BY <2>1, <2>2, <2>3, ProceedSteady DEF CallInv, Awaiting, Setters, LockOf
    <3>2. \A x \in Calls \ {c} : CallInv(x)'
      BY <2>1, <2>2, <2>3, ProceedSteady, SteadyKeeps
    <3> QED BY <3>1, <3>2
  <2>4. CASE Goto(c, "done") /\ UNCHANGED <<lock, waiters, remain, flight>>
    <3>1. CallInv(c)'
      BY <2>1, <2>2, <2>4 DEF Goto, TypeOK, CallInv
    <3>2. Steady(c)
      BY <2>4 DEF Goto, TypeOK, Steady
    <3>3. \A x \in Calls \ {c} : CallInv(x)'
      BY <2>2, <3>2, SteadyKeeps
    <3> QED BY <3>1, <3>3
  <2> QED BY <1>2, <2>3, <2>4 DEF ListReturns
<1>3. ASSUME NEW c \in Calls, Acquire(c) PROVE \A x \in Calls : CallInv(x)'
  <2>1. c \notin flight /\ c \in Setters /\ cache[Sess[c]] \in 1..K /\ resp[c] = "none"
    <3>1. c \in Setters /\ c \notin flight /\ cache[Sess[c]] # 0
      BY <1>3 DEF Acquire, CallInv
    <3>2. cache[Sess[c]] \in 0..K
      BY ToolsAssumption DEF TypeOK
    <3>3. resp[c] = "none"
      BY <1>3 DEF Acquire, CallInv, Awaiting
    <3> QED BY <3>1, <3>2, <3>3
  <2>2. StartCall(c, cache[Sess[c]]) /\ lock[LockOf(c)] = Free
        /\ lock' = [lock EXCEPT ![LockOf(c)] = c]
    BY <1>3 DEF Acquire
  <2>3. Steady(c) /\ lock'[LockOf(c)] = c
    <3>1. lock'[LockOf(c)] = c
      BY <2>2, LockOfType DEF TypeOK
    <3>2. \A x \in Calls \ {c} : lock[LockOf(x)] = x => lock'[LockOf(x)] = x
      BY <2>2, ToolsAssumption, LockOfType DEF TypeOK
    <3> QED BY <2>1, <2>2, <3>1, <3>2, StartCallSteady DEF Steady
  <2>4. CallInv(c)'
    BY <1>3, <2>1, <2>2, <2>3, StartCallSteady DEF Acquire, CallInv, Awaiting, Setters, LockOf
  <2>5. \A x \in Calls \ {c} : CallInv(x)'
    BY <1>3, <2>3, SteadyKeeps DEF Acquire
  <2> QED BY <2>4, <2>5
<1>4. ASSUME NEW c \in Calls, Wake(c) PROVE \A x \in Calls : CallInv(x)'
  <2>1. CallInv(c)'
    BY <1>4 DEF Wake, Request, Goto, TypeOK, CallInv, Awaiting, Setters, LockOf
  <2>2. Steady(c)
    BY <1>4 DEF Wake, Request, Goto, TypeOK, Steady
  <2>3. \A x \in Calls \ {c} : CallInv(x)'
    BY <1>4, <2>2, SteadyKeeps DEF Wake
  <2> QED BY <2>1, <2>3
<1>5. ASSUME NEW c \in Calls, CallReturns(c) PROVE \A x \in Calls : CallInv(x)'
  <2>1. pc[c] = "call" /\ c \notin flight /\ flight' = flight /\ LeaveGuard(c)
    BY <1>5 DEF CallReturns, CallInv
  <2>2. CallInv(c)'
    BY <1>5, <2>1 DEF CallReturns, Goto, TypeOK, CallInv
  <2>3. Steady(c)
    BY <1>5, <2>1, LeaveGuardSteady DEF CallReturns, Goto, TypeOK, Steady
  <2>4. \A x \in Calls \ {c} : CallInv(x)'
    BY <1>5, <2>3, SteadyKeeps DEF CallReturns, TypeOK
  <2> QED BY <2>2, <2>4
<1>6. ASSUME NEW c \in Calls, Abort(c) PROVE \A x \in Calls : CallInv(x)'
  <2>1. CallInv(c)'
    BY <1>6 DEF Abort, Goto, TypeOK, CallInv
  <2>2. \A x \in Calls \ {c} : lock[LockOf(x)] = x => lock'[LockOf(x)] = x
    BY <1>6, LeaveGuardSteady DEF Abort
  <2>3. Steady(c)
    BY <1>6, <2>2 DEF Abort, Goto, TypeOK, Steady
  <2>4. \A x \in Calls \ {c} : CallInv(x)'
    BY <1>6, <2>3, SteadyKeeps DEF Abort, TypeOK
  <2> QED BY <2>1, <2>4
<1>7. ASSUME NEW c \in Calls, CancelWaiting(c) PROVE \A x \in Calls : CallInv(x)'
  <2>1. pc[c] \in {"queue", "sleep"} /\ c \notin flight /\ resp[c] = "none" /\ c \in Setters
    BY <1>7 DEF CancelWaiting, CallInv, Awaiting, TypeOK
  <2>2. CallInv(c)'
    BY <1>7, <2>1 DEF CancelWaiting, Goto, TypeOK, CallInv
  <2>3. \A x \in Calls \ {c} : lock[LockOf(x)] = x => lock'[LockOf(x)] = x
    <3>1. CASE lock' = lock
      BY <3>1
    <3>2. CASE pc[c] = "sleep" /\ lock' = [lock EXCEPT ![LockOf(c)] = Free]
      BY <2>1, <3>2, LockOfType DEF CallInv, TypeOK
    <3> QED BY <1>7, <3>1, <3>2 DEF CancelWaiting
  <2>4. Steady(c)
    BY <1>7, <2>3 DEF CancelWaiting, Goto, TypeOK, Steady
  <2>5. \A x \in Calls \ {c} : CallInv(x)'
    BY <1>7, <2>4, SteadyKeeps DEF CancelWaiting
  <2> QED BY <2>2, <2>5
<1>8. ASSUME NEW c \in Calls, Execute(c) PROVE \A x \in Calls : CallInv(x)'
  <2>1. CallInv(c)'
    BY <1>8, ToolsAssumption DEF Execute, TypeOK, CallInv, Awaiting, Setters, LockOf
  <2>2. Steady(c) /\ \A x \in Calls \ {c} : resp'[x] = resp[x] /\ got'[x] = got[x]
    BY <1>8 DEF Execute, TypeOK, Steady
  <2>3. \A x \in Calls \ {c} : CallInv(x)'
    BY <1>8, <2>2, SteadyKeeps DEF Execute
  <2> QED BY <2>1, <2>3
<1>9. CASE ServerRestart
  BY <1>9 DEF ServerRestart, CallInv, Awaiting, Setters, LockOf
<1>10. CASE Tick
  BY <1>10 DEF Tick, CallInv, Awaiting, Setters, LockOf
<1>11. CASE UNCHANGED vars
  BY <1>11 DEF vars, CallInv, Awaiting, Setters, LockOf
<1> QED BY <1>1, <1>2, <1>3, <1>4, <1>5, <1>6, <1>7, <1>8, <1>9, <1>10, <1>11 DEF Next, Client

-----------------------------------------------------------------------------
(* Theorems for any number of sessions.                                    *)

\* The inductive invariant: types, and the invariant of every call.
THEOREM Invariance == Spec => []IInv
<1>1. IInv /\ [Next]_vars => IInv'
  BY TypeStep, CallStep DEF IInv
<1> QED BY <1>1, InitIInv, PTL DEF Spec

\* Type correctness of the tool layer (mcp_tools.py, rate_limit.py).
THEOREM TypeCorrect == Spec => []TypeOK
<1>1. IInv => TypeOK
  BY DEF IInv
<1> QED BY <1>1, Invariance, PTL

\* Mutual exclusion: within a session at most one set_output per device is
\* past the lock of OutputRateLimiter.guard.
THEOREM MutualExclusion == Spec => []Serialized
<1>1. IInv => Serialized
  <2>1. Setters \subseteq Calls
    BY DEF Setters
  <2> QED BY <2>1 DEF IInv, CallInv, Serialized
<1> QED BY <1>1, Invariance, PTL

\* The assertion of RpiIOMCPTools.set_output never fails.
THEOREM LimiterIsReady == Spec => []LimiterReady
<1>1. IInv => LimiterReady
  BY DEF IInv, CallInv, LimiterReady, Setters
<1> QED BY <1>1, Invariance, PTL

-----------------------------------------------------------------------------
(* The locks and their waiters, for any number of sessions.                *)

\* A held lock is held by a set_output that is past it.
HolderInv(l) ==
    lock[l] # Free =>
        /\ lock[l] \in Setters
        /\ LockOf(lock[l]) = l
        /\ pc[lock[l]] \in {"sleep", "call"}

\* Each waiter of a lock stands in its queue exactly once, and nobody else does.
WaitersInv(l) ==
    /\ \A n \in 1..Len(waiters[l]) :
         LockOf(waiters[l][n]) = l /\ pc[waiters[l][n]] = "queue"
    /\ \A m, n \in 1..Len(waiters[l]) : waiters[l][m] = waiters[l][n] => m = n
    /\ \A c \in Calls : LockOf(c) = l /\ pc[c] = "queue" =>
         \E n \in 1..Len(waiters[l]) : waiters[l][n] = c

LocksInv == \A l \in Locks : HolderInv(l) /\ WaitersInv(l)

LEMMA InitLocks == Init => LocksInv
BY DEF Init, LocksInv, HolderInv, WaitersInv

\* The handler of c runs, and touches no other lock.
Only(c) ==
    /\ \A x \in Calls \ {c} : pc'[x] = pc[x]
    /\ \A l \in Locks \ {LockOf(c)} : lock'[l] = lock[l] /\ waiters'[l] = waiters[l]

\* It is enough to look at the lock of the call that runs.
LEMMA OtherLocks ==
    ASSUME IInv, LocksInv, NEW c \in Calls, Only(c),
           HolderInv(LockOf(c))', WaitersInv(LockOf(c))'
    PROVE  LocksInv'
<1>0. LockOf(c)' = LockOf(c)
  BY DEF LockOf
<1> SUFFICES ASSUME NEW l \in Locks, l # LockOf(c) PROVE (HolderInv(l) /\ WaitersInv(l))'
  BY <1>0 DEF LocksInv
<1>1. lock'[l] = lock[l] /\ waiters'[l] = waiters[l] /\ waiters[l] \in Seq(Calls)
  BY DEF Only, IInv, TypeOK
<1>2. HolderInv(l) /\ WaitersInv(l)
  BY DEF LocksInv
<1>3. HolderInv(l)'
  BY <1>1, <1>2 DEF HolderInv, Only, Setters, LockOf
<1>4. WaitersInv(l)'
  <2>1. \A n \in 1..Len(waiters[l]) : waiters[l][n] \in Calls \ {c}
    BY <1>1, <1>2 DEF WaitersInv
  <2> QED BY <1>1, <1>2, <2>1 DEF WaitersInv, Only, LockOf
<1> QED BY <1>3, <1>4

\* c goes from one place to another without a change of lock or queue.
LEMMA Passes ==
    ASSUME IInv, LocksInv, NEW c \in Calls, UNCHANGED <<lock, waiters>>,
           \A x \in Calls \ {c} : pc'[x] = pc[x],
           pc[c] # "queue", pc'[c] # "queue",
           lock[LockOf(c)] = c => pc'[c] \in {"sleep", "call"}
    PROVE  LocksInv'
<1> DEFINE l == LockOf(c)
<1>1. l \in Locks /\ waiters[l] \in Seq(Calls)
  BY LockOfType DEF IInv, TypeOK
<1>2. HolderInv(l) /\ WaitersInv(l)
  BY <1>1 DEF LocksInv
<1>3. HolderInv(l)'
  BY <1>2 DEF HolderInv, Setters, LockOf
<1>4. WaitersInv(l)'
  <2>1. \A n \in 1..Len(waiters[l]) : waiters[l][n] \in Calls \ {c}
    BY <1>1, <1>2 DEF WaitersInv
  <2> QED BY <1>1, <1>2, <2>1 DEF WaitersInv, LockOf
<1> QED BY <1>3, <1>4, OtherLocks DEF Only

\* c takes a free lock nobody waits for.
LEMMA Takes ==
    ASSUME IInv, LocksInv, NEW c \in Setters, pc[c] # "queue",
           lock[LockOf(c)] = Free, lock' = [lock EXCEPT ![LockOf(c)] = c],
           waiters' = waiters,
           \A x \in Calls \ {c} : pc'[x] = pc[x], pc'[c] \in {"sleep", "call"}
    PROVE  LocksInv'
<1> DEFINE l == LockOf(c)
<1>0. c \in Calls
  BY DEF Setters
<1>1. l \in Locks /\ waiters[l] \in Seq(Calls)
  BY <1>0, LockOfType DEF IInv, TypeOK
<1>2. WaitersInv(l)
  BY <1>1 DEF LocksInv
<1>3. lock'[l] = c
  BY <1>1 DEF IInv, TypeOK
<1>4. HolderInv(l)'
  BY <1>3 DEF HolderInv, Setters, LockOf
<1>5. WaitersInv(l)'
  <2>1. \A n \in 1..Len(waiters[l]) : waiters[l][n] \in Calls \ {c}
    BY <1>1, <1>2 DEF WaitersInv
  <2> QED BY <1>1, <1>2, <2>1 DEF WaitersInv, LockOf
<1>6. Only(c)
  BY DEF Only, IInv, TypeOK
<1> QED BY <1>0, <1>4, <1>5, <1>6, OtherLocks

\* c waits at the end of the queue.
LEMMA Waits ==
    ASSUME IInv, LocksInv, NEW c \in Calls, pc[c] # "queue", lock[LockOf(c)] # c,
           waiters' = [waiters EXCEPT ![LockOf(c)] = Append(@, c)], lock' = lock,
           \A x \in Calls \ {c} : pc'[x] = pc[x], pc'[c] = "queue"
    PROVE  LocksInv'
<1> DEFINE l == LockOf(c)
           q == waiters[l]
<1>1. l \in Locks /\ q \in Seq(Calls)
  BY LockOfType DEF IInv, TypeOK
<1>2. HolderInv(l) /\ WaitersInv(l)
  BY <1>1 DEF LocksInv
<1>3. waiters'[l] = Append(q, c)
  BY <1>1 DEF IInv, TypeOK
<1>4. /\ Len(q) \in Nat /\ Len(Append(q, c)) = Len(q) + 1
      /\ \A n \in 1..Len(q) : Append(q, c)[n] = q[n]
      /\ Append(q, c)[Len(q) + 1] = c
  BY <1>1
<1>5. \A n \in 1..Len(q) : q[n] \in Calls \ {c} /\ LockOf(q[n]) = l /\ pc[q[n]] = "queue"
  BY <1>1, <1>2 DEF WaitersInv
<1>6. HolderInv(l)'
  BY <1>2 DEF HolderInv, Setters, LockOf
<1>7. WaitersInv(l)'
  <2> DEFINE r == waiters'[l]
  <2>1. \A n \in 1..Len(r) :
          \/ n \in 1..Len(q) /\ r[n] = q[n]
          \/ n = Len(q) + 1 /\ r[n] = c
    <3>1. Len(r) = Len(q) + 1 /\ r[Len(q) + 1] = c /\ \A n \in 1..Len(q) : r[n] = q[n]
      BY <1>3, <1>4
    <3>2. Len(q) \in Nat
      BY <1>4
    <3> HIDE DEF q, r
    <3> QED BY <3>1, <3>2
  <2>2. \A n \in 1..Len(r) : LockOf(r[n]) = l /\ pc'[r[n]] = "queue"
    BY <1>5, <2>1
  <2>3. \A m, n \in 1..Len(r) : r[m] = r[n] => m = n
    BY <1>2, <1>5, <2>1 DEF WaitersInv
  <2>4. ASSUME NEW x \in Calls, LockOf(x) = l, pc'[x] = "queue"
        PROVE  \E n \in 1..Len(r) : r[n] = x
    <3>1. CASE x = c
      BY <1>3, <1>4, <3>1
    <3>2. CASE x # c
      <4>1. PICK n \in 1..Len(q) : q[n] = x
        BY <1>2, <2>4, <3>2 DEF WaitersInv
      <4> QED BY <1>3, <1>4, <4>1
    <3> QED BY <3>1, <3>2
  <2> QED BY <2>2, <2>3, <2>4 DEF WaitersInv, LockOf
<1>8. Only(c)
  BY DEF Only, IInv, TypeOK
<1> QED BY <1>6, <1>7, <1>8, OtherLocks

\* c lets go of the lock.
LEMMA Releases ==
    ASSUME IInv, LocksInv, NEW c \in Calls, pc[c] # "queue", pc'[c] # "queue",
           lock' = [lock EXCEPT ![LockOf(c)] = Free], waiters' = waiters,
           \A x \in Calls \ {c} : pc'[x] = pc[x]
    PROVE  LocksInv'
<1> DEFINE l == LockOf(c)
<1>1. l \in Locks /\ waiters[l] \in Seq(Calls)
  BY LockOfType DEF IInv, TypeOK
<1>2. WaitersInv(l)
  BY <1>1 DEF LocksInv
<1>3. HolderInv(l)'
  <2>1. lock'[l] = Free
    BY <1>1 DEF IInv, TypeOK
  <2> QED BY <2>1 DEF HolderInv, LockOf
<1>4. WaitersInv(l)'
  <2>1. \A n \in 1..Len(waiters[l]) : waiters[l][n] \in Calls \ {c}
    BY <1>1, <1>2 DEF WaitersInv
  <2> QED BY <1>1, <1>2, <2>1 DEF WaitersInv, LockOf
<1>5. Only(c)
  BY DEF Only, IInv, TypeOK
<1> QED BY <1>3, <1>4, <1>5, OtherLocks

LEMMA WithoutElements ==
    ASSUME NEW q \in Seq(Calls), NEW j \in 1..Len(q)
    PROVE  /\ \A n \in 1..Len(Without(q, j)) : \E m \in 1..Len(q) \ {j} :
                Without(q, j)[n] = q[m] /\ m = IF n < j THEN n ELSE n + 1
           /\ \A m \in 1..Len(q) \ {j} : \E n \in 1..Len(Without(q, j)) :
                Without(q, j)[n] = q[m]
<1> DEFINE r == Without(q, j)
<1>1. Len(q) \in Nat /\ Len(q) - 1 \in Nat /\ j \in Nat
  OBVIOUS
<1>2. r \in Seq(Calls) /\ DOMAIN r = 1..(Len(q) - 1)
  BY WithoutType DEF Without
<1>3. Len(r) = Len(q) - 1
  BY <1>1, <1>2
<1>4. \A n \in 1..(Len(q) - 1) : r[n] = IF n < j THEN q[n] ELSE q[n + 1]
  BY DEF Without
<1>5. \A n \in 1..(Len(q) - 1) :
        (IF n < j THEN n ELSE n + 1) \in 1..Len(q) \ {j}
  BY <1>1
<1>6. \A m \in 1..Len(q) \ {j} :
        \/ m < j /\ m \in 1..(Len(q) - 1)
        \/ ~(m - 1 < j) /\ m - 1 \in 1..(Len(q) - 1) /\ (m - 1) + 1 = m
  BY <1>1
<1>7. \A n \in 1..Len(r) : \E m \in 1..Len(q) \ {j} :
        r[n] = q[m] /\ m = IF n < j THEN n ELSE n + 1
  BY <1>3, <1>4, <1>5
<1>8. \A m \in 1..Len(q) \ {j} : \E n \in 1..Len(r) : r[n] = q[m]
  BY <1>3, <1>4, <1>6
<1> QED BY <1>7, <1>8

\* c stands j-th in the queue and leaves it; if it was the first it may hold the lock now.
LEMMA LeavesQueue ==
    ASSUME IInv, LocksInv, NEW c \in Calls, pc[c] = "queue", pc'[c] # "queue",
           NEW j \in 1..Len(waiters[LockOf(c)]), waiters[LockOf(c)][j] = c,
           waiters' = [waiters EXCEPT ![LockOf(c)] = Without(@, j)],
           \A x \in Calls \ {c} : pc'[x] = pc[x],
           \/ lock' = lock
           \/ lock' = [lock EXCEPT ![LockOf(c)] = c] /\ pc'[c] \in {"sleep", "call"}
    PROVE  LocksInv'
<1> DEFINE l == LockOf(c)
           q == waiters[l]
           r == waiters'[l]
<1>1. l \in Locks /\ q \in Seq(Calls) /\ j \in 1..Len(q)
  BY LockOfType DEF IInv, TypeOK
<1>2. HolderInv(l) /\ WaitersInv(l)
  BY <1>1 DEF LocksInv
<1>3. r = Without(q, j)
  BY <1>1 DEF IInv, TypeOK
<1>4. /\ \A n \in 1..Len(Without(q, j)) : \E m \in 1..Len(q) \ {j} :
           Without(q, j)[n] = q[m] /\ m = IF n < j THEN n ELSE n + 1
      /\ \A m \in 1..Len(q) \ {j} : \E n \in 1..Len(Without(q, j)) :
           Without(q, j)[n] = q[m]
  BY <1>1, WithoutElements, Zenon
<1>5. /\ \A n \in 1..Len(r) : \E m \in 1..Len(q) \ {j} :
           r[n] = q[m] /\ m = IF n < j THEN n ELSE n + 1
      /\ \A m \in 1..Len(q) \ {j} : \E n \in 1..Len(r) : r[n] = q[m]
  BY <1>3, <1>4, Zenon
<1>6. \A m \in 1..Len(q) : q[m] \in Calls /\ (q[m] = c <=> m = j)
  BY <1>1, <1>2 DEF WaitersInv
<1>7. HolderInv(l)'
  <2>1. c \in Setters
    BY DEF IInv, CallInv
  <2>2. lock'[l] \in {lock[l], c} /\ (lock'[l] = c => lock[l] = c \/ pc'[c] \in {"sleep", "call"})
    BY <1>1 DEF IInv, TypeOK
  <2>3. lock[l] # c
    BY <1>1, <1>2, ToolsAssumption DEF HolderInv
  <2> QED BY <1>2, <2>1, <2>2, <2>3 DEF HolderInv, Setters, LockOf
<1>8. WaitersInv(l)'
  <2>1. \A n \in 1..Len(r) : LockOf(r[n]) = l /\ pc'[r[n]] = "queue"
    <3>1. SUFFICES ASSUME NEW n \in 1..Len(r) PROVE LockOf(r[n]) = l /\ pc'[r[n]] = "queue"
      OBVIOUS
    <3>2. PICK m \in 1..Len(q) \ {j} : r[n] = q[m]
      BY <1>5
    <3>3. LockOf(q[m]) = l /\ pc[q[m]] = "queue" /\ q[m] \in Calls \ {c}
      BY <1>2, <1>6 DEF WaitersInv
    <3> QED BY <3>2, <3>3
  <2>2. \A m, n \in 1..Len(r) : r[m] = r[n] => m = n
    <3>1. \A m, n \in 1..Len(q) : q[m] = q[n] => m = n
      BY <1>2 DEF WaitersInv
    <3>2. SUFFICES ASSUME NEW m \in 1..Len(r), NEW n \in 1..Len(r), r[m] = r[n]
                   PROVE  m = n
      OBVIOUS
    <3>3. PICK mq \in 1..Len(q) \ {j} : r[m] = q[mq] /\ mq = IF m < j THEN m ELSE m + 1
      BY <1>5
    <3>4. PICK nq \in 1..Len(q) \ {j} : r[n] = q[nq] /\ nq = IF n < j THEN n ELSE n + 1
      BY <1>5
    <3>5. mq = nq /\ mq \in Int /\ j \in Int /\ m \in Int /\ n \in Int
      BY <3>1, <3>2, <3>3, <3>4
    <3> HIDE DEF r, q
    <3> QED BY <3>3, <3>4, <3>5
  <2>3. ASSUME NEW x \in Calls, LockOf(x) = l, pc'[x] = "queue"
        PROVE  \E n \in 1..Len(r) : r[n] = x
    <3>1. x # c
      BY <2>3
    <3>2. PICK m \in 1..Len(q) : q[m] = x
      BY <1>2, <2>3, <3>1 DEF WaitersInv
    <3>3. m # j
      BY <1>6, <3>1, <3>2
    <3> QED BY <1>5, <3>2, <3>3
  <2> QED BY <2>1, <2>2, <2>3 DEF WaitersInv, LockOf
<1>9. Only(c)
  BY DEF Only, IInv, TypeOK
<1> QED BY <1>7, <1>8, <1>9, OtherLocks

\* What the pieces of the handlers do to the locks.
LEMMA ProceedLocks ==
    ASSUME IInv, LocksInv, NEW c \in Calls, NEW k \in 1..K, Proceed(c, k),
           pc[c] \in {"idle", "lazy"}
    PROVE  LocksInv'
<1>0. TypeOK /\ pc[c] # "queue" /\ lock[LockOf(c)] # c
  BY LockOfType, ToolsAssumption DEF IInv, LocksInv, HolderInv
<1>1. CASE Dev[c] \notin Served[k].devs
  <2>1. UNCHANGED <<lock, waiters>> /\ Goto(c, "failed")
    BY <1>1 DEF Proceed
  <2> QED BY <1>0, <2>1, Passes DEF Goto, TypeOK
<1>2. CASE Request(c, "call") /\ UNCHANGED <<lock, waiters>>
  BY <1>0, <1>2, Passes DEF Request, Goto, TypeOK
<1>3. CASE Kind[c] = "set" /\ EnterGuard(c, k)
  <2>1. CASE /\ lock[LockOf(c)] = Free /\ lock' = [lock EXCEPT ![LockOf(c)] = c]
             /\ StartCall(c, k) /\ waiters' = waiters
    <3>1. pc'[c] \in {"sleep", "call"} /\ \A x \in Calls \ {c} : pc'[x] = pc[x]
      BY <1>0, <2>1 DEF StartCall, Request, Goto, TypeOK
    <3> QED BY <1>0, <1>3, <2>1, <3>1, Takes DEF Setters
  <2>2. CASE /\ waiters' = [waiters EXCEPT ![LockOf(c)] = Append(@, c)]
             /\ Goto(c, "queue") /\ UNCHANGED lock
    BY <1>0, <2>2, Waits DEF Goto, TypeOK
  <2> QED BY <1>3, <2>1, <2>2 DEF EnterGuard
<1> QED BY <1>1, <1>2, <1>3 DEF Proceed

LEMMA LeaveGuardLocks ==
    ASSUME IInv, LocksInv, NEW c \in Calls, pc[c] = "call", LeaveGuard(c), waiters' = waiters,
           pc'[c] \in {"done", "failed"}, \A x \in Calls \ {c} : pc'[x] = pc[x]
    PROVE  LocksInv'
<1>1. CASE Kind[c] = "set"
  BY <1>1, Releases DEF LeaveGuard
<1>2. CASE Kind[c] # "set"
  <2>1. lock' = lock
    BY <1>2 DEF LeaveGuard
  <2>2. lock[LockOf(c)] # c
    BY <1>2, LockOfType, ToolsAssumption DEF LocksInv, HolderInv, Setters
  <2> QED BY <2>1, <2>2, Passes
<1> QED BY <1>1, <1>2

\* The first of a queue leaves it as the handler that takes the lock does.
LEMMA FirstGone ==
    ASSUME NEW q \in Seq(Calls), q # <<>>
    PROVE  1 \in 1..Len(q) /\ q[1] = Head(q) /\ Tail(q) = Without(q, 1)
<1>1. 1 \in 1..Len(q) /\ q[1] = Head(q) /\ Len(q) - 1 \in Nat
  OBVIOUS
<1>2. /\ Tail(q) \in Seq(Calls) /\ Len(Tail(q)) = Len(q) - 1
      /\ \A n \in 1..(Len(q) - 1) : Tail(q)[n] = q[n + 1]
  BY HeadTailProperties
<1>3. Without(q, 1) \in Seq(Calls) /\ DOMAIN Without(q, 1) = 1..(Len(q) - 1)
  BY <1>1, WithoutType DEF Without
<1>4. Len(Without(q, 1)) = Len(q) - 1
  BY <1>1, <1>3
<1>5. \A n \in 1..(Len(q) - 1) : Without(q, 1)[n] = q[n + 1]
  BY <1>1 DEF Without
<1>6. Tail(q) = Without(q, 1)
  BY <1>2, <1>3, <1>4, <1>5, SeqEqual
<1> QED BY <1>1, <1>6

LEMMA LocksStep == ASSUME IInv, LocksInv, [Next]_vars PROVE LocksInv'
<1>0. TypeOK
  BY DEF IInv
<1>a. \A c \in Calls : lock[LockOf(c)] = c => pc[c] \in {"sleep", "call"}
  BY LockOfType, ToolsAssumption DEF LocksInv, HolderInv
<1>1. ASSUME NEW c \in Calls, Invoke(c) PROVE LocksInv'
  <2>1. CASE cache[Sess[c]] # 0 /\ Proceed(c, cache[Sess[c]])
    <3>1. cache[Sess[c]] \in 1..K
      BY <1>0, <2>1, ToolsAssumption DEF TypeOK
    <3> QED BY <1>1, <2>1, <3>1, ProceedLocks DEF Invoke
  <2>2. CASE (Request(c, "list") \/ Request(c, "lazy")) /\ UNCHANGED <<lock, waiters>>
    BY <1>0, <1>1, <1>a, <2>2, Passes DEF Invoke, Request, Goto, TypeOK
  <2> QED BY <1>1, <2>1, <2>2 DEF Invoke
<1>2. ASSUME NEW c \in Calls, ListReturns(c) PROVE LocksInv'
  <2>1. got[c] \in 1..K
    BY <1>2 DEF ListReturns, IInv, CallInv
  <2>2. CASE pc[c] = "lazy" /\ Proceed(c, got[c])
    BY <2>1, <2>2, ProceedLocks
  <2>3. CASE pc[c] = "list" /\ Goto(c, "done") /\ UNCHANGED <<lock, waiters>>
    BY <1>0, <1>a, <2>3, Passes DEF Goto, TypeOK
  <2> QED BY <1>2, <2>2, <2>3 DEF ListReturns
<1>3. ASSUME NEW c \in Calls, Acquire(c) PROVE LocksInv'
  <2> DEFINE q == waiters[LockOf(c)]
  <2>1. /\ pc[c] = "queue" /\ q # <<>> /\ Head(q) = c
        /\ lock' = [lock EXCEPT ![LockOf(c)] = c]
        /\ waiters' = [waiters EXCEPT ![LockOf(c)] = Tail(q)]
        /\ StartCall(c, cache[Sess[c]])
    BY <1>3 DEF Acquire
  <2>2. q \in Seq(Calls)
    BY <1>0, LockOfType DEF TypeOK
  <2>3. 1 \in 1..Len(q) /\ q[1] = c /\ waiters' = [waiters EXCEPT ![LockOf(c)] = Without(q, 1)]
    BY <2>1, <2>2, FirstGone
  <2>4. pc'[c] \in {"sleep", "call"} /\ \A x \in Calls \ {c} : pc'[x] = pc[x]
    BY <1>0, <2>1 DEF StartCall, Request, Goto, TypeOK
  <2> QED BY <2>1, <2>3, <2>4, LeavesQueue
<1>4. ASSUME NEW c \in Calls, Wake(c) PROVE LocksInv'
  BY <1>0, <1>4, Passes DEF Wake, Request, Goto, TypeOK
<1>5. ASSUME NEW c \in Calls, CallReturns(c) PROVE LocksInv'
  BY <1>0, <1>5, LeaveGuardLocks DEF CallReturns, Goto, TypeOK
<1>6. ASSUME NEW c \in Calls, Abort(c) PROVE LocksInv'
  <2>1. /\ pc'[c] = "failed" /\ waiters' = waiters /\ \A x \in Calls \ {c} : pc'[x] = pc[x]
        /\ pc[c] \in {"lazy", "list", "call"}
    BY <1>0, <1>6 DEF Abort, Awaiting, Goto, TypeOK
  <2>2. CASE pc[c] = "call" /\ LeaveGuard(c)
    BY <2>1, <2>2, LeaveGuardLocks
  <2>3. CASE pc[c] # "call" /\ lock' = lock
    BY <1>a, <2>1, <2>3, Passes
  <2> QED BY <1>6, <2>2, <2>3 DEF Abort
<1>7. ASSUME NEW c \in Calls, CancelWaiting(c) PROVE LocksInv'
  <2>1. pc'[c] = "failed" /\ \A x \in Calls \ {c} : pc'[x] = pc[x]
    BY <1>0, <1>7 DEF CancelWaiting, Goto, TypeOK
  <2>2. CASE pc[c] = "queue"
    <3>1. PICK j \in 1..Len(waiters[LockOf(c)]) :
            /\ waiters[LockOf(c)][j] = c
            /\ waiters' = [waiters EXCEPT ![LockOf(c)] = Without(@, j)]
      BY <1>7, <2>2 DEF CancelWaiting
    <3>2. lock' = lock
      BY <1>7, <2>2 DEF CancelWaiting
    <3> QED BY <2>1, <2>2, <3>1, <3>2, LeavesQueue
  <2>3. CASE pc[c] = "sleep"
    BY <1>7, <2>1, <2>3, Releases DEF CancelWaiting
  <2> QED BY <1>7, <2>2, <2>3 DEF CancelWaiting
<1>8. CASE UNCHANGED <<pc, lock, waiters>>
  BY <1>8 DEF LocksInv, HolderInv, WaitersInv, LockOf, Setters
<1> QED BY <1>1, <1>2, <1>3, <1>4, <1>5, <1>6, <1>7, <1>8
        DEF Next, Client, Execute, ServerRestart, Tick, vars

\* The inductive invariant of the locks, for any calls of any sessions.
THEOREM LocksInvariance == Spec => []LocksInv
<1>1. IInv /\ LocksInv /\ [Next]_vars => LocksInv'
  BY LocksStep
<1> QED BY <1>1, InitLocks, Invariance, PTL DEF Spec

\* No lock is left held: whoever holds one is a set_output of that session and
\* device that sleeps or whose request is awaited, whatever was cancelled, timed
\* out or lost before (the finally of OutputRateLimiter.guard).
NoLockLeft ==
    \A l \in Locks : lock[l] # Free =>
        \E c \in Setters : lock[l] = c /\ LockOf(c) = l /\ pc[c] \in {"sleep", "call"}

\* No waiter is forgotten: while a set_output waits for a lock, somebody past it
\* will let go of it, or the first in the queue can take it.
NobodyForgotten ==
    \A c \in Calls : pc[c] = "queue" =>
        \/ \E x \in Setters : lock[LockOf(c)] = x /\ pc[x] \in {"sleep", "call"}
        \/ /\ lock[LockOf(c)] = Free
           /\ waiters[LockOf(c)] # <<>>
           /\ pc[Head(waiters[LockOf(c)])] = "queue"
           /\ LockOf(Head(waiters[LockOf(c)])) = LockOf(c)

\* Whatever ends a set_output, asyncio.Lock is released with it.
THEOREM NoLockIsLeft == Spec => []NoLockLeft
<1>1. LocksInv => NoLockLeft
  BY DEF LocksInv, HolderInv, NoLockLeft
<1> QED BY <1>1, LocksInvariance, PTL

\* Neither a cancelled waiter nor one that was served leaves others waiting for nothing.
THEOREM NobodyIsForgotten == Spec => []NobodyForgotten
<1>1. ASSUME TypeOK, LocksInv, NEW c \in Calls, pc[c] = "queue", lock[LockOf(c)] = Free
      PROVE  /\ waiters[LockOf(c)] # <<>>
             /\ pc[Head(waiters[LockOf(c)])] = "queue"
             /\ LockOf(Head(waiters[LockOf(c)])) = LockOf(c)
  <2> DEFINE q == waiters[LockOf(c)]
  <2>1. q \in Seq(Calls) /\ WaitersInv(LockOf(c))
    BY <1>1, LockOfType DEF TypeOK, LocksInv
  <2>2. PICK n \in 1..Len(q) : q[n] = c
    BY <1>1, <2>1 DEF WaitersInv
  <2>3. q # <<>>
    BY <2>2
  <2>4. 1 \in 1..Len(q) /\ q[1] = Head(q)
    BY <2>1, <2>3, FirstGone
  <2> QED BY <2>1, <2>3, <2>4 DEF WaitersInv
<1>2. TypeOK /\ LocksInv => NobodyForgotten
  <2>1. ASSUME LocksInv, NEW c \in Calls, lock[LockOf(c)] # Free
        PROVE  \E x \in Setters : lock[LockOf(c)] = x /\ pc[x] \in {"sleep", "call"}
    BY <2>1, LockOfType DEF LocksInv, HolderInv
  <2> QED BY <1>1, <2>1 DEF NobodyForgotten
<1> QED BY <1>2, LocksInvariance, TypeCorrect, PTL

-----------------------------------------------------------------------------
(* Waiters are served in the order in which they came.                     *)

\* a and b wait for the same lock, and a came first.
Ahead(a, b) ==
    \E m, n \in 1..Len(waiters[LockOf(a)]) :
        m < n /\ waiters[LockOf(a)][m] = a /\ waiters[LockOf(a)][n] = b

\* What a step may do to a queue: nothing, append a call, or take one out,
\* which is the first unless that call was cancelled.
QueueStep(l) ==
    \/ waiters'[l] = waiters[l]
    \/ \E c \in Calls : waiters'[l] = Append(waiters[l], c)
    \/ \E j \in 1..Len(waiters[l]) :
         /\ waiters'[l] = Without(waiters[l], j)
         /\ pc'[waiters[l][j]] # "queue"
         /\ j = 1 \/ pc'[waiters[l][j]] = "failed"

LEMMA ProceedQueues ==
    ASSUME TypeOK, NEW c \in Calls, NEW k \in 1..K, Proceed(c, k), NEW l \in Locks
    PROVE  QueueStep(l)
<1>1. CASE waiters' = waiters
  BY <1>1 DEF QueueStep
<1>2. CASE waiters' = [waiters EXCEPT ![LockOf(c)] = Append(@, c)]
  BY <1>2 DEF QueueStep, TypeOK
<1> QED BY <1>1, <1>2 DEF Proceed, EnterGuard

LEMMA QueueSteps == ASSUME IInv, [Next]_vars, NEW l \in Locks PROVE QueueStep(l)
<1>0. TypeOK
  BY DEF IInv
<1>1. CASE waiters' = waiters
  BY <1>1 DEF QueueStep
<1>2. ASSUME NEW c \in Calls, Invoke(c) PROVE QueueStep(l)
  <2>1. CASE cache[Sess[c]] # 0 /\ Proceed(c, cache[Sess[c]])
    <3>1. cache[Sess[c]] \in 1..K
      BY <1>0, <2>1, ToolsAssumption DEF TypeOK
    <3> QED BY <1>0, <2>1, <3>1, ProceedQueues
  <2> QED BY <1>1, <1>2, <2>1 DEF Invoke
<1>3. ASSUME NEW c \in Calls, ListReturns(c) PROVE QueueStep(l)
  <2>1. got[c] \in 1..K
    BY <1>3 DEF ListReturns, IInv, CallInv
  <2> QED BY <1>0, <1>1, <1>3, <2>1, ProceedQueues DEF ListReturns
<1>4. ASSUME NEW c \in Calls, Acquire(c) PROVE QueueStep(l)
  <2> DEFINE q == waiters[LockOf(c)]
  <2>1. q \in Seq(Calls) /\ q # <<>> /\ Head(q) = c
        /\ waiters' = [waiters EXCEPT ![LockOf(c)] = Tail(q)]
    BY <1>0, <1>4, LockOfType DEF Acquire, TypeOK
  <2>2. 1 \in 1..Len(q) /\ q[1] = c /\ Tail(q) = Without(q, 1)
    BY <2>1, FirstGone
  <2>3. pc'[c] # "queue"
    BY <1>0, <1>4 DEF Acquire, StartCall, Request, Goto, TypeOK
  <2>4. waiters'[l] = IF l = LockOf(c) THEN Without(q, 1) ELSE waiters[l]
    BY <1>0, <2>1, <2>2 DEF TypeOK
  <2> QED BY <2>2, <2>3, <2>4 DEF QueueStep
<1>5. ASSUME NEW c \in Calls, CancelWaiting(c) PROVE QueueStep(l)
  <2>1. CASE pc[c] = "queue"
    <3>1. PICK j \in 1..Len(waiters[LockOf(c)]) :
            /\ waiters[LockOf(c)][j] = c
            /\ waiters' = [waiters EXCEPT ![LockOf(c)] = Without(@, j)]
      BY <1>5, <2>1 DEF CancelWaiting
    <3>2. pc'[c] = "failed"
      BY <1>0, <1>5 DEF CancelWaiting, Goto, TypeOK
    <3>3. waiters'[l] = IF l = LockOf(c) THEN Without(waiters[l], j) ELSE waiters[l]
      BY <1>0, <3>1 DEF TypeOK
    <3> QED BY <3>1, <3>2, <3>3 DEF QueueStep
  <2> QED BY <1>1, <1>5, <2>1 DEF CancelWaiting
<1> QED BY <1>1, <1>2, <1>3, <1>4, <1>5
        DEF Next, Client, Wake, CallReturns, Abort, Execute, ServerRestart, Tick, vars

\* Who stays in a queue that one call leaves, stays in its order.
LEMMA WithoutOrder ==
    ASSUME NEW q \in Seq(Calls), NEW j \in 1..Len(q),
           NEW m \in 1..Len(q), NEW n \in 1..Len(q), m < n, m # j, n # j
    PROVE  \E i, k \in 1..Len(Without(q, j)) :
             i < k /\ Without(q, j)[i] = q[m] /\ Without(q, j)[k] = q[n]
<1> DEFINE Place(x) == IF x < j THEN x ELSE x - 1
<1>1. Len(q) - 1 \in Nat /\ Without(q, j) \in Seq(Calls)
      /\ DOMAIN Without(q, j) = 1..(Len(q) - 1)
  BY WithoutType DEF Without
<1>2. Len(Without(q, j)) = Len(q) - 1
  BY <1>1
<1>3. Place(m) \in 1..(Len(q) - 1) /\ Place(n) \in 1..(Len(q) - 1) /\ Place(m) < Place(n)
  BY <1>1
<1>4. \A x \in 1..(Len(q) - 1) : Without(q, j)[x] = IF x < j THEN q[x] ELSE q[x + 1]
  BY DEF Without
<1>5. \A x \in 1..Len(q) \ {j} :
        (IF Place(x) < j THEN Place(x) ELSE Place(x) + 1) = x
  BY <1>1
<1>6. Without(q, j)[Place(m)] = q[m] /\ Without(q, j)[Place(n)] = q[n]
  BY <1>3, <1>4, <1>5
<1> QED BY <1>2, <1>3, <1>6

\* While a waits ahead of b, b does not get the lock: it still waits behind a,
\* a was served or cancelled, or b was cancelled (asyncio.Lock is fair, and
\* guard() enters the queue before it awaits anything else).
ServedInOrder ==
    [][\A a, b \in Calls : Ahead(a, b) =>
         Ahead(a, b)' \/ pc'[a] # "queue" \/ pc'[b] = "failed"]_vars

\* For any number of calls, whatever is cancelled or lost meanwhile.
THEOREM FirstComeFirstServed == Spec => ServedInOrder
<1>1. ASSUME IInv, LocksInv, [Next]_vars, NEW a \in Calls, NEW b \in Calls, Ahead(a, b)
      PROVE  Ahead(a, b)' \/ pc'[a] # "queue" \/ pc'[b] = "failed"
  <2> DEFINE l == LockOf(a)
             q == waiters[l]
  <2>1. l \in Locks /\ q \in Seq(Calls) /\ LockOf(a)' = l
    BY <1>1, LockOfType DEF IInv, TypeOK, LockOf
  <2>2. PICK m \in 1..Len(q), n \in 1..Len(q) : m < n /\ q[m] = a /\ q[n] = b
    BY <1>1 DEF Ahead
  <2>3. QueueStep(l)
    BY <1>1, <2>1, QueueSteps
  <2>4. CASE waiters'[l] = q
    BY <2>1, <2>2, <2>4 DEF Ahead
  <2>5. ASSUME NEW c \in Calls, waiters'[l] = Append(q, c) PROVE Ahead(a, b)'
    <3>1. /\ Len(Append(q, c)) = Len(q) + 1 /\ Len(q) \in Nat
          /\ \A i \in 1..Len(q) : Append(q, c)[i] = q[i]
      BY <2>1
    <3>2. m \in 1..(Len(q) + 1) /\ n \in 1..(Len(q) + 1)
      BY <3>1
    <3> QED BY <2>1, <2>2, <2>5, <3>1, <3>2 DEF Ahead
  <2>6. ASSUME NEW j \in 1..Len(q), waiters'[l] = Without(q, j), pc'[q[j]] # "queue",
               j = 1 \/ pc'[q[j]] = "failed"
        PROVE  Ahead(a, b)' \/ pc'[a] # "queue" \/ pc'[b] = "failed"
    <3>1. CASE j = m
      BY <2>2, <2>6, <3>1
    <3>2. CASE j = n
      <4>1. j # 1
        BY <2>2, <3>2
      <4> QED BY <2>2, <2>6, <3>2, <4>1
    <3>3. CASE j # m /\ j # n
      <4>1. \E i, k \in 1..Len(Without(q, j)) :
              i < k /\ Without(q, j)[i] = a /\ Without(q, j)[k] = b
        <5>1. /\ q \in Seq(Calls) /\ j \in 1..Len(q) /\ m < n
              /\ m \in 1..Len(q) /\ n \in 1..Len(q) /\ m # j /\ n # j
          BY <2>1, <2>2, <2>6, <3>3
        <5> HIDE DEF q
        <5>2. \E i, k \in 1..Len(Without(q, j)) :
                i < k /\ Without(q, j)[i] = q[m] /\ Without(q, j)[k] = q[n]
          BY <5>1, WithoutOrder, Zenon
        <5> QED BY <2>2, <5>2, Zenon
      <4> QED BY <2>1, <2>6, <4>1 DEF Ahead
    <3> QED BY <3>1, <3>2, <3>3
  <2> QED BY <2>3, <2>4, <2>5, <2>6 DEF QueueStep
<1>2. IInv /\ LocksInv /\ [Next]_vars =>
        [\A a, b \in Calls : Ahead(a, b) =>
           Ahead(a, b)' \/ pc'[a] # "queue" \/ pc'[b] = "failed"]_vars
  BY <1>1
<1> QED BY <1>2, Invariance, LocksInvariance, PTL DEF Spec, ServedInOrder

-----------------------------------------------------------------------------
(* The minimum gap at the hardware, when there is one session.             *)

\* A set_output that sleeps will have waited for the interval when it wakes;
\* one whose request is out has waited for it.
Waited(c) ==
    c \in Setters =>
        /\ pc[c] = "sleep" =>
             \A m \in IntervalBounds : since[LockOf(c)] + remain[c] >= m
        /\ pc[c] = "call" /\ c \in flight =>
             \A m \in IntervalBounds : since[LockOf(c)] >= m

\* _last_call is never older than the last awaited write of the device, but
\* for a write whose answer is still to be read.
Recorded(l) ==
    \/ quiet[l[2]] >= since[l]
    \/ \E c \in Setters : LockOf(c) = l /\ pc[c] = "call" /\ resp[c] = "ok"

GapInv == (\A c \in Calls : Waited(c)) /\ (\A l \in Locks : Recorded(l))

LEMMA InitGap == Init => GapInv
<1> SUFFICES ASSUME Init PROVE GapInv
  OBVIOUS
<1>1. \A l \in Locks : quiet[l[2]] >= since[l]
  <2>1. PICK uptime \in 0..Cap : since = [l \in Locks |-> uptime]
    BY DEF Init
  <2>2. quiet = [d \in Devices |-> Cap]
    BY DEF Init
  <2>3. \A l \in Locks : l[2] \in Devices
    BY DEF Locks
  <2> QED BY <2>1, <2>2, <2>3, ToolsAssumption
<1>2. \A c \in Calls : Waited(c)
  BY DEF Init, Waited
<1> QED BY <1>1, <1>2 DEF GapInv, Recorded

\* Whoever passes the guard with since and remain as StartCall leaves them.
LEMMA StartCallWaits ==
    ASSUME TypeOK, NEW c \in Calls, NEW k \in 1..K, StartCall(c, k), since' = since
    PROVE  /\ Waited(c)'
           /\ \A x \in Calls \ {c} : remain'[x] = remain[x]
<1>1. Served[k].interval \in 0..Cap /\ since[LockOf(c)] \in 0..Cap
  BY ServedType, LockOfType DEF TypeOK
<1>2. \A m \in IntervalBounds : m \in 0..Cap /\ m <= Served[k].interval
  BY DEF IntervalBounds
<1>3. CASE /\ Served[k].interval - since[LockOf(c)] > 0
           /\ Goto(c, "sleep")
           /\ remain' = [remain EXCEPT ![c] = Served[k].interval - since[LockOf(c)]]
  <2>1. pc'[c] = "sleep" /\ remain'[c] = Served[k].interval - since[LockOf(c)]
    BY <1>3 DEF Goto, TypeOK
  <2>2. \A m \in IntervalBounds : since[LockOf(c)] + remain'[c] >= m
    BY <1>1, <1>2, <2>1
  <2>3. Waited(c)'
    BY <2>1, <2>2 DEF Waited, LockOf
  <2> QED BY <1>3, <2>3 DEF TypeOK
<1>4. CASE /\ Served[k].interval - since[LockOf(c)] <= 0
           /\ Request(c, "call") /\ remain' = remain
  <2>1. pc'[c] = "call"
    BY <1>4 DEF Request, Goto, TypeOK
  <2>2. \A m \in IntervalBounds : since[LockOf(c)] >= m
    BY <1>1, <1>2, <1>4, ToolsAssumption
  <2>3. Waited(c)'
    BY <2>1, <2>2 DEF Waited, LockOf
  <2> QED BY <1>4, <2>3
<1> QED BY <1>3, <1>4 DEF StartCall

LEMMA ProceedWaits ==
    ASSUME TypeOK, NEW c \in Calls, NEW k \in 1..K, Proceed(c, k), since' = since
    PROVE  Waited(c)' /\ \A x \in Calls \ {c} : remain'[x] = remain[x]
<1>1. CASE Goto(c, "failed") /\ UNCHANGED remain
  BY <1>1 DEF Goto, TypeOK, Waited
<1>2. CASE Kind[c] = "query" /\ UNCHANGED remain
  BY <1>2 DEF Waited, Setters
<1>3. CASE EnterGuard(c, k)
  <2>1. CASE StartCall(c, k)
    BY <2>1, StartCallWaits
  <2>2. CASE Goto(c, "queue") /\ UNCHANGED remain
    BY <2>2 DEF Goto, TypeOK, Waited
  <2> QED BY <1>3, <2>1, <2>2 DEF EnterGuard
<1> QED BY <1>1, <1>2, <1>3 DEF Proceed

\* The calls a step is not about keep waiting, unless their clock is reset.
LEMMA OthersWait ==
    ASSUME IInv, GapInv, NEW c \in Calls, Steady(c),
           \A x \in Calls \ {c} : remain'[x] = remain[x],
           \A x \in Setters \ {c} : pc[x] \in {"sleep", "call"} =>
               since'[LockOf(x)] = since[LockOf(x)]
    PROVE  \A x \in Calls \ {c} : Waited(x)'
BY DEF IInv, GapInv, Steady, Waited, Setters, LockOf

\* Only the holder of a lock resets its clock.
LEMMA LeaveGuardClock ==
    ASSUME IInv, NEW c \in Calls, pc[c] = "call", LeaveGuard(c)
    PROVE  /\ \A x \in Setters \ {c} : pc[x] \in {"sleep", "call"} =>
                 since'[LockOf(x)] = since[LockOf(x)]
           /\ \A l \in Locks : since'[l] = since[l] \/ (since'[l] = 0 /\ LockOf(c) = l)
           /\ c \in Setters => since'[LockOf(c)] = 0
<1>1. CASE c \in Setters
  <2>1. since' = [since EXCEPT ![LockOf(c)] = 0]
    BY <1>1 DEF LeaveGuard, Setters
  <2>2. \A x \in Setters \ {c} : pc[x] \in {"sleep", "call"} => LockOf(x) # LockOf(c)
    BY <1>1 DEF IInv, CallInv, Setters
  <2> QED BY <2>1, <2>2, LockOfType DEF IInv, TypeOK, Setters
<1>2. CASE c \notin Setters
  BY <1>2 DEF LeaveGuard, Setters
<1> QED BY <1>1, <1>2

LEMMA RecordedKept ==
    ASSUME GapInv, UNCHANGED <<since, quiet>>,
           \A x \in Setters : pc[x] = "call" /\ resp[x] = "ok"
               => pc'[x] = "call" /\ resp'[x] = "ok"
    PROVE  \A l \in Locks : Recorded(l)'
BY DEF GapInv, Recorded, LockOf

\* The end of an awaited request: whatever was not recorded is recorded now.
LEMMA LeaveGuardRecords ==
    ASSUME IInv, GapInv, NEW c \in Calls, pc[c] = "call", LeaveGuard(c), quiet' = quiet,
           \A x \in Calls \ {c} : pc'[x] = pc[x] /\ resp'[x] = resp[x]
    PROVE  \A l \in Locks : Recorded(l)'
<1> SUFFICES ASSUME NEW l \in Locks PROVE Recorded(l)'
  OBVIOUS
<1>1. quiet[l[2]] \in 0..Cap /\ since[l] \in 0..Cap
  BY DEF IInv, TypeOK, Locks
<1>2. CASE since'[l] = 0
  BY <1>1, <1>2 DEF Recorded
<1>3. CASE since'[l] # 0
  <2>1. since'[l] = since[l] /\ ~(c \in Setters /\ LockOf(c) = l)
    BY <1>3, LeaveGuardClock
  <2>2. CASE quiet[l[2]] >= since[l]
    BY <2>1, <2>2 DEF Recorded
  <2>3. CASE \E x \in Setters : LockOf(x) = l /\ pc[x] = "call" /\ resp[x] = "ok"
    <3>1. PICK x \in Setters : LockOf(x) = l /\ pc[x] = "call" /\ resp[x] = "ok"
      BY <2>3
    <3>2. x \in Calls \ {c}
      BY <2>1, <3>1 DEF Setters
    <3> QED BY <3>1, <3>2 DEF Recorded, LockOf
  <2> QED BY <2>2, <2>3 DEF GapInv, Recorded
<1> QED BY <1>2, <1>3

\* With one session a device has one lock.
OneSession == \A s1, s2 \in Sessions : s1 = s2

LEMMA OneLock ==
    ASSUME OneSession, NEW c \in Calls, NEW l \in Locks, l[2] = Dev[c]
    PROVE  l = LockOf(c)
<1>1. l = <<l[1], l[2]>> /\ l[1] \in Sessions
  BY DEF Locks
<1> QED BY <1>1, ToolsAssumption DEF OneSession, LockOf

LEMMA GapStep == ASSUME OneSession, IInv, GapInv, [Next]_vars PROVE GapInv'
<1>0. TypeOK
  BY DEF IInv
<1>1. ASSUME NEW c \in Calls, Invoke(c) PROVE GapInv'
  <2>1. c \notin flight /\ resp' = resp /\ UNCHANGED <<since, quiet>> /\ pc[c] = "idle"
    BY <1>1 DEF Invoke, IInv, CallInv
  <2>2. Steady(c) /\ Waited(c)' /\ \A x \in Calls \ {c} : remain'[x] = remain[x]
    <3>1. CASE cache[Sess[c]] # 0 /\ Proceed(c, cache[Sess[c]])
      <4>1. cache[Sess[c]] \in 1..K
        BY <1>0, <3>1, ToolsAssumption DEF TypeOK
      <4> QED BY <1>0, <2>1, <3>1, <4>1, ProceedSteady, ProceedWaits
    <3>2. CASE (Request(c, "list") \/ Request(c, "lazy")) /\ UNCHANGED <<lock, remain>>
      BY <1>0, <3>2 DEF Request, Goto, TypeOK, Steady, Waited
    <3> QED BY <1>1, <3>1, <3>2 DEF Invoke
  <2>3. \A l \in Locks : Recorded(l)'
    BY <2>1, <2>2, RecordedKept DEF Steady, Setters
  <2> QED BY <2>1, <2>2, <2>3, OthersWait DEF GapInv
<1>2. ASSUME NEW c \in Calls, ListReturns(c) PROVE GapInv'
  <2>1. /\ c \notin flight /\ got[c] \in 1..K
        /\ UNCHANGED <<since, quiet>> /\ pc[c] \in {"lazy", "list"}
        /\ \A x \in Calls \ {c} : resp'[x] = resp[x]
    BY <1>0, <1>2 DEF ListReturns, IInv, CallInv, TypeOK
  <2>2. Steady(c) /\ Waited(c)' /\ \A x \in Calls \ {c} : remain'[x] = remain[x]
    <3>1. CASE Proceed(c, got[c])
      BY <1>0, <2>1, <3>1, ProceedSteady, ProceedWaits
    <3>2. CASE Goto(c, "done") /\ UNCHANGED <<lock, remain, flight>>
      BY <1>0, <3>2 DEF Goto, TypeOK, Steady, Waited
    <3> QED BY <1>2, <3>1, <3>2 DEF ListReturns
  <2>3. \A l \in Locks : Recorded(l)'
    BY <2>1, <2>2, RecordedKept DEF Steady, Setters
  <2> QED BY <2>1, <2>2, <2>3, OthersWait DEF GapInv
<1>3. ASSUME NEW c \in Calls, Acquire(c) PROVE GapInv'
  <2>1. /\ c \notin flight /\ resp' = resp /\ UNCHANGED <<since, quiet>> /\ pc[c] = "queue"
        /\ cache[Sess[c]] # 0 /\ StartCall(c, cache[Sess[c]])
        /\ lock[LockOf(c)] = Free /\ lock' = [lock EXCEPT ![LockOf(c)] = c]
    BY <1>3 DEF Acquire, IInv, CallInv
  <2>2. cache[Sess[c]] \in 1..K
    BY <1>0, <2>1, ToolsAssumption DEF TypeOK
  <2>3. \A x \in Calls \ {c} : lock[LockOf(x)] = x => lock'[LockOf(x)] = x
    BY <1>0, <2>1, ToolsAssumption, LockOfType DEF TypeOK
  <2>4. Steady(c) /\ Waited(c)' /\ \A x \in Calls \ {c} : remain'[x] = remain[x]
    BY <1>0, <2>1, <2>2, <2>3, StartCallSteady, StartCallWaits DEF Steady
  <2>5. \A l \in Locks : Recorded(l)'
    BY <2>1, <2>4, RecordedKept DEF Steady, Setters
  <2> QED BY <2>1, <2>4, <2>5, OthersWait DEF GapInv
<1>4. ASSUME NEW c \in Calls, Wake(c) PROVE GapInv'
  <2>1. Steady(c) /\ pc'[c] = "call" /\ UNCHANGED <<remain, since, quiet, resp>>
    BY <1>0, <1>4 DEF Wake, Request, Goto, TypeOK, Steady
  <2>2. Waited(c)'
    <3>1. pc[c] = "sleep" /\ remain[c] = 0 /\ since[LockOf(c)] \in 0..Cap
      BY <1>0, <1>4, LockOfType DEF Wake, TypeOK
    <3>2. c \in Setters => \A m \in IntervalBounds : since[LockOf(c)] >= m
      BY <3>1 DEF GapInv, Waited
    <3> QED BY <2>1, <3>2 DEF Waited, LockOf
  <2>3. \A l \in Locks : Recorded(l)'
    BY <1>4, <2>1, RecordedKept DEF Steady, Setters, Wake
  <2> QED BY <2>1, <2>2, <2>3, OthersWait DEF GapInv
<1>5. ASSUME NEW c \in Calls, CallReturns(c) PROVE GapInv'
  <2>1. /\ pc[c] = "call" /\ LeaveGuard(c) /\ pc'[c] \in {"done", "failed"}
        /\ UNCHANGED <<remain, flight, quiet>>
        /\ \A x \in Calls \ {c} : pc'[x] = pc[x] /\ resp'[x] = resp[x]
    BY <1>0, <1>5 DEF CallReturns, Goto, TypeOK
  <2>2. Steady(c) /\ Waited(c)'
    BY <2>1, LeaveGuardSteady DEF Steady, Waited
  <2>3. \A l \in Locks : Recorded(l)'
    BY <2>1, LeaveGuardRecords
  <2> QED BY <2>1, <2>2, <2>3, OthersWait, LeaveGuardClock DEF GapInv
<1>6. ASSUME NEW c \in Calls, Abort(c) PROVE GapInv'
  <2>1. /\ pc'[c] = "failed" /\ UNCHANGED <<remain, quiet>>
        /\ \A x \in Calls \ {c} :
             pc'[x] = pc[x] /\ resp'[x] = resp[x] /\ (x \in flight' <=> x \in flight)
    BY <1>0, <1>6 DEF Abort, Goto, TypeOK
  <2>2. CASE pc[c] = "call" /\ LeaveGuard(c)
    <3>1. Steady(c) /\ Waited(c)'
      BY <2>1, <2>2, LeaveGuardSteady DEF Steady, Waited
    <3>2. \A l \in Locks : Recorded(l)'
      BY <2>1, <2>2, LeaveGuardRecords
    <3> QED BY <2>1, <2>2, <3>1, <3>2, OthersWait, LeaveGuardClock DEF GapInv
  <2>3. CASE pc[c] # "call" /\ UNCHANGED <<lock, since>>
    <3>1. Steady(c) /\ Waited(c)'
      BY <2>1, <2>3 DEF Steady, Waited
    <3>2. \A l \in Locks : Recorded(l)'
      BY <2>1, <2>3, RecordedKept DEF Setters
    <3> QED BY <2>1, <2>3, <3>1, <3>2, OthersWait DEF GapInv
  <2> QED BY <1>6, <2>2, <2>3 DEF Abort
<1>7. ASSUME NEW c \in Calls, CancelWaiting(c) PROVE GapInv'
  <2>1. /\ pc[c] \in {"queue", "sleep"} /\ pc'[c] = "failed"
        /\ UNCHANGED <<remain, since, flight, resp, quiet>>
        /\ \A x \in Calls \ {c} : pc'[x] = pc[x]
    BY <1>0, <1>7 DEF CancelWaiting, Goto, TypeOK
  <2>2. Waited(c)'
    BY <2>1 DEF Waited
  <2>3. \A x \in Calls \ {c} : Waited(x)'
    BY <2>1 DEF GapInv, Waited, LockOf
  <2>4. \A l \in Locks : Recorded(l)'
    BY <2>1, RecordedKept DEF Setters
  <2> QED BY <2>2, <2>3, <2>4 DEF GapInv
<1>8. ASSUME NEW c \in Calls, Execute(c) PROVE GapInv'
  <2>1. UNCHANGED <<pc, remain, since>> /\ flight' \subseteq flight /\ c \in flight
    BY <1>8 DEF Execute
  <2>2. \A x \in Calls : Waited(x)'
    BY <2>1 DEF GapInv, Waited, LockOf
  <2>3. CASE quiet' = quiet
    <3>1. \A x \in Setters : pc[x] = "call" /\ resp[x] = "ok" => pc'[x] = "call" /\ resp'[x] = "ok"
      BY <1>0, <1>8 DEF Execute, IInv, CallInv, Setters, TypeOK
    <3>2. \A l \in Locks : Recorded(l)'
      BY <2>1, <2>3, <3>1, RecordedKept
    <3> QED BY <2>2, <3>2 DEF GapInv
  <2>4. CASE quiet' # quiet
    <3>1. c \in Setters /\ pc[c] = "call" /\ resp' = [resp EXCEPT ![c] = "ok"]
          /\ quiet' = [quiet EXCEPT ![Dev[c]] = 0]
      BY <1>8, <2>4 DEF Execute, Setters
    <3>2. resp'[c] = "ok" /\ \A x \in Calls \ {c} : resp'[x] = resp[x]
      BY <1>0, <3>1 DEF TypeOK
    <3>3. ASSUME NEW l \in Locks PROVE Recorded(l)'
      <4>1. CASE l[2] = Dev[c]
        <5>1. LockOf(c) = l
          BY <4>1, OneLock
        <5> QED BY <2>1, <3>1, <3>2, <5>1 DEF Recorded, LockOf
      <4>2. CASE l[2] # Dev[c]
        <5>1. quiet'[l[2]] = quiet[l[2]] /\ since'[l] = since[l]
          BY <1>0, <2>1, <3>1, <4>2 DEF TypeOK, Locks
        <5>2. \A x \in Setters :
                pc[x] = "call" /\ resp[x] = "ok" => pc'[x] = "call" /\ resp'[x] = "ok"
          BY <2>1, <3>2 DEF Setters
        <5> QED BY <5>1, <5>2 DEF GapInv, Recorded, LockOf
      <4> QED BY <4>1, <4>2
    <3> QED BY <2>2, <3>3 DEF GapInv
  <2> QED BY <2>3, <2>4
<1>9. CASE ServerRestart
  <2>1. UNCHANGED <<pc, remain, since, resp, quiet>> /\ flight' = {}
    BY <1>9 DEF ServerRestart
  <2>2. \A x \in Calls : Waited(x)'
    BY <2>1 DEF GapInv, Waited, LockOf
  <2> QED BY <2>1, <2>2, RecordedKept DEF GapInv
<1>10. CASE Tick
  <2>1. UNCHANGED <<pc, flight, resp>>
    BY <1>10 DEF Tick
  <2>2. \A n1, n2 \in 0..Cap : n1 >= n2 => Older(n1) >= Older(n2)
    BY ToolsAssumption DEF Older
  <2>4. ASSUME NEW x \in Calls PROVE Waited(x)'
    <3>1. since'[LockOf(x)] = Older(since[LockOf(x)]) /\ remain'[x] = Younger(remain[x])
      BY <1>10, LockOfType DEF Tick
    <3>2. since[LockOf(x)] \in 0..Cap /\ remain[x] \in 0..Cap /\ IntervalBounds \subseteq 0..Cap
      BY <1>0, LockOfType DEF TypeOK, IntervalBounds
    <3>3. Waited(x)
      BY DEF GapInv
    <3>4. ASSUME NEW m \in IntervalBounds
          PROVE  /\ since[LockOf(x)] >= m => since'[LockOf(x)] >= m
                 /\ since[LockOf(x)] + remain[x] >= m
                      => since'[LockOf(x)] + remain'[x] >= m
      <4>1. m \in 0..Cap
        BY <3>2
      <4> DEFINE n == since[LockOf(x)]
                 r == remain[x]
      <4> n \in 0..Cap /\ r \in 0..Cap
        BY <3>2
      <4> HIDE DEF n, r
      <4>3. (n >= m => Older(n) >= m) /\ (n + r >= m => Older(n) + Younger(r) >= m)
        BY <4>1, ToolsAssumption DEF Older, Younger
      <4>2. /\ since[LockOf(x)] >= m => Older(since[LockOf(x)]) >= m
            /\ since[LockOf(x)] + remain[x] >= m
                 => Older(since[LockOf(x)]) + Younger(remain[x]) >= m
        BY <4>3 DEF n, r
      <4> QED BY <3>1, <4>2
    <3>5. LockOf(x)' = LockOf(x)
      BY DEF LockOf
    <3> QED BY <2>1, <3>3, <3>4, <3>5 DEF Waited
  <2>5. ASSUME NEW l \in Locks PROVE Recorded(l)'
    <3>1. l[2] \in Devices
      BY DEF Locks
    <3>2. since'[l] = Older(since[l]) /\ quiet'[l[2]] = Older(quiet[l[2]])
      BY <1>10, <3>1 DEF Tick
    <3>3. since[l] \in 0..Cap /\ quiet[l[2]] \in 0..Cap
      BY <1>0, <3>1 DEF TypeOK
    <3>4. Recorded(l)
      BY DEF GapInv
    <3> QED BY <2>1, <2>2, <3>2, <3>3, <3>4 DEF Recorded, LockOf
  <2> QED BY <2>4, <2>5 DEF GapInv
<1>11. CASE UNCHANGED vars
  BY <1>11 DEF vars, GapInv, Waited, Recorded, LockOf
<1> QED BY <1>1, <1>2, <1>3, <1>4, <1>5, <1>6, <1>7, <1>8, <1>9, <1>10, <1>11 DEF Next, Client

\* Two awaited writes of one device are the minimum interval apart at the
\* hardware, for any number of concurrent calls of one session, any intervals,
\* refreshes and restarts.  With two sessions this is false.
THEOREM MinimumGap == ASSUME OneSession PROVE Spec => MinGap
<1>1. ASSUME IInv, GapInv, NEW c \in Calls, AwaitedWrite(c), NEW m \in IntervalBounds
      PROVE  quiet[Dev[c]] >= m
  <2>1. c \in Setters /\ pc[c] = "call" /\ c \in flight /\ resp[c] = "none"
    BY <1>1 DEF AwaitedWrite, IInv, CallInv, TypeOK
  <2>2. LockOf(c) \in Locks /\ LockOf(c)[2] = Dev[c]
    BY LockOfType DEF LockOf
  <2>3. since[LockOf(c)] >= m
    BY <1>1, <2>1 DEF GapInv, Waited
  <2>4. \A x \in Setters : LockOf(x) = LockOf(c) /\ pc[x] = "call" => x = c
    BY <1>1, <2>1 DEF IInv, CallInv, Setters
  <2>5. quiet[Dev[c]] >= since[LockOf(c)]
    BY <1>1, <2>1, <2>2, <2>4 DEF GapInv, Recorded
  <2>6. quiet[Dev[c]] \in 0..Cap /\ since[LockOf(c)] \in 0..Cap /\ m \in 0..Cap
    BY <1>1, <2>2, ToolsAssumption DEF IInv, TypeOK, IntervalBounds
  <2> QED BY <2>3, <2>5, <2>6
<1>2. IInv /\ GapInv /\ [Next]_vars =>
        [\A c \in Calls : AwaitedWrite(c) => \A m \in IntervalBounds : quiet[Dev[c]] >= m]_vars
  BY <1>1
<1>3. GapInv /\ IInv /\ [Next]_vars => GapInv'
  BY GapStep
<1> QED BY <1>2, <1>3, InitGap, Invariance, PTL DEF Spec, MinGap
=============================================================================
