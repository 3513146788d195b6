----------------------------- MODULE AgentTools -----------------------------
(***************************************************************************)
(* The agent's tool layer: RpiIOMCPTools with its OutputRateLimiter, one    *)
(* instance per session, and the MCP requests it sends.  Tool calls of one  *)
(* session run concurrently on one event loop, so each handler below is a   *)
(* piece of code between two awaits.  Time is counted from events, not on a *)
(* clock: counters of elapsed ticks saturate at Cap, beyond which no guard  *)
(* can tell them apart.                                                     *)
(***************************************************************************)
EXTENDS Integers, Sequences

CONSTANTS Sessions,     \* instances of RpiIOMCPTools
          Calls,        \* tool calls the model makes
          Devices,      \* device ids
          Sess,         \* [Calls -> Sessions]
          Kind,         \* [Calls -> {"set", "query"}]: a query is list_devices or read_input
          Dev,          \* [Calls -> Devices], the device a set or a read names
          K,            \* number of configurations the server may run with
          Served,       \* [1..K -> [devs, interval]]: what list_devices answers
          Cap,          \* bound on every interval
          MaxRestarts,  \* bound on restarts of the server
          Free          \* the lock is not held

ASSUME ToolsAssumption ==
    /\ Sess \in [Calls -> Sessions]
    /\ Kind \in [Calls -> {"set", "query"}]
    /\ Dev \in [Calls -> Devices]
    /\ K \in Nat \ {0}
    /\ Cap \in Nat
    /\ Served \in [1..K -> [devs : SUBSET Devices, interval : 0..Cap]]
    /\ MaxRestarts \in Nat
    /\ Free \notin Calls

VARIABLES
    pc,       \* where each call is
    lock,     \* who holds each per-device asyncio.Lock
    waiters,  \* its waiters, first come first served
    remain,   \* ticks a sleeping call still has to sleep
    since,    \* ticks since _last_call of each device
    cache,    \* the configuration last listed, 0: _known_device_ids and _rate_limiter are None
    flight,   \* calls whose request the server has not executed yet
    resp,     \* the answer to the request a call awaits
    got,      \* the configuration a list answer carries
    cfg,      \* the configuration the server runs with
    restarts, \* restarts of the server so far
    quiet     \* ticks since the last write of each device that its caller awaited

vars == <<pc, lock, waiters, remain, since, cache, flight, resp, got, cfg, restarts, quiet>>

Locks == Sessions \X Devices
LockOf(c) == <<Sess[c], Dev[c]>>
Setters == {c \in Calls : Kind[c] = "set"}

PCs == {"idle", "lazy", "list", "queue", "sleep", "call", "done", "failed"}
Awaiting(c) == pc[c] \in {"lazy", "list", "call"}

TypeOK ==
    /\ pc \in [Calls -> PCs]
    /\ lock \in [Locks -> Calls \union {Free}]
    /\ waiters \in [Locks -> Seq(Calls)]
    /\ remain \in [Calls -> 0..Cap]
    /\ since \in [Locks -> 0..Cap]
    /\ cache \in [Sessions -> 0..K]
    /\ flight \subseteq Calls
    /\ resp \in [Calls -> {"none", "ok", "error"}]
    /\ got \in [Calls -> 0..K]
    /\ cfg \in 1..K
    /\ restarts \in 0..MaxRestarts
    /\ quiet \in [Devices -> 0..Cap]

\* _last_call defaults to 0.0, so the first call measures from the boot of
\* the machine, which may be younger than the interval.
Init ==
    /\ pc = [c \in Calls |-> "idle"]
    /\ lock = [l \in Locks |-> Free]
    /\ waiters = [l \in Locks |-> <<>>]
    /\ remain = [c \in Calls |-> 0]
    /\ \E uptime \in 0..Cap : since = [l \in Locks |-> uptime]
    /\ cache = [s \in Sessions |-> 0]
    /\ flight = {}
    /\ resp = [c \in Calls |-> "none"]
    /\ got = [c \in Calls |-> 0]
    /\ cfg \in 1..K
    /\ restarts = 0
    /\ quiet = [d \in Devices |-> Cap]

-----------------------------------------------------------------------------
(* Pieces of the handlers.  Each says what becomes of pc, lock, waiters,    *)
(* remain and flight.                                                       *)

Goto(c, where) == pc' = [pc EXCEPT ![c] = where]

\* Post a request and await its answer at "where".
Request(c, where) == Goto(c, where) /\ flight' = flight \union {c}

\* Mutants: the sleep is skipped for the last tick; the sign of the wait is not tested.
StartCallEarly(c, k) ==
    LET wait == Served[k].interval - since[LockOf(c)]
    IN  \/ /\ wait > 1
           /\ Goto(c, "sleep")
           /\ remain' = [remain EXCEPT ![c] = wait]
           /\ UNCHANGED flight
        \/ wait <= 1 /\ Request(c, "call") /\ UNCHANGED remain

StartCallUnsigned(c, k) ==
    /\ Goto(c, "sleep")
    /\ remain' = [remain EXCEPT ![c] = Served[k].interval - since[LockOf(c)]]
    /\ UNCHANGED flight

\* In guard(), lock held: sleep for what is left of the interval, or call at once.
StartCall(c, k) ==
    LET wait == Served[k].interval - since[LockOf(c)]
    IN  \/ /\ wait > 0
           /\ Goto(c, "sleep")
           /\ remain' = [remain EXCEPT ![c] = wait]
           /\ UNCHANGED flight
        \/ wait <= 0 /\ Request(c, "call") /\ UNCHANGED remain

\* Mutant: every call gets a lock of its own.
EnterGuardOwnLock(c, k) ==
    /\ lock' = [lock EXCEPT ![LockOf(c)] = c]
    /\ StartCall(c, k)
    /\ UNCHANGED waiters

\* Acquiring the lock suspends only when it is held or others wait for it.
EnterGuard(c, k) ==
    LET l == LockOf(c)
    IN  \/ /\ lock[l] = Free /\ waiters[l] = <<>>
           /\ lock' = [lock EXCEPT ![l] = c]
           /\ StartCall(c, k)
           /\ UNCHANGED waiters
        \/ /\ lock[l] # Free \/ waiters[l] # <<>>
           /\ waiters' = [waiters EXCEPT ![l] = Append(@, c)]
           /\ Goto(c, "queue")
           /\ UNCHANGED <<lock, remain, flight>>

\* After _require_known_device has a list: refuse, read, or enter the guard.
Proceed(c, k) ==
    \/ /\ Dev[c] \notin Served[k].devs
       /\ Goto(c, "failed")
       /\ UNCHANGED <<lock, waiters, remain, flight>>
    \/ /\ Dev[c] \in Served[k].devs
       /\ Kind[c] = "query"
       /\ Request(c, "call")
       /\ UNCHANGED <<lock, waiters, remain>>
    \/ /\ Dev[c] \in Served[k].devs
       /\ Kind[c] = "set"
       /\ EnterGuard(c, k)

\* Leaving guard() while the request was being awaited: the call time is
\* recorded and the lock released, whatever the outcome.
LeaveGuard(c) ==
    \/ /\ Kind[c] = "set"
       /\ lock' = [lock EXCEPT ![LockOf(c)] = Free]
       /\ since' = [since EXCEPT ![LockOf(c)] = 0]
    \/ Kind[c] # "set" /\ UNCHANGED <<lock, since>>

Without(q, j) == [n \in 1..(Len(q) - 1) |-> IF n < j THEN q[n] ELSE q[n + 1]]

-----------------------------------------------------------------------------
(* The client.                                                             *)

Invoke(c) ==
    /\ pc[c] = "idle"
    /\ \/ /\ Kind[c] = "query"
          /\ Request(c, "list")
          /\ UNCHANGED <<lock, waiters, remain>>
       \/ /\ cache[Sess[c]] = 0
          /\ Request(c, "lazy")
          /\ UNCHANGED <<lock, waiters, remain>>
       \/ /\ cache[Sess[c]] # 0
          /\ Proceed(c, cache[Sess[c]])
    /\ UNCHANGED <<since, cache, resp, got, cfg, restarts, quiet>>

\* Mutants: a refresh builds a new limiter; a lazy listing is not cached.
ListReturnsNewLimiter(c) ==
    /\ pc[c] \in {"lazy", "list"}
    /\ resp[c] = "ok"
    /\ resp' = [resp EXCEPT ![c] = "none"]
    /\ cache' = [cache EXCEPT ![Sess[c]] = got[c]]
    /\ \/ /\ pc[c] = "list"
          /\ Goto(c, "done")
          /\ lock' = [l \in Locks |-> IF l[1] = Sess[c] THEN Free ELSE lock[l]]
          /\ UNCHANGED <<waiters, remain, flight>>
       \/ pc[c] = "lazy" /\ Proceed(c, got[c])
    /\ UNCHANGED <<since, got, cfg, restarts, quiet>>

ListReturnsUncached(c) ==
    /\ pc[c] \in {"lazy", "list"}
    /\ resp[c] = "ok"
    /\ resp' = [resp EXCEPT ![c] = "none"]
    /\ \/ /\ pc[c] = "list"
          /\ Goto(c, "done")
          /\ cache' = [cache EXCEPT ![Sess[c]] = got[c]]
          /\ UNCHANGED <<lock, waiters, remain, flight>>
       \/ pc[c] = "lazy" /\ Proceed(c, got[c]) /\ UNCHANGED cache
    /\ UNCHANGED <<since, got, cfg, restarts, quiet>>

\* list_devices(): the known ids and the interval are replaced, the limiter
\* with its locks and call times is kept; a lazy listing goes on to its call.
ListReturns(c) ==
    /\ pc[c] \in {"lazy", "list"}
    /\ resp[c] = "ok"
    /\ resp' = [resp EXCEPT ![c] = "none"]
    /\ cache' = [cache EXCEPT ![Sess[c]] = got[c]]
    /\ \/ /\ pc[c] = "list"
          /\ Goto(c, "done")
          /\ UNCHANGED <<lock, waiters, remain, flight>>
       \/ pc[c] = "lazy" /\ Proceed(c, got[c])
    /\ UNCHANGED <<since, got, cfg, restarts, quiet>>

\* The lock was released and this call is the first waiter.
Acquire(c) ==
    /\ pc[c] = "queue"
    /\ LET l == LockOf(c)
       IN  /\ lock[l] = Free
           /\ waiters[l] # <<>>
           /\ Head(waiters[l]) = c
           /\ lock' = [lock EXCEPT ![l] = c]
           /\ waiters' = [waiters EXCEPT ![l] = Tail(@)]
    /\ StartCall(c, cache[Sess[c]])
    /\ UNCHANGED <<since, cache, resp, got, cfg, restarts, quiet>>

Wake(c) ==
    /\ pc[c] = "sleep"
    /\ remain[c] = 0
    /\ Request(c, "call")
    /\ UNCHANGED <<lock, waiters, remain, since, cache, resp, got, cfg, restarts, quiet>>

\* An ok=False answer is raised as MCPToolError after guard() was left.
CallReturns(c) ==
    /\ pc[c] = "call"
    /\ resp[c] # "none"
    /\ Goto(c, IF resp[c] = "ok" THEN "done" ELSE "failed")
    /\ resp' = [resp EXCEPT ![c] = "none"]
    /\ LeaveGuard(c)
    /\ UNCHANGED <<waiters, remain, cache, flight, got, cfg, restarts, quiet>>

\* Mutant: the lock is released only when an answer came.
AbortKeepsLock(c) ==
    /\ Awaiting(c)
    /\ Goto(c, "failed")
    /\ resp' = [resp EXCEPT ![c] = "none"]
    /\ flight' = flight \ {c}
    /\ UNCHANGED <<lock, waiters, remain, since, cache, got, cfg, restarts, quiet>>

\* The await ends in an exception: a transport error, a timeout, or the task
\* is cancelled.  A request already posted may still be executed later.
Abort(c) ==
    /\ Awaiting(c)
    /\ Goto(c, "failed")
    /\ resp' = [resp EXCEPT ![c] = "none"]
    /\ \/ flight' = flight \ {c}
       \/ pc[c] = "call" /\ UNCHANGED flight
    /\ \/ pc[c] = "call" /\ LeaveGuard(c)
       \/ pc[c] # "call" /\ UNCHANGED <<lock, since>>
    /\ UNCHANGED <<waiters, remain, cache, got, cfg, restarts, quiet>>

\* Cancelled while it waits for the lock or sleeps: no call time is recorded.
CancelWaiting(c) ==
    /\ \/ /\ pc[c] = "queue"
          /\ \E j \in 1..Len(waiters[LockOf(c)]) :
               /\ waiters[LockOf(c)][j] = c
               /\ waiters' = [waiters EXCEPT ![LockOf(c)] = Without(@, j)]
          /\ UNCHANGED lock
       \/ /\ pc[c] = "sleep"
          /\ lock' = [lock EXCEPT ![LockOf(c)] = Free]
          /\ UNCHANGED waiters
    /\ Goto(c, "failed")
    /\ UNCHANGED <<remain, since, cache, flight, resp, got, cfg, restarts, quiet>>

-----------------------------------------------------------------------------
(* The server and time.                                                    *)

\* The tool function runs.  A listing answers the current configuration; a
\* write of a device it does not have, or one that fails, is answered "error".
Execute(c) ==
    /\ c \in flight
    /\ flight' = flight \ {c}
    /\ \/ /\ pc[c] \in {"lazy", "list"}
          /\ resp' = [resp EXCEPT ![c] = "ok"]
          /\ got' = [got EXCEPT ![c] = cfg]
          /\ UNCHANGED quiet
       \/ /\ pc[c] = "call"
          /\ \/ /\ Dev[c] \in Served[cfg].devs
                /\ resp' = [resp EXCEPT ![c] = "ok"]
                /\ quiet' = IF Kind[c] = "set" THEN [quiet EXCEPT ![Dev[c]] = 0] ELSE quiet
             \/ resp' = [resp EXCEPT ![c] = "error"] /\ UNCHANGED quiet
          /\ UNCHANGED got
       \/ ~Awaiting(c) /\ UNCHANGED <<resp, got, quiet>>
    /\ UNCHANGED <<pc, lock, waiters, remain, since, cache, cfg, restarts>>

\* The server restarts, perhaps with another configuration; requests are lost.
ServerRestart ==
    /\ restarts < MaxRestarts
    /\ restarts' = restarts + 1
    /\ cfg' \in 1..K
    /\ flight' = {}
    /\ UNCHANGED <<pc, lock, waiters, remain, since, cache, resp, got, quiet>>

Older(n) == IF n < Cap THEN n + 1 ELSE n
Younger(n) == IF n > 0 THEN n - 1 ELSE 0

Tick ==
    /\ since' = [l \in Locks |-> Older(since[l])]
    /\ quiet' = [d \in Devices |-> Older(quiet[d])]
    /\ remain' = [c \in Calls |-> Younger(remain[c])]
    /\ UNCHANGED <<pc, lock, waiters, cache, flight, resp, got, cfg, restarts>>

Client(c) ==
    \/ Invoke(c) \/ ListReturns(c) \/ Acquire(c) \/ Wake(c)
    \/ CallReturns(c) \/ Abort(c) \/ CancelWaiting(c)

Next == (\E c \in Calls : Client(c) \/ Execute(c)) \/ ServerRestart \/ Tick

Spec == Init /\ [][Next]_vars

\* The event loop runs every ready task, the server answers, time passes, and
\* a request that was lost ends in an exception (the client's timeout).
Fairness ==
    /\ WF_vars(Tick)
    /\ \A c \in Calls :
         /\ WF_vars(ListReturns(c)) /\ WF_vars(Acquire(c)) /\ WF_vars(Wake(c))
         /\ WF_vars(CallReturns(c)) /\ WF_vars(Execute(c))
         /\ WF_vars(c \notin flight /\ resp[c] = "none" /\ Abort(c))

FairSpec == Spec /\ Fairness

-----------------------------------------------------------------------------
(* Properties.                                                             *)

\* "The agent cannot interleave a flap": within a session at most one
\* set_output per device is past the lock, whether it sleeps or is awaited.
Serialized ==
    \A c1, c2 \in Setters :
        /\ pc[c1] \in {"sleep", "call"} /\ pc[c2] \in {"sleep", "call"}
        /\ LockOf(c1) = LockOf(c2)
        => c1 = c2

\* The assertion in set_output: whoever reaches the guard has a rate limiter.
LimiterReady ==
    \A c \in Setters : pc[c] \in {"queue", "sleep", "call"} => cache[Sess[c]] # 0

\* What every configuration publishes at least.
IntervalBounds == {m \in 0..Cap : \A k \in 1..K : m <= Served[k].interval}

\* The request of c is executed as a write whose caller awaits it.
AwaitedWrite(c) ==
    c \in Setters /\ pc[c] = "call" /\ c \in flight /\ c \notin flight' /\ resp'[c] = "ok"

\* Two writes of one device that their callers awaited are at least the
\* minimum interval apart at the hardware, over failures, cancellations,
\* refreshes of the interval and restarts of the server.
MinGap ==
    [][\A c \in Calls : AwaitedWrite(c) => \A m \in IntervalBounds : quiet[Dev[c]] >= m]_vars

\* Every call of a tool ends: no lock is left held, no waiter is forgotten.
CallsFinish ==
    \A c \in Calls : pc[c] # "idle" ~> pc[c] \in {"done", "failed"}
=============================================================================
