# TLA+ verification of perseus-smarthome

`perseus-smarthome` runs two services on a Raspberry Pi. `rpi-io-mcp` drives GPIO
pins and offers them as MCP tools; `rpi-io-agent` lets an operator chat with a
language model that calls those tools. This directory models both, the chat page
between operator and agent, the scripts that install them, the two tools an operator runs
beside them, and the workflow that merges changes of the code: TLA+ modules translated
from the source, TLC runs over small instances, and proofs that TLAPS checks.

`PROJECT.json` maps each definition to the lines it models, and lists the runs,
the mutants that show each property can fail, the hazards and the theorems.

    tlc -workers 2 -config SmokeMeter_main.cfg MCSmokeMeter.tla
    tlapm GpioService_proofs.tla

Paths of source files below are relative to `src/perseus_smarthome/` unless they
start with another directory of the repository.

## 1. The system

| Component | State it keeps | Operations |
|---|---|---|
| GPIO service (`server.py`, `service.py`) | position in `main()`, the name `service` | start, `_init_pins`, `set_output`, `read_input`, `close`, SIGTERM |
| GPIO adapter (`gpio.py`) | `_outputs`, `_inputs`; the physical lines | set up, write, read, close a pin |
| Registry and configuration (`devices.py`, `config.py`) | `Device.state` | `load_config`, `build_registry`, lookups |
| Tool layer (`agent/mcp_tools.py`, `agent/rate_limit.py`) | `_known_device_ids`, `_rate_limiter`; per device a lock and `_last_call` | `list_devices`, `set_output`, `read_input`, `guard` |
| Agent factory (`agent/factory.py`) | none between calls | an agent per connection, an MCP session per request |
| Chat service (`agent/chat_service.py`, `agent/__main__.py`) | `_current_ws`; per handler `prior`, the agent and the turn | take over, read a frame, run a turn, `finally`, SIGTERM |
| Chat page (`agent/static/index.html`) | `ws`, the form, `pendingToolCalls` | connect, close and reconnect, submit, pair frames |
| systemd units (`deploy/systemd`) | whether a unit runs, and how it ended | start, restart on failure, stop, kill |
| Installers (`scripts/*.sh`), Debian scripts (`packaging/debian`) | files, keys, users, units | install, upgrade, uninstall, purge |
| Host discovery (`tools/find_raspberry.py`) | candidates; `.env` of the operator's checkout | resolve, probe, report, rewrite `.env` |
| Bench test (`tools/smoke_meter.py`) | none; the output under test | drive low and high, reset |
| Auto-merge workflow (`.github/workflows/auto-merge.yml`) | the running and the waiting run of a group | gates, merge |

How they interact. The page sends `user_turn` frames over a WebSocket; its handler
in the chat service runs a turn of the agent's graph and streams frames back. The
graph calls the functions of one `RpiIOMCPTools`, several at once when the model
asks for several. Each opens an MCP session to `rpi-io-mcp`, whose tool functions
are synchronous and so run one after the other. systemd starts both and restarts
either one after a failure; neither persists anything, so a restart begins with
nothing but the physical lines as they were left. `smoke_meter.py` is another client of
`rpi-io-mcp`. `find_raspberry.py` writes the host it found into the `.env` that
`remote-install.sh` reads with a parser of its own, and from which it copies the keys
to the `agent.env` that systemd hands to the agent.

What is hard, per component, and the property that says it is right:

- **GPIO service.** A signal raises `SystemExit` between any two steps; a device that
  fails in `_init_pins` leaves others set up; `off()` and `close()` share a `try`; a
  killed process leaves lines driven. *CleanExit*, *CrashRecovered*, *LinesImplemented*.
  The registry is a cache of the lines, and nothing in the configuration check stops
  two devices from naming one pin: *StateMatchesLine*, *DistinctPins*.
- **Tool layer.** Several writers of one device reach the guard before any of them
  recorded a call time; a refresh of the device list may replace the interval, and must
  not replace the locks; requests fail, are cancelled, or are executed after their
  caller gave up. *Serialized*, *LimiterReady*, *MinGap*, *CallsFinish*.
- **Chat service.** `prior` is read under a lock and used over two awaits after it; the
  `finally` clause of a displaced handler runs at any time; a turn may hang.
  *NewestOwns*, *Displaced*, *ToldLost*, *TakeoverServes*, *DisplacedEnds*; and every
  path of a turn must send `agent_done`, or at least end the connection, so that the page
  does not wait for ever: *Answered*, *TurnAnswered*.
- **The agent as a whole.** Locks belong to a connection; a displaced session has tools
  running. *SessionSerialized*, *DisplacedToolsEnd*, *DeviceSerialized*.
- **Page.** It reconnects after every close: *Settles*. It pairs results with calls by
  name and order, and keeps the queues over errors and reconnections:
  *PairedUnlessMuddled*, *ResultsShownOnce*, *NothingPending*, *FormComesBack*.
- **Installers.** Two ways to install write one directory and the same units; each step may
  fail, and a unit that crashes meanwhile starts from the files and keys it finds. *InstallConverges*,
  *UpgradeComplete*, *UninstallStops*, *KeysReachAgent*, *FirstConfigurationServes*, *UpgradeKeepsRunning*.
- **Bench test.** A Ctrl+C at a prompt, which blocks the event loop, cancels the call after it; a call that
  was given up may be executed after the reset. *LeftLow*.
- **Host discovery.** Probes run in parallel; the file is read before the scan and written after
  it; two parsers read it; networks overlap and the cap is looked at late. *OrderIrrelevant*,
  *OthersKept*, *ReadersAgree*, *ScansLowest*.
- **Auto-merge.** Gates are read one after the other while the pull request changes; runs started by hand are in a
  group of their own; a run that waits gives way to a newer one. *GateHeld*, *EligibleMerges*.

## 2. Modules

| Module | Models | Composes or implements |
|---|---|---|
| `OutputLines` | the promise about physical lines, without a process | abstract specification |
| `GpioService` | `rpi-io-mcp`: process, service, registry, adapter | implements `OutputLines` |
| `AgentTools` | tool layers, their requests, the MCP server as their peer | |
| `ChatService` | connections, takeover, turns, the agent process | |
| `ChatAgent` | the agent process | `ChatService`, `AgentTools` |
| `ChatPages` | browser windows that reconnect | `ChatService` |
| `ToolFrames` | the form, the frames of a turn, the queues of pending calls | |
| `SmokeMeter` | the bench test | `GpioService` |
| `Deployment` | the host: files, keys, units, dpkg, `install.sh`, `remote-install.sh`, maintainer scripts | |
| `FindRaspberry` | host discovery and the two readers of `.env` | |
| `AutoMerge` | one pull request, the runs of the workflow, and who changes it | |
| `*_proofs` | theorems about the module of that name (those of `SmokeMeter` are in `GpioService_proofs`, those of `ChatPages` in `ChatAgent_proofs`) | |
| `MC*` | constants of the TLC runs | |

### GpioService and OutputLines

`pc` is the place in `main()`: `load`, `init` (the loop of `_init_pins`), `serve`
(`mcp.run()`), `zero` and `release` (the loops of `GPIOService.close` and
`GPIOZeroAdapter.close`). A loop over devices is a step per device, because a signal
or a crash may fall between two. A tool call is one step: the tool functions do not
await. `outs` and `ins` are the adapter's dictionaries, `level` the physical lines,
`state` the registry. `bad` is the pins whose last access raised (a history variable
of the properties); `conf` is the version of the file read last, because an operator
may edit it between two starts. A hardware error may or may not have moved the line.
`SigtermServing` runs `service.close()`; `SigtermElsewhere` does not, because `service` is
not bound yet, or the exception leaves `close()` itself.
That a pin cannot be reserved twice is gpiozero's doing (`PinFree`, external).

`OutputLines` is the contract a client may rely on: the service comes up only when each
output is at its safe default; a line gets a level that is neither its safe default nor
low only by a command while the service is up; everything else lets lines settle.
`Lines` in `GpioService` maps `up` to `pc = "serve"`, `line` to `level` and `safe` to the
safe defaults of the configured pins.

### AgentTools

One step per piece of a coroutine between two awaits: `Invoke` up to the first await,
`ListReturns`, `Acquire` (woken by the lock), `Wake` (the sleep is over), `CallReturns`;
`Abort` and `CancelWaiting` for exceptions at those awaits. `Execute` is the server's side, so
a request may be executed after its caller gave up. A call of kind `query` is
`list_devices` or `read_input`. Time is not a clock: `since`, `remain` and `quiet` count ticks
since an event or up to one and saturate at `Cap`, the largest interval, beyond which no
guard can tell two values apart; the state space is finite without a horizon.
`cache` is the configuration last listed, for `_known_device_ids` and `_rate_limiter` together;
the limiter is kept over refreshes and only its intervals change, so locks and times
belong to the session. `quiet` is a history variable: time since the last write of a
device that its caller awaited, at the hardware.

### ChatService

A handler moves through `evict` (send `session_superseded`), `close` and `wait`
(`prior.close()` and its handshake), `start` (the agent factory), `loop` (read a
frame), `turn`, `done` (send `agent_done`) and `leave` (`finally`). The swap of `_current_ws` is
one step: nothing awaits inside its lock. Slots are used again once nobody refers to
the old connection. Frames are a turn (`turn`), one whose content is no text (`odd`), one
that is no JSON object, or anything else. A turn ends in one of three ways: `TurnStops` (the
stream ended or raised; `agent_done` is next), `TurnUnconfigured`, and `TurnRejected`, where
`HumanMessage` refuses the content before the stream's `try`: the handler leaves with `agent_error`
and without `agent_done`. `owed` is the frame whose `agent_done` is still to come.
`keyed` says whether the environment has a provider key, which decides what
`create_agent` returns. `told`, `owed` and `newest` are history variables of the properties.

### ChatAgent, ChatPages, ToolFrames

`ChatAgent` adds `stream`, the task of a turn: `EndTurn` when the graph ended after its tools,
`DropTurn` when an exception leaves the `async for`, after which the task lives until the
event loop closes the generator (`CancelStream`). Tools run only in a task that runs.
In this module and in `ChatPages` the peer sends turns with text only, as the page does.
`ChatPages` adds windows: `Connect`, `CloseEvent` with its timer, `Submit`, dropped networks.
`ToolFrames` looks at a page with one handler in more detail: calls of a turn start and
end in any order, frames travel first in first out, and `pairs` is what the page shows.

### Deployment

`dir`, `src` and `venv` are `/opt/raspberry-smarthome`, the release of its sources and the one its `.venv`
was built from; `Mixed` is what an interrupted rsync, uv or `rm -rf` leaves. `running` says for each unit which
release its process loaded, or that it waits for its restart (`Waiting`, during which `systemctl is-active` says
no). Starting the agent starts the MCP server (`Wants=`). `op` is the command that runs and its next step
(`op.at`), or `done` or `failed`; `op.was` is the units that were active when it began. One command runs at a time.
`UnitFails`, `UnitRestarts` and `Reboot` fall between any two steps, and `Fails` ends a command at any step. `install` and
`upgrade` share the steps from `EnsureServiceUser` to `CopyUnits`, which their code repeats; they differ in the check before
and the start after. `remote-install.sh` is `Push`, the two steps that write `agent.env` if the checkout has keys, then
`install.sh` from the directory itself. `env` is the keys in that file, `Mixed` while it is empty, and `loaded` the keys that
the agent's process read when it started.
dpkg is external: the order of the maintainer scripts, `$2` (`pkg.configured`), and which files it unpacks and
deletes. A removal deletes the payload but the conffile, so the directory stays and the status is `rc`.

### SmokeMeter, FindRaspberry, AutoMerge

`SmokeMeter` extends `GpioService` with one client. `at` and `call` are its place, a prompt before a call or the
wait for its answer; `wire` holds requests the server has not executed, those of a call given up among them.
`session`, `cut` and `foreign` are the history its property needs: a server that went away, a call given
up, another client's write.

`FindRaspberry` is a run of `main()` from the file to the file. An address is a number and a line of the file has
a key, one of four forms and a value: each parser recognises its own forms. The parsers, the
rewriting, the enumeration of addresses and the order of the report are operators. `Scannable` is the addresses that
`is_scan_candidate_ip` lets pass, `Options` what `--hostname` may name. Probes end in any order.
`Truncate` and `WriteText` are two steps because `write_text` is two to anyone who reads the file or interrupts it. The
operator may save the file at any time: between the two steps the writers mix (`Overwritten`).

`AutoMerge` sees a gate as blocking or not. `at[g]` is where the run of a concurrency group is and
`waiting[g]` the one that waits. `late[g]` is the gates that began to block after that run had read them, and
`told` says that an event which starts a run came after the last change that lifted a block. CI may be started again
for the same commit (`CiAgain`), which blocks without an event.

## 3. Runs

| Run | Instance | Shows |
|---|---|---|
| `gpio_main` | 3 devices, 3 versions of the file, 2 faults, the bench test and other clients | reported state matches lines; orderly exits release; `OutputLines` is implemented; a failed unit comes back with safe outputs; the bench test leaves its output low |
| `gpio_sigterm` | as above, no faults | **violated**: teardown on SIGTERM during start |
| `tools_main` | 1 session, 2 writers, 1 query, intervals 2 and 3, 1 restart | writes of a session serialized and spaced; every call ends |
| `chat_main` | 2 slots, all four kinds of frames, with and without a key | most recent wins; losers cut off; takeover served; turns answered |
| `agent_main` | 2 connections, 2 writers in the first, 1 restart | writes of a session never overlap; tools of a displaced session end |
| `agent_serial` | 2 connections, 1 writer each | **violated**: writes of a device are serialized |
| `pages_one` | 1 window, 3 slots, 2 turns, 2 faults | one window keeps the session in the end |
| `frames_main` | 3 calls (2 of one tool), 2 turns, 1 drop | pairing is right unless calls of one name overlapped or one was cut off; the form comes back |
| `deploy_main` | 2 releases, 1 set of keys, any number of commands | an install converges, an upgrade leaves nothing old running and the new keys in use, an uninstall nothing at all |
| `deploy_upgrade` | the same without keys | **violated**: an upgrade of the package keeps running what ran |
| `find_main` | 3 machines, 3 networks, cap 3, 2 files, 1 edit at any time | what is probed, reported and written; what both readers find afterwards |
| `automerge_main` | 2 groups, 5 changes | what a merge may have missed; an eligible pull request is merged |

Bounds and why they are enough.

- `gpio_main`: two outputs (safe default 0 and 1) and an input are the least that a partial
  initialisation, a shared pin and both kinds of device need. `K = 3` gives a sound file, one with
  a pin named twice and one that setup rejects. Two faults reach an error while setting up or
  writing together with one while closing, in one or two runs of the process. The bench test runs once, at any time,
  beside any number of other calls.
- `tools_main`: two writers are enough for a queue, and a query in the middle of them for a refresh;
  intervals 2 and 3 let a restart make the interval longer or shorter while a call sleeps.
  `Cap = 3` is the larger interval.
- `chat_main`: with slots used again, two are enough for a chain of takeovers, and for a connection
  that finds a predecessor's handler still running. `MaxInbox = 1` buffers the frame
  that is read after the close. No symmetry is used, because the run checks liveness. With two slots no third connection
  arrives while one evicts another; *LosersCutOff* and *TakeoversOrdered* of section 4 cover any number of them.
  This is the run that takes longest (326,000 states, more than three minutes), nearly all of it for the liveness.
- `agent_*`: slots are used once and for one turn, which covers one takeover with tools of
  both sessions. `agent_main` has two writers of one lock, so that one waits for the other when the
  session is displaced, and interval 0, because sleeping is covered by `tools_main`; it
  has the restart of the server that loses a request. `agent_serial` has a writer in each session.
- `pages_one` has a third slot so that the window can reconnect while two handlers it gave up still run turns.
- `frames_main`: two calls of one tool and one of another tell pairing by name from pairing by order.
- `deploy_main`: two releases tell old files from new, and one set of keys tells a file with keys from an empty and a missing
  one. Nothing else is bounded: the number of commands, failures, crashes and reboots is not, and the run visits every
  reachable state up to the symmetry of the releases, which is sound because the run checks no liveness.
- `find_main`: a network inside another and one beside them, an address that is no candidate, and a cap below the number of
  those that are; three machines are enough for orders that differ, with a likely and an unlikely name; the two files have a
  key twice and in every form, and lack one. The networks are forgotten when the first probe has ended, because they are of no
  further use. Names are given by the defaults, by `--hostname` and by the file.
- `automerge_main`: five changes are enough to make a pull request eligible, fill both places of a group and change it
  again behind a run's back. The five gates and the two groups are all there are.

`CHECK_DEADLOCK FALSE` stands in the configurations of `ChatAgent`, `ToolFrames`, `ChatPages` and
`AutoMerge`, whose counters of calls, turns, faults and changes are bounded, so the modelled scenario is
over when they are used up (or the pull request merged). The others check for deadlock.

Fairness and why the code justifies it.

- `GpioService`: `main()` and its loops run when they can; systemd starts a failed or killed unit
  again (`Restart=on-failure`). None for clients, signals, faults or starts by hand.
- `AgentTools`: asyncio runs every ready task and wakes lock waiters in order; time passes; the server
  executes a request it has; a request it lost ends in the client's timeout. No fairness
  on cancellation or on the model's calls.
- `ChatService`: asyncio runs every ready handler; a closing handshake ends with the peer's answer or
  `close_timeout`. Nothing is assumed of the model: *TakeoverServes* holds with turns that hang for
  ever. *TurnAnswered* and *DisplacedEnds* are conditional on `TurnsEnd`, that each stream ends.
  *TurnAnswered* follows a turn to the end of its handler: it counts as answered by `agent_done`, or when the connection was
  lost before the turn was over, but not when the server ends the connection instead. Only content that is no text may
  end that way.
- `ChatAgent`: the same, with fairness per connection and per call as a whole, which is enough because
  each takes finitely many steps. The graph's turn ends when its tools have.
- `ChatPages`: timers and event handlers of an open window run; turns end.
- `ToolFrames`: frames on the wire arrive and are handled; the handler goes on.
- `AutoMerge`: a run that has started goes on; it may fail at any step. Nobody has to change anything, CI need not end.
- `SmokeMeter` adds none to `GpioService`; `Deployment` and `FindRaspberry` have safety only.

### What the violated properties say

1. `gpio_sigterm`. `server.py:75-78` says that a SIGTERM during start releases the adapter.
   `service` is bound after `GPIOService()` returns, so a signal inside `_init_pins` finds `None` in
   the `finally` clause and neither `close()` runs.
2. `agent_serial`. The design says writes of a device are serialized by a lock. `create_agent` builds
   the locks anew for each connection, so two sessions overlap at a takeover.
3. `deploy_upgrade`. `postinst:28-29` restarts "only if already running". `prerm` has stopped both units by then, so
   after an upgrade both stay stopped until somebody starts them or the host boots.

More disagreements are in the models but have no violated run of their own: `_run_turn` says that it "Always appends"
`agent_done` (`chat_service.py:268`), which it does not for content that is no text (lines 278-280, outside the `try` of the stream):
the handler sends `agent_error` and ends the connection (the last line of *TurnAnswered* is this exception; the page itself sends
text only); a session that was displaced still starts the turns of frames it
received before it was closed (`chat_service.py:206`); `install` run again leaves an active unit on the old release, because
`enable --now` does not restart it (the requirements' "half-upgraded state"); `remote-install.sh` replaces the files of
an installed package before `install.sh` refuses, and `upgrade` and `uninstall` do not ask dpkg; a package in state `rc` cannot be
installed again, although `preinst:4-8` speaks of that state; `prerm` does not stop an agent that waits for
its restart; `Device.state` starts at 0 whatever
`safe_default` is, so `list_devices` misreports an output whose safe default is 1 until its
first write (*StateMatchesLine* leaves such outputs out); and `GPIOService.close`, whose docstring says
"Reset outputs to safe defaults", writes 0 (so `OutputLines` counts low as harmless).
The shipped configuration has no such output.

- Page. The design says a second operator displaces the first (`llm-agent/design.md:224-240`), but the page of the first
  reconnects two seconds later (`static/index.html:223`) and displaces the second, and so on: with two windows the
  session goes back and forth. `static/index.html:165-167` says that results are paired with the right call also when a tool
  is called twice; the calls run concurrently and their results carry no id (*PairedUnlessMuddled* says when they are right).
- Bench test. `smoke_meter.py:109-113` says that an interruption at any point drives the output back to 0. A Ctrl+C at a prompt
  cancels the call that follows, which may be the reset itself, and the message that the output was
  reset is printed also when the server answered with an error (*LeftLow* speaks of runs that gave up no call).
- Host discovery. The design refuses to write when there are several candidates (`rpi-io-mcp/design.md:104`); the code takes the only
  likely one. `--max-hosts 0` scans one address. A network of one or two addresses that starts where a wider one does is scanned after it, so
  that the cap may leave out its first address although that is the lowest (the exception in *ScansLowest*). A machine found under two names keeps the last one, which may lower its
  confidence. A line `export<TAB>KEY=` is one that only `remote-install.sh` knows.
- Remote installer. `docs/agent-smoke.md:152` re-runs the remote install to bring new keys to the agent; an agent that runs keeps the old
  ones, because `enable --now` does not restart it. `uninstall --purge` leaves `agent.env` behind.
- Auto-merge. `docs/agent-pr-workflow.md:17` names the resolution of a thread as a trigger; there is no such event. `auto-merge.yml:34-42`
  says that all runs for a pull request share a group, which a run started by hand does not. The waiting run of a group
  gives way to that of a failed CI run of an older commit, which looks at nothing.

## 4. Proofs

For every number of devices, connections, calls, releases, networks, machines, runs and faults, for files of any length, and
for every configuration that satisfies the module's named assumption:

| Theorem | Says | Assumes |
|---|---|---|
| `GpioService_proofs`: `TypeCorrect`, `StateMatches`, `PinsDistinct`, `CleanExits` | the run's invariants and *CleanExit* | `ConfigAssumption` |
| `GpioService_proofs`: `Refinement` | `Spec => LinesImplemented`, the refinement of `OutputLines` | `ConfigAssumption` |
| `GpioService_proofs`: `ServiceRuns`, `LeavesLow` | the service under the bench test is `GpioService`; *LeftLow* | `ConfigAssumption`, `MeterAssumption` |
| `AgentTools_proofs`: `TypeCorrect`, `MutualExclusion`, `LimiterIsReady` | the run's invariants | `ToolsAssumption` |
| `AgentTools_proofs`: `MinimumGap` | *MinGap*, for one session | `ToolsAssumption`, `OneSession` |
| `AgentTools_proofs`: `NoLockIsLeft`, `NobodyIsForgotten`, `FirstComeFirstServed` | who holds a lock is past it; who waits is in the queue of a lock that will be released or can be taken; no waiter overtakes another | `ToolsAssumption` |
| `ChatService_proofs`: `TypeCorrect`, `MostRecentWins`, `LosersCutOff`, `HolderNotTold`, `TurnsAnswered` | the run's invariants | `ChatAssumption` |
| `ChatService_proofs`: `TakeoversOrdered` | a displaced connection is told, then closed; a takeover waits for a closing handshake only | `ChatAssumption` |
| `ChatAgent_proofs`: `ImplementsTools`, `ImplementsChat` | the process implements its two parts | `AgentAssumption` |
| `ChatAgent_proofs`: `SessionsSerialized`, `SessionHeld` | *SessionSerialized*; what `ChatService` says of the holder, of the process | `AgentAssumption` |
| `ChatAgent_proofs`: `WindowsImplementChat`, `OneWindowServed` | `ChatPages` implements `ChatService`; of two connected windows one is about to be cut off | `AgentAssumption` (`None` is no connection) |
| `ToolFrames_proofs`: `TypeCorrect`, `ShownOnce`, `PairedRight`, `NoneLeft` | the run's invariants | `FramesAssumption` |
| `Deployment_proofs`: `TypeCorrect`, `InstallsConverge`, `UpgradesComplete`, `UninstallsStop`, `KeysReach` | the run's invariants | `DeploymentAssumption` |
| `Deployment_proofs`: `FirstConfigurations` | *FirstConfigurationServes* | `DeploymentAssumption` |
| `FindRaspberry_proofs`: `LowestScanned`, `OneReport`, `ReadersFindIt`, `OthersStay` | the run's invariants | `FindAssumption` |
| `AutoMerge_proofs`: `MergesMissOnlyLateBlocks` | *GateHeld* | `GroupAssumption` |

`Invariance` in a module proves the inductive invariant the others follow from.

- **GpioService.** *StateMatchesLine* is not inductive: a write to one output would move the line of another if they
  shared a pin, and the agreement must exist when serving begins. `InitProgress` says that the devices
  passed by `_init_pins` are on pins of their own at their safe defaults with state 0; `ServingPins`
  carries distinctness through serving. For *CleanExit*, `ReleaseProgress` says that the adapter holds pins of
  outputs only, and that lines its close loop has passed are released or bad. The edit of the file between two
  starts is why the adapter must be known to be empty at `load`. For the refinement each action is one of
  `Configure`, `Start`, `Command`, `Stop`, `Settle` or a stutter.
- **SmokeMeter.** Every step of the tool is a step of the service or leaves it alone, so that the invariant of
  `GpioService` holds under it. `OrderlyInv`: a run that gave up no call has at most the request it awaits under way,
  and once its reset was executed the line stays low, because no other output shares the pin (`ServingPins`).
- **AgentTools.** *Serialized* follows from a lock having one holder: `CallInv` says that a write past the lock is its holder,
  that a write past the check has a limiter (*LimiterReady*), and when a request may be out or answered. *MinGap* needs
  `GapInv`. `Waited`: a call past the lock has slept, or has still to sleep, what separates the recorded call time from
  the interval. `Recorded`: a device has been quiet at least as long as its recorded call time says, unless a write that was executed
  has not been recorded by its caller yet, and that caller still holds the lock. With two sessions a device has two
  locks and the statement is false, as `agent_serial` shows of the locks; the theorem assumes `OneSession`.
  The three theorems about locks are the safety part of *CallsFinish*, whose fairness the prover does not reach. `HolderInv`: a
  lock that is held is held by a write past it. `WaitersInv`: a queue holds the waiting calls of its lock, each once. Both are about one
  lock, and a handler touches the lock of its own device only (`OtherLocks`), so each step is one of `Passes`, `Takes`, `Waits`,
  `Releases` and `LeavesQueue`. That a waiter leaves the middle of a queue and the others keep their order (`WithoutOrder`)
  gives *ServedInOrder*. No run lists these statements; TLC found `LocksInv` and *ServedInOrder* true with four calls before they were proved.
- **ChatService.** *Displaced*, *NewestOwns* and *ToldLost* support each other, with `EvictsLosers`: a handler that
  displaces a connection displaces one that is not the holder, although it read `prior` several awaits ago. Without it the step
  that tells and closes `prior` could hit the holder. *Answered* needs `OwesInTurn`, where a handler may be while it owes an answer.
  *ToldThenClosed*, of what a takeover has done to `prior` by each of its awaits, is kept because a connection slot is not used again while a
  takeover refers to it; it is the safety part of *TakeoverServes*: what a takeover waits for ends with a handshake.
- **ChatAgent.** Every step of the process is a step of `AgentTools` or leaves its variables alone, and the same for
  `ChatService`; ending a session cancels its tools, which `AgentTools` allows at any time. The theorems of the two
  parts then hold of the process. They are proved over instances of the proof modules with the process's constants.
- **ChatPages.** Its theorems stand at the end of `ChatAgent_proofs`. Every step of a window or of a handler it reached is one of `ChatService`, once
  a window is known to refer to a connection (`OneWindowEach`, which also says that no two windows share one). Then of two connected windows one
  does not hold the session, and *Displaced* says what is on its way to it.
- **ToolFrames.** A call is on the wire, in a queue or paired, and in one of these places only (`WireInv`, `QueueInv`,
  `PairInv`): that is *ResultsShownOnce*. `OrderInv` holds as long as nothing muddled the frames: per name the wire
  holds a call, its result, the next call, and so on, and a queue has at most one entry, whose result is the next of that name.
  Then the result that arrives is that of the entry it takes.
- **Deployment.** `ScriptInv`, `StartInv` and `RestartInv` say what install and upgrade have done by each step *and* when they
  are done: a unit that crashes later comes up on the files it finds, which have to be of one release as long as no
  other command began. `KeysInv` is the same for the keys, `StopInv` for uninstall: the agent is stopped before the MCP server
  because its start would start that one again. `FirstInv` carries *FirstConfigurationServes* between the two units.
- **FindRaspberry.** Three independent invariants, and what the operators compute.
  *Enumeration*: `iter_scan_ips` is two nested `FoldLeft`s. `FoldExists` unrolls such a fold into the function of its intermediate
  results, so that facts about them are carried from `n - 1` to `n` (`UpTo`, from the well-foundedness of `<`).
  `Low(ips, E)` is what each round keeps: the addresses taken are candidates of those offered so far (`E`), no candidate below one
  taken was left out, and if one was left out the cap is reached. It is kept because offers rise within a network and, over networks in
  `Before` order, an address is either one offered before or above all of them (`LaterHosts`). That last step is false for a network
  of one or two addresses that starts where a wider one does, which is the exception *ScansLowest* makes.
  *Order*: in a finite set under a strict total order each element has a `Place`, the number of those before it, and each
  place one element (`PlaceOnto`, a counting argument). `Sorted` of any enumeration puts each element at its place (`MergedPlaces`),
  whatever the enumeration. `ReportInv` says that candidates are found once each and that the report is made of them.
  *File*: `Rewrites` says line by line what `upsert_env` makes of a file; from it both readers find the new value (`UpsertAgreed`)
  and every other key as before (`UpsertOthers`). `FileInv` carries this from the reading of the file to its writing, over edits that are
  saved before the reading, and tells them from those that are lost or mixed with what is written (`spoiled`).
- **AutoMerge.** `PastInv`: a gate that a run is past does not block, or began to after the run had read it.

Only model-checked: all liveness (*CrashRecovered*, *CallsFinish*, *TakeoverServes*, *TurnAnswered*, *DisplacedEnds*,
*DisplacedToolsEnd*, *Settles*, *FormComesBack*, *EligibleMerges*), which the prover does not reach under fairness. Every safety
property of a passing run is a theorem.

Two definitions are written for the proofs as well as for TLC: `Sorted` counts what comes before an item, because TLC's `SortSeq`
has no definition to expand, and the invariant of the file is about `AnyLines`, a superset of `Lines`, because the provers do not
know a literal such as `"RPI_SSH_HOST"` to be in `STRING`.

## 5. Not modelled

- Validation rules of `config.py` one by one: a load succeeds or fails.
- Rendering of the page, text of messages, logging, the HTTP side of the chat service.
- What the model answers, and how the environment names a model in `factory.py`.
- `MockGPIOAdapter`, a test double.
- `build-deb.sh` and the other workflows: straight-line scripts without state that a run of the system sees.
- Of the installers: file owners, apt prerequisites and uv (steps that may fail), and unpacks that dpkg aborts.
- Of host discovery: how addresses, SSH banners and arp tables are parsed, and which networks the system has.
- Of auto-merge: what makes a gate block (labels, checks, reviews by name) beyond that it blocks.
- The `ping` and `close_timeout` clocks of the sockets: a peer may leave, and a handshake end, at any time.

### Hazards that no property covers

The models contain these, and states that show them; nothing in the code acts against them, so that the property that comes
nearest leaves the case out and `PROJECT.json` lists no property for it:

- a bench test whose reset is itself cancelled by a Ctrl+C (*LeftLow* is of runs that gave up no call);
- a write that the server executes after its caller gave up (*MinGap* is of writes whose caller awaits them);
- a device id that the last listing knows and the server does not, or the other way round: each side refuses with an error;
- a tool call cut off on the page, which takes the result of a later call of its name;
- `install` run again over services that run, which go on with the old release and the old keys;
- an interruption of `write_text`, or an edit saved while it rewrites `.env` (*OthersKept* is of undisturbed writes);
- a gate that begins to block after a run of the workflow has read it (*GateHeld* says that nothing else is missed);
- an eligible pull request whose waiting run gave way to one that looks at nothing, or that no event followed;
- files of a package replaced by `remote-install.sh`.

## 6. What is left

Every module but the abstract `OutputLines`, which is checked as a property of `GpioService`, has its run and its theorems.
What could be added:

1. `config.py`: the validation rules as operators against a reference definition. They reject one field after
   the other and keep no state; what depends on them is in `GpioService` as a start that succeeds or fails.
2. `ChatPages`: with two windows the session may move between them for ever, so that only *Settles* for one is true; a
   backoff in the page would be the occasion for a stronger one.
