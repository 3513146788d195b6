---------------------------- MODULE GpioService ----------------------------
(***************************************************************************)
(* The rpi-io-mcp process: server.main, GPIOService, the device registry   *)
(* and GPIOZeroAdapter, from the start of the unit to its exit, with the   *)
(* SIGTERM handler, hardware errors and crashes.  Devices are numbered in  *)
(* the order of config/rpi-io.toml, the order every loop follows.  A tool  *)
(* call is one step: the tools are synchronous functions on the event      *)
(* loop.  A loop over devices is one step per device, because a signal     *)
(* raises SystemExit between any two of them.                              *)
(***************************************************************************)
EXTENDS Integers

CONSTANTS N,            \* number of configured devices
          Kind,         \* [1..N -> {"output", "input"}]
          Pins,         \* BCM pins of the header
          SafeDefault,  \* [1..N -> {0, 1}], used for outputs
          K,            \* number of versions of the file that a start may find
          Pin,          \* [1..K -> [1..N -> Pins]]; nothing checks that pins differ
          BadSetup,     \* devices whose safe_default or pull setup_* rejects, in each
          Released,     \* level of a line that nothing drives
          MaxFaults     \* bound on hardware errors, load errors and crashes

Devices == 1..N
Outputs == {d \in Devices : Kind[d] = "output"}

ASSUME ConfigAssumption ==
    /\ N \in Nat
    /\ Kind \in [Devices -> {"output", "input"}]
    /\ SafeDefault \in [Devices -> {0, 1}]
    /\ K \in Nat \ {0}
    /\ Pin \in [1..K -> [Devices -> Pins]]
    /\ BadSetup \in [1..K -> SUBSET Devices]
    /\ Released \notin {0, 1}
    /\ MaxFaults \in Nat

VARIABLES
    pc,           \* where main() is; "down": no process
    conf,         \* the version of the file that was loaded last
    i,            \* position in the device loop main() is in
    status,       \* how the process ended, or that it runs, as systemd sees it
    outs,         \* keys of adapter._outputs (kept after the process ended)
    ins,          \* keys of adapter._inputs
    level,        \* the physical level of each line
    state,        \* Device.state of each device in the registry
    bad,          \* pins whose last access raised a hardware error
    interrupted,  \* SIGTERM arrived outside mcp.run()
    faults        \* faults so far

vars == <<pc, conf, i, status, outs, ins, level, state, bad, interrupted, faults>>

PCs == {"down", "load", "init", "serve", "zero", "release"}
Levels == {0, 1, Released}

TypeOK ==
    /\ pc \in PCs
    /\ conf \in 1..K
    /\ i \in 1..(N + 1)
    /\ status \in {"new", "running", "ok", "fail", "killed"}
    /\ outs \subseteq Pins
    /\ ins \subseteq Pins
    /\ level \in [Pins -> Levels]
    /\ state \in [Devices -> {0, 1}]
    /\ bad \subseteq Pins
    /\ interrupted \in BOOLEAN
    /\ faults \in 0..MaxFaults

Init ==
    /\ pc = "down"
    /\ conf \in 1..K
    /\ i = 1
    /\ status = "new"
    /\ outs = {}
    /\ ins = {}
    /\ level = [p \in Pins |-> Released]
    /\ state = [d \in Devices |-> 0]
    /\ bad = {}
    /\ interrupted = FALSE
    /\ faults = 0

-----------------------------------------------------------------------------
(* Pieces of several actions.                                              *)

Fault == faults < MaxFaults /\ faults' = faults + 1

\* The process is gone.  Lines it still drove keep their level or, when the
\* library's own exit hook gets to them, lose their drive.
Exit(how) ==
    /\ pc' = "down"
    /\ status' = how
    /\ level' \in [Pins -> Levels]
    /\ \A p \in Pins : level'[p] \in {level[p], Released}

\* An access to pin p that raises may or may not have moved the line to v.
HardwareError(p, v) ==
    /\ Fault
    /\ level' \in {level, [level EXCEPT ![p] = v]}
    /\ bad' = bad \union {p}

\* service.close() starts.
BeginClose(how) == pc' = "zero" /\ i' = 1 /\ status' = how

-----------------------------------------------------------------------------
(* Start: systemd, the config and the registry.                            *)

Start ==
    /\ pc = "down"
    /\ pc' = "load"
    /\ status' = "running"
    /\ outs' = {}
    /\ ins' = {}
    /\ bad' = {}
    /\ interrupted' = FALSE
    /\ UNCHANGED <<conf, i, level, state, faults>>

\* Restart=on-failure: systemd starts the unit again by itself.
Restart == status \in {"fail", "killed"} /\ Start

\* Mutant: the registry of an earlier run is reused.
LoadConfigKeepsState ==
    /\ pc = "load"
    /\ pc' = "init"
    /\ conf' \in 1..K
    /\ i' = 1
    /\ UNCHANGED <<status, outs, ins, level, state, bad, interrupted, faults>>

\* load_config, build_registry, GPIOZeroAdapter(): the file may have been edited
\* since it was last read, and every Device starts with state 0.
LoadConfig ==
    /\ pc = "load"
    /\ pc' = "init"
    /\ conf' \in 1..K
    /\ i' = 1
    /\ state' = [d \in Devices |-> 0]
    /\ UNCHANGED <<status, outs, ins, level, bad, interrupted, faults>>

\* A ConfigError or an unreadable file; service is still None, nothing to close.
LoadFails ==
    /\ pc = "load"
    /\ Fault
    /\ Exit("fail")
    /\ UNCHANGED <<conf, i, outs, ins, state, bad, interrupted>>

-----------------------------------------------------------------------------
(* GPIOService.__init__: _init_pins and the cleanup of a partial init.     *)

\* Mutant: pins may be reserved twice.
PinAlwaysFree(d) == TRUE

\* The pin factory refuses a pin that is already reserved.
PinFree(d) == Pin[conf][d] \notin outs \union ins

\* Mutant: the line keeps its level instead of taking safe_default.
SetupOutputKeepsLevel ==
    /\ pc = "init"
    /\ i \in Outputs \ BadSetup[conf]
    /\ PinFree(i)
    /\ outs' = outs \union {Pin[conf][i]}
    /\ level' = [level EXCEPT ![Pin[conf][i]] = IF @ = Released THEN SafeDefault[i] ELSE @]
    /\ i' = i + 1
    /\ UNCHANGED <<pc, conf, status, ins, state, bad, interrupted, faults>>

SetupOutput ==
    /\ pc = "init"
    /\ i \in Outputs \ BadSetup[conf]
    /\ PinFree(i)
    /\ outs' = outs \union {Pin[conf][i]}
    /\ level' = [level EXCEPT ![Pin[conf][i]] = SafeDefault[i]]
    /\ i' = i + 1
    /\ UNCHANGED <<pc, conf, status, ins, state, bad, interrupted, faults>>

SetupInput ==
    /\ pc = "init"
    /\ i \in (Devices \ Outputs) \ BadSetup[conf]
    /\ PinFree(i)
    /\ ins' = ins \union {Pin[conf][i]}
    /\ i' = i + 1
    /\ UNCHANGED <<pc, conf, status, outs, level, state, bad, interrupted, faults>>

\* Mutant: __init__ does not close what it had set up.
SetupFailsNoClose ==
    /\ pc = "init"
    /\ i \in Devices
    /\ \/ (i \in BadSetup[conf] \/ ~PinFree(i)) /\ UNCHANGED faults
       \/ Fault
    /\ Exit("fail")
    /\ UNCHANGED <<conf, i, outs, ins, state, bad, interrupted>>

\* invalid_value or gpio_unavailable: close() runs, then the error propagates.
SetupFails ==
    /\ pc = "init"
    /\ i \in Devices
    /\ \/ (i \in BadSetup[conf] \/ ~PinFree(i)) /\ UNCHANGED faults
       \/ Fault
    /\ BeginClose("fail")
    /\ UNCHANGED <<conf, outs, ins, level, state, bad, interrupted>>

\* "service" is bound; mcp.run() takes over.
InitDone ==
    /\ pc = "init"
    /\ i = N + 1
    /\ pc' = "serve"
    /\ UNCHANGED <<conf, i, status, outs, ins, level, state, bad, interrupted, faults>>

-----------------------------------------------------------------------------
(* Tool calls.  A request that names no device (0), the wrong kind or a    *)
(* value other than 0 and 1 is answered ok=False and changes nothing.      *)

\* Mutant: the value is not checked.
AcceptsAnyValue(d, v) == d \in Outputs /\ Pin[conf][d] \in outs

Accepts(d, v) == d \in Outputs /\ v \in {0, 1} /\ Pin[conf][d] \in outs

SetOutput(d, v) ==
    /\ pc = "serve"
    /\ Accepts(d, v)
    /\ level' = [level EXCEPT ![Pin[conf][d]] = v]
    /\ state' = [state EXCEPT ![d] = v]
    /\ bad' = bad \ {Pin[conf][d]}
    /\ UNCHANGED <<pc, conf, i, status, outs, ins, interrupted, faults>>

\* device.on()/off() raised: Device.state keeps its old value.
SetOutputFails(d, v) ==
    /\ pc = "serve"
    /\ Accepts(d, v)
    /\ HardwareError(Pin[conf][d], v)
    /\ UNCHANGED <<pc, conf, i, status, outs, ins, state, interrupted>>

ReadInput(d, v) ==
    /\ pc = "serve"
    /\ d \in Devices \ Outputs
    /\ Pin[conf][d] \in ins
    /\ state' = [state EXCEPT ![d] = v]
    /\ UNCHANGED <<pc, conf, i, status, outs, ins, level, bad, interrupted, faults>>

ToolCall ==
    \E d \in 0..N, v \in 0..2 :
        SetOutput(d, v) \/ SetOutputFails(d, v) \/ (v < 2 /\ ReadInput(d, v))

-----------------------------------------------------------------------------
(* The end: SIGTERM, mcp.run() failing, service.close(), a crash.          *)

\* mcp.run() ends with an error, a port already in use for instance.
ServerFails ==
    /\ pc = "serve"
    /\ Fault
    /\ BeginClose("fail")
    /\ UNCHANGED <<conf, outs, ins, level, state, bad, interrupted>>

\* SystemExit inside mcp.run() reaches the finally clause with service bound.
SigtermServing ==
    /\ pc = "serve"
    /\ BeginClose("ok")
    /\ UNCHANGED <<conf, outs, ins, level, state, bad, interrupted, faults>>

\* Anywhere else it ends the process: before "service" is bound nothing is
\* closed, and inside close() it escapes every "except GPIOError".
SigtermElsewhere ==
    /\ pc \in {"load", "init", "zero", "release"}
    /\ interrupted' = TRUE
    /\ Exit("ok")
    /\ UNCHANGED <<conf, i, outs, ins, state, bad, faults>>

\* service.close(): write_output(pin, 0) for every output device, the error
\* for a pin that was never set up swallowed like any other GPIOError.
CloseWrites ==
    /\ pc = "zero"
    /\ i \in Devices
    /\ i' = i + 1
    /\ \/ /\ Accepts(i, 0)
          /\ level' = [level EXCEPT ![Pin[conf][i]] = 0]
          /\ bad' = bad \ {Pin[conf][i]}
          /\ UNCHANGED faults
       \/ Accepts(i, 0) /\ HardwareError(Pin[conf][i], 0)
       \/ ~Accepts(i, 0) /\ UNCHANGED <<level, bad, faults>>
    /\ UNCHANGED <<pc, conf, status, outs, ins, state, interrupted>>

CloseWritesDone ==
    /\ pc = "zero"
    /\ i = N + 1
    /\ pc' = "release"
    /\ i' = 1
    /\ UNCHANGED <<conf, status, outs, ins, level, state, bad, interrupted, faults>>

\* GPIOZeroAdapter.close(): off() and close() share one try, so an off() that
\* raises skips close() and the line stays driven.
AdapterCloses ==
    /\ pc = "release"
    /\ i \in Devices
    /\ i' = i + 1
    /\ \/ /\ Accepts(i, 0)
          /\ level' = [level EXCEPT ![Pin[conf][i]] = Released]
          /\ UNCHANGED <<bad, faults>>
       \/ Accepts(i, 0) /\ HardwareError(Pin[conf][i], 0)
       \/ ~Accepts(i, 0) /\ UNCHANGED <<level, bad, faults>>
    /\ UNCHANGED <<pc, conf, status, outs, ins, state, interrupted>>

AdapterClosed ==
    /\ pc = "release"
    /\ i = N + 1
    /\ outs' = {}
    /\ ins' = {}
    /\ Exit(status)
    /\ UNCHANGED <<conf, i, state, bad, interrupted, faults>>

\* SIGKILL (TimeoutStopSec, out of memory) keeps the lines as they are, a power cut drops them.
Crash ==
    /\ pc # "down"
    /\ Fault
    /\ pc' = "down"
    /\ status' = "killed"
    /\ level' \in {level, [p \in Pins |-> Released]}
    /\ UNCHANGED <<conf, i, outs, ins, state, bad, interrupted>>

Init1 == SetupOutput \/ SetupInput \/ SetupFails \/ InitDone
Close1 == CloseWrites \/ CloseWritesDone \/ AdapterCloses \/ AdapterClosed

Next ==
    \/ Start
    \/ LoadConfig
    \/ LoadFails
    \/ Init1
    \/ ToolCall
    \/ ServerFails
    \/ SigtermServing
    \/ SigtermElsewhere
    \/ Close1
    \/ Crash

\* The process runs when it can and systemd restarts it after a failure; no
\* fairness on clients, signals, faults, or starts by hand.
Fairness == WF_vars(Restart) /\ WF_vars(LoadConfig) /\ WF_vars(Init1) /\ WF_vars(Close1)

Spec == Init /\ [][Next]_vars
FairSpec == Spec /\ Fairness

-----------------------------------------------------------------------------
(* Properties.                                                             *)

\* list_devices reports Device.state: while the service is up it equals the
\* level of the line for every output whose safe default is 0, except after
\* a write that raised (service.py set_output, gpio.py write_output).
StateMatchesLine ==
    pc = "serve" =>
        \A d \in Outputs : SafeDefault[d] = 0 /\ Pin[conf][d] \notin bad
                              => state[d] = level[Pin[conf][d]]

\* While the service is up no two outputs share a line, whatever the config
\* says: config.py checks ids, not pins, and relies on the pin factory.
DistinctPins ==
    pc = "serve" => \A d, e \in Outputs : Pin[conf][d] = Pin[conf][e] => d = e

\* A process that ends by itself, after an error in __init__ or a SIGTERM
\* while serving, leaves an empty adapter and no line driven that it had
\* configured, unless the last access to that line raised.
CleanExit ==
    [][pc # "down" /\ pc' = "down" /\ status' # "killed" /\ ~interrupted'
         => /\ outs' = {} /\ ins' = {}
            /\ \A p \in outs : level'[p] = Released \/ p \in bad]_vars

\* A version of the file that setup_* accepts and that names no pin twice.
Sound ==
    /\ BadSetup[conf] = {}
    /\ \A d, e \in Devices : Pin[conf][d] = Pin[conf][e] => d = e

\* After a failure or a crash, with lines left at any level, the unit comes
\* back with every output at its safe default, unless it is told to stop or
\* its file is broken again and again.
CrashRecovered ==
    <>[]Sound =>
        (status \in {"fail", "killed"}
            ~> \/ status = "ok"
               \/ pc = "serve" /\ \A d \in Outputs : level[Pin[conf][d]] = SafeDefault[d])

\* The service keeps the promise of OutputLines: over restarts, partial
\* initialisation and crashes, only an accepted set_output moves a line to a
\* level that is not its safe default, low or released.
SafeLevels == [p \in Pins |-> {SafeDefault[d] : d \in {o \in Outputs : Pin[conf][o] = p}}]

Lines == INSTANCE OutputLines WITH up <- pc = "serve", line <- level, safe <- SafeLevels

LinesImplemented == Lines!Spec

\* What server.py:75-78 and the design say of SIGTERM: however main() ends,
\* the adapter has been released.
TeardownPath == pc = "down" /\ status = "ok" => outs = {}
=============================================================================
