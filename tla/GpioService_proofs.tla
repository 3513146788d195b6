------------------------ MODULE GpioService_proofs -------------------------
(***************************************************************************)
(* Theorems of GpioService for every configuration: any number of devices, *)
(* any pins (also pins named twice), any number of faults and restarts.    *)
(* At the end those of SmokeMeter, its client; they alone use MeterAssumption. *)
(***************************************************************************)
EXTENDS SmokeMeter, TLAPS

\* During _init_pins the devices already passed are set up, each on a pin of
\* its own, and nothing has moved their lines since.
InitProgress ==
    pc = "init" =>
        /\ state = [d \in Devices |-> 0]
        /\ \A d \in Devices : d < i =>
             /\ d \in Outputs => Pin[conf][d] \in outs /\ level[Pin[conf][d]] = SafeDefault[d]
             /\ d \notin Outputs => Pin[conf][d] \in ins
        /\ \A d, e \in Outputs : d < i /\ e < i /\ Pin[conf][d] = Pin[conf][e] => d = e

\* While serving every output has a reserved pin of its own.
ServingPins ==
    pc = "serve" =>
        /\ \A d \in Outputs : Pin[conf][d] \in outs
        /\ \A d, e \in Outputs : Pin[conf][d] = Pin[conf][e] => d = e

\* The adapter only holds pins of output devices; adapter.close() has
\* released those it has passed unless their last access raised.
ReleaseProgress ==
    /\ pc = "load" => outs = {} /\ ins = {}
    /\ \A p \in outs : \E d \in Outputs : Pin[conf][d] = p
    /\ pc = "release" =>
         \A d \in Outputs : d < i /\ Pin[conf][d] \in outs /\ Pin[conf][d] \notin bad
                              => level[Pin[conf][d]] = Released

IInv == TypeOK /\ InitProgress /\ ServingPins /\ ReleaseProgress /\ StateMatchesLine

-----------------------------------------------------------------------------
(* The initial state satisfies the inductive invariant.                    *)
LEMMA InitIInv == Init => IInv
<1> SUFFICES ASSUME Init PROVE IInv
  OBVIOUS
<1>1. TypeOK
  <2>1. i \in 1..(N + 1) /\ faults \in 0..MaxFaults
    BY ConfigAssumption DEF Init
  <2>2. level \in [Pins -> Levels] /\ state \in [Devices -> {0, 1}]
    BY DEF Init, Levels
  <2> QED BY <2>1, <2>2 DEF Init, TypeOK, PCs
<1>2. InitProgress /\ ServingPins /\ ReleaseProgress /\ StateMatchesLine
  BY DEF Init, InitProgress, ServingPins, ReleaseProgress, StateMatchesLine
<1> QED BY <1>1, <1>2 DEF IInv

\* Every step keeps the variables in their types.
LEMMA TypeStep == ASSUME TypeOK, [Next]_vars PROVE TypeOK'
<1> USE ConfigAssumption DEF TypeOK, Devices, Outputs, PCs, Levels, Fault, Exit
<1>1. CASE Start BY <1>1 DEF Start
<1>2. CASE LoadConfig BY <1>2 DEF LoadConfig
<1>3. CASE LoadFails BY <1>3 DEF LoadFails
<1>4. CASE SetupOutput BY <1>4 DEF SetupOutput
<1>5. CASE SetupInput BY <1>5 DEF SetupInput
<1>6. CASE SetupFails BY <1>6 DEF SetupFails, BeginClose
<1>7. CASE InitDone BY <1>7 DEF InitDone
<1>8. ASSUME NEW d \in 0..N, NEW v \in 0..2, SetOutput(d, v) PROVE TypeOK'
  BY <1>8 DEF SetOutput, Accepts
<1>9. ASSUME NEW d \in 0..N, NEW v \in 0..2, SetOutputFails(d, v) PROVE TypeOK'
  BY <1>9 DEF SetOutputFails, Accepts, HardwareError
<1>10. ASSUME NEW d \in 0..N, NEW v \in 0..2, v < 2, ReadInput(d, v) PROVE TypeOK'
  BY <1>10 DEF ReadInput
<1>11. CASE ServerFails BY <1>11 DEF ServerFails, BeginClose
<1>12. CASE SigtermServing BY <1>12 DEF SigtermServing, BeginClose
<1>13. CASE SigtermElsewhere BY <1>13 DEF SigtermElsewhere
<1>14. CASE CloseWrites
  <2>1. level' \in [Pins -> Levels]
    BY <1>14 DEF CloseWrites, Accepts, HardwareError
  <2>2. i' \in 1..(N + 1) /\ bad' \subseteq Pins /\ faults' \in 0..MaxFaults
    BY <1>14 DEF CloseWrites, Accepts, HardwareError
  <2> QED BY <1>14, <2>1, <2>2 DEF CloseWrites
<1>15. CASE CloseWritesDone BY <1>15 DEF CloseWritesDone
<1>16. CASE AdapterCloses
  <2>1. level' \in [Pins -> Levels]
    BY <1>16 DEF AdapterCloses, Accepts, HardwareError
  <2>2. i' \in 1..(N + 1) /\ bad' \subseteq Pins /\ faults' \in 0..MaxFaults
    BY <1>16 DEF AdapterCloses, Accepts, HardwareError
  <2> QED BY <1>16, <2>1, <2>2 DEF AdapterCloses
<1>17. CASE AdapterClosed BY <1>17 DEF AdapterClosed
<1>18. CASE Crash BY <1>18 DEF Crash
<1>19. CASE UNCHANGED vars BY <1>19 DEF vars
<1> QED BY <1>1, <1>2, <1>3, <1>4, <1>5, <1>6, <1>7, <1>8, <1>9, <1>10, <1>11, <1>12,
           <1>13, <1>14, <1>15, <1>16, <1>17, <1>18, <1>19
        DEF Next, Init1, Close1, ToolCall

\* Only LoadConfig changes the version of the file the process works from.
LEMMA ConfStep == [Next]_vars => LoadConfig \/ conf' = conf
BY DEF Next, vars, Init1, Close1, ToolCall, Start, LoadFails, SetupOutput, SetupInput,
  SetupFails, InitDone, SetOutput, SetOutputFails, ReadInput, ServerFails, SigtermServing,
  SigtermElsewhere, CloseWrites, CloseWritesDone, AdapterCloses, AdapterClosed, Crash

\* The pin of a device is a pin of the header.
LEMMA PinType == TypeOK => \A d \in Devices : Pin[conf][d] \in Pins
BY ConfigAssumption DEF TypeOK

-----------------------------------------------------------------------------
(* The parts of the invariant, one after the other.                        *)

\* Only LoadConfig, SetupOutput and SetupInput lead to "init".
LEMMA InitProgressStep == ASSUME IInv, [Next]_vars PROVE InitProgress'
<1> USE DEF IInv
<1>1. CASE LoadConfig
  BY <1>1 DEF LoadConfig, InitProgress, TypeOK, Outputs, Devices
<1>2. CASE SetupOutput
  <2>1. pc = "init" /\ i \in Outputs /\ i \in Devices /\ UNCHANGED <<state, ins, conf>>
    BY <1>2 DEF SetupOutput, Outputs
  <2>2. level'[Pin[conf][i]] = SafeDefault[i] /\ outs' = outs \union {Pin[conf][i]} /\ Pin[conf][i] \notin outs
    BY <1>2, <2>1, PinType DEF SetupOutput, PinFree, TypeOK
  <2>3. \A p \in Pins : p # Pin[conf][i] => level'[p] = level[p]
    BY <1>2 DEF SetupOutput, TypeOK
  <2>4. \A d \in Devices : d < i' => d < i \/ d = i
    BY <1>2, <2>1 DEF SetupOutput, Devices, TypeOK
  <2>5. \A d \in Outputs : d < i => Pin[conf][d] # Pin[conf][i] /\ Pin[conf][d] \in outs /\ Pin[conf][d] \in Pins
    BY <2>1, <2>2, PinType DEF InitProgress, Outputs
  <2>6. \A d \in Devices : d < i' =>
           /\ d \in Outputs => Pin[conf][d] \in outs' /\ level'[Pin[conf][d]] = SafeDefault[d]
           /\ d \notin Outputs => Pin[conf][d] \in ins'
    BY <2>1, <2>2, <2>3, <2>4, <2>5 DEF InitProgress
  <2>7. \A d, e \in Outputs : d < i' /\ e < i' /\ Pin[conf][d] = Pin[conf][e] => d = e
    BY <2>1, <2>4, <2>5 DEF InitProgress, Outputs
  <2> QED BY <2>1, <2>6, <2>7 DEF InitProgress
<1>3. CASE SetupInput
  <2>1. pc = "init" /\ i \in Devices \ Outputs /\ ins' = ins \union {Pin[conf][i]}
        /\ UNCHANGED <<state, outs, level, conf>>
    BY <1>3 DEF SetupInput
  <2>2. \A d \in Devices : d < i' => d < i \/ d = i
    BY <1>3, <2>1 DEF SetupInput, Devices, TypeOK
  <2> QED BY <2>1, <2>2 DEF InitProgress, Outputs
<1>4. CASE UNCHANGED vars
  BY <1>4 DEF vars, InitProgress
<1>5. CASE ~(LoadConfig \/ SetupOutput \/ SetupInput \/ UNCHANGED vars)
  <2>1. pc' # "init"
    BY <1>5 DEF Next, Init1, Close1, ToolCall, Start, LoadFails, Exit, SetupFails, BeginClose,
      InitDone, SetOutput, SetOutputFails, ReadInput, ServerFails, SigtermServing,
      SigtermElsewhere, CloseWrites, CloseWritesDone, AdapterCloses, AdapterClosed, Crash
  <2> QED BY <2>1 DEF InitProgress
<1> QED BY <1>1, <1>2, <1>3, <1>4, <1>5

\* Only InitDone leads to "serve"; what happens while serving keeps the pins.
LEMMA ServingPinsStep == ASSUME IInv, [Next]_vars PROVE ServingPins'
<1> USE DEF IInv
<1>1. CASE InitDone
  <2>1. \A d \in Outputs : d \in Devices /\ d < i
    BY <1>1, ConfigAssumption DEF InitDone, Outputs, Devices
  <2> QED BY <1>1, <2>1 DEF InitDone, InitProgress, ServingPins
<1>2. CASE pc = "serve" /\ UNCHANGED <<outs, conf>>
  BY <1>2 DEF ServingPins
<1>3. CASE ~InitDone /\ ~(pc = "serve" /\ UNCHANGED <<outs, conf>>)
  <2>1. pc' # "serve"
    BY <1>3 DEF Next, vars, Init1, Close1, ToolCall, Start, LoadConfig, LoadFails, Exit,
      SetupOutput, SetupInput, SetupFails, BeginClose,
      InitDone, SetOutput, SetOutputFails, ReadInput, ServerFails, SigtermServing,
      SigtermElsewhere, CloseWrites, CloseWritesDone, AdapterCloses, AdapterClosed, Crash,
      ServingPins
  <2> QED BY <2>1 DEF ServingPins
<1> QED BY <1>1, <1>2, <1>3

\* A command moves the line of its device and no other, because no two
\* serving outputs share a pin.
LEMMA StateMatchesStep == ASSUME IInv, [Next]_vars PROVE StateMatchesLine'
<1> USE DEF IInv
<1>1. CASE InitDone
  <2>1. \A d \in Outputs : d \in Devices /\ d < i
    BY <1>1, ConfigAssumption DEF InitDone, Outputs, Devices
  <2>2. \A d \in Outputs : state[d] = 0 /\ level[Pin[conf][d]] = SafeDefault[d]
    BY <1>1, <2>1 DEF InitDone, InitProgress
  <2> QED BY <1>1, <2>2 DEF InitDone, StateMatchesLine
<1>2. ASSUME NEW d \in 0..N, NEW v \in 0..2, SetOutput(d, v)
      PROVE  StateMatchesLine'
  <2>1. d \in Outputs /\ d \in Devices /\ Pin[conf][d] \in Pins /\ pc = "serve" /\ conf' = conf
    BY <1>2, PinType DEF SetOutput, Accepts, Outputs
  <2>2. state'[d] = v /\ level'[Pin[conf][d]] = v
    BY <1>2, <2>1 DEF SetOutput, TypeOK
  <2>3. ASSUME NEW e \in Outputs, e # d
        PROVE  /\ state'[e] = state[e]
               /\ level'[Pin[conf][e]] = level[Pin[conf][e]]
               /\ Pin[conf][e] \in bad' <=> Pin[conf][e] \in bad
    <3>1. Pin[conf][e] # Pin[conf][d] /\ Pin[conf][e] \in Pins /\ e \in Devices
      BY <2>1, <2>3, PinType DEF ServingPins, Outputs
    <3> QED BY <1>2, <2>1, <2>3, <3>1 DEF SetOutput, TypeOK
  <2> QED BY <2>1, <2>2, <2>3 DEF StateMatchesLine
<1>3. ASSUME NEW d \in 0..N, NEW v \in 0..2, SetOutputFails(d, v)
      PROVE  StateMatchesLine'
  <2>1. d \in Outputs /\ Pin[conf][d] \in Pins /\ pc = "serve" /\ UNCHANGED <<state, conf>>
    BY <1>3, PinType DEF SetOutputFails, Accepts, Outputs
  <2>2. \A p \in Pins : p # Pin[conf][d] => level'[p] = level[p]
    BY <1>3 DEF SetOutputFails, HardwareError, TypeOK
  <2>3. bad' = bad \union {Pin[conf][d]}
    BY <1>3 DEF SetOutputFails, HardwareError
  <2>4. \A e \in Outputs : Pin[conf][e] \in Pins
    BY PinType DEF Outputs
  <2> QED BY <2>1, <2>2, <2>3, <2>4 DEF StateMatchesLine
<1>4. ASSUME NEW d \in 0..N, NEW v \in 0..2, v < 2, ReadInput(d, v)
      PROVE  StateMatchesLine'
  <2>1. \A e \in Outputs : state'[e] = state[e]
    BY <1>4 DEF ReadInput, TypeOK, Outputs
  <2> QED BY <1>4, <2>1 DEF ReadInput, StateMatchesLine
<1>5. CASE UNCHANGED vars
  BY <1>5 DEF vars, StateMatchesLine
<1>6. CASE ~InitDone /\ ~ToolCall /\ ~UNCHANGED vars
  <2>1. pc' # "serve"
    BY <1>6 DEF Next, Init1, Close1, Start, LoadConfig, LoadFails, Exit,
      SetupOutput, SetupInput, SetupFails, BeginClose, ServerFails, SigtermServing,
      SigtermElsewhere, CloseWrites, CloseWritesDone, AdapterCloses, AdapterClosed, Crash
  <2> QED BY <2>1 DEF StateMatchesLine
<1> QED BY <1>1, <1>2, <1>3, <1>4, <1>5, <1>6 DEF ToolCall

\* The adapter never holds a pin of no output, and its close loop leaves
\* behind it only released lines and lines that failed.
LEMMA ReleaseStep == ASSUME IInv, [Next]_vars PROVE ReleaseProgress'
<1> USE DEF IInv
<1>1. pc' = "load" => outs' = {} /\ ins' = {}
  BY DEF Next, vars, Init1, Close1, ToolCall, Start, LoadConfig, LoadFails, Exit,
      SetupOutput, SetupInput, SetupFails, BeginClose, ReleaseProgress,
      InitDone, SetOutput, SetOutputFails, ReadInput, ServerFails, SigtermServing,
      SigtermElsewhere, CloseWrites, CloseWritesDone, AdapterCloses, AdapterClosed, Crash
<1>2. \A p \in outs' : \E d \in Outputs : Pin[conf][d] = p
  <2>1. CASE SetupOutput
    BY <2>1 DEF SetupOutput, ReleaseProgress
  <2>2. CASE ~SetupOutput
    <3>1. outs' = {} \/ outs' = outs
      BY <2>2 DEF Next, vars, Init1, Close1, ToolCall, Start, LoadConfig, LoadFails, Exit,
        SetupInput, SetupFails, BeginClose,
        InitDone, SetOutput, SetOutputFails, ReadInput, ServerFails, SigtermServing,
        SigtermElsewhere, CloseWrites, CloseWritesDone, AdapterCloses, AdapterClosed, Crash
    <3> QED BY <3>1 DEF ReleaseProgress
  <2> QED BY <2>1, <2>2
<1>3. ASSUME pc' = "release", NEW d \in Outputs, d < i', Pin[conf][d] \in outs', Pin[conf][d] \notin bad'
      PROVE  level'[Pin[conf][d]] = Released
  <2>0. d \in Devices /\ Pin[conf][d] \in Pins
    BY PinType DEF Outputs
  <2>1. CloseWritesDone \/ AdapterCloses \/ UNCHANGED vars
    BY <1>3 DEF Next, vars, Init1, Close1, ToolCall, Start, LoadConfig, LoadFails, Exit,
      SetupOutput, SetupInput, SetupFails, BeginClose,
      InitDone, SetOutput, SetOutputFails, ReadInput, ServerFails, SigtermServing,
      SigtermElsewhere, CloseWrites, AdapterClosed, Crash
  <2>2. CASE CloseWritesDone
    BY <1>3, <2>0, <2>2 DEF CloseWritesDone, Devices
  <2>3. CASE AdapterCloses
    <3>1. i' = i + 1 /\ outs' = outs /\ pc = "release" /\ i \in Devices
      BY <2>3 DEF AdapterCloses
    <3>2. CASE Accepts(i, 0) /\ level' = [level EXCEPT ![Pin[conf][i]] = Released] /\ bad' = bad
      <4>1. CASE Pin[conf][d] = Pin[conf][i]
        BY <2>0, <3>2, <4>1 DEF TypeOK
      <4>2. CASE Pin[conf][d] # Pin[conf][i]
        <5>1. d < i
          BY <1>3, <2>0, <3>1, <4>2 DEF Devices
        <5> QED BY <1>3, <2>0, <3>1, <3>2, <4>2, <5>1 DEF TypeOK, ReleaseProgress
      <4> QED BY <4>1, <4>2
    <3>3. CASE Accepts(i, 0) /\ HardwareError(Pin[conf][i], 0)
      <4>1. Pin[conf][d] # Pin[conf][i] /\ Pin[conf][d] \notin bad
        BY <1>3, <3>3 DEF HardwareError
      <4>2. d < i
        BY <1>3, <2>0, <3>1, <4>1 DEF Devices
      <4>3. level'[Pin[conf][d]] = level[Pin[conf][d]]
        BY <2>0, <3>3, <4>1 DEF HardwareError, TypeOK
      <4> QED BY <1>3, <3>1, <4>1, <4>2, <4>3 DEF ReleaseProgress
    <3>4. CASE ~Accepts(i, 0) /\ UNCHANGED <<level, bad>>
      <4>1. d # i
        BY <1>3, <3>1, <3>4 DEF Accepts
      <4>2. d < i
        BY <1>3, <2>0, <3>1, <4>1 DEF Devices
      <4> QED BY <1>3, <3>1, <3>4, <4>2 DEF ReleaseProgress
    <3> QED BY <2>3, <3>2, <3>3, <3>4 DEF AdapterCloses
  <2>4. CASE UNCHANGED vars
    BY <1>3, <2>4 DEF vars, ReleaseProgress
  <2> QED BY <2>1, <2>2, <2>3, <2>4
<1>4. LoadConfig => outs' = {} /\ pc' = "init"
  BY DEF LoadConfig, ReleaseProgress
<1> QED BY <1>1, <1>2, <1>3, <1>4, ConfStep DEF ReleaseProgress

-----------------------------------------------------------------------------
(* The theorems.                                                           *)

\* The inductive invariant holds in every reachable state.
THEOREM Invariance == Spec => []IInv
<1>1. IInv /\ [Next]_vars => IInv'
  BY TypeStep, InitProgressStep, ServingPinsStep, StateMatchesStep, ReleaseStep DEF IInv
<1> QED BY InitIInv, <1>1, PTL DEF Spec

\* Every variable keeps its type, in particular the adapter's keys are pins
\* and the loop index stays inside the device list.
THEOREM TypeCorrect == Spec => []TypeOK
<1>1. IInv => TypeOK
  BY DEF IInv
<1> QED BY Invariance, <1>1, PTL

\* What list_devices reports for an output with safe default 0 is the level
\* of its line, for every configuration that gets as far as serving.
THEOREM StateMatches == Spec => []StateMatchesLine
<1>1. IInv => StateMatchesLine
  BY DEF IInv
<1> QED BY Invariance, <1>1, PTL

\* No configuration makes two serving outputs share a line.
THEOREM PinsDistinct == Spec => []DistinctPins
<1>1. IInv => DistinctPins
  BY DEF IInv, ServingPins, DistinctPins
<1> QED BY Invariance, <1>1, PTL

\* An orderly exit leaves nothing driven that the process had set up.
THEOREM CleanExits == Spec => CleanExit
<1>1. ASSUME IInv, Next, pc # "down", pc' = "down", status' # "killed", ~interrupted'
      PROVE  /\ outs' = {} /\ ins' = {}
             /\ \A p \in outs : level'[p] = Released \/ p \in bad
  <2>1. LoadFails \/ AdapterClosed
    BY <1>1 DEF Next, Init1, Close1, ToolCall, Start, LoadConfig,
      SetupOutput, SetupInput, SetupFails, BeginClose, InitDone, SetOutput, SetOutputFails,
      ReadInput, ServerFails, SigtermServing, SigtermElsewhere, CloseWrites,
      CloseWritesDone, AdapterCloses, Crash
  <2>2. CASE LoadFails
    BY <1>1, <2>2 DEF LoadFails, IInv, ReleaseProgress
  <2>3. CASE AdapterClosed
    <3>1. ASSUME NEW p \in outs, p \notin bad PROVE level'[p] = Released
      <4>1. PICK d \in Outputs : Pin[conf][d] = p
        BY <1>1 DEF IInv, ReleaseProgress
      <4>2. d < i
        BY <2>3, ConfigAssumption DEF AdapterClosed, Outputs, Devices
      <4>3. level[p] = Released
        BY <1>1, <2>3, <3>1, <4>1, <4>2 DEF AdapterClosed, IInv, ReleaseProgress
      <4> QED BY <1>1, <2>3, <4>3 DEF AdapterClosed, Exit, IInv, TypeOK
    <3> QED BY <2>3, <3>1 DEF AdapterClosed
  <2> QED BY <2>1, <2>2, <2>3
<1> QED BY <1>1, Invariance, PTL DEF CleanExit, Spec

\* The process implements OutputLines: each step moves the lines as the
\* abstract service may.
THEOREM Refinement == Spec => LinesImplemented
<1>0. SafeLevels \in [Pins -> SUBSET {0, 1}]
  <2>1. \A d \in Outputs : SafeDefault[d] \in {0, 1}
    BY ConfigAssumption DEF Outputs
  <2> QED BY <2>1 DEF SafeLevels
<1>1. Init => Lines!Init
  BY <1>0 DEF Init, Lines!Init
<1>2. ASSUME IInv, [Next]_vars PROVE [Lines!Next]_(Lines!vars)
  <2> USE <1>2 DEF IInv
  <2>0. \A d \in Outputs : Pin[conf][d] \in Pins /\ SafeDefault[d] \in SafeLevels[Pin[conf][d]]
                          /\ SafeLevels[Pin[conf][d]] # {}
    <3>1. ASSUME NEW d \in Outputs
          PROVE  Pin[conf][d] \in Pins /\ SafeDefault[d] \in SafeLevels[Pin[conf][d]]
      <4>1. Pin[conf][d] \in Pins
        BY PinType DEF Outputs
      <4>2. SafeLevels[Pin[conf][d]] = {SafeDefault[e] : e \in {o \in Outputs : Pin[conf][o] = Pin[conf][d]}}
        BY <4>1 DEF SafeLevels
      <4> QED BY <4>1, <4>2
    <3> QED BY <3>1
  <2>a. conf' = conf => SafeLevels' = SafeLevels
    BY DEF SafeLevels
  <2>1. CASE InitDone
    <3>1. \A d \in Outputs : level[Pin[conf][d]] = SafeDefault[d]
      <4>1. \A d \in Outputs : d \in Devices /\ d < i
        BY <2>1, ConfigAssumption DEF InitDone, Outputs, Devices
      <4> QED BY <2>1, <4>1 DEF InitDone, InitProgress
    <3>2. \A p \in Pins : SafeLevels[p] # {} => level[p] \in SafeLevels[p]
      BY <3>1 DEF SafeLevels
    <3> QED BY <2>1, <2>a, <3>2 DEF InitDone, Lines!Next, Lines!Start
  <2>2. CASE SetupOutput
    <3>1. i \in Outputs /\ pc = "init" /\ pc' = "init" /\ conf' = conf
          /\ level' = [level EXCEPT ![Pin[conf][i]] = SafeDefault[i]]
      BY <2>2 DEF SetupOutput
    <3> QED BY <2>0, <2>a, <3>1 DEF Lines!Next, Lines!Settle
  <2>3. ASSUME NEW d \in 0..N, NEW v \in 0..2, SetOutput(d, v) \/ SetOutputFails(d, v)
        PROVE  [Lines!Next]_(Lines!vars)
    <3>1. d \in Outputs /\ v \in {0, 1} /\ pc = "serve" /\ pc' = "serve" /\ conf' = conf
          /\ level' \in {level, [level EXCEPT ![Pin[conf][d]] = v]}
      BY <2>3 DEF SetOutput, SetOutputFails, Accepts, HardwareError
    <3> QED BY <2>0, <2>a, <3>1 DEF Lines!Next, Lines!Command, Lines!vars
  <2>4. CASE CloseWrites \/ AdapterCloses
    <3>1. pc # "serve" /\ pc' # "serve" /\ conf' = conf
      BY <2>4 DEF CloseWrites, AdapterCloses
    <3>2. level' = level \/ \E d \in Outputs, v \in {0, Released} :
                               level' = [level EXCEPT ![Pin[conf][d]] = v]
      BY <2>4 DEF CloseWrites, AdapterCloses, Accepts, HardwareError
    <3> QED BY <2>0, <2>a, <3>1, <3>2 DEF Lines!Next, Lines!Settle, Lines!vars
  <2>5. CASE LoadFails \/ SigtermElsewhere \/ AdapterClosed
    <3>1. pc' = "down" /\ conf' = conf /\ level' \in [Pins -> Levels]
          /\ \A p \in Pins : level'[p] \in {level[p], Released}
      BY <2>5 DEF LoadFails, SigtermElsewhere, AdapterClosed, Exit
    <3> QED BY <2>a, <3>1 DEF Lines!Next, Lines!Stop, Levels
  <2>6. CASE Crash
    <3>1. pc' = "down" /\ conf' = conf /\ level' \in [Pins -> Levels]
          /\ \A p \in Pins : level'[p] \in {level[p], Released}
      BY <2>6 DEF Crash, TypeOK, Levels
    <3> QED BY <2>a, <3>1 DEF Lines!Next, Lines!Stop, Levels
  <2>7. CASE ServerFails \/ SigtermServing
    <3>1. pc' = "zero" /\ conf' = conf /\ level' = level
      BY <2>7 DEF ServerFails, SigtermServing, BeginClose
    <3> QED BY <2>a, <3>1 DEF Lines!Next, Lines!Stop, TypeOK, Levels
  <2>8. CASE Start \/ SetupInput \/ SetupFails \/ CloseWritesDone
    BY <2>8, <2>a DEF Start, SetupInput, SetupFails, BeginClose, CloseWritesDone, Lines!vars
  <2>9. ASSUME NEW d \in 0..N, NEW v \in 0..2, ReadInput(d, v)
        PROVE  [Lines!Next]_(Lines!vars)
    BY <2>9, <2>a DEF ReadInput, Lines!vars
  <2>10. CASE UNCHANGED vars
    BY <2>10, <2>a DEF vars, Lines!vars
  <2>11. CASE LoadConfig
    <3>1. SafeLevels' \in [Pins -> SUBSET {0, 1}]
      BY ConfigAssumption DEF SafeLevels, Outputs
    <3> QED BY <2>11, <3>1 DEF LoadConfig, Lines!Next, Lines!Configure
  <2> QED BY <2>1, <2>2, <2>3, <2>4, <2>5, <2>6, <2>7, <2>8, <2>9, <2>10, <2>11
          DEF Next, Init1, Close1, ToolCall
<1> QED BY <1>1, <1>2, Invariance, PTL DEF Spec, LinesImplemented, Lines!Spec

-----------------------------------------------------------------------------
(* The service under the tool.                                             *)

LEMMA ExecuteIsCall == ASSUME NEW c \in Calls, Execute(c) PROVE [Next]_vars
<1>1. Meter \in 0..N /\ Value(c) \in 0..2
  BY MeterAssumption, ConfigAssumption DEF Outputs, Devices, Value
<1> QED BY <1>1 DEF Execute, Next, ToolCall

LEMMA StepOfService == ASSUME [SmokeNext]_smokeVars PROVE [Next]_vars
<1>1. CASE ToolStep
  BY <1>1 DEF ToolStep, Connect, Answer, PromptFails, Interrupt, Returns, CallFails,
     SessionCancelled, InputsDone
<1>2. CASE Lost
  BY <1>2 DEF Lost
<1>3. CASE Service
  BY <1>3 DEF Service
<1>4. CASE UNCHANGED smokeVars
  BY <1>4 DEF smokeVars
<1> QED BY <1>1, <1>2, <1>3, <1>4, ExecuteIsCall DEF SmokeNext

\* Whatever the tool does, the service behaves as GpioService says: what is proved
\* of it holds while it is tested.
THEOREM ServiceRuns == SmokeSpec => Spec
<1>1. SmokeInit => Init
  BY DEF SmokeInit
<1> QED BY <1>1, StepOfService, PTL DEF SmokeSpec, Spec

-----------------------------------------------------------------------------
(* What the tool leaves.                                                   *)

Low == level[MeterPin] # 1 \/ MeterPin \in bad

\* A run that gave up no call has at most the request it awaits under way, and the
\* line is low once its reset was executed.
OrderlyInv ==
    ~cut =>
        /\ wire \subseteq IF at = "call" THEN {call} ELSE {}
        /\ session /\ ~foreign /\ "reset" \notin wire /\
             (at \in {"inputs", "over"} \/ (at = "call" /\ call = "reset")) => Low

MeterInv ==
    /\ at \in {"new", "ask", "call", "inputs", "over"} /\ call \in Calls
    /\ session => pc = "serve"
    /\ OrderlyInv

LEMMA InitMeterInv == SmokeInit => MeterInv
BY DEF SmokeInit, ToolInit, MeterInv, OrderlyInv, Calls

\* The tool itself moves no line.
LEMMA ToolKeeps == ASSUME MeterInv, ToolStep PROVE MeterInv'
<1>1. UNCHANGED vars /\ (Low' <=> Low)
  BY DEF ToolStep, Connect, Answer, PromptFails, Interrupt, Returns, CallFails,
     SessionCancelled, InputsDone, vars, Low, MeterPin
<1>2. pc' = pc
  BY <1>1 DEF vars
<1>3. CASE Connect
  BY <1>1, <1>3 DEF Connect, MeterInv, OrderlyInv, vars
<1>4. CASE Answer
  BY <1>1, <1>2, <1>4 DEF Answer, Awaits, Finally, MeterInv, OrderlyInv, Calls
<1>5. CASE PromptFails
  BY <1>1, <1>2, <1>5 DEF PromptFails, Awaits, Finally, MeterInv, OrderlyInv, Calls
<1>6. CASE Interrupt
  BY <1>1, <1>2, <1>6 DEF Interrupt, place, Awaits, Finally, MeterInv, OrderlyInv, Calls
<1>7. CASE Returns
  <2>1. at = "call" /\ call \notin wire /\ (~cut => wire = {})
    BY <1>7 DEF Returns, MeterInv, OrderlyInv
  <2>2. CASE call = "reset"
    BY <1>1, <1>2, <1>7, <2>1, <2>2 DEF Returns, AfterReset, MeterInv, OrderlyInv
  <2>3. CASE call # "reset"
    BY <1>1, <1>2, <1>7, <2>1, <2>3 DEF Returns, MeterInv, OrderlyInv, Calls
  <2> QED BY <2>2, <2>3
<1>8. CASE CallFails \/ SessionCancelled
  BY <1>2, <1>8 DEF CallFails, SessionCancelled, AfterReset, Awaits, Finally, MeterInv,
     OrderlyInv, Calls
<1>9. CASE InputsDone
  BY <1>1, <1>2, <1>9 DEF InputsDone, MeterInv, OrderlyInv
<1> QED BY <1>3, <1>4, <1>5, <1>6, <1>7, <1>8, <1>9 DEF ToolStep

\* The reset, once executed, leaves the line low or its access raised.
LEMMA ExecuteKeeps == ASSUME IInv, MeterInv, NEW c \in Calls, Execute(c) PROVE MeterInv'
<1>1. pc = "serve" /\ pc' = "serve" /\ conf' = conf
  BY DEF Execute, SetOutput, SetOutputFails, vars
<1>2. Meter \in Outputs /\ MeterPin \in Pins /\ MeterPin \in outs /\ MeterPin' = MeterPin
  BY <1>1, MeterAssumption, PinType DEF IInv, ServingPins, Outputs, MeterPin
<1>3. c = "reset" => Low'
  <2> SUFFICES ASSUME c = "reset" PROVE Low'
    OBVIOUS
  <2>1. Accepts(Meter, 0) /\ Value(c) = 0
    BY <1>2 DEF Accepts, Value, MeterPin
  <2>2. CASE SetOutput(Meter, 0)
    BY <2>2, <1>2 DEF SetOutput, Low, MeterPin, IInv, TypeOK
  <2>3. CASE SetOutputFails(Meter, 0)
    BY <2>3, <1>2 DEF SetOutputFails, HardwareError, Low, MeterPin
  <2> QED BY <2>1, <2>2, <2>3 DEF Execute
<1> QED BY <1>1, <1>3 DEF Execute, place, MeterInv, OrderlyInv

\* Another client does not move the line without being one that writes to the device.
LEMMA ServiceKeeps == ASSUME IInv, MeterInv, Service PROVE MeterInv'
<1>1. session' => session /\ pc = "serve" /\ pc' = "serve"
  BY DEF Service, MeterInv
<1>2. ASSUME Low, session', ~foreign' PROVE Low'
  <2>1. ToolCall
    BY <1>1, <1>2 DEF Service, Next, Start, LoadConfig, LoadFails, Init1, SetupOutput, SetupInput,
       SetupFails, InitDone, ServerFails, SigtermServing, SigtermElsewhere, BeginClose, Exit,
       Close1, CloseWrites, CloseWritesDone, AdapterCloses, AdapterClosed, Crash
  <2>2. PICK d \in 0..N, v \in 0..2 :
            SetOutput(d, v) \/ SetOutputFails(d, v) \/ (v < 2 /\ ReadInput(d, v))
    BY <2>1 DEF ToolCall
  <2>3. CASE ReadInput(d, v)
    BY <1>2, <2>3 DEF ReadInput, Low, MeterPin
  <2>4. CASE SetOutput(d, v) \/ SetOutputFails(d, v)
    <3>1. d \in Outputs /\ v \in {0, 1} /\ conf' = conf
      BY <2>4 DEF SetOutput, SetOutputFails, Accepts
    <3>2. d # Meter
      BY <1>2, <2>4, <3>1 DEF Service
    <3>3. Pin[conf][d] # MeterPin
      BY <1>1, <1>2, <3>1, <3>2, MeterAssumption DEF IInv, ServingPins, MeterPin
    <3>4. level'[MeterPin] = level[MeterPin]
      BY <2>4, <3>3, MeterAssumption, PinType DEF MeterPin, Outputs, SetOutput, SetOutputFails,
         HardwareError, IInv, TypeOK
    <3>5. MeterPin \in bad => MeterPin \in bad'
      BY <2>4, <3>3 DEF SetOutput, SetOutputFails, HardwareError
    <3>6. MeterPin' = MeterPin
      BY <3>1 DEF MeterPin
    <3> QED BY <1>2, <3>4, <3>5, <3>6 DEF Low
  <2> QED BY <2>2, <2>3, <2>4
<1>3. wire' \subseteq wire /\ (session' => wire' = wire)
  BY DEF Service
<1>4. at' = at /\ call' = call /\ cut' = cut /\ (foreign => foreign') /\ (session' => session)
  BY DEF Service, place
<1> QED BY <1>1, <1>2, <1>3, <1>4 DEF MeterInv, OrderlyInv

LEMMA MeterStep == ASSUME IInv, MeterInv, [SmokeNext]_smokeVars PROVE MeterInv'
<1>1. CASE Lost
  BY <1>1 DEF Lost, vars, place, MeterInv, OrderlyInv, Low, MeterPin
<1>2. CASE UNCHANGED smokeVars
  BY <1>2 DEF smokeVars, vars, tool, place, MeterInv, OrderlyInv, Low, MeterPin
<1> QED BY <1>1, <1>2, ToolKeeps, ExecuteKeeps, ServiceKeeps DEF SmokeNext

\* A bench test that gave up no call leaves its output low on a service that still
\* serves, unless the write raised in the hardware or another client wrote to it.
THEOREM LeavesLow == SmokeSpec => []LeftLow
<1>1. IInv /\ MeterInv /\ [SmokeNext]_smokeVars => MeterInv'
  BY MeterStep
<1>2. SmokeSpec => []IInv
  BY ServiceRuns, Invariance, PTL
<1>3. MeterInv => LeftLow
  BY DEF MeterInv, OrderlyInv, LeftLow, Low
<1> QED BY <1>1, <1>2, <1>3, InitMeterInv, PTL DEF SmokeSpec

=============================================================================
