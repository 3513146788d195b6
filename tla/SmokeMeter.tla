----------------------------- MODULE SmokeMeter -----------------------------
(***************************************************************************)
(* tools/smoke_meter.py, the bench test of an output, as a client of the    *)
(* GPIO service: it drives the output low and high between prompts of an    *)
(* operator and resets it in a finally clause.  Each request travels in a   *)
(* task of the MCP library of its own, so that a request the tool gave up   *)
(* may be executed later, and in any order with the reset.  A prompt blocks *)
(* the event loop: a Ctrl+C there cancels the call that follows.            *)
(***************************************************************************)
EXTENDS GpioService

CONSTANT Meter  \* the device under test

ASSUME MeterAssumption == Meter \in Outputs

VARIABLES
    at,       \* where the tool is: prompting before a call, awaiting one, ...
    call,     \* the call that is next or awaited
    wire,     \* requests the server has not executed
    pending,  \* a cancellation the event loop has not delivered
    aborted,  \* an exception propagates
    session,  \* the server process it is connected to still serves
    cut,      \* some call was given up before its answer
    foreign   \* another client has written to the device

place == <<at, call>>
tool == <<place, wire, pending, aborted, cut>>
smokeVars == <<vars, tool, session, foreign>>

Calls == {"low", "high", "reset"}
Value(c) == IF c = "high" THEN 1 ELSE 0
MeterPin == Pin[conf][Meter]

ToolInit ==
    /\ at = "new" /\ call = "low"
    /\ wire = {}
    /\ pending = FALSE /\ aborted = FALSE
    /\ session = FALSE /\ cut = FALSE /\ foreign = FALSE

-----------------------------------------------------------------------------
(* The tool.                                                               *)

\* initialize and the health check.
Connect ==
    /\ at = "new"
    /\ pc = "serve"
    /\ at' = "ask"
    /\ session' = TRUE
    /\ UNCHANGED <<vars, call, wire, pending, aborted, cut, foreign>>

Awaits(c) == at' = "call" /\ call' = c

\* Mutant: the reset is made only when the steps before it succeeded.
FinallySkipped(posted) ==
    /\ wire' = posted
    /\ aborted' = TRUE
    /\ pending' = FALSE
    /\ at' = "over" /\ call' = "reset"

\* The finally clause, entered by an exception: its request is posted, and given
\* up at once when a cancellation is outstanding.
Finally(posted) ==
    /\ wire' = posted \union {"reset"}
    /\ aborted' = TRUE
    /\ pending' = FALSE
    /\ IF pending THEN at' = "over" /\ call' = "reset" ELSE Awaits("reset")

\* The operator answers the prompt, and the next request goes out.
Answer ==
    /\ at = "ask"
    /\ IF ~pending
       THEN /\ Awaits(call) /\ wire' = wire \union {call}
            /\ UNCHANGED <<pending, aborted, cut>>
       ELSE /\ cut' = TRUE
            /\ IF call = "reset" THEN Finally(wire)
               ELSE /\ Awaits("reset") /\ wire' = wire \union {call, "reset"}
                    /\ pending' = FALSE /\ aborted' = TRUE
    /\ UNCHANGED <<vars, session, foreign>>

\* input() raises: the end of the input, or a second Ctrl+C.
PromptFails ==
    /\ at = "ask"
    /\ Finally(wire)
    /\ cut' = (cut \/ pending)
    /\ UNCHANGED <<vars, session, foreign>>

\* A Ctrl+C cancels the task: at once where it waits, at its next await in a prompt.
Interrupt ==
    /\ \/ /\ at = "ask" /\ ~pending
          /\ pending' = TRUE
          /\ UNCHANGED <<place, wire, aborted, cut>>
       \/ /\ at = "call" /\ call # "reset"
          /\ Finally(wire)
          /\ cut' = TRUE
       \/ /\ at = "inputs" \/ (at = "call" /\ call = "reset")
          /\ at' = "over"
          /\ cut' = (cut \/ at = "call")
          /\ UNCHANGED <<call, wire, pending, aborted>>
    /\ UNCHANGED <<vars, session, foreign>>

\* What follows the reset: the steps of the input, or the exception goes on.
AfterReset == at' = (IF aborted THEN "over" ELSE "inputs") /\ UNCHANGED call

\* An answer arrives, of a write that was made or refused: the tool looks at neither.
Returns ==
    /\ at = "call" /\ call \notin wire /\ session
    /\ CASE call = "low"   -> at' = "ask" /\ call' = "high"
         [] call = "high"  -> at' = "ask" /\ call' = "reset"
         [] call = "reset" -> AfterReset
    /\ UNCHANGED <<vars, wire, pending, aborted, cut, session, foreign>>

\* A call raises; its request may still be on its way.
CallFails ==
    /\ at = "call"
    /\ cut' = TRUE
    /\ \E lost \in SUBSET {call} :
         IF call # "reset" THEN Finally(wire \ lost)
         ELSE /\ wire' = wire \ lost
              /\ AfterReset
              /\ UNCHANGED <<pending, aborted>>
    /\ UNCHANGED <<vars, session, foreign>>

\* The library cancels the whole session: the finally clause cannot await either.
SessionCancelled ==
    /\ at \in {"call", "inputs"}
    /\ at' = "over"
    /\ cut' = TRUE
    /\ wire' \in SUBSET wire
    /\ UNCHANGED <<vars, call, pending, aborted, session, foreign>>

InputsDone ==
    /\ at = "inputs"
    /\ at' = "over"
    /\ UNCHANGED <<vars, call, wire, pending, aborted, session, cut, foreign>>

ToolStep ==
    \/ Connect \/ Answer \/ PromptFails \/ Interrupt \/ Returns
    \/ CallFails \/ SessionCancelled \/ InputsDone

-----------------------------------------------------------------------------
(* The server: the requests of the tool, and everything else.              *)

Execute(c) ==
    /\ c \in wire
    /\ wire' = wire \ {c}
    /\ \/ SetOutput(Meter, Value(c)) \/ SetOutputFails(Meter, Value(c))
       \/ pc = "serve" /\ ~Accepts(Meter, Value(c)) /\ UNCHANGED vars
    /\ UNCHANGED <<place, pending, aborted, session, cut, foreign>>

\* A request of a tool that is gone gets lost.
Lost ==
    /\ at = "over"
    /\ \E c \in wire : wire' = wire \ {c}
    /\ UNCHANGED <<vars, place, pending, aborted, session, cut, foreign>>

\* The service and its other clients.  Requests end with the process they were sent to.
Service ==
    /\ Next
    /\ session' = (session /\ pc' = "serve")
    /\ wire' = IF session' THEN wire ELSE {}
    /\ foreign' = (foreign \/ \E v \in {0, 1} : SetOutput(Meter, v) \/ SetOutputFails(Meter, v))
    /\ UNCHANGED <<place, pending, aborted, cut>>

SmokeNext == ToolStep \/ Lost \/ Service \/ \E c \in Calls : Execute(c)

SmokeInit == Init /\ ToolInit
SmokeSpec == SmokeInit /\ [][SmokeNext]_smokeVars
FairSmokeSpec == SmokeSpec /\ Fairness

-----------------------------------------------------------------------------
\* A run that gave up no call leaves the output low when it is over, whatever the
\* operator answered and however a prompt failed, unless the write raised in the
\* hardware or another client moved the line.
LeftLow ==
    at = "over" /\ session /\ ~cut /\ ~foreign =>
        level[MeterPin] # 1 \/ MeterPin \in bad
=============================================================================
