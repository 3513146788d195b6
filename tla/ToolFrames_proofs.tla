------------------------- MODULE ToolFrames_proofs -------------------------
(***************************************************************************)
(* Theorems of ToolFrames for any tool calls, turns and dropped             *)
(* connections: which results the page shows, and with which calls.         *)
(***************************************************************************)
EXTENDS ToolFrames, TLAPS

At(n, kind, x) == n \in 1..Len(wire) /\ wire[n] = <<kind, x>>
OnWire(kind, x) == \E n \in 1..Len(wire) : At(n, kind, x)
Waits(x) == \E n \in 1..Len(pending[Name[x]]) : pending[Name[x]][n] = x
Paired(x) == \E p \in pairs : p[1] = x
Shown(x) == \E p \in pairs : p[2] = x

-----------------------------------------------------------------------------
(* Always: a call or a result is in one place.                             *)

WireInv ==
    /\ \A kind \in {"call", "result"}, x \in Calls : \A m, n \in 1..Len(wire) :
           At(m, kind, x) /\ At(n, kind, x) => m = n
    /\ \A x \in Calls : OnWire("call", x) => x \in begun /\ ~Waits(x) /\ ~Paired(x)
    /\ \A x \in Calls : OnWire("result", x) => x \in ended /\ ~Shown(x)

QueueInv ==
    \A t \in Tools : \A n \in 1..Len(pending[t]) :
        /\ Name[pending[t][n]] = t
        /\ pending[t][n] \in begun /\ \A p \in pairs : p[1] # pending[t][n]
        /\ \A m \in 1..Len(pending[t]) : pending[t][m] = pending[t][n] => m = n

PairInv ==
    /\ \A p \in pairs : p[2] \in ended
    /\ \A p \in pairs : p[1] # "none" => p[1] \in begun /\ Name[p[1]] = Name[p[2]]
    /\ \A p, q \in pairs : p[2] = q[2] => p = q
    /\ \A p, q \in pairs : p[1] = q[1] /\ p[1] # "none" => p = q

TurnInv == asked <= turns /\ (turn # "run" => Running = {})

-----------------------------------------------------------------------------
(* As long as nothing muddled them, the frames of a tool come in turns: a   *)
(* call, its result, the next call.                                        *)

OrderInv ==
    /\ \A x \in Running : Waits(x) \/ OnWire("call", x)
    /\ \A x \in Calls : Waits(x) =>
           /\ Len(pending[Name[x]]) = 1
           /\ x \in Running \/ OnWire("result", x)
           /\ \A y \in Calls, n \in 1..Len(wire) : Name[y] = Name[x] /\ At(n, "call", y) =>
                  \E m \in 1..(n - 1) : At(m, "result", x)
    /\ \A x \in Calls, n \in 1..Len(wire) : At(n, "result", x) =>
           Waits(x) \/ \E m \in 1..(n - 1) : At(m, "call", x)
    /\ \A x \in Calls, m \in 1..Len(wire) : At(m, "call", x) =>
           /\ x \in Running \/ \E n \in (m + 1)..Len(wire) : At(n, "result", x)
           /\ \A y \in Calls \ {x}, k \in (m + 1)..Len(wire) : Name[y] = Name[x] /\ At(k, "call", y) =>
                  \E n \in (m + 1)..(k - 1) : At(n, "result", x)

IInv ==
    /\ TypeOK /\ WireInv /\ QueueInv /\ PairInv /\ TurnInv
    /\ ~muddled => OrderInv /\ \A p \in pairs : p[1] = p[2]

-----------------------------------------------------------------------------
(* What sending and receiving does to the wire.                            *)

LEMMA FramesDiffer ==
    /\ \A kind \in {"call", "result"} : \A x :
           <<kind, x>> # <<"error">> /\ <<kind, x>> # <<"done">>
    /\ <<"error">> # <<"done">>
<1>1. \A a, b, c : <<a, b>> # <<c>>
  <2>1. ASSUME NEW a, NEW b, NEW c, <<a, b>> = <<c>> PROVE FALSE
    <3>1. Len(<<a, b>>) = 2 /\ Len(<<c>>) = 1
      OBVIOUS
    <3> QED BY <2>1, <3>1
  <2> QED BY <2>1
<1> QED BY <1>1

LEMMA SendsFrame ==
    ASSUME TypeOK, NEW kind \in {"call", "result"}, NEW x \in Calls, Send(<<kind, x>>)
    PROVE  /\ wire' \in Seq(Frame) /\ Len(wire') = Len(wire) + 1 /\ Len(wire) \in Nat
           /\ \A n, k, y : At(n, k, y)' <=> At(n, k, y) \/ (n = Len(wire) + 1 /\ k = kind /\ y = x)
<1>1. <<kind, x>> \in Frame
  BY DEF Frame
<1> QED BY <1>1 DEF Send, At, TypeOK

LEMMA SendsOther ==
    ASSUME TypeOK, NEW f \in {<<"error">>, <<"done">>}, Send(f)
    PROVE  /\ wire' \in Seq(Frame) /\ Len(wire') = Len(wire) + 1 /\ Len(wire) \in Nat
           /\ \A k \in {"call", "result"} : \A n, y : At(n, k, y)' <=> At(n, k, y)
<1>1. f \in Frame /\ Len(wire) \in Nat
  BY DEF Frame, TypeOK
<1>2. /\ wire' \in Seq(Frame) /\ Len(wire') = Len(wire) + 1
      /\ \A n \in 1..Len(wire) : wire'[n] = wire[n]
      /\ wire'[Len(wire) + 1] = f
  BY <1>1 DEF Send, TypeOK
<1>3. ASSUME NEW k \in {"call", "result"}, NEW y PROVE f # <<k, y>>
  BY <1>3, FramesDiffer
<1> QED BY <1>1, <1>2, <1>3 DEF At

LEMMA ReceivesFrame ==
    ASSUME TypeOK, wire # <<>>, wire' = Tail(wire)
    PROVE  /\ wire' \in Seq(Frame) /\ Len(wire') = Len(wire) - 1 /\ Len(wire) \in Nat
           /\ \A k, y : \A n \in Nat : At(n, k, y)' <=> n > 0 /\ At(n + 1, k, y)
           /\ \A k, y : Head(wire) = <<k, y>> <=> At(1, k, y)
BY DEF At, TypeOK

-----------------------------------------------------------------------------
(* The handler and the graph.                                              *)

\* A step that moves no frame and no call.
LEMMA QuietStep ==
    ASSUME IInv, TypeOK', TurnInv', UNCHANGED <<begun, ended, wire, pending, pairs, muddled>>
    PROVE  IInv'
<1>1. /\ \A n, k, x : At(n, k, x)' <=> At(n, k, x)
      /\ \A x : (Waits(x)' <=> Waits(x)) /\ (Paired(x)' <=> Paired(x)) /\ (Shown(x)' <=> Shown(x))
      /\ Running' = Running
  BY DEF At, Waits, Paired, Shown, Running
<1>2. WireInv' /\ QueueInv' /\ PairInv'
  BY <1>1 DEF IInv, WireInv, QueueInv, PairInv, OnWire
<1>3. ~muddled' => OrderInv'
  BY <1>1 DEF IInv, OrderInv, OnWire
<1> QED BY <1>2, <1>3 DEF IInv

LEMMA ToolStartStep == ASSUME IInv, NEW x \in Calls, ToolStart(x) PROVE IInv'
<1> DEFINE last == Len(wire) + 1
<1>1. /\ wire' \in Seq(Frame) /\ Len(wire') = last /\ Len(wire) \in Nat
      /\ \A n, k, y : At(n, k, y)' <=> At(n, k, y) \/ (n = last /\ k = "call" /\ y = x)
  BY SendsFrame DEF IInv, ToolStart
<1>2. \A n, k, y : At(n, k, y) => n \in 1..Len(wire)
  BY DEF At
<1>3. /\ \A y : (Waits(y)' <=> Waits(y)) /\ (Paired(y)' <=> Paired(y)) /\ (Shown(y)' <=> Shown(y))
      /\ begun' = begun \union {x} /\ x \notin begun /\ x \notin ended
      /\ Running' = Running \union {x} /\ x \notin Running
  BY DEF ToolStart, Waits, Paired, Shown, Running, IInv, TypeOK
<1>4. ~Waits(x) /\ ~Paired(x)
  <2>1. ~Waits(x)
    BY <1>3, FramesAssumption DEF IInv, QueueInv, Waits
  <2>2. x # "none"
    BY FramesAssumption
  <2>3. ~Paired(x)
    BY <1>3, <2>2 DEF IInv, PairInv, Paired
  <2> QED BY <2>1, <2>3
<1>5. TypeOK'
  BY <1>1 DEF IInv, TypeOK, ToolStart
<1>6. WireInv'
  <2>1. ASSUME NEW k \in {"call", "result"}, NEW y \in Calls, NEW m \in 1..Len(wire'),
               NEW n \in 1..Len(wire'), At(m, k, y)', At(n, k, y)' PROVE m = n
    BY <1>1, <1>2, <1>3, <2>1 DEF IInv, WireInv, OnWire
  <2>2. ASSUME NEW y \in Calls, OnWire("call", y)' PROVE (y \in begun /\ ~Waits(y) /\ ~Paired(y))'
    BY <1>1, <1>2, <1>3, <1>4, <2>2 DEF IInv, WireInv, OnWire
  <2>3. ASSUME NEW y \in Calls, OnWire("result", y)' PROVE (y \in ended /\ ~Shown(y))'
    BY <1>1, <1>2, <1>3, <1>4, <2>3 DEF IInv, WireInv, OnWire, ToolStart
  <2> QED BY <2>1, <2>2, <2>3 DEF WireInv
<1>7. QueueInv' /\ PairInv' /\ TurnInv'
  BY <1>3 DEF IInv, QueueInv, PairInv, TurnInv, ToolStart
<1>8. ASSUME ~muddled' PROVE OrderInv' /\ \A p \in pairs' : p[1] = p[2]
  <2>1. /\ ~muddled /\ \A y \in Running : Name[y] # Name[x]
        /\ OrderInv /\ pairs' = pairs /\ pending' = pending
    BY <1>8 DEF ToolStart, IInv, TypeOK
  <2>2. \A y \in Running' : (Waits(y) \/ OnWire("call", y))'
    BY <1>1, <1>2, <1>3, <2>1 DEF OrderInv, OnWire
  <2>3. ASSUME NEW y \in Calls, Waits(y)'
        PROVE  /\ Len(pending'[Name[y]]) = 1
               /\ y \in Running' \/ OnWire("result", y)'
               /\ \A z \in Calls, n \in 1..Len(wire') : Name[z] = Name[y] /\ At(n, "call", z)' =>
                      \E m \in 1..(n - 1) : At(m, "result", y)'
    <3>1. Waits(y) /\ Len(pending'[Name[y]]) = 1 /\ (y \in Running \/ OnWire("result", y))
      BY <1>3, <2>1, <2>3 DEF OrderInv
    <3>2. y \in Running' \/ OnWire("result", y)'
      BY <1>1, <1>2, <1>3, <3>1 DEF OnWire
    <3>3. ASSUME NEW z \in Calls, NEW n \in 1..Len(wire'), Name[z] = Name[y], At(n, "call", z)'
          PROVE  \E m \in 1..(n - 1) : At(m, "result", y)'
      <4>1. CASE At(n, "call", z)
        <5>1. PICK m \in 1..(n - 1) : At(m, "result", y)
          BY <1>2, <2>1, <3>1, <3>3, <4>1 DEF OrderInv
        <5> QED BY <1>1, <5>1
      <4>2. CASE n = last /\ z = x
        <5>1. OnWire("result", y)
          BY <2>1, <3>1, <3>3, <4>2
        <5> QED BY <1>1, <1>2, <4>2, <5>1 DEF OnWire
      <4> QED BY <1>1, <3>3, <4>1, <4>2
    <3> QED BY <3>1, <3>2, <3>3
  <2>4. ASSUME NEW y \in Calls, NEW n \in 1..Len(wire'), At(n, "result", y)'
        PROVE  Waits(y)' \/ \E m \in 1..(n - 1) : At(m, "call", y)'
    <3>1. At(n, "result", y) /\ n \in 1..Len(wire)
      BY <1>1, <1>2, <2>4
    <3>2. Waits(y) \/ \E m \in 1..(n - 1) : At(m, "call", y)
      BY <2>1, <3>1 DEF OrderInv
    <3> QED BY <1>1, <1>3, <3>2
  <2>5. ASSUME NEW y \in Calls, NEW m \in 1..Len(wire'), At(m, "call", y)'
        PROVE  /\ y \in Running' \/ \E n \in (m + 1)..Len(wire') : At(n, "result", y)'
               /\ \A z \in Calls \ {y}, k \in (m + 1)..Len(wire') :
                      Name[z] = Name[y] /\ At(k, "call", z)' =>
                          \E n \in (m + 1)..(k - 1) : At(n, "result", y)'
    <3>1. CASE m = last /\ y = x
      BY <1>1, <1>3, <3>1
    <3>2. CASE At(m, "call", y) /\ m \in 1..Len(wire)
      <4>1. /\ y \in Running \/ \E n \in (m + 1)..Len(wire) : At(n, "result", y)
            /\ \A z \in Calls \ {y}, k \in (m + 1)..Len(wire) :
                   Name[z] = Name[y] /\ At(k, "call", z) =>
                       \E n \in (m + 1)..(k - 1) : At(n, "result", y)
        BY <2>1, <3>2 DEF OrderInv
      <4>2. y \in Running' \/ \E n \in (m + 1)..Len(wire') : At(n, "result", y)'
        BY <1>1, <1>3, <4>1
      <4>3. ASSUME NEW z \in Calls \ {y}, NEW k \in (m + 1)..Len(wire'), Name[z] = Name[y], At(k, "call", z)'
            PROVE  \E n \in (m + 1)..(k - 1) : At(n, "result", y)'
        <5>1. CASE k = last /\ z = x
          <6>1. PICK n \in (m + 1)..Len(wire) : At(n, "result", y)
            BY <2>1, <4>1, <4>3, <5>1
          <6> QED BY <1>1, <5>1, <6>1
        <5>2. CASE At(k, "call", z) /\ k \in 1..Len(wire)
          <6>1. PICK n \in (m + 1)..(k - 1) : At(n, "result", y)
            BY <4>1, <4>3, <5>2
          <6> QED BY <1>1, <6>1
        <5> QED BY <1>1, <1>2, <4>3, <5>1, <5>2
      <4> QED BY <4>2, <4>3
    <3> QED BY <1>1, <1>2, <2>5, <3>1, <3>2
  <2>6. OrderInv'
    BY <2>2, <2>3, <2>4, <2>5 DEF OrderInv
  <2> QED BY <1>8, <2>1, <2>6 DEF IInv
<1> QED BY <1>5, <1>6, <1>7, <1>8 DEF IInv

LEMMA ToolEndStep == ASSUME IInv, NEW x \in Calls, ToolEnd(x) PROVE IInv'
<1> DEFINE last == Len(wire) + 1
<1>1. /\ wire' \in Seq(Frame) /\ Len(wire') = last /\ Len(wire) \in Nat
      /\ \A n, k, y : At(n, k, y)' <=> At(n, k, y) \/ (n = last /\ k = "result" /\ y = x)
  BY SendsFrame DEF IInv, ToolEnd
<1>2. \A n, k, y : At(n, k, y) => n \in 1..Len(wire)
  BY DEF At
<1>3. /\ \A y : (Waits(y)' <=> Waits(y)) /\ (Paired(y)' <=> Paired(y)) /\ (Shown(y)' <=> Shown(y))
      /\ ended' = ended \union {x} /\ x \in Running /\ x \in begun /\ x \notin ended
      /\ Running' = Running \ {x} /\ UNCHANGED <<begun, muddled, pairs, pending>> /\ turn = "run" /\ turn' = "run"
  BY DEF ToolEnd, Waits, Paired, Shown, Running, IInv, TypeOK
<1>4. ~OnWire("result", x) /\ ~Shown(x)
  BY <1>3 DEF IInv, WireInv, PairInv, Shown
<1>5. TypeOK'
  BY <1>1 DEF IInv, TypeOK, ToolEnd, Running
<1>6. WireInv'
  <2>1. ASSUME NEW k \in {"call", "result"}, NEW y \in Calls, NEW m \in 1..Len(wire'),
               NEW n \in 1..Len(wire'), At(m, k, y)', At(n, k, y)' PROVE m = n
    BY <1>1, <1>2, <1>4, <2>1 DEF IInv, WireInv, OnWire
  <2>2. ASSUME NEW y \in Calls, OnWire("call", y)' PROVE (y \in begun /\ ~Waits(y) /\ ~Paired(y))'
    BY <1>1, <1>2, <1>3, <2>2 DEF IInv, WireInv, OnWire
  <2>3. ASSUME NEW y \in Calls, OnWire("result", y)' PROVE (y \in ended /\ ~Shown(y))'
    BY <1>1, <1>2, <1>3, <1>4, <2>3 DEF IInv, WireInv, OnWire
  <2> QED BY <2>1, <2>2, <2>3 DEF WireInv
<1>7. QueueInv' /\ PairInv' /\ TurnInv'
  BY <1>3 DEF IInv, QueueInv, PairInv, TurnInv, ToolEnd
<1>8. ASSUME ~muddled' PROVE OrderInv' /\ \A p \in pairs' : p[1] = p[2]
  <2>1. OrderInv /\ \A p \in pairs' : p[1] = p[2]
    BY <1>3, <1>8 DEF IInv
  <2>2. \A y \in Running' : (Waits(y) \/ OnWire("call", y))'
    BY <1>1, <1>2, <1>3, <2>1 DEF OrderInv, OnWire
  <2>3. ASSUME NEW y \in Calls, Waits(y)'
        PROVE  /\ Len(pending'[Name[y]]) = 1
               /\ y \in Running' \/ OnWire("result", y)'
               /\ \A z \in Calls, n \in 1..Len(wire') : Name[z] = Name[y] /\ At(n, "call", z)' =>
                      \E m \in 1..(n - 1) : At(m, "result", y)'
    <3>1. Waits(y) /\ Len(pending'[Name[y]]) = 1 /\ (y \in Running \/ OnWire("result", y))
      BY <1>3, <2>1, <2>3 DEF OrderInv
    <3>2. y \in Running' \/ OnWire("result", y)'
      BY <1>1, <1>2, <1>3, <3>1 DEF OnWire
    <3>3. ASSUME NEW z \in Calls, NEW n \in 1..Len(wire'), Name[z] = Name[y], At(n, "call", z)'
          PROVE  \E m \in 1..(n - 1) : At(m, "result", y)'
      <4>1. At(n, "call", z) /\ n \in 1..Len(wire)
        BY <1>1, <1>2, <3>3
      <4>2. PICK m \in 1..(n - 1) : At(m, "result", y)
        BY <2>1, <3>1, <3>3, <4>1 DEF OrderInv
      <4> QED BY <1>1, <4>2
    <3> QED BY <3>1, <3>2, <3>3
  <2>4. ASSUME NEW y \in Calls, NEW n \in 1..Len(wire'), At(n, "result", y)'
        PROVE  Waits(y)' \/ \E m \in 1..(n - 1) : At(m, "call", y)'
    <3>1. CASE At(n, "result", y) /\ n \in 1..Len(wire)
      BY <1>1, <1>3, <2>1, <3>1 DEF OrderInv
    <3>2. CASE n = last /\ y = x
      BY <1>1, <1>2, <1>3, <2>1, <3>2 DEF OrderInv, OnWire
    <3> QED BY <1>1, <1>2, <2>4, <3>1, <3>2
  <2>5. ASSUME NEW y \in Calls, NEW m \in 1..Len(wire'), At(m, "call", y)'
        PROVE  /\ y \in Running' \/ \E n \in (m + 1)..Len(wire') : At(n, "result", y)'
               /\ \A z \in Calls \ {y}, k \in (m + 1)..Len(wire') :
                      Name[z] = Name[y] /\ At(k, "call", z)' =>
                          \E n \in (m + 1)..(k - 1) : At(n, "result", y)'
    <3>1. At(m, "call", y) /\ m \in 1..Len(wire)
      BY <1>1, <1>2, <2>5
    <3>2. /\ y \in Running \/ \E n \in (m + 1)..Len(wire) : At(n, "result", y)
          /\ \A z \in Calls \ {y}, k \in (m + 1)..Len(wire) :
                 Name[z] = Name[y] /\ At(k, "call", z) =>
                     \E n \in (m + 1)..(k - 1) : At(n, "result", y)
      BY <2>1, <3>1 DEF OrderInv
    <3>3. y \in Running' \/ \E n \in (m + 1)..Len(wire') : At(n, "result", y)'
      BY <1>1, <1>3, <3>1, <3>2
    <3>4. ASSUME NEW z \in Calls \ {y}, NEW k \in (m + 1)..Len(wire'), Name[z] = Name[y], At(k, "call", z)'
          PROVE  \E n \in (m + 1)..(k - 1) : At(n, "result", y)'
      <4>1. At(k, "call", z) /\ k \in 1..Len(wire)
        BY <1>1, <1>2, <3>4
      <4>2. PICK n \in (m + 1)..(k - 1) : At(n, "result", y)
        BY <3>2, <3>4, <4>1
      <4> QED BY <1>1, <4>2
    <3> QED BY <3>3, <3>4
  <2>6. OrderInv'
    BY <2>2, <2>3, <2>4, <2>5 DEF OrderInv
  <2> QED BY <2>1, <2>6
<1> QED BY <1>5, <1>6, <1>7, <1>8 DEF IInv

\* agent_error or agent_done: no call runs afterwards.
LEMMA TurnEndStep == ASSUME IInv, TurnError \/ TurnDone PROVE IInv'
<1>1. /\ wire' \in Seq(Frame) /\ Len(wire') = Len(wire) + 1 /\ Len(wire) \in Nat
      /\ \A k \in {"call", "result"} : \A n, y : At(n, k, y)' <=> At(n, k, y)
  BY SendsOther DEF IInv, TurnError, TurnDone
<1>2. \A n, k, y : At(n, k, y) => n \in 1..Len(wire)
  BY DEF At
<1>3. /\ \A y : (Waits(y)' <=> Waits(y)) /\ (Paired(y)' <=> Paired(y)) /\ (Shown(y)' <=> Shown(y))
      /\ UNCHANGED <<begun, pairs, pending>> /\ ended \subseteq ended' /\ ended' \subseteq begun /\ Running' = {}
      /\ ~muddled' => ~muddled /\ Running = {} /\ ended' = ended
  BY DEF TurnError, TurnDone, Waits, Paired, Shown, Running, IInv, TypeOK, TurnInv, TurnError,
     TurnDone
<1>4. TypeOK'
  BY <1>1 DEF IInv, TypeOK, TurnError, TurnDone
<1>5. WireInv'
  BY <1>1, <1>2, <1>3 DEF IInv, WireInv, OnWire
<1>6. QueueInv' /\ PairInv' /\ TurnInv'
  BY <1>3 DEF IInv, QueueInv, PairInv, TurnInv, TurnError, TurnDone
<1>7. ASSUME ~muddled' PROVE OrderInv' /\ \A p \in pairs' : p[1] = p[2]
  <2>1. OrderInv /\ Running = {} /\ Running' = {} /\ \A p \in pairs' : p[1] = p[2]
    BY <1>3, <1>7 DEF IInv
  <2>2. ASSUME NEW y \in Calls, Waits(y)'
        PROVE  /\ Len(pending'[Name[y]]) = 1
               /\ y \in Running' \/ OnWire("result", y)'
               /\ \A z \in Calls, n \in 1..Len(wire') : Name[z] = Name[y] /\ At(n, "call", z)' =>
                      \E m \in 1..(n - 1) : At(m, "result", y)'
    BY <1>1, <1>2, <1>3, <2>1, <2>2 DEF OrderInv, OnWire
  <2>3. ASSUME NEW y \in Calls, NEW n \in 1..Len(wire'), At(n, "result", y)'
        PROVE  Waits(y)' \/ \E m \in 1..(n - 1) : At(m, "call", y)'
    BY <1>1, <1>2, <1>3, <2>1, <2>3 DEF OrderInv
  <2>4. ASSUME NEW y \in Calls, NEW m \in 1..Len(wire'), At(m, "call", y)'
        PROVE  /\ y \in Running' \/ \E n \in (m + 1)..Len(wire') : At(n, "result", y)'
               /\ \A z \in Calls \ {y}, k \in (m + 1)..Len(wire') :
                      Name[z] = Name[y] /\ At(k, "call", z)' =>
                          \E n \in (m + 1)..(k - 1) : At(n, "result", y)'
    BY <1>1, <1>2, <1>3, <2>1, <2>4 DEF OrderInv
  <2> QED BY <2>1, <2>2, <2>3, <2>4 DEF OrderInv
<1> QED BY <1>4, <1>5, <1>6, <1>7 DEF IInv

LEMMA ToolEndsMuteStep == ASSUME IInv, NEW x \in Calls, ToolEndsMute(x) PROVE IInv'
<1>1. /\ \A n, k, y : At(n, k, y)' <=> At(n, k, y)
      /\ \A y : (Waits(y)' <=> Waits(y)) /\ (Paired(y)' <=> Paired(y)) /\ (Shown(y)' <=> Shown(y))
      /\ UNCHANGED <<begun, pairs, pending, wire>> /\ ended \subseteq ended' /\ muddled' /\ turn' = "run"
  BY DEF ToolEndsMute, At, Waits, Paired, Shown, IInv, TypeOK
<1>2. TypeOK'
  BY DEF IInv, TypeOK, ToolEndsMute, Running
<1>3. WireInv' /\ QueueInv' /\ PairInv' /\ TurnInv'
  BY <1>1 DEF IInv, WireInv, OnWire, QueueInv, PairInv, TurnInv, ToolEndsMute
<1> QED BY <1>1, <1>2, <1>3 DEF IInv

\* A connection that closes empties the wire.
LEMMA CloseStep == ASSUME IInv, Close PROVE IInv'
<1>a. wire' = <<>> /\ Len(wire') = 0
  BY DEF Close
<1>b. \A n, k, y : ~At(n, k, y)'
  BY <1>a DEF At
<1>c. /\ ended' = begun /\ ended \subseteq begun /\ UNCHANGED <<begun, pairs, pending>>
      /\ ~muddled' => ~muddled /\ Running = {} /\ wire = <<>>
  BY DEF Close, IInv, TypeOK
<1>1. /\ \A n, k, y : ~At(n, k, y)'
      /\ \A y : (Waits(y)' <=> Waits(y)) /\ (Paired(y)' <=> Paired(y)) /\ (Shown(y)' <=> Shown(y))
      /\ UNCHANGED <<begun, pairs, pending>> /\ ended \subseteq ended' /\ Running' = {}
      /\ ~muddled' => ~muddled /\ Running = {} /\ wire = <<>>
  BY <1>b, <1>c DEF Waits, Paired, Shown, Running
<1>2. TypeOK'
  <2>1. wire' \in Seq(Frame)
    BY <1>a
  <2>2. drops' \in 0..MaxDrops /\ asked' \in 0..MaxTurns
    BY FramesAssumption DEF Close, IInv, TypeOK
  <2>3. muddled' \in BOOLEAN
    BY DEF Close, IInv, TypeOK
  <2>4. ended' \subseteq begun' /\ begun' \subseteq Calls
    BY <1>c DEF IInv, TypeOK
  <2> QED BY <2>1, <2>2, <2>3, <2>4 DEF Close, IInv, TypeOK
<1>3. WireInv' /\ QueueInv' /\ PairInv' /\ TurnInv'
  <2>1. WireInv' /\ QueueInv' /\ PairInv'
    BY <1>1 DEF IInv, WireInv, OnWire, QueueInv, PairInv
  <2>2. TurnInv'
    BY <1>1 DEF IInv, TypeOK, TurnInv, Close
  <2> QED BY <2>1, <2>2
<1>4. ASSUME ~muddled' PROVE OrderInv' /\ \A p \in pairs' : p[1] = p[2]
  <2>1. OrderInv /\ Running = {} /\ \A y : ~OnWire("result", y)
    BY <1>1, <1>4 DEF IInv, OnWire
  <2>2. \A y \in Calls : ~Waits(y)
    BY <2>1 DEF OrderInv
  <2>3. OrderInv'
    BY <1>1, <2>2 DEF OrderInv, OnWire
  <2> QED BY <1>1, <1>4, <2>3 DEF IInv
<1> QED BY <1>2, <1>3, <1>4 DEF IInv

-----------------------------------------------------------------------------
(* The page.                                                               *)

\* The frames move up by one.
LEMMA Received ==
    ASSUME IInv, NEW f, Receive(f)
    PROVE  /\ wire' \in Seq(Frame) /\ Len(wire') = Len(wire) - 1 /\ Len(wire) \in Nat
           /\ \A k, y, n : At(n, k, y)' <=> n \in 1..(Len(wire) - 1) /\ At(n + 1, k, y)
           /\ \A k, y, n : At(n, k, y) => n \in 1..Len(wire)
           /\ \A k, y : f = <<k, y>> <=> At(1, k, y)
<1>1. wire # <<>> /\ wire' = Tail(wire) /\ Head(wire) = f /\ TypeOK
  BY DEF Receive, IInv
<1>2. /\ wire' \in Seq(Frame) /\ Len(wire') = Len(wire) - 1 /\ Len(wire) \in Nat
      /\ \A k, y : \A n \in Nat : At(n, k, y)' <=> n > 0 /\ At(n + 1, k, y)
      /\ \A k, y : Head(wire) = <<k, y>> <=> At(1, k, y)
  BY <1>1, ReceivesFrame
<1>3. \A k, y, n : At(n, k, y) => n \in 1..Len(wire)
  BY DEF At
<1>4. \A k, y, n : At(n, k, y)' => n \in 1..(Len(wire) - 1)
  BY <1>2 DEF At
<1>5. \A k, y, n : At(n, k, y)' <=> n \in 1..(Len(wire) - 1) /\ At(n + 1, k, y)
  <2>1. \A n \in 1..(Len(wire) - 1) : n \in Nat /\ n > 0
    BY <1>2
  <2> QED BY <1>2, <1>4, <2>1
<1>6. \A k, y : f = <<k, y>> <=> At(1, k, y)
  BY <1>1, <1>2
<1> QED BY <1>2, <1>3, <1>5, <1>6

\* OrderInv of the frames after the first, for a page on which other calls wait.
LEMMA OrderShifts ==
    ASSUME IInv, OrderInv, Len(wire') = Len(wire) - 1, UNCHANGED Running,
           \A k, y, n : At(n, k, y)' <=> n \in 1..(Len(wire) - 1) /\ At(n + 1, k, y),
           \A x \in Running : Waits(x) \/ At(1, "call", x) => Waits(x)',
           \A x \in Calls : Waits(x)' =>
               /\ Len(pending'[Name[x]]) = 1
               /\ Waits(x) \/ At(1, "call", x)
               /\ ~At(1, "result", x),
           \A x \in Calls : OnWire("result", x)' /\ (Waits(x) \/ At(1, "call", x)) => Waits(x)'
    PROVE  OrderInv'
<1>1. /\ Len(wire) \in Nat /\ \A k, y, n : At(n, k, y) => n \in 1..Len(wire)
  BY DEF IInv, TypeOK, At
<1>2. \A x \in Running' : (Waits(x) \/ OnWire("call", x))'
  <2>1. ASSUME NEW x \in Running, ~Waits(x)' PROVE OnWire("call", x)'
    <3>1. PICK n \in 1..Len(wire) : At(n, "call", x)
      BY <2>1 DEF OrderInv, OnWire
    <3>2. n # 1
      BY <2>1, <3>1
    <3>3. At(n - 1, "call", x)' /\ n - 1 \in 1..Len(wire')
      BY <1>1, <3>1, <3>2
    <3> QED BY <3>3 DEF OnWire
  <2> QED BY <2>1
<1>3. ASSUME NEW x \in Calls, Waits(x)'
      PROVE  /\ Len(pending'[Name[x]]) = 1
             /\ x \in Running' \/ OnWire("result", x)'
             /\ \A y \in Calls, n \in 1..Len(wire') : Name[y] = Name[x] /\ At(n, "call", y)' =>
                    \E m \in 1..(n - 1) : At(m, "result", x)'
  <2>1. x \in Running' \/ OnWire("result", x)'
    <3>1. x \in Running \/ \E n \in 2..Len(wire) : At(n, "result", x)
      BY <1>1, <1>3 DEF OrderInv, OnWire
    <3>2. ASSUME NEW n \in 2..Len(wire), At(n, "result", x) PROVE At(n - 1, "result", x)'
      BY <1>1, <3>2
    <3> QED BY <1>1, <3>1, <3>2 DEF OnWire
  <2>2. ASSUME NEW y \in Calls, NEW n \in 1..Len(wire'), Name[y] = Name[x], At(n, "call", y)'
        PROVE  \E m \in 1..(n - 1) : At(m, "result", x)'
    <3>1. At(n + 1, "call", y) /\ n + 1 \in 2..Len(wire)
      BY <1>1, <2>2
    <3>2. PICK m \in 2..n : At(m, "result", x)
      <4>1. CASE Waits(x)
        <5>1. PICK m \in 1..n : At(m, "result", x)
          BY <1>1, <2>2, <3>1, <4>1 DEF OrderInv
        <5> QED BY <1>3, <5>1
      <4>2. CASE At(1, "call", x)
        <5>1. x # y
          BY <1>1, <3>1, <4>2 DEF IInv, WireInv
        <5>2. PICK m \in 2..((n + 1) - 1) : At(m, "result", x)
          BY <1>1, <2>2, <3>1, <4>2, <5>1 DEF OrderInv
        <5> QED BY <5>2
      <4> QED BY <1>3, <4>1, <4>2
    <3>3. m - 1 \in 1..(n - 1) /\ At(m - 1, "result", x)'
      BY <1>1, <2>2, <3>2
    <3> QED BY <3>3
  <2> QED BY <1>3, <2>1, <2>2
<1>4. ASSUME NEW x \in Calls, NEW n \in 1..Len(wire'), At(n, "result", x)'
      PROVE  Waits(x)' \/ \E m \in 1..(n - 1) : At(m, "call", x)'
  <2>1. At(n + 1, "result", x) /\ n + 1 \in 2..Len(wire) /\ OnWire("result", x)'
    BY <1>1, <1>4 DEF OnWire
  <2>2. Waits(x) \/ \E m \in 1..n : At(m, "call", x)
    BY <1>1, <2>1 DEF OrderInv
  <2>3. ASSUME NEW m \in 2..n, At(m, "call", x) PROVE m - 1 \in 1..(n - 1) /\ At(m - 1, "call", x)'
    BY <1>1, <1>4, <2>3
  <2> QED BY <2>1, <2>2, <2>3
<1>5. ASSUME NEW x \in Calls, NEW m \in 1..Len(wire'), At(m, "call", x)'
      PROVE  /\ x \in Running' \/ \E n \in (m + 1)..Len(wire') : At(n, "result", x)'
             /\ \A y \in Calls \ {x}, k \in (m + 1)..Len(wire') : Name[y] = Name[x] /\ At(k, "call", y)' =>
                    \E n \in (m + 1)..(k - 1) : At(n, "result", x)'
  <2>1. At(m + 1, "call", x) /\ m + 1 \in 2..Len(wire)
    BY <1>1, <1>5
  <2>2. x \in Running' \/ \E n \in (m + 1)..Len(wire') : At(n, "result", x)'
    <3>1. x \in Running \/ \E n \in (m + 2)..Len(wire) : At(n, "result", x)
      BY <1>1, <2>1 DEF OrderInv
    <3>2. ASSUME NEW n \in (m + 2)..Len(wire), At(n, "result", x)
          PROVE  n - 1 \in (m + 1)..Len(wire') /\ At(n - 1, "result", x)'
      BY <1>1, <1>5, <3>2
    <3> QED BY <3>1, <3>2
  <2>3. ASSUME NEW y \in Calls \ {x}, NEW k \in (m + 1)..Len(wire'), Name[y] = Name[x], At(k, "call", y)'
        PROVE  \E n \in (m + 1)..(k - 1) : At(n, "result", x)'
    <3>1. At(k + 1, "call", y) /\ k + 1 \in (m + 2)..Len(wire)
      BY <1>1, <2>3
    <3>2. PICK n \in (m + 2)..k : At(n, "result", x)
      BY <1>1, <2>1, <2>3, <3>1 DEF OrderInv
    <3>3. n - 1 \in (m + 1)..(k - 1) /\ At(n - 1, "result", x)'
      BY <1>1, <1>5, <2>3, <3>2
    <3> QED BY <3>3
  <2> QED BY <2>2, <2>3
<1> QED BY <1>2, <1>3, <1>4, <1>5 DEF OrderInv

LEMMA OnEndStep == ASSUME IInv, OnEnd PROVE IInv'
<1>1. PICK f \in {<<"error">>, <<"done">>} : Receive(f)
  BY DEF OnEnd
<1>2. /\ wire' \in Seq(Frame) /\ Len(wire') = Len(wire) - 1 /\ Len(wire) \in Nat
      /\ \A k, y, n : At(n, k, y)' <=> n \in 1..(Len(wire) - 1) /\ At(n + 1, k, y)
      /\ \A k, y, n : At(n, k, y) => n \in 1..Len(wire)
      /\ \A k \in {"call", "result"} : \A y : ~At(1, k, y)
  BY <1>1, Received, FramesDiffer
<1>3. /\ \A y : (Waits(y)' <=> Waits(y)) /\ (Paired(y)' <=> Paired(y)) /\ (Shown(y)' <=> Shown(y))
      /\ Running' = Running /\ UNCHANGED <<begun, ended, pairs, pending, muddled, turn>>
  BY DEF OnEnd, Waits, Paired, Shown, Running
<1>4. TypeOK'
  BY <1>2 DEF IInv, TypeOK, OnEnd
<1>5. WireInv'
  BY <1>2, <1>3 DEF IInv, WireInv, OnWire
<1>6. QueueInv' /\ PairInv' /\ TurnInv'
  BY <1>3 DEF IInv, QueueInv, PairInv, TurnInv, OnEnd
<1>7. ASSUME ~muddled' PROVE OrderInv' /\ \A p \in pairs' : p[1] = p[2]
  <2>1. OrderInv /\ \A p \in pairs' : p[1] = p[2]
    BY <1>3, <1>7 DEF IInv
  <2>2. Running \subseteq Calls
    BY DEF IInv, TypeOK, Running
  <2>3. \A x \in Calls : Waits(x)' => Len(pending'[Name[x]]) = 1
    BY <1>3, <2>1 DEF OrderInv
  <2> QED BY <1>2, <1>3, <2>1, <2>2, <2>3, OrderShifts
<1> QED BY <1>4, <1>5, <1>6, <1>7 DEF IInv

LEMMA OnToolCallStep == ASSUME IInv, NEW x \in Calls, OnToolCall(x) PROVE IInv'
<1> DEFINE t == Name[x]
<1>1. /\ wire' \in Seq(Frame) /\ Len(wire') = Len(wire) - 1 /\ Len(wire) \in Nat
      /\ \A k, y, n : At(n, k, y)' <=> n \in 1..(Len(wire) - 1) /\ At(n + 1, k, y)
      /\ \A k, y, n : At(n, k, y) => n \in 1..Len(wire)
      /\ \A k, y : <<"call", x>> = <<k, y>> <=> At(1, k, y)
  BY Received DEF OnToolCall
<1>2. /\ t \in Tools /\ pending[t] \in Seq(Calls) /\ Len(pending[t]) \in Nat
      /\ pending \in [Tools -> Seq(Calls)]
      /\ pending' = [pending EXCEPT ![t] = Append(@, x)]
      /\ UNCHANGED <<begun, ended, pairs, muddled, turn>>
  BY FramesAssumption DEF OnToolCall, IInv, TypeOK
<1>3. /\ \A u \in Tools \ {t} : pending'[u] = pending[u]
      /\ pending' \in [Tools -> Seq(Calls)]
      /\ Len(pending'[t]) = Len(pending[t]) + 1 /\ pending'[t][Len(pending[t]) + 1] = x
      /\ \A n \in 1..Len(pending[t]) : pending'[t][n] = pending[t][n]
  BY <1>2
<1>4. \A y \in Calls : Waits(y)' <=> Waits(y) \/ y = x
  BY <1>2, <1>3, FramesAssumption DEF Waits
<1>5. /\ \A y : (Paired(y)' <=> Paired(y)) /\ (Shown(y)' <=> Shown(y))
      /\ Running' = Running
  BY <1>2 DEF Paired, Shown, Running
<1>6. At(1, "call", x) /\ x \in begun /\ ~Waits(x) /\ ~Paired(x)
  BY <1>1 DEF IInv, WireInv, OnWire
<1>7. TypeOK'
  BY <1>1, <1>3 DEF IInv, TypeOK, OnToolCall
<1>8. WireInv'
  <2>1. ASSUME NEW k \in {"call", "result"}, NEW y \in Calls, NEW m \in 1..Len(wire'),
               NEW n \in 1..Len(wire'), At(m, k, y)', At(n, k, y)' PROVE m = n
    <3>1. At(m + 1, k, y) /\ At(n + 1, k, y) /\ m + 1 \in 1..Len(wire) /\ n + 1 \in 1..Len(wire)
      BY <1>1, <2>1
    <3>2. m + 1 = n + 1
      BY <3>1 DEF IInv, WireInv
    <3> QED BY <1>1, <3>2
  <2>2. ASSUME NEW y \in Calls, OnWire("call", y)' PROVE (y \in begun /\ ~Waits(y) /\ ~Paired(y))'
    <3>1. OnWire("call", y) /\ y # x
      BY <1>1, <1>6, <2>2 DEF OnWire, IInv, WireInv
    <3> QED BY <1>2, <1>4, <1>5, <3>1 DEF IInv, WireInv
  <2>3. ASSUME NEW y \in Calls, OnWire("result", y)' PROVE (y \in ended /\ ~Shown(y))'
    BY <1>1, <1>2, <1>5, <2>3 DEF IInv, WireInv, OnWire
  <2> QED BY <2>1, <2>2, <2>3 DEF WireInv
<1>9. QueueInv'
  <2>1. ASSUME NEW n \in 1..Len(pending'[t])
        PROVE  /\ Name[pending'[t][n]] = t
               /\ pending'[t][n] \in begun' /\ \A p \in pairs' : p[1] # pending'[t][n]
               /\ \A m \in 1..Len(pending'[t]) : pending'[t][m] = pending'[t][n] => m = n
    <3>1. \A m \in 1..Len(pending[t]) : pending[t][m] # x
      BY <1>6 DEF Waits
    <3>2. CASE n = Len(pending[t]) + 1
      BY <1>2, <1>3, <1>5, <1>6, <3>1, <3>2 DEF Paired
    <3>3. CASE n \in 1..Len(pending[t])
      BY <1>2, <1>3, <1>5, <3>1, <3>3 DEF IInv, QueueInv
    <3> QED BY <1>2, <1>3, <2>1, <3>2, <3>3
  <2>2. ASSUME NEW u \in Tools \ {t}, NEW n \in 1..Len(pending'[u])
        PROVE  /\ Name[pending'[u][n]] = u
               /\ pending'[u][n] \in begun' /\ \A p \in pairs' : p[1] # pending'[u][n]
               /\ \A m \in 1..Len(pending'[u]) : pending'[u][m] = pending'[u][n] => m = n
    BY <1>2, <1>3, <1>5, <2>2 DEF IInv, QueueInv
  <2> QED BY <2>1, <2>2 DEF QueueInv
<1>10. PairInv' /\ TurnInv'
  BY <1>2, <1>5 DEF IInv, PairInv, TurnInv, OnToolCall
<1>11. ASSUME ~muddled' PROVE OrderInv' /\ \A p \in pairs' : p[1] = p[2]
  <2>1. OrderInv /\ \A p \in pairs' : p[1] = p[2]
    BY <1>2, <1>11 DEF IInv
  <2>2. ASSUME NEW y \in Calls, Waits(y), Name[y] = t PROVE FALSE
    BY <1>1, <1>6, <2>1, <2>2 DEF OrderInv
  <2>3. Len(pending[t]) = 0
    <3>1. ASSUME NEW n \in 1..Len(pending[t]) PROVE FALSE
      BY <1>2, <2>2, <3>1 DEF IInv, QueueInv, Waits
    <3> QED BY <1>2, <3>1
  <2>4. \A y \in Calls : Waits(y)' =>
            /\ Len(pending'[Name[y]]) = 1
            /\ Waits(y) \/ At(1, "call", y)
            /\ ~At(1, "result", y)
    BY <1>1, <1>2, <1>3, <1>4, <1>6, <2>1, <2>2, <2>3, FramesAssumption DEF OrderInv
  <2>5. \A y \in Calls : Waits(y) \/ At(1, "call", y) => Waits(y)'
    BY <1>1, <1>4
  <2>6. Running \subseteq Calls
    BY DEF IInv, TypeOK, Running
  <2> QED BY <1>1, <1>5, <2>1, <2>4, <2>5, <2>6, OrderShifts
<1> QED BY <1>7, <1>8, <1>9, <1>10, <1>11 DEF IInv

\* A result takes the oldest pending call of its name, if there is one.
LEMMA Takes ==
    ASSUME IInv, NEW x \in Calls, OnToolResult(x)
    PROVE  \E h \in Calls \union {"none"} :
               /\ pairs' = pairs \union {<<h, x>>}
               /\ pending' \in [Tools -> Seq(Calls)]
               /\ h # "none" => Waits(h) /\ Name[h] = Name[x]
               /\ h = "none" => \A y \in Calls : Name[y] = Name[x] => ~Waits(y)
               /\ \A y \in Calls : Waits(y)' <=> Waits(y) /\ y # h
               /\ \A t \in Tools : \A n \in 1..Len(pending'[t]) :
                      /\ Name[pending'[t][n]] = t
                      /\ pending'[t][n] \in begun /\ pending'[t][n] # h
                      /\ \A p \in pairs : p[1] # pending'[t][n]
                      /\ \A m \in 1..Len(pending'[t]) : pending'[t][m] = pending'[t][n] => m = n
               /\ \A y \in Calls : Name[y] # Name[x] => Len(pending'[Name[y]]) = Len(pending[Name[y]])
               /\ Len(pending[Name[x]]) = 1 => \A y \in Calls : Name[y] = Name[x] => ~Waits(y)'
<1> DEFINE t == Name[x]
<1>1. /\ t \in Tools /\ pending[t] \in Seq(Calls) /\ Len(pending[t]) \in Nat
      /\ pending \in [Tools -> Seq(Calls)] /\ QueueInv
  BY FramesAssumption DEF IInv, TypeOK
<1>2. CASE pending[t] = <<>> /\ pairs' = pairs \union {<<"none", x>>} /\ UNCHANGED pending
  <2>1. \A y \in Calls : Name[y] = t => ~Waits(y)
    BY <1>1, <1>2 DEF Waits
  <2>2. \A y \in Calls : Waits(y)' <=> Waits(y)
    BY <1>2 DEF Waits
  <2>3. \A u \in Tools : \A n \in 1..Len(pending[u]) : pending[u][n] # "none"
    BY <1>1, FramesAssumption
  <2>4. Len(pending[t]) # 1 /\ \A y \in Calls : y # "none"
    BY <1>2, FramesAssumption
  <2> WITNESS "none" \in Calls \union {"none"}
  <2> QED BY <1>1, <1>2, <2>1, <2>2, <2>3, <2>4 DEF QueueInv
<1>3. CASE /\ pending[t] # <<>>
           /\ pairs' = pairs \union {<<Head(pending[t]), x>>}
           /\ pending' = [pending EXCEPT ![t] = Tail(@)]
  <2> DEFINE h == Head(pending[t])
  <2>1. /\ h \in Calls /\ Len(pending[t]) >= 1 /\ h = pending[t][1] /\ h # "none"
        /\ \A u \in Tools \ {t} : pending'[u] = pending[u]
        /\ pending' \in [Tools -> Seq(Calls)]
        /\ Len(pending'[t]) = Len(pending[t]) - 1
        /\ \A n \in 1..(Len(pending[t]) - 1) : pending'[t][n] = pending[t][n + 1]
    BY <1>1, <1>3, FramesAssumption
  <2>2. Name[h] = t /\ Waits(h)
    BY <1>1, <2>1 DEF QueueInv, Waits
  <2>3. ASSUME NEW u \in Tools, NEW n \in 1..Len(pending'[u])
        PROVE  /\ Name[pending'[u][n]] = u
               /\ pending'[u][n] \in begun /\ pending'[u][n] # h
               /\ \A p \in pairs : p[1] # pending'[u][n]
               /\ \A m \in 1..Len(pending'[u]) : pending'[u][m] = pending'[u][n] => m = n
    <3>1. CASE u = t
      <4>1. n + 1 \in 1..Len(pending[t]) /\ pending'[t][n] = pending[t][n + 1]
            /\ 1 \in 1..Len(pending[t])
        BY <1>1, <2>1, <2>3, <3>1
      <4>2. pending[t][n + 1] # h
        BY <1>1, <2>1, <4>1 DEF QueueInv
      <4>3. ASSUME NEW m \in 1..Len(pending'[t]), pending'[t][m] = pending'[t][n] PROVE m = n
        <5>1. m + 1 \in 1..Len(pending[t]) /\ pending'[t][m] = pending[t][m + 1]
          BY <1>1, <2>1, <4>3
        <5>2. pending[t][m + 1] = pending[t][n + 1]
          BY <4>1, <4>3, <5>1
        <5>3. m + 1 = n + 1
          BY <1>1, <4>1, <5>1, <5>2 DEF QueueInv
        <5> QED BY <1>1, <2>1, <5>3
      <4> QED BY <1>1, <3>1, <4>1, <4>2, <4>3 DEF QueueInv
    <3>2. CASE u # t
      BY <1>1, <2>1, <2>2, <2>3, <3>2 DEF QueueInv
    <3> QED BY <3>1, <3>2
  <2>4. ASSUME NEW y \in Calls PROVE Waits(y)' <=> Waits(y) /\ y # h
    <3>1. Name[y] \in Tools
      BY FramesAssumption
    <3>2. ASSUME Waits(y)' PROVE Waits(y) /\ y # h
      <4>1. PICK n \in 1..Len(pending'[Name[y]]) : pending'[Name[y]][n] = y
        BY <3>2 DEF Waits
      <4>2. y # h
        BY <2>3, <3>1, <4>1
      <4>3. Waits(y)
        <5>1. CASE Name[y] = t
          <6>1. n + 1 \in 1..Len(pending[t]) /\ pending[t][n + 1] = y
            BY <1>1, <2>1, <4>1, <5>1
          <6> QED BY <5>1, <6>1 DEF Waits
        <5>2. CASE Name[y] # t
          BY <2>1, <3>1, <4>1, <5>2 DEF Waits
        <5> QED BY <5>1, <5>2
      <4> QED BY <4>2, <4>3
    <3>3. ASSUME Waits(y), y # h PROVE Waits(y)'
      <4>1. PICK n \in 1..Len(pending[Name[y]]) : pending[Name[y]][n] = y
        BY <3>3 DEF Waits
      <4>2. CASE Name[y] = t
        <5>1. n # 1 /\ n - 1 \in 1..Len(pending'[t]) /\ pending'[t][n - 1] = y
          BY <1>1, <2>1, <3>3, <4>1, <4>2
        <5> QED BY <4>2, <5>1 DEF Waits
      <4>3. CASE Name[y] # t
        BY <2>1, <3>1, <4>1, <4>3 DEF Waits
      <4> QED BY <4>2, <4>3
    <3> QED BY <3>2, <3>3
  <2>5. ASSUME Len(pending[t]) = 1, NEW y \in Calls, Name[y] = t PROVE ~Waits(y)'
    BY <2>1, <2>5 DEF Waits
  <2>6. \A y \in Calls : Name[y] # t => Len(pending'[Name[y]]) = Len(pending[Name[y]])
    BY <2>1, FramesAssumption
  <2>7. h \in Calls \union {"none"}
    BY <2>1
  <2> WITNESS h \in Calls \union {"none"}
  <2> QED BY <1>3, <2>1, <2>2, <2>3, <2>4, <2>5, <2>6
<1> QED BY <1>2, <1>3 DEF OnToolResult

LEMMA OnToolResultStep == ASSUME IInv, NEW x \in Calls, OnToolResult(x) PROVE IInv'
<1>1. /\ wire' \in Seq(Frame) /\ Len(wire') = Len(wire) - 1 /\ Len(wire) \in Nat
      /\ \A k, y, n : At(n, k, y)' <=> n \in 1..(Len(wire) - 1) /\ At(n + 1, k, y)
      /\ \A k, y, n : At(n, k, y) => n \in 1..Len(wire)
      /\ At(1, "result", x) /\ ~At(1, "call", x)
      /\ \A y : y # x => ~At(1, "result", y)
      /\ \A y : ~At(1, "call", y)
  BY Received DEF OnToolResult
<1>2. PICK h \in Calls \union {"none"} :
               /\ pairs' = pairs \union {<<h, x>>}
               /\ pending' \in [Tools -> Seq(Calls)]
               /\ h # "none" => Waits(h) /\ Name[h] = Name[x]
               /\ h = "none" => \A y \in Calls : Name[y] = Name[x] => ~Waits(y)
               /\ \A y \in Calls : Waits(y)' <=> Waits(y) /\ y # h
               /\ \A t \in Tools : \A n \in 1..Len(pending'[t]) :
                      /\ Name[pending'[t][n]] = t
                      /\ pending'[t][n] \in begun /\ pending'[t][n] # h
                      /\ \A p \in pairs : p[1] # pending'[t][n]
                      /\ \A m \in 1..Len(pending'[t]) : pending'[t][m] = pending'[t][n] => m = n
               /\ \A y \in Calls : Name[y] # Name[x] => Len(pending'[Name[y]]) = Len(pending[Name[y]])
               /\ Len(pending[Name[x]]) = 1 => \A y \in Calls : Name[y] = Name[x] => ~Waits(y)'
  BY Takes
<1>3. UNCHANGED <<link, enabled, asked, turn, begun, ended, turns, drops, muddled>>
      /\ Running' = Running
  BY DEF OnToolResult, Running
<1>4. x \in ended /\ ~Shown(x) /\ OnWire("result", x)
  BY <1>1 DEF IInv, WireInv, OnWire
<1>5. h # "none" => h \in Calls /\ h \in begun /\ ~Paired(h)
  BY <1>2, FramesAssumption DEF IInv, QueueInv, Waits, Paired
<1>6. /\ \A y \in Calls : Paired(y)' <=> Paired(y) \/ y = h
      /\ \A y : Shown(y)' <=> Shown(y) \/ y = x
  <2>1. /\ \A p \in pairs' : p \in pairs \/ (p[1] = h /\ p[2] = x)
        /\ pairs \subseteq pairs'
        /\ \E p \in pairs' : p[1] = h /\ p[2] = x
    <3>1. <<h, x>> \in pairs' /\ <<h, x>>[1] = h /\ <<h, x>>[2] = x
      BY <1>2
    <3> QED BY <1>2, <3>1
  <2>2. ASSUME NEW y PROVE Paired(y)' <=> Paired(y) \/ y = h
    BY <2>1 DEF Paired
  <2>3. ASSUME NEW y PROVE Shown(y)' <=> Shown(y) \/ y = x
    BY <2>1 DEF Shown
  <2> QED BY <2>2, <2>3
<1>7. TypeOK'
  BY <1>1, <1>2, <1>3 DEF IInv, TypeOK
<1>8. WireInv'
  <2>1. ASSUME NEW k \in {"call", "result"}, NEW y \in Calls, NEW m \in 1..Len(wire'),
               NEW n \in 1..Len(wire'), At(m, k, y)', At(n, k, y)' PROVE m = n
    <3>1. At(m + 1, k, y) /\ At(n + 1, k, y) /\ m + 1 \in 1..Len(wire) /\ n + 1 \in 1..Len(wire)
      BY <1>1, <2>1
    <3>2. m + 1 = n + 1
      BY <3>1 DEF IInv, WireInv
    <3> QED BY <1>1, <3>2
  <2>2. ASSUME NEW y \in Calls, OnWire("call", y)' PROVE (y \in begun /\ ~Waits(y) /\ ~Paired(y))'
    <3>1. OnWire("call", y)
      BY <1>1, <2>2 DEF OnWire
    <3>2. y \in begun /\ ~Waits(y) /\ ~Paired(y)
      BY <3>1 DEF IInv, WireInv
    <3>3. y # h
      BY <1>2, <3>2, FramesAssumption
    <3> QED BY <1>2, <1>3, <1>6, <3>2, <3>3
  <2>3. ASSUME NEW y \in Calls, OnWire("result", y)' PROVE (y \in ended /\ ~Shown(y))'
    <3>1. OnWire("result", y) /\ y # x
      BY <1>1, <2>3 DEF OnWire, IInv, WireInv
    <3> QED BY <1>3, <1>6, <3>1 DEF IInv, WireInv
  <2> QED BY <2>1, <2>2, <2>3 DEF WireInv
<1>9. QueueInv'
  BY <1>2, <1>3 DEF QueueInv
<1>10. PairInv'
  <2>1. \A p \in pairs' : p \in pairs \/ p = <<h, x>>
    BY <1>2
  <2>2. \A p \in pairs : p[2] # x /\ (h # "none" => p[1] # h)
    BY <1>4, <1>5 DEF Shown, Paired
  <2> QED BY <1>2, <1>3, <1>4, <1>5, <2>1, <2>2 DEF IInv, PairInv
<1>11. TurnInv'
  BY <1>3 DEF IInv, TurnInv, OnToolResult
<1>12. ASSUME ~muddled' PROVE OrderInv' /\ \A p \in pairs' : p[1] = p[2]
  <2>1. OrderInv /\ \A p \in pairs : p[1] = p[2]
    BY <1>3, <1>12 DEF IInv
  <2>2. Waits(x) /\ Len(pending[Name[x]]) = 1
    BY <1>1, <2>1 DEF OrderInv
  <2>3. h = x
    <3>1. \A y \in Calls : Name[y] = Name[x] => ~Waits(y)'
      BY <1>2, <2>2
    <3> QED BY <1>2, <2>2, <3>1
  <2>4. \A y \in Calls : Waits(y)' => Len(pending'[Name[y]]) = 1 /\ Waits(y) /\ ~At(1, "result", y)
    BY <1>1, <1>2, <2>1, <2>2, <2>3 DEF OrderInv
  <2>5. x \notin Running /\ Running \subseteq Calls
    BY <1>4 DEF Running, IInv, TypeOK
  <2>6. ~OnWire("result", x)'
    BY <1>6, <1>8 DEF WireInv
  <2>7. \A y \in Running : Waits(y) \/ At(1, "call", y) => Waits(y)'
    BY <1>1, <1>2, <2>3, <2>5
  <2>8. \A y \in Calls : OnWire("result", y)' /\ (Waits(y) \/ At(1, "call", y)) => Waits(y)'
    BY <1>1, <1>2, <2>3, <2>6
  <2>9. OrderInv'
    BY <1>1, <1>3, <2>1, <2>4, <2>7, <2>8, OrderShifts
  <2> QED BY <1>2, <2>1, <2>3, <2>9
<1> QED BY <1>7, <1>8, <1>9, <1>10, <1>11, <1>12 DEF IInv

-----------------------------------------------------------------------------
(* The theorems.                                                           *)

LEMMA InitIInv == Init => IInv
<1> SUFFICES ASSUME Init PROVE IInv
  OBVIOUS
<1>1. wire = <<>> /\ pairs = {} /\ begun = {} /\ ended = {} /\ turn = "idle" /\ Len(wire) = 0
  BY DEF Init
<1>2. \A t \in Tools : pending[t] = <<>> /\ Len(pending[t]) = 0
  BY DEF Init
<1>3. TypeOK
  <2>1. wire \in Seq(Frame) /\ pending \in [Tools -> Seq(Calls)]
    BY DEF Init
  <2>2. 0 \in 0..MaxTurns /\ 0 \in 0..MaxDrops
    BY FramesAssumption
  <2> QED BY <1>1, <2>1, <2>2 DEF Init, TypeOK
<1>4. \A x \in Calls : ~Waits(x)
  BY <1>2, FramesAssumption DEF Waits
<1>5. WireInv /\ QueueInv /\ PairInv /\ TurnInv
  BY <1>1, <1>2 DEF WireInv, OnWire, QueueInv, PairInv, TurnInv, Running, Init
<1>6. OrderInv
  BY <1>1, <1>4 DEF OrderInv, Running
<1> QED BY <1>1, <1>3, <1>5, <1>6 DEF IInv

LEMMA Step == IInv /\ [Next]_vars => IInv'
<1> SUFFICES ASSUME IInv, [Next]_vars PROVE IInv'
  OBVIOUS
<1>1. CASE Open \/ ReadTurn
  <2>1. UNCHANGED <<begun, ended, wire, pending, pairs, muddled>>
    BY <1>1 DEF Open, ReadTurn
  <2>2. TypeOK'
    <3>1. asked' \in 0..MaxTurns
      BY <1>1, FramesAssumption DEF Open, ReadTurn, IInv, TypeOK
    <3> QED BY <1>1, <2>1, <3>1 DEF Open, ReadTurn, IInv, TypeOK
  <2>3. TurnInv'
    BY <1>1 DEF Open, ReadTurn, IInv, TypeOK, TurnInv, Running
  <2> QED BY <2>1, <2>2, <2>3, QuietStep
<1>2. CASE Submit
  <2>1. UNCHANGED <<begun, ended, wire, pending, pairs, muddled>>
    BY <1>2 DEF Submit
  <2>2. TypeOK'
    <3>1. asked' \in 0..MaxTurns /\ turns' \in 0..MaxTurns
      BY <1>2, FramesAssumption DEF Submit, IInv, TypeOK, TurnInv
    <3> QED BY <1>2, <2>1, <3>1 DEF Submit, IInv, TypeOK
  <2>3. TurnInv'
    BY <1>2 DEF Submit, IInv, TypeOK, TurnInv, Running
  <2> QED BY <2>1, <2>2, <2>3, QuietStep
<1>3. CASE UNCHANGED vars
  <2>1. UNCHANGED <<begun, ended, wire, pending, pairs, muddled>>
    BY <1>3 DEF vars
  <2>2. TypeOK' /\ TurnInv'
    BY <1>3 DEF vars, IInv, TypeOK, TurnInv, Running
  <2> QED BY <2>1, <2>2, QuietStep
<1> QED
  BY <1>1, <1>2, <1>3, CloseStep, TurnEndStep, ToolStartStep, ToolEndStep, ToolEndsMuteStep,
     OnEndStep, OnToolCallStep, OnToolResultStep DEF Next, Handler, Page

LEMMA Invariance == Spec => []IInv
BY InitIInv, Step, PTL DEF Spec

\* The types of the page's queues and of the frames, and the bounds of the counters.
THEOREM TypeCorrect == Spec => []TypeOK
<1>1. IInv => TypeOK
  BY DEF IInv
<1> QED BY <1>1, Invariance, PTL

\* No result is shown twice, and none with a call of another name or with one that
\* another result is shown with, also after connections dropped and calls overlapped.
THEOREM ShownOnce == Spec => []ResultsShownOnce
<1>1. ASSUME IInv, NEW p \in pairs, p[1] # "none"
      PROVE  Name[p[1]] = Name[p[2]] /\ p[1] \notin ToSet(pending[Name[p[1]]])
  <2>1. Name[p[1]] = Name[p[2]] /\ p[1] \in Calls /\ Name[p[1]] \in Tools
    BY <1>1, FramesAssumption DEF IInv, PairInv, TypeOK
  <2>2. pending[Name[p[1]]] \in Seq(Calls)
    BY <1>1, <2>1 DEF IInv, TypeOK
  <2> QED BY <1>1, <2>1, <2>2 DEF IInv, QueueInv, ToSet
<1>2. IInv => ResultsShownOnce
  BY <1>1 DEF IInv, PairInv, ResultsShownOnce
<1> QED BY <1>2, Invariance, PTL

\* While no two calls of a name overlapped and none lost its frame, the page shows
\* every result with the call it answers, although frames carry no id.
THEOREM PairedRight == Spec => []PairedUnlessMuddled
<1>1. IInv => PairedUnlessMuddled
  BY DEF IInv, PairedUnlessMuddled
<1> QED BY <1>1, Invariance, PTL

\* In the same case no placeholder is left when a turn is over and its frames arrived.
THEOREM NoneLeft == Spec => []NothingPending
<1>1. ASSUME IInv, ~muddled, turn = "idle", wire = <<>>, NEW t \in Tools PROVE pending[t] = <<>>
  <2>1. Running = {} /\ Len(wire) = 0
    BY <1>1 DEF IInv, TurnInv
  <2>2. \A x \in Calls : ~Waits(x)
    BY <1>1, <2>1 DEF IInv, OrderInv, OnWire
  <2>3. pending[t] \in Seq(Calls)
    BY <1>1 DEF IInv, TypeOK
  <2>4. ASSUME NEW n \in 1..Len(pending[t]) PROVE FALSE
    BY <1>1, <2>2, <2>3, <2>4 DEF IInv, QueueInv, Waits
  <2> QED BY <2>3, <2>4
<1>2. IInv => NothingPending
  BY <1>1 DEF NothingPending
<1> QED BY <1>2, Invariance, PTL
=============================================================================
