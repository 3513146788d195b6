-------------------------- MODULE AutoMerge_proofs --------------------------
(***************************************************************************)
(* What a merge may have missed, for any concurrency groups and any number  *)
(* of changes of the pull request.                                          *)
(***************************************************************************)
EXTENDS AutoMerge, TLAPS

TypeInv ==
    /\ blocked \subseteq Gates \ {"checks"}
    /\ at \in [Groups -> 0..7]
    /\ late \in [Groups -> SUBSET Gates]

\* A gate that a run is past does not block, or began to after the run had read it.
PastInv ==
    \A g \in Groups : \A n \in Order :
        at[g] > n + 1 /\ Gate[n] \in Blocking => Gate[n] \in late[g]

IInv == TypeInv /\ PastInv

LEMMA GatesNamed == "checks" \in Gates /\ \A n \in Order : Gate[n] \in Gates
  BY DEF Gates, Gate, Order

LEMMA InitEstablishes == Init => IInv
  BY GatesNamed DEF Init, IInv, TypeInv, PastInv, Gates, Order, Idle

\* A run that is created stays in front of the gates.
LEMMA TriggersInFront ==
    ASSUME TypeInv, NEW g \in Groups, NEW pr \in BOOLEAN, Triggers(g, pr)
    PROVE  /\ at' \in [Groups -> 0..7]
           /\ \A h \in Groups : at'[h] = at[h] \/ at'[h] = 1
  BY DEF TypeInv, Triggers, Idle, Resolving

LEMMA EndsInFront ==
    ASSUME TypeInv, NEW g \in Groups, Ends(g)
    PROVE  /\ at' \in [Groups -> 0..7] /\ late' \in [Groups -> SUBSET Gates]
           /\ at'[g] \in {0, 1}
           /\ \A h \in Groups \ {g} : at'[h] = at[h] /\ late'[h] = late[h]
  BY DEF TypeInv, Ends, Idle, Resolving

\* A change of the pull request that no run looks at: what blocks from now on was
\* blocking already or is noted as late.
LEMMA ChangesHold ==
    ASSUME IInv, NEW gate \in Gates,
           at' \in [Groups -> 0..7], \A h \in Groups : at'[h] = at[h] \/ at'[h] = 1,
           blocked' \subseteq Gates \ {"checks"},
           \/ Blocking' \subseteq Blocking /\ UNCHANGED late
           \/ Blocking' \subseteq Blocking \union {gate} /\ Later(gate)
    PROVE  IInv'
<1>1. TypeInv'
  BY DEF IInv, TypeInv, Later
<1>2. ASSUME NEW g \in Groups, NEW n \in Order, at'[g] > n + 1, Gate[n] \in Blocking'
      PROVE  Gate[n] \in late'[g]
  <2>1. at[g] > n + 1
    BY <1>2 DEF Order
  <2>2. CASE Gate[n] \in Blocking
    BY <1>2, <2>1, <2>2 DEF IInv, TypeInv, PastInv, Later
  <2>3. CASE Gate[n] \notin Blocking
    BY <1>2, <2>1, <2>3 DEF Later
  <2> QED BY <2>2, <2>3
<1> QED BY <1>1, <1>2 DEF IInv, PastInv

\* A step of a run that ends it, or takes it past a gate that does not block.
LEMMA RunsHold ==
    ASSUME IInv, NEW g \in Groups, UNCHANGED <<blocked, ci>>,
           \/ Ends(g)
           \/ /\ at' = [at EXCEPT ![g] = @ + 1] /\ UNCHANGED late
              /\ \/ at[g] = Resolving
                 \/ at[g] \in 2..6 /\ Gate[at[g] - 1] \notin Blocking
    PROVE  IInv'
<1>1. Blocking' = Blocking
  BY DEF Blocking
<1>2. CASE Ends(g)
  BY <1>1, <1>2, EndsInFront DEF IInv, TypeInv, PastInv, Order
<1>3. CASE ~Ends(g)
  <2>1. TypeInv'
    BY <1>3 DEF IInv, TypeInv, Resolving
  <2>2. ASSUME NEW h \in Groups, NEW n \in Order, at'[h] > n + 1, Gate[n] \in Blocking'
        PROVE  Gate[n] \in late'[h]
    <3>1. at[h] > n + 1
      BY <1>1, <1>3, <2>2 DEF IInv, TypeInv, Order, Resolving
    <3> QED BY <1>1, <1>3, <2>2, <3>1 DEF IInv, PastInv
  <2> QED BY <2>1, <2>2 DEF IInv, PastInv
<1> QED BY <1>2, <1>3

LEMMA NextPreserves == ASSUME IInv, [Next]_vars PROVE IInv'
<1>a. TypeInv /\ Branch \in Groups
  BY GroupAssumption DEF IInv
<1>1. ASSUME NEW gate \in Gates \ {"checks"}, Blocks(gate) PROVE IInv'
  <2>1. at' \in [Groups -> 0..7] /\ \A h \in Groups : at'[h] = at[h] \/ at'[h] = 1
    BY <1>1, <1>a, TriggersInFront DEF Blocks, runs, TypeInv
  <2>2. Blocking' \subseteq Blocking \union {gate} /\ Later(gate)
        /\ blocked' \subseteq Gates \ {"checks"}
    BY <1>1, <1>a DEF Blocks, Blocking, TypeInv
  <2> QED BY <1>1, <2>1, <2>2, ChangesHold
<1>2. ASSUME NEW gate \in Gates \ {"checks"}, Unblocks(gate) PROVE IInv'
  <2>1. at' \in [Groups -> 0..7] /\ \A h \in Groups : at'[h] = at[h] \/ at'[h] = 1
    BY <1>2, <1>a, TriggersInFront DEF Unblocks, runs, TypeInv
  <2>2. Blocking' \subseteq Blocking /\ UNCHANGED late /\ blocked' \subseteq Gates \ {"checks"}
    BY <1>2, <1>a DEF Unblocks, Blocking, TypeInv
  <2> QED BY <1>2, <2>1, <2>2, ChangesHold
<1>3. CASE Push \/ CiAgain
  <2>1. at' \in [Groups -> 0..7] /\ \A h \in Groups : at'[h] = at[h] \/ at'[h] = 1
    BY <1>3, <1>a, TriggersInFront DEF Push, CiAgain, runs, TypeInv
  <2>2. Blocking' \subseteq Blocking \union {"checks"} /\ Later("checks")
        /\ blocked' \subseteq Gates \ {"checks"}
    BY <1>3, <1>a DEF Push, CiAgain, Blocking, TypeInv
  <2> QED BY <2>1, <2>2, ChangesHold, GatesNamed
<1>4. CASE Touch \/ Dispatch
  <2>1. at' \in [Groups -> 0..7] /\ \A h \in Groups : at'[h] = at[h] \/ at'[h] = 1
    BY <1>4, <1>a, TriggersInFront DEF Touch, Dispatch
  <2>2. Blocking' \subseteq Blocking /\ UNCHANGED late /\ blocked' \subseteq Gates \ {"checks"}
    BY <1>4, <1>a DEF Touch, Dispatch, Blocking, TypeInv
  <2> QED BY <2>1, <2>2, ChangesHold, GatesNamed
<1>5. CASE CiCompletes \/ OlderCompletes
  <2>1. at' \in [Groups -> 0..7] /\ \A h \in Groups : at'[h] = at[h] \/ at'[h] = 1
    BY <1>5, <1>a, TriggersInFront DEF CiCompletes, OlderCompletes, Completed
  <2>2. Blocking' \subseteq Blocking /\ UNCHANGED late /\ blocked' \subseteq Gates \ {"checks"}
    BY <1>5, <1>a DEF CiCompletes, OlderCompletes, Blocking, TypeInv
  <2> QED BY <2>1, <2>2, ChangesHold, GatesNamed
<1>6. ASSUME NEW g \in Groups, Resolve(g) PROVE IInv'
  BY <1>6, RunsHold DEF Resolve
<1>7. ASSUME NEW g \in Groups, ReadGate(g) PROVE IInv'
  BY <1>7, RunsHold DEF ReadGate
<1>8. ASSUME NEW g \in Groups, Merge(g) \/ Fails(g) PROVE IInv'
  BY <1>8, RunsHold DEF Merge, Fails
<1>9. CASE UNCHANGED vars
  BY <1>9 DEF vars, runs, IInv, TypeInv, PastInv, Blocking
<1> QED BY <1>1, <1>2, <1>3, <1>4, <1>5, <1>6, <1>7, <1>8, <1>9 DEF Next, RunStep

LEMMA Invariance == Spec => []IInv
<1>1. Init => IInv BY InitEstablishes
<1>2. IInv /\ [Next]_vars => IInv' BY NextPreserves
<1> QED BY <1>1, <1>2, PTL DEF Spec

\* A merge goes out only over blocks that began after its own run had read the gate,
\* whatever other runs, errors and people do meanwhile.
THEOREM MergesMissOnlyLateBlocks == Spec => []GateHeld
<1>1. ASSUME IInv, NEW g \in Groups, at[g] = Merging, NEW b \in Blocking PROVE b \in late[g]
  <2>1. PICK n \in Order : b = Gate[n]
    BY <1>1, GatesNamed DEF IInv, TypeInv, Blocking, Gates, Order
  <2> QED BY <1>1, <2>1 DEF IInv, PastInv, Merging, Order
<1>2. IInv => GateHeld
  BY <1>1 DEF GateHeld
<1> QED BY <1>2, Invariance, PTL
=============================================================================
