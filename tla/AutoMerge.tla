------------------------------ MODULE AutoMerge ------------------------------
(***************************************************************************)
(* .github/workflows/auto-merge.yml for one pull request.  Events start     *)
(* runs of the workflow; runs of a concurrency group follow each other, and *)
(* a run that waits gives way to a newer one.  A run reads the gates one    *)
(* after the other, each with a request of its own, and merges when none    *)
(* blocks, while people, reviewers and CI go on changing the pull request.  *)
(* A gate is seen only as blocking or not.                                 *)
(***************************************************************************)
EXTENDS Integers

CONSTANTS Groups,      \* concurrency groups: the branch, the number of the pull request
          Branch,      \* the group of every event but workflow_dispatch
          MaxChanges   \* bound on what happens to the pull request

ASSUME GroupAssumption == Branch \in Groups /\ MaxChanges \in Nat

\* What a run reads, in the order in which it reads it: state, draft and labels of
\* the pull request, labels of the issues it closes, checks, reviews with their
\* requests, and threads.
Gate == <<"pr", "issue", "checks", "reviews", "threads">>
Gates == {Gate[n] : n \in 1..5}
Order == 1..5

Idle == 0       \* values of "at" beside 2..6, where a run is at Gate[at - 1]
Resolving == 1
Merging == 7

VARIABLES
    blocked,  \* the gates that block, but for "checks"
    ci,       \* the check of the head commit
    older,    \* CI runs of earlier commits that have not completed
    merged,   \* the pull request is merged
    at,       \* where the run of each group is
    useful,   \* the run of a group has a pull request to look at
    waiting,  \* the run that waits in each group
    late,     \* gates that began to block after the run of a group had read them
    told,     \* an event came since the last change that lifts a block
    changes   \* what happened so far

runs == <<at, useful, waiting>>
vars == <<blocked, ci, older, merged, runs, late, told, changes>>

Blocking == blocked \union (IF ci = "pass" THEN {} ELSE {"checks"})

Init ==
    /\ blocked \in SUBSET (Gates \ {"checks"})
    /\ ci = "running"
    /\ older = 0
    /\ merged = FALSE
    /\ at = [g \in Groups |-> Idle]
    /\ useful = [g \in Groups |-> TRUE]
    /\ waiting = [g \in Groups |-> "none"]
    /\ late = [g \in Groups |-> {}]
    /\ told = FALSE
    /\ changes = 0

-----------------------------------------------------------------------------
(* Events.                                                                 *)

\* A run is created.  It starts when its group is free, and waits otherwise, in the
\* place of the one that waited.
Triggers(g, pr) ==
    IF at[g] = Idle
    THEN /\ at' = [at EXCEPT ![g] = Resolving]
         /\ useful' = [useful EXCEPT ![g] = pr]
         /\ UNCHANGED waiting
    ELSE /\ waiting' = [waiting EXCEPT ![g] = IF pr THEN "useful" ELSE "useless"]
         /\ UNCHANGED <<at, useful>>

Change == changes < MaxChanges /\ changes' = changes + 1 /\ ~merged

\* A gate begins to block: the runs that are past it do not look again.
Later(gate) ==
    late' = [g \in Groups |->
        late[g] \union {b \in {gate} : \E n \in Order : Gate[n] = b /\ at[g] > n + 1}]

Blocks(gate) ==
    /\ Change
    /\ gate \notin blocked
    /\ blocked' = blocked \union {gate}
    /\ Later(gate)
    /\ \/ gate # "issue" /\ Triggers(Branch, TRUE) /\ told' = TRUE
       \/ UNCHANGED <<runs, told>>
    /\ UNCHANGED <<ci, older, merged>>

\* The types of pull_request that lift a block are triggers, of the reviews only a
\* submitted one is: a dismissed review, a request that is withdrawn, a resolved
\* thread and the labels of an issue start nothing.
Unblocks(gate) ==
    /\ Change
    /\ gate \in blocked
    /\ blocked' = blocked \ {gate}
    /\ \/ gate \in {"pr", "reviews"} /\ Triggers(Branch, TRUE) /\ told' = TRUE
       \/ gate # "pr" /\ told' = FALSE /\ UNCHANGED runs
    /\ UNCHANGED <<ci, older, merged, late>>

\* synchronize: the check of the new commit is pending.
Push ==
    /\ Change
    /\ ci' = "running"
    /\ older' = older + (IF ci = "running" THEN 1 ELSE 0)
    /\ Later("checks")
    /\ Triggers(Branch, TRUE) /\ told' = TRUE
    /\ UNCHANGED <<blocked, merged>>

\* Somebody has CI of the same commit run again: no event of the workflow.
CiAgain ==
    /\ Change
    /\ ci # "running"
    /\ ci' = "running"
    /\ Later("checks")
    /\ UNCHANGED <<blocked, older, merged, runs, told>>

\* Another label, or a review that changes nothing.
Touch ==
    /\ Change
    /\ Triggers(Branch, TRUE) /\ told' = TRUE
    /\ UNCHANGED <<blocked, ci, older, merged, late>>

\* workflow_dispatch: the group is that of the number.
Dispatch ==
    /\ Change
    /\ \E g \in Groups \ {Branch} : Triggers(g, TRUE)
    /\ told' = TRUE
    /\ UNCHANGED <<blocked, ci, older, merged, late>>

\* workflow_run: a run that looks at nothing may take the place of one that waits.
Completed(passed) ==
    /\ Triggers(Branch, passed)
    /\ told' = (passed \/ (told /\ waiting[Branch] # "useful"))

CiCompletes ==
    /\ ~merged
    /\ ci = "running"
    /\ \E passed \in BOOLEAN :
          /\ ci' = IF passed THEN "pass" ELSE "fail"
          /\ Completed(passed)
    /\ UNCHANGED <<blocked, older, merged, late, changes>>

\* CI of a commit that is not the head any more; it has the branch of the others.
OlderCompletes ==
    /\ ~merged
    /\ older > 0
    /\ older' = older - 1
    /\ \E passed \in BOOLEAN : Completed(passed)
    /\ UNCHANGED <<blocked, ci, merged, late, changes>>

-----------------------------------------------------------------------------
(* A run.                                                                  *)

\* Mutant: a run that ends drops the one that waits.
EndsAlone(g) ==
    /\ at' = [at EXCEPT ![g] = Idle]
    /\ useful' = [useful EXCEPT ![g] = TRUE]
    /\ waiting' = [waiting EXCEPT ![g] = "none"]
    /\ late' = [late EXCEPT ![g] = {}]

\* The run of a group ends and the one that waits starts.
Ends(g) ==
    /\ at' = [at EXCEPT ![g] = IF waiting[g] = "none" THEN Idle ELSE Resolving]
    /\ useful' = [useful EXCEPT ![g] = waiting[g] # "useless"]
    /\ waiting' = [waiting EXCEPT ![g] = "none"]
    /\ late' = [late EXCEPT ![g] = {}]

Resolve(g) ==
    /\ at[g] = Resolving
    /\ IF useful[g]
       THEN at' = [at EXCEPT ![g] = @ + 1] /\ UNCHANGED <<useful, waiting, late>>
       ELSE Ends(g)
    /\ UNCHANGED <<blocked, ci, older, merged, told, changes>>

\* Mutant: a request that fails is taken for an answer that blocks nothing.
ReadGateFailsOpen(g) ==
    /\ at[g] \in 2..6
    /\ \/ at' = [at EXCEPT ![g] = @ + 1] /\ UNCHANGED <<useful, waiting, late>>
       \/ (merged \/ Gate[at[g] - 1] \in Blocking) /\ Ends(g)
    /\ UNCHANGED <<blocked, ci, older, merged, told, changes>>

\* One request; a gate that blocks ends the run.  Only the first one looks at the
\* state of the pull request.
ReadGate(g) ==
    /\ at[g] \in 2..6
    /\ IF Gate[at[g] - 1] \in Blocking \/ (merged /\ at[g] = 2)
       THEN Ends(g)
       ELSE at' = [at EXCEPT ![g] = @ + 1] /\ UNCHANGED <<useful, waiting, late>>
    /\ UNCHANGED <<blocked, ci, older, merged, told, changes>>

\* The request names no commit: what is merged is the head of that moment.
Merge(g) ==
    /\ at[g] = Merging
    /\ merged' = TRUE
    /\ Ends(g)
    /\ UNCHANGED <<blocked, ci, older, told, changes>>

\* A request fails or answers nonsense, the merge is refused, the runner is lost:
\* the run ends without a merge.
Fails(g) ==
    /\ at[g] # Idle
    /\ Ends(g)
    /\ told' = FALSE
    /\ UNCHANGED <<blocked, ci, older, merged, changes>>

RunStep(g) == Resolve(g) \/ ReadGate(g) \/ Merge(g)

Next ==
    \/ \E gate \in Gates \ {"checks"} : Blocks(gate) \/ Unblocks(gate)
    \/ Push \/ CiAgain \/ Touch \/ Dispatch \/ CiCompletes \/ OlderCompletes
    \/ \E g \in Groups : RunStep(g) \/ Fails(g)

Spec == Init /\ [][Next]_vars

\* A run that has started goes on; nothing makes people or CI act.
FairSpec == Spec /\ \A g \in Groups : WF_vars(RunStep(g))

-----------------------------------------------------------------------------
(* Properties.                                                             *)

\* A gate that blocks when the merge goes out began to do so after this very run had
\* read it: no block is missed because of another run, an error or the order of
\* the requests.  A later one is, the workflow does not look twice.
GateHeld == \A g \in Groups : at[g] = Merging => Blocking \subseteq late[g]

\* A pull request that is and stays eligible is merged, if some event followed the
\* last change that made it so, its run did not fail, and no failed CI run of an
\* older commit took the place of its run.
EligibleMerges == <>[](Blocking = {} /\ told) => <>merged
=============================================================================
