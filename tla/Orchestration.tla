---------------------------- MODULE Orchestration ----------------------------
(***************************************************************************)
(* Multi-agent runs: the planner proposes a graph of subtasks, the user    *)
(* approves it, and the coordinator takes its nodes wave by wave through   *)
(* the coder and the reviewer, with a human to ask when a node fails.  The *)
(* scheduler keeps the status of every node, the database a copy of it.    *)
(*                                                                         *)
(* The roles' tool loops are those of AgentService; here they are the      *)
(* awaits of the coordinator.  What the coordinator does between two of    *)
(* them (phase "waves", or an answered approval) runs before any other     *)
(* task.                                                                   *)
(***************************************************************************)
EXTENDS Naturals, FiniteSets

CONSTANTS
  Runs,
  OldRun,         \* a run of another workspace of the same database
  Ids,            \* the names a planner gives its nodes
  MaxReviews,     \* reviews that may ask for changes before the human is asked
  MaxTouched,     \* bound: nodes the user cancels in the task tree
  HumanChoices    \* what the human may answer

NoNode == "none"
NoRun == "none"

ASSUME ConstantsAssumption ==
  /\ OldRun \notin Runs
  /\ NoRun \notin Runs \cup {OldRun}
  /\ NoNode \notin Ids
  /\ IsFiniteSet(Ids)
  /\ MaxReviews \in Nat
  /\ MaxTouched \in Nat
  /\ HumanChoices \subseteq {"retry", "skip", "cancel"}

VARIABLES
  row,      \* agent_runs: the status of each run
  co,       \* the coordinator and its scheduler, per run
  parked,   \* planApprovals
  early,    \* planDecisions: approvals that came before their question
  tasks,    \* task_nodes: by name, for every run of the database
  touched   \* history: the nodes the user cancelled in the task tree

vars == <<row, co, parked, early, tasks, touched>>

NodeStatuses == {"pending", "running", "succeeded", "failed", "blocked", "cancelled"}

OpenNode == {"pending", "running"}

NoTask == [run |-> NoRun, status |-> "none"]

\* A graph, or statuses, of no node.
NoNodes == [n \in {} |-> {}]

Idle == [phase |-> "idle", aborted |-> FALSE, answer |-> "none", plan |-> NoNodes,
         sched |-> NoNodes, wave |-> {}, node |-> NoNode, attempt |-> 0, retried |-> FALSE]

\* The phases in which the coordinator waits.
AwaitPhases == {"planning", "approving", "coding", "reviewing", "asking"}

HasRow(r) == row[r] \notin {"fresh", "deleted"}

Micro(r) == co[r].phase = "waves" \/ co[r].answer # "none"

Quiet == \A r \in Runs : ~Micro(r)

-----------------------------------------------------------------------------
(***************************************************************************)
(* Plans                                                                   *)
(***************************************************************************)

Acyclic(deps) ==
  \E rank \in [DOMAIN deps -> 1..Cardinality(DOMAIN deps)] :
    \A n \in DOMAIN deps : \A d \in deps[n] : rank[d] < rank[n]

\* The breakdowns validateBreakdown accepts: which nodes each node depends on.
Plans ==
  UNION {{deps \in [ids -> SUBSET ids] : Acyclic(deps)} : ids \in (SUBSET Ids) \ {{}}}

DirectDependents(deps, n) == {m \in DOMAIN deps : n \in deps[m]}

\* The least set that has n's dependents and the dependents of what it has.
Dependents(deps, n) ==
  {m \in DOMAIN deps :
     \A S \in SUBSET DOMAIN deps :
       DirectDependents(deps, n) \subseteq S
         /\ (\A k \in S : DirectDependents(deps, k) \subseteq S) => m \in S}

\* Mutant: a node may start as soon as one of its dependencies has succeeded.
ReadyEarly(c) ==
  {n \in DOMAIN c.sched : /\ c.sched[n] = "pending"
                          /\ \/ c.plan[n] = {}
                             \/ \E d \in c.plan[n] : c.sched[d] = "succeeded"}

\* Pending nodes whose dependencies have succeeded.
Ready(c) ==
  {n \in DOMAIN c.sched : /\ c.sched[n] = "pending"
                          /\ \A d \in c.plan[n] : c.sched[d] = "succeeded"}

-----------------------------------------------------------------------------
(***************************************************************************)
(* Writing the nodes: by name, whoever's they are.                         *)
(***************************************************************************)

Stored(n, status) == IF tasks[n] = NoTask THEN NoTask ELSE [tasks[n] EXCEPT !.status = status]

\* The named nodes take these statuses in the database.
Store(status) ==
  tasks' = [n \in Ids |-> IF n \in DOMAIN status THEN Stored(n, status[n]) ELSE tasks[n]]

Goto(r, c) == co' = [co EXCEPT ![r] = c]

\* The driver's end: the record is closed, the maps are cleared.
Ended(r, status) ==
  /\ row' = [row EXCEPT ![r] = IF HasRow(r) THEN status ELSE @]
  /\ Goto(r, Idle)
  /\ parked' = parked \ {r}
  /\ early' = early \ {r}

-----------------------------------------------------------------------------
(***************************************************************************)
(* Planning and approval                                                   *)
(***************************************************************************)

RunTask(r) ==
  /\ Quiet /\ row[r] = "fresh"
  /\ row' = [row EXCEPT ![r] = "tool_use"]
  /\ Goto(r, [Idle EXCEPT !.phase = "planning"])
  /\ UNCHANGED <<parked, early, tasks, touched>>

\* No breakdown, an invalid one, no budget, or a stop: all are exceptions.
PlanFails(r) ==
  /\ Quiet /\ co[r].phase = "planning"
  /\ Ended(r, "failed")
  /\ UNCHANGED <<tasks, touched>>

\* Mutant: the planner's result is taken even after an abort.
PlanAcceptedUnchecked(r, deps) ==
  /\ Quiet /\ co[r].phase = "planning"
  /\ \A n \in DOMAIN deps : tasks[n] = NoTask
  /\ tasks' = [n \in Ids |->
       IF n \in DOMAIN deps THEN [run |-> r, status |-> "pending"] ELSE tasks[n]]
  /\ Goto(r, [co[r] EXCEPT !.phase = "approving", !.plan = deps,
                !.sched = [n \in DOMAIN deps |-> "pending"],
                !.answer = IF r \in early THEN "yes" ELSE "none"])
  /\ parked' = IF r \in early THEN parked ELSE parked \cup {r}
  /\ early' = early \ {r}
  /\ UNCHANGED <<row, touched>>

\* The nodes are stored and the user is asked, unless they approved already.
PlanAccepted(r, deps) ==
  /\ Quiet /\ co[r].phase = "planning" /\ ~co[r].aborted
  /\ \A n \in DOMAIN deps : tasks[n] = NoTask
  /\ tasks' = [n \in Ids |->
       IF n \in DOMAIN deps THEN [run |-> r, status |-> "pending"] ELSE tasks[n]]
  /\ Goto(r, [co[r] EXCEPT !.phase = "approving", !.plan = deps,
                !.sched = [n \in DOMAIN deps |-> "pending"],
                !.answer = IF r \in early THEN "yes" ELSE "none"])
  /\ parked' = IF r \in early THEN parked ELSE parked \cup {r}
  /\ early' = early \ {r}
  /\ UNCHANGED <<row, touched>>

\* A name is taken (the id is the primary key): the insert throws, the nodes
\* inserted before it stay.
PlanCollides(r, deps) ==
  /\ Quiet /\ co[r].phase = "planning" /\ ~co[r].aborted
  /\ \E n \in DOMAIN deps : tasks[n] # NoTask
  /\ \E inserted \in SUBSET {n \in DOMAIN deps : tasks[n] = NoTask} :
       tasks' = [n \in Ids |->
         IF n \in inserted THEN [run |-> r, status |-> "pending"] ELSE tasks[n]]
  /\ Ended(r, "failed")
  /\ UNCHANGED touched

\* A rejected plan ends the run; its nodes stay as they were stored.
PlanRejected(r) ==
  /\ co[r].phase = "approving" /\ co[r].answer = "no"
  /\ Ended(r, "cancelled")
  /\ UNCHANGED <<tasks, touched>>

PlanApproved(r) ==
  /\ co[r].phase = "approving" /\ co[r].answer = "yes"
  /\ Goto(r, [co[r] EXCEPT !.phase = "waves", !.answer = "none"])
  /\ UNCHANGED <<row, parked, early, tasks, touched>>

-----------------------------------------------------------------------------
(***************************************************************************)
(* Waves                                                                   *)
(***************************************************************************)

NextWave(r) ==
  /\ co[r].phase = "waves" /\ co[r].wave = {} /\ Ready(co[r]) # {}
  /\ Goto(r, [co[r] EXCEPT !.wave = Ready(co[r])])
  /\ UNCHANGED <<row, parked, early, tasks, touched>>

\* Every node is settled, or none can run.
WavesEnd(r) ==
  /\ co[r].phase = "waves" /\ co[r].wave = {} /\ Ready(co[r]) = {}
  /\ Ended(r, IF \A n \in DOMAIN co[r].sched : co[r].sched[n] = "succeeded"
              THEN "done" ELSE "failed")
  /\ UNCHANGED <<tasks, touched>>

StartNode(r, n) ==
  /\ co[r].phase = "waves" /\ n \in co[r].wave
  /\ Goto(r, [co[r] EXCEPT !.phase = "coding", !.node = n, !.attempt = 0, !.retried = FALSE,
                !.wave = @ \ {n}, !.sched = [@ EXCEPT ![n] = "running"]])
  /\ Store([m \in {n} |-> "running"])
  /\ UNCHANGED <<row, parked, early, touched>>

\* The coder's loop ends with something to review; a stopped one never does.
CoderDone(r) ==
  /\ Quiet /\ co[r].phase = "coding" /\ ~co[r].aborted
  /\ Goto(r, [co[r] EXCEPT !.phase = "reviewing"])
  /\ UNCHANGED <<row, parked, early, tasks, touched>>

\* Mutant: the scheduler learns of the success, the database does not.
ApprovedUnstored(r) ==
  /\ Quiet /\ co[r].phase = "reviewing" /\ ~co[r].aborted
  /\ Goto(r, [co[r] EXCEPT !.phase = "waves", !.node = NoNode,
                !.sched = [@ EXCEPT ![co[r].node] = "succeeded"]])
  /\ UNCHANGED <<row, parked, early, tasks, touched>>

Approved(r) ==
  /\ Quiet /\ co[r].phase = "reviewing" /\ ~co[r].aborted
  /\ Goto(r, [co[r] EXCEPT !.phase = "waves", !.node = NoNode,
                !.sched = [@ EXCEPT ![co[r].node] = "succeeded"]])
  /\ Store([m \in {co[r].node} |-> "succeeded"])
  /\ UNCHANGED <<row, parked, early, touched>>

\* Mutant: the number of reviews is not counted.
ChangesRequestedAgain(r) ==
  /\ Quiet /\ co[r].phase = "reviewing" /\ ~co[r].aborted
  /\ Goto(r, [co[r] EXCEPT !.phase = "coding"])
  /\ UNCHANGED <<row, parked, early, tasks, touched>>

ChangesRequested(r) ==
  /\ Quiet /\ co[r].phase = "reviewing" /\ ~co[r].aborted /\ co[r].attempt < MaxReviews
  /\ Goto(r, [co[r] EXCEPT !.phase = "coding", !.attempt = @ + 1])
  /\ UNCHANGED <<row, parked, early, tasks, touched>>

\* A failed node blocks what depends on it, and the database follows.
Blocked(c) ==
  [n \in DOMAIN c.sched |->
     IF n = c.node THEN "failed"
     ELSE IF n \in Dependents(c.plan, c.node) /\ c.sched[n] \notin {"failed", "succeeded"}
     THEN "blocked" ELSE c.sched[n]]

BlockNode(r) ==
  LET sched == Blocked(co[r])
  IN /\ Goto(r, [co[r] EXCEPT !.phase = "waves", !.node = NoNode, !.sched = sched])
     /\ Store([n \in {n \in DOMAIN sched : n = co[r].node \/ sched[n] = "blocked"} |-> sched[n]])

\* The coder or the reviewer throws, or the reviews are used up: the human is
\* asked, once; after a retry the node is blocked.
NodeFails(r) ==
  /\ Quiet /\ co[r].phase \in {"coding", "reviewing"}
  /\ IF co[r].retried
     THEN BlockNode(r)
     ELSE /\ Goto(r, [co[r] EXCEPT !.phase = "asking"])
          /\ UNCHANGED tasks
  /\ UNCHANGED <<row, parked, early, touched>>

Retry(r) ==
  /\ Quiet /\ co[r].phase = "asking" /\ "retry" \in HumanChoices
  /\ Goto(r, [co[r] EXCEPT !.phase = "coding", !.attempt = 0, !.retried = TRUE])
  /\ UNCHANGED <<row, parked, early, tasks, touched>>

Skip(r) ==
  /\ Quiet /\ co[r].phase = "asking" /\ "skip" \in HumanChoices
  /\ BlockNode(r)
  /\ UNCHANGED <<row, parked, early, touched>>

\* Mutant: the nodes that wait for their turn are forgotten.
CancelRunningOnly(r) ==
  /\ Quiet /\ co[r].phase = "asking" /\ "cancel" \in HumanChoices
  /\ Store([n \in {n \in DOMAIN co[r].sched : co[r].sched[n] = "running"} |-> "cancelled"])
  /\ Ended(r, "cancelled")
  /\ UNCHANGED touched

Cancel(r) ==
  /\ Quiet /\ co[r].phase = "asking" /\ "cancel" \in HumanChoices
  /\ Store([n \in {n \in DOMAIN co[r].sched : co[r].sched[n] \in OpenNode} |-> "cancelled"])
  /\ Ended(r, "cancelled")
  /\ UNCHANGED touched

-----------------------------------------------------------------------------
(***************************************************************************)
(* The user                                                                *)
(***************************************************************************)

\* resolvePlanApproval: the question is answered, or the answer kept for it.
Approve(r) ==
  /\ Quiet /\ r \in parked
  /\ parked' = parked \ {r}
  /\ Goto(r, [co[r] EXCEPT !.answer = "yes"])
  /\ UNCHANGED <<row, early, tasks, touched>>

ApproveEarly(r) ==
  /\ Quiet /\ r \notin parked /\ co[r].phase # "idle"
  /\ early' = early \cup {r}
  /\ UNCHANGED <<row, co, parked, tasks, touched>>

Aborted(r) ==
  [co[r] EXCEPT !.aborted = co[r].phase # "idle",
                !.answer = IF r \in parked THEN "no" ELSE @]

Stop(r) ==
  /\ Quiet /\ co[r].phase # "idle"
  /\ Goto(r, Aborted(r))
  /\ parked' = parked \ {r}
  /\ early' = early \ {r}
  /\ UNCHANGED <<row, tasks, touched>>

\* The runs of the workspace are aborted and deleted, with their nodes.
ClearRuns ==
  LET listed == {r \in Runs : HasRow(r)}
  IN /\ Quiet /\ listed # {}
     /\ co' = [r \in Runs |-> IF r \in listed THEN Aborted(r) ELSE co[r]]
     /\ parked' = parked \ listed
     /\ early' = early \ listed
     /\ row' = [r \in Runs |-> IF r \in listed THEN "deleted" ELSE row[r]]
     /\ tasks' = [n \in Ids |-> IF tasks[n].run \in listed THEN NoTask ELSE tasks[n]]
     /\ UNCHANGED touched

\* The task tree's cancel button writes the database only.
CancelTaskNode(n) ==
  /\ Quiet /\ tasks[n].run \in Runs /\ tasks[n].status # "cancelled"
  /\ n \in touched \/ Cardinality(touched) < MaxTouched
  /\ tasks' = [tasks EXCEPT ![n] = [@ EXCEPT !.status = "cancelled"]]
  /\ touched' = touched \cup {n}
  /\ UNCHANGED <<row, co, parked, early>>

-----------------------------------------------------------------------------
Init ==
  /\ row = [r \in Runs |-> "fresh"]
  /\ co = [r \in Runs |-> Idle]
  /\ parked = {}
  /\ early = {}
  /\ tasks \in [Ids -> {NoTask, [run |-> OldRun, status |-> "succeeded"]}]
  /\ touched = {}

\* What the coordinator does by itself once the role it awaits has answered.
Advance(r) ==
  \/ PlanFails(r)
  \/ \E deps \in Plans : PlanAccepted(r, deps) \/ PlanCollides(r, deps)
  \/ PlanRejected(r) \/ PlanApproved(r)
  \/ NextWave(r) \/ WavesEnd(r)
  \/ \E n \in Ids : StartNode(r, n)
  \/ CoderDone(r) \/ Approved(r) \/ ChangesRequested(r) \/ NodeFails(r)
  \/ Retry(r) \/ Skip(r) \/ Cancel(r)

User ==
  \/ \E r \in Runs : RunTask(r) \/ Approve(r) \/ ApproveEarly(r) \/ Stop(r)
  \/ ClearRuns
  \/ \E n \in Ids : CancelTaskNode(n)

Next == (\E r \in Runs : Advance(r)) \/ User

Spec == Init /\ [][Next]_vars

\* Every role's loop ends (AgentService: LoopSettles, and the user answers its
\* questions), and so does the question to the human.
FairSpec == Spec /\ \A r \in Runs : SF_vars(Advance(r))

-----------------------------------------------------------------------------
(***************************************************************************)
(* Properties                                                              *)
(***************************************************************************)

Schedules == UNION {[ids -> NodeStatuses] : ids \in SUBSET Ids}

Coordinators ==
  [phase : AwaitPhases \cup {"idle", "waves"}, aborted : BOOLEAN,
   answer : {"none", "yes", "no"}, plan : Plans \cup {NoNodes}, sched : Schedules,
   wave : SUBSET Ids, node : Ids \cup {NoNode}, attempt : 0..MaxReviews, retried : BOOLEAN]

\* Every variable holds a value of its type: a node is reviewed a bounded
\* number of times.
TypeOK ==
  /\ row \in [Runs -> {"fresh", "tool_use", "done", "cancelled", "failed", "deleted"}]
  /\ co \in [Runs -> Coordinators]
  /\ parked \subseteq Runs
  /\ early \subseteq Runs
  /\ tasks \in [Ids -> [run : Runs \cup {OldRun}, status : NodeStatuses] \cup {NoTask}]
  /\ touched \subseteq Ids

\* A node is worked on only after all it depends on has succeeded, directly or
\* not, whatever was retried or skipped before.
DependenciesFirst ==
  \A r \in Runs : LET c == co[r] IN
    c.node # NoNode =>
      \A d \in DOMAIN c.plan : c.node \in Dependents(c.plan, d) => c.sched[d] = "succeeded"

\* While the waves run, the database tells of every node what the scheduler
\* does, but for those the user cancelled there.
StoreMirrorsScheduler ==
  \A r \in Runs : HasRow(r) =>
    \A n \in DOMAIN co[r].sched \ touched : tasks[n] = [run |-> r, status |-> co[r].sched[n]]

\* A run that ends from its waves leaves no open node in the database, and if it
\* is recorded as done, all its nodes have succeeded.
EndedPlanIsSettled ==
  [][\A r \in Runs :
       co[r].phase \in {"waves", "coding", "reviewing", "asking"} /\ co'[r].phase = "idle"
       => \A n \in Ids \ touched : tasks'[n].run = r =>
            /\ tasks'[n].status \notin OpenNode
            /\ row'[r] = "done" => tasks'[n].status = "succeeded"]_vars

\* A deleted run leaves no node behind: its loops may still be running when the
\* rows go, and none of them stores a node afterwards.
NoOrphanNodes ==
  \A n \in Ids : tasks[n].run \in Runs => HasRow(tasks[n].run)

\* Every run ends, or waits for the approval of its plan.
RunsSettle ==
  \A r \in Runs : co[r].phase # "idle" ~> (co[r].phase = "idle" \/ r \in parked)

=============================================================================
