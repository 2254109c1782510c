------------------------ MODULE Orchestration_proofs ------------------------
(***************************************************************************)
(* Proofs about Orchestration, for any plans, runs and answers.            *)
(***************************************************************************)
EXTENDS Orchestration, FiniteSetTheorems, WellFoundedInduction, TLAPS

-----------------------------------------------------------------------------
(***************************************************************************)
(* Types                                                                   *)
(***************************************************************************)

RowType == {"fresh", "tool_use", "done", "cancelled", "failed", "deleted"}

TaskType == [run : Runs \cup {OldRun}, status : NodeStatuses] \cup {NoTask}

LEMMA PlansHave ==
  ASSUME NEW deps \in Plans
  PROVE  /\ DOMAIN deps \subseteq Ids
         /\ \A n \in DOMAIN deps : deps[n] \subseteq DOMAIN deps
BY DEF Plans

LEMMA SchedulesType ==
  ASSUME NEW ids \in SUBSET Ids, NEW f \in [ids -> NodeStatuses]
  PROVE  f \in Schedules
BY DEF Schedules

LEMMA SchedulesHave ==
  ASSUME NEW f \in Schedules
  PROVE  DOMAIN f \subseteq Ids /\ f \in [DOMAIN f -> NodeStatuses]
BY DEF Schedules

LEMMA NoNodesType == NoNodes \in Schedules /\ DOMAIN NoNodes = {}
<1>1. NoNodes \in [{} -> NodeStatuses] /\ DOMAIN NoNodes = {}
  BY DEF NoNodes
<1>. QED  BY <1>1, SchedulesType

LEMMA IdleType == Idle \in Coordinators
BY NoNodesType, ConstantsAssumption DEF Idle, Coordinators, AwaitPhases

LEMMA GotoIs ==
  ASSUME TypeOK, NEW r \in Runs, NEW c, Goto(r, c)
  PROVE  /\ co'[r] = c
         /\ \A q \in Runs \ {r} : co'[q] = co[q]
         /\ c \in Coordinators => co' \in [Runs -> Coordinators]
BY DEF TypeOK, Goto

\* A node takes another status in a schedule.
LEMMA NodeSet ==
  ASSUME NEW f \in Schedules, NEW n, NEW status \in NodeStatuses
  PROVE  /\ [f EXCEPT ![n] = status] \in Schedules
         /\ DOMAIN [f EXCEPT ![n] = status] = DOMAIN f
<1>1. [f EXCEPT ![n] = status] \in [DOMAIN f -> NodeStatuses]
  BY SchedulesHave
<1>. QED  BY <1>1, SchedulesHave, SchedulesType

LEMMA StoreType ==
  ASSUME TypeOK, NEW ids, NEW status \in [ids -> NodeStatuses], Store(status)
  PROVE  tasks' \in [Ids -> TaskType]
<1>1. \A n \in Ids : \A s \in NodeStatuses : Stored(n, s) \in TaskType
  BY DEF Stored, TypeOK, TaskType
<1>. QED  BY <1>1 DEF Store, TypeOK, TaskType

LEMMA EndedType ==
  ASSUME TypeOK, NEW r \in Runs, NEW status \in {"done", "cancelled", "failed"},
         Ended(r, status)
  PROVE  /\ row' \in [Runs -> RowType]
         /\ co' \in [Runs -> Coordinators]
         /\ parked' \subseteq Runs /\ early' \subseteq Runs
BY IdleType DEF Ended, Goto, TypeOK, RowType

LEMMA CoType ==
  ASSUME TypeOK, NEW r \in Runs
  PROVE  /\ co[r] \in Coordinators
         /\ co[r].sched \in Schedules
         /\ co[r].plan \in Plans \cup {NoNodes}
         /\ co[r].attempt \in 0..MaxReviews
         /\ co[r].node \in Ids \cup {NoNode}
         /\ co[r].wave \in SUBSET Ids
BY DEF TypeOK, Coordinators

LEMMA PlanningType ==
  ASSUME TypeOK, NEW r \in Runs, NEW deps \in Plans,
         PlanAccepted(r, deps) \/ PlanCollides(r, deps)
  PROVE  TypeOK'
<1>1. [run |-> r, status |-> "pending"] \in TaskType
  BY DEF TaskType, NodeStatuses
<1>2. CASE PlanAccepted(r, deps)
  <2>. DEFINE accepted == [co[r] EXCEPT !.phase = "approving", !.plan = deps,
                             !.sched = [n \in DOMAIN deps |-> "pending"],
                             !.answer = IF r \in early THEN "yes" ELSE "none"]
  <2>1. [n \in DOMAIN deps |-> "pending"] \in Schedules
    <3>1. [n \in DOMAIN deps |-> "pending"] \in [DOMAIN deps -> NodeStatuses]
      BY DEF NodeStatuses
    <3>. QED  BY <3>1, PlansHave, SchedulesType
  <2>2. accepted \in Coordinators
    BY <2>1, CoType DEF Coordinators, AwaitPhases
  <2>3. Goto(r, accepted)
    BY <1>2 DEF PlanAccepted
  <2>4. co' \in [Runs -> Coordinators]
    BY <2>2, <2>3, GotoIs
  <2>5. tasks' \in [Ids -> TaskType]
    BY <1>1, <1>2 DEF PlanAccepted, TypeOK, TaskType
  <2>. QED  BY <1>2, <2>4, <2>5 DEF PlanAccepted, TypeOK, TaskType
<1>3. CASE PlanCollides(r, deps)
  <2>1. tasks' \in [Ids -> TaskType]
    BY <1>1, <1>3 DEF PlanCollides, TypeOK, TaskType
  <2>2. Ended(r, "failed") /\ UNCHANGED touched
    BY <1>3 DEF PlanCollides
  <2>. QED  BY <2>1, <2>2, EndedType DEF TypeOK, TaskType, RowType
<1>. QED  BY <1>2, <1>3

LEMMA EndingType ==
  ASSUME TypeOK, NEW r \in Runs, PlanFails(r) \/ PlanRejected(r) \/ WavesEnd(r)
  PROVE  TypeOK'
<1>1. \E status \in {"done", "cancelled", "failed"} : Ended(r, status)
  BY DEF PlanFails, PlanRejected, WavesEnd
<1>2. UNCHANGED <<tasks, touched>>
  BY DEF PlanFails, PlanRejected, WavesEnd
<1>. QED  BY <1>1, <1>2, EndedType DEF TypeOK, RowType

LEMMA CancelType ==
  ASSUME TypeOK, NEW r \in Runs, Cancel(r)
  PROVE  TypeOK'
<1>. DEFINE open == {n \in DOMAIN co[r].sched : co[r].sched[n] \in OpenNode}
<1>1. [n \in open |-> "cancelled"] \in [open -> NodeStatuses]
  BY DEF NodeStatuses
<1>2. Store([n \in open |-> "cancelled"]) /\ Ended(r, "cancelled") /\ UNCHANGED touched
  BY DEF Cancel
<1>3. tasks' \in [Ids -> TaskType]
  BY <1>1, <1>2, StoreType
<1>. QED  BY <1>2, <1>3, EndedType DEF TypeOK, RowType, TaskType

\* The coordinator goes on, and stores the statuses of some nodes or of none.
LEMMA GoOnType ==
  ASSUME TypeOK, NEW r \in Runs, NEW c \in Coordinators, Goto(r, c),
         tasks' \in [Ids -> TaskType], UNCHANGED <<row, parked, early, touched>>
  PROVE  TypeOK'
BY GotoIs DEF TypeOK, TaskType

LEMMA StoreOneType ==
  ASSUME TypeOK, NEW n, NEW status \in NodeStatuses, Store([m \in {n} |-> status])
  PROVE  tasks' \in [Ids -> TaskType]
<1>1. [m \in {n} |-> status] \in [{n} -> NodeStatuses]
  OBVIOUS
<1>. QED  BY <1>1, StoreType

LEMMA StartNodeType ==
  ASSUME TypeOK, NEW r \in Runs, NEW n \in Ids, StartNode(r, n)
  PROVE  TypeOK'
<1>. DEFINE sched == [co[r].sched EXCEPT ![n] = "running"]
            started == [co[r] EXCEPT !.phase = "coding", !.node = n, !.attempt = 0,
                          !.retried = FALSE, !.wave = co[r].wave \ {n}, !.sched = sched]
<1>1. sched \in Schedules
  BY NodeSet, CoType DEF NodeStatuses
<1>2. 0 \in 0..MaxReviews
  BY ConstantsAssumption
<1>3. started \in Coordinators
  BY <1>1, <1>2, CoType DEF Coordinators, AwaitPhases
<1>4. tasks' \in [Ids -> TaskType]
  BY StoreOneType DEF StartNode, NodeStatuses
<1>. QED  BY <1>3, <1>4, GoOnType DEF StartNode

LEMMA ApprovedType ==
  ASSUME TypeOK, NEW r \in Runs, Approved(r)
  PROVE  TypeOK'
<1>. DEFINE sched == [co[r].sched EXCEPT ![co[r].node] = "succeeded"]
            approved == [co[r] EXCEPT !.phase = "waves", !.node = NoNode, !.sched = sched]
<1>1. sched \in Schedules
  BY NodeSet, CoType DEF NodeStatuses
<1>2. approved \in Coordinators
  BY <1>1, CoType DEF Coordinators, AwaitPhases
<1>3. tasks' \in [Ids -> TaskType]
  BY StoreOneType DEF Approved, NodeStatuses
<1>. QED  BY <1>2, <1>3, GoOnType DEF Approved

LEMMA BlockedType ==
  ASSUME TypeOK, NEW r \in Runs
  PROVE  Blocked(co[r]) \in [DOMAIN co[r].sched -> NodeStatuses]
<1>1. co[r].sched \in [DOMAIN co[r].sched -> NodeStatuses]
  BY CoType, SchedulesHave
<1>. QED  BY <1>1 DEF Blocked, NodeStatuses

LEMMA BlockNodeType ==
  ASSUME TypeOK, NEW r \in Runs, BlockNode(r), UNCHANGED <<row, parked, early, touched>>
  PROVE  TypeOK'
<1>. DEFINE sched == Blocked(co[r])
            blocked == [co[r] EXCEPT !.phase = "waves", !.node = NoNode, !.sched = sched]
            stored == {n \in DOMAIN sched : n = co[r].node \/ sched[n] = "blocked"}
<1>1. sched \in [DOMAIN co[r].sched -> NodeStatuses] /\ sched \in Schedules
  BY BlockedType, CoType, SchedulesHave, SchedulesType
<1>2. blocked \in Coordinators
  BY <1>1, CoType DEF Coordinators, AwaitPhases
<1>3. [n \in stored |-> sched[n]] \in [stored -> NodeStatuses]
  BY <1>1
<1>4. Store([n \in stored |-> sched[n]]) /\ Goto(r, blocked)
  BY DEF BlockNode
<1>5. tasks' \in [Ids -> TaskType]
  BY <1>3, <1>4, StoreType
<1>. QED  BY <1>2, <1>4, <1>5, GoOnType

LEMMA AdvanceType ==
  ASSUME TypeOK, NEW r \in Runs, Advance(r)
  PROVE  TypeOK'
<1>. tasks \in [Ids -> TaskType]
  BY DEF TypeOK, TaskType
<1>1. CASE PlanApproved(r)
  <2>1. [co[r] EXCEPT !.phase = "waves", !.answer = "none"] \in Coordinators
    BY CoType DEF Coordinators, AwaitPhases
  <2>. QED  BY <1>1, <2>1, GoOnType DEF PlanApproved
<1>2. CASE NextWave(r)
  <2>1. Ready(co[r]) \subseteq Ids
    BY CoType, SchedulesHave DEF Ready
  <2>2. [co[r] EXCEPT !.wave = Ready(co[r])] \in Coordinators
    BY <2>1, CoType DEF Coordinators
  <2>. QED  BY <1>2, <2>2, GoOnType DEF NextWave
<1>3. CASE CoderDone(r)
  <2>1. [co[r] EXCEPT !.phase = "reviewing"] \in Coordinators
    BY CoType DEF Coordinators, AwaitPhases
  <2>. QED  BY <1>3, <2>1, GoOnType DEF CoderDone
<1>4. CASE ChangesRequested(r)
  <2>1. co[r].attempt + 1 \in 0..MaxReviews
    BY <1>4, CoType, ConstantsAssumption DEF ChangesRequested
  <2>2. [co[r] EXCEPT !.phase = "coding", !.attempt = co[r].attempt + 1] \in Coordinators
    BY <2>1, CoType DEF Coordinators, AwaitPhases
  <2>. QED  BY <1>4, <2>2, GoOnType DEF ChangesRequested
<1>5. CASE NodeFails(r)
  <2>1. [co[r] EXCEPT !.phase = "asking"] \in Coordinators
    BY CoType DEF Coordinators, AwaitPhases
  <2>2. CASE co[r].retried
    BY <1>5, <2>2, BlockNodeType DEF NodeFails
  <2>3. CASE ~co[r].retried
    BY <1>5, <2>1, <2>3, GoOnType DEF NodeFails
  <2>. QED  BY <2>2, <2>3
<1>6. CASE Retry(r)
  <2>1. 0 \in 0..MaxReviews
    BY ConstantsAssumption
  <2>2. [co[r] EXCEPT !.phase = "coding", !.attempt = 0, !.retried = TRUE] \in Coordinators
    BY <2>1, CoType DEF Coordinators, AwaitPhases
  <2>. QED  BY <1>6, <2>2, GoOnType DEF Retry
<1>7. CASE Skip(r)
  BY <1>7, BlockNodeType DEF Skip
<1>. QED  BY <1>1, <1>2, <1>3, <1>4, <1>5, <1>6, <1>7, PlanningType, EndingType,
             StartNodeType, ApprovedType, CancelType DEF Advance

LEMMA UserType ==
  ASSUME TypeOK, User
  PROVE  TypeOK'
<1>. tasks \in [Ids -> TaskType] /\ row \in [Runs -> RowType]
  BY DEF TypeOK, TaskType, RowType
<1>1. ASSUME NEW r \in Runs, RunTask(r) PROVE TypeOK'
  <2>1. [Idle EXCEPT !.phase = "planning"] \in Coordinators
    BY IdleType DEF Coordinators, AwaitPhases
  <2>2. co' \in [Runs -> Coordinators]
    BY <1>1, <2>1, GotoIs DEF RunTask
  <2>. QED  BY <1>1, <2>2 DEF RunTask, TypeOK
<1>2. ASSUME NEW r \in Runs, Approve(r) PROVE TypeOK'
  <2>1. [co[r] EXCEPT !.answer = "yes"] \in Coordinators
    BY CoType DEF Coordinators
  <2>2. co' \in [Runs -> Coordinators]
    BY <1>2, <2>1, GotoIs DEF Approve
  <2>. QED  BY <1>2, <2>2 DEF Approve, TypeOK
<1>3. ASSUME NEW r \in Runs, ApproveEarly(r) PROVE TypeOK'
  BY <1>3 DEF ApproveEarly, TypeOK
<1>4. \A r \in Runs : Aborted(r) \in Coordinators
  <2>1. ASSUME NEW r \in Runs, NEW aborted \in BOOLEAN, NEW answer \in {"none", "yes", "no"}
        PROVE  [co[r] EXCEPT !.aborted = aborted, !.answer = answer] \in Coordinators
    BY CoType DEF Coordinators
  <2>2. ASSUME NEW r \in Runs
        PROVE  (IF r \in parked THEN "no" ELSE co[r].answer) \in {"none", "yes", "no"}
    BY CoType DEF Coordinators
  <2>3. ASSUME NEW r \in Runs PROVE (co[r].phase # "idle") \in BOOLEAN
    OBVIOUS
  <2>. QED  BY <2>1, <2>2, <2>3, Zenon DEF Aborted
<1>5. ASSUME NEW r \in Runs, Stop(r) PROVE TypeOK'
  <2>1. co' \in [Runs -> Coordinators]
    BY <1>4, <1>5, GotoIs DEF Stop
  <2>. QED  BY <1>5, <2>1 DEF Stop, TypeOK
<1>6. CASE ClearRuns
  <2>1. co' \in [Runs -> Coordinators] /\ row' \in [Runs -> RowType] /\ tasks' \in [Ids -> TaskType]
    BY <1>4, <1>6 DEF ClearRuns, TypeOK, RowType, TaskType
  <2>. QED  BY <1>6, <2>1 DEF ClearRuns, TypeOK, RowType, TaskType
<1>7. ASSUME NEW n \in Ids, CancelTaskNode(n) PROVE TypeOK'
  <2>1. [tasks[n] EXCEPT !.status = "cancelled"] \in TaskType
    BY <1>7, ConstantsAssumption DEF CancelTaskNode, TaskType, NodeStatuses, NoTask
  <2>2. tasks' \in [Ids -> TaskType]
    BY <1>7, <2>1 DEF CancelTaskNode
  <2>. QED  BY <1>7, <2>2 DEF CancelTaskNode, TypeOK, TaskType
<1>. QED  BY <1>1, <1>2, <1>3, <1>5, <1>6, <1>7 DEF User

LEMMA InitType == Init => TypeOK
BY IdleType DEF Init, TypeOK, NodeStatuses

\* Every reachable state is well typed: a node is reviewed at most MaxReviews
\* times more than once before the human is asked.
THEOREM TypeCorrect == Spec => []TypeOK
<1>1. Init => TypeOK
  BY InitType
<1>2. TypeOK /\ [Next]_vars => TypeOK'
  BY AdvanceType, UserType DEF Next, TypeOK, vars
<1>. QED  BY <1>1, <1>2, PTL DEF Spec

-----------------------------------------------------------------------------
(***************************************************************************)
(* Orphans.  A run is deleted together with its abort, and a planner that  *)
(* was aborted stores nothing; the later writes change statuses only.      *)
(***************************************************************************)

OrphanInv ==
  /\ NoOrphanNodes
  /\ \A r \in Runs : co[r].phase = "planning" /\ ~co[r].aborted => HasRow(r)

LEMMA StoreKeepsRuns ==
  ASSUME TypeOK, NEW status, Store(status), NEW n \in Ids
  PROVE  tasks'[n].run = tasks[n].run
<1>1. tasks[n] \in TaskType
  BY DEF TypeOK, TaskType
<1>2. \A s : Stored(n, s).run = tasks[n].run
  BY <1>1 DEF Stored, TaskType, NoTask
<1>. QED  BY <1>2 DEF Store

\* Steps of the coordinator that neither start nor end the planning.
LEMMA GoOnKeepsOwners ==
  ASSUME TypeOK, OrphanInv, NEW r \in Runs, NEW c, Goto(r, c), c.phase # "planning",
         row' = row, \A n \in Ids : tasks'[n].run = tasks[n].run
  PROVE  OrphanInv'
BY GotoIs DEF OrphanInv, NoOrphanNodes, HasRow

LEMMA EndKeepsOwners ==
  ASSUME TypeOK, OrphanInv, NEW r \in Runs, NEW status \in {"done", "cancelled", "failed"},
         Ended(r, status), \A n \in Ids : tasks'[n].run \in Runs => HasRow(tasks'[n].run)
  PROVE  OrphanInv'
<1>1. \A q \in Runs : HasRow(q) => HasRow(q)'
  BY DEF Ended, HasRow, TypeOK
<1>2. co'[r].phase = "idle" /\ \A q \in Runs \ {r} : co'[q] = co[q]
  BY GotoIs DEF Ended, Idle
<1>. QED  BY <1>1, <1>2 DEF OrphanInv, NoOrphanNodes

LEMMA AdvanceKeepsOwners ==
  ASSUME TypeOK, OrphanInv, NEW r \in Runs, Advance(r)
  PROVE  OrphanInv'
<1>. co[r] \in Coordinators
  BY CoType
<1>1. ASSUME NEW deps \in Plans, PlanAccepted(r, deps) PROVE OrphanInv'
  <2>. DEFINE c == [co[r] EXCEPT !.phase = "approving", !.plan = deps,
                      !.sched = [n \in DOMAIN deps |-> "pending"],
                      !.answer = IF r \in early THEN "yes" ELSE "none"]
  <2>a. Goto(r, c) /\ row' = row
    BY <1>1 DEF PlanAccepted
  <2>b. c.phase = "approving"
    BY DEF Coordinators
  <2>. HIDE DEF c
  <2>1. /\ co'[r].phase = "approving" /\ row' = row
        /\ \A q \in Runs \ {r} : co'[q] = co[q]
    BY <2>a, <2>b, GotoIs
  <2>2. HasRow(r)
    BY <1>1 DEF PlanAccepted, OrphanInv
  <2>3. \A n \in Ids : tasks'[n].run \in {tasks[n].run, r}
    BY <1>1 DEF PlanAccepted
  <2>. QED  BY <2>1, <2>2, <2>3 DEF OrphanInv, NoOrphanNodes, HasRow
<1>2. ASSUME NEW deps \in Plans, PlanCollides(r, deps) PROVE OrphanInv'
  <2>1. HasRow(r)
    BY <1>2 DEF PlanCollides, OrphanInv
  <2>2. \A n \in Ids : tasks'[n].run \in {tasks[n].run, r}
    BY <1>2 DEF PlanCollides
  <2>3. \A n \in Ids : tasks'[n].run \in Runs => HasRow(tasks'[n].run)
    BY <2>1, <2>2 DEF OrphanInv, NoOrphanNodes
  <2>. QED  BY <1>2, <2>3, EndKeepsOwners DEF PlanCollides
<1>3. CASE PlanFails(r) \/ PlanRejected(r) \/ WavesEnd(r)
  <2>1. tasks' = tasks /\ \E status \in {"done", "cancelled", "failed"} : Ended(r, status)
    BY <1>3 DEF PlanFails, PlanRejected, WavesEnd
  <2>2. \A n \in Ids : tasks'[n].run \in Runs => HasRow(tasks'[n].run)
    BY <2>1 DEF OrphanInv, NoOrphanNodes
  <2>. QED  BY <2>1, <2>2, EndKeepsOwners
<1>4. CASE Cancel(r)
  <2>1. \A n \in Ids : tasks'[n].run \in Runs => HasRow(tasks'[n].run)
    BY <1>4, StoreKeepsRuns DEF Cancel, OrphanInv, NoOrphanNodes
  <2>. QED  BY <1>4, <2>1, EndKeepsOwners DEF Cancel
<1>5. CASE PlanApproved(r) \/ NextWave(r) \/ CoderDone(r) \/ ChangesRequested(r) \/ Retry(r)
  <2>1. row' = row /\ tasks' = tasks
    BY <1>5 DEF PlanApproved, NextWave, CoderDone, ChangesRequested, Retry
  <2>2. CASE PlanApproved(r)
    <3>. DEFINE c == [co[r] EXCEPT !.phase = "waves", !.answer = "none"]
    <3>1. Goto(r, c) /\ c.phase = "waves"
      BY <2>2 DEF PlanApproved, Coordinators
    <3>. HIDE DEF c
    <3>. QED  BY <2>1, <3>1, GoOnKeepsOwners
  <2>3. CASE NextWave(r)
    <3>. DEFINE c == [co[r] EXCEPT !.wave = Ready(co[r])]
    <3>1. Goto(r, c) /\ c.phase = "waves"
      BY <2>3 DEF NextWave, Coordinators
    <3>. HIDE DEF c
    <3>. QED  BY <2>1, <3>1, GoOnKeepsOwners
  <2>4. CASE CoderDone(r)
    <3>. DEFINE c == [co[r] EXCEPT !.phase = "reviewing"]
    <3>1. Goto(r, c) /\ c.phase = "reviewing"
      BY <2>4 DEF CoderDone, Coordinators
    <3>. HIDE DEF c
    <3>. QED  BY <2>1, <3>1, GoOnKeepsOwners
  <2>5. CASE ChangesRequested(r)
    <3>. DEFINE c == [co[r] EXCEPT !.phase = "coding", !.attempt = @ + 1]
    <3>1. Goto(r, c) /\ c.phase = "coding"
      BY <2>5 DEF ChangesRequested, Coordinators
    <3>. HIDE DEF c
    <3>. QED  BY <2>1, <3>1, GoOnKeepsOwners
  <2>6. CASE Retry(r)
    <3>. DEFINE c == [co[r] EXCEPT !.phase = "coding", !.attempt = 0, !.retried = TRUE]
    <3>1. Goto(r, c) /\ c.phase = "coding"
      BY <2>6 DEF Retry, Coordinators
    <3>. HIDE DEF c
    <3>. QED  BY <2>1, <3>1, GoOnKeepsOwners
  <2>. QED  BY <1>5, <2>2, <2>3, <2>4, <2>5, <2>6
<1>6. ASSUME BlockNode(r), row' = row PROVE OrphanInv'
  <2>1. \A n \in Ids : tasks'[n].run = tasks[n].run
    BY <1>6, StoreKeepsRuns DEF BlockNode
  <2>. DEFINE c == [co[r] EXCEPT !.phase = "waves", !.node = NoNode, !.sched = Blocked(co[r])]
  <2>2. Goto(r, c)
    BY <1>6 DEF BlockNode
  <2>3. c.phase = "waves"
    BY DEF Coordinators
  <2>. HIDE DEF c
  <2>. QED  BY <1>6, <2>1, <2>2, <2>3, GoOnKeepsOwners
<1>7. CASE NodeFails(r) /\ ~co[r].retried
  <2>. DEFINE c == [co[r] EXCEPT !.phase = "asking"]
  <2>1. Goto(r, c) /\ row' = row /\ tasks' = tasks
    BY <1>7 DEF NodeFails
  <2>2. c.phase = "asking"
    BY DEF Coordinators
  <2>. HIDE DEF c
  <2>. QED  BY <2>1, <2>2, GoOnKeepsOwners
<1>8. ASSUME NEW n \in Ids, StartNode(r, n) PROVE OrphanInv'
  <2>1. \A m \in Ids : tasks'[m].run = tasks[m].run
    BY <1>8, StoreKeepsRuns DEF StartNode
  <2>. DEFINE c == [co[r] EXCEPT !.phase = "coding", !.node = n, !.attempt = 0,
                      !.retried = FALSE, !.wave = @ \ {n},
                      !.sched = [@ EXCEPT ![n] = "running"]]
  <2>2. Goto(r, c) /\ row' = row
    BY <1>8 DEF StartNode
  <2>3. c.phase = "coding"
    BY DEF Coordinators
  <2>. HIDE DEF c
  <2>. QED  BY <2>1, <2>2, <2>3, GoOnKeepsOwners
<1>9. CASE Approved(r)
  <2>1. \A m \in Ids : tasks'[m].run = tasks[m].run
    BY <1>9, StoreKeepsRuns DEF Approved
  <2>. DEFINE c == [co[r] EXCEPT !.phase = "waves", !.node = NoNode,
                      !.sched = [@ EXCEPT ![co[r].node] = "succeeded"]]
  <2>2. Goto(r, c) /\ row' = row
    BY <1>9 DEF Approved
  <2>3. c.phase = "waves"
    BY DEF Coordinators
  <2>. HIDE DEF c
  <2>. QED  BY <2>1, <2>2, <2>3, GoOnKeepsOwners
<1>. QED  BY <1>1, <1>2, <1>3, <1>4, <1>5, <1>6, <1>7, <1>8, <1>9 DEF Advance, NodeFails, Skip

LEMMA UserKeepsOwners ==
  ASSUME TypeOK, OrphanInv, User
  PROVE  OrphanInv'
<1>1. ASSUME NEW r \in Runs, RunTask(r) PROVE OrphanInv'
  <2>1. co'[r].phase = "planning" /\ \A q \in Runs \ {r} : co'[q] = co[q]
    BY <1>1, GotoIs DEF RunTask, Idle
  <2>2. HasRow(r)' /\ tasks' = tasks /\ \A q \in Runs : HasRow(q) => HasRow(q)'
    BY <1>1 DEF RunTask, HasRow, TypeOK
  <2>. QED  BY <2>1, <2>2 DEF OrphanInv, NoOrphanNodes
<1>2. ASSUME NEW r \in Runs, NEW a, Goto(r, [co[r] EXCEPT !.answer = a]),
             row' = row, tasks' = tasks
      PROVE  OrphanInv'
  <2>. DEFINE c == [co[r] EXCEPT !.answer = a]
  <2>1. c.phase = co[r].phase /\ c.aborted = co[r].aborted
    BY CoType DEF Coordinators
  <2>2. Goto(r, c)
    BY <1>2
  <2>. HIDE DEF c
  <2>3. \A q \in Runs : co'[q].phase = co[q].phase /\ co'[q].aborted = co[q].aborted
    BY <2>1, <2>2, GotoIs
  <2>. QED  BY <1>2, <2>3 DEF OrphanInv, NoOrphanNodes, HasRow
<1>3. ASSUME NEW r \in Runs, ApproveEarly(r) PROVE OrphanInv'
  BY <1>3 DEF ApproveEarly, OrphanInv, NoOrphanNodes, HasRow
<1>4. \A r \in Runs : /\ Aborted(r).phase = co[r].phase
                      /\ co[r].phase # "idle" => Aborted(r).aborted
  BY CoType DEF Aborted, Coordinators
<1>5. ASSUME NEW r \in Runs, Stop(r) PROVE OrphanInv'
  <2>1. co'[r] = Aborted(r) /\ \A q \in Runs \ {r} : co'[q] = co[q]
    BY <1>5, GotoIs DEF Stop
  <2>2. row' = row /\ tasks' = tasks /\ Aborted(r).aborted
    BY <1>4, <1>5 DEF Stop
  <2>3. ASSUME NEW q \in Runs, co'[q].phase = "planning", ~co'[q].aborted
        PROVE  co[q].phase = "planning" /\ ~co[q].aborted
    <3>1. q # r
      BY <2>1, <2>2, <2>3
    <3>. QED  BY <2>1, <2>3, <3>1
  <2>. QED  BY <2>2, <2>3 DEF OrphanInv, NoOrphanNodes, HasRow
<1>6. ASSUME ClearRuns PROVE OrphanInv'
  <2>. DEFINE listed == {r \in Runs : HasRow(r)}
  <2>1. \A n \in Ids : tasks'[n].run \notin Runs
    BY <1>6, ConstantsAssumption DEF ClearRuns, OrphanInv, NoOrphanNodes, NoTask
  <2>2. ASSUME NEW r \in Runs, co'[r].phase = "planning", ~co'[r].aborted PROVE FALSE
    <3>1. CASE r \in listed
      <4>1. co'[r] = Aborted(r)
        BY <1>6, <3>1 DEF ClearRuns
      <4>. QED  BY <1>4, <2>2, <4>1
    <3>2. CASE r \notin listed
      <4>1. co'[r] = co[r]
        BY <1>6, <3>2 DEF ClearRuns
      <4>. QED  BY <2>2, <3>2, <4>1 DEF OrphanInv
    <3>. QED  BY <3>1, <3>2
  <2>. QED  BY <2>1, <2>2 DEF OrphanInv, NoOrphanNodes
<1>7. ASSUME NEW n \in Ids, CancelTaskNode(n) PROVE OrphanInv'
  <2>1. \A m \in Ids : tasks'[m].run = tasks[m].run
    BY <1>7 DEF CancelTaskNode, TypeOK, NoTask
  <2>. QED  BY <1>7, <2>1 DEF CancelTaskNode, OrphanInv, NoOrphanNodes, HasRow
<1>8. ASSUME NEW r \in Runs, Approve(r) PROVE OrphanInv'
  BY <1>2, <1>8 DEF Approve
<1>. QED  BY <1>1, <1>3, <1>5, <1>6, <1>7, <1>8 DEF User

\* A deleted run leaves no node behind, and none of its loops stores one
\* afterwards, whatever was going on when the history was cleared.
THEOREM NoNodeIsOrphaned == Spec => []NoOrphanNodes
<1>1. Init => OrphanInv
  BY ConstantsAssumption DEF Init, OrphanInv, NoOrphanNodes, Idle, NoTask
<1>2. TypeOK /\ OrphanInv /\ [Next]_vars => OrphanInv'
  <2>1. TypeOK /\ OrphanInv /\ UNCHANGED vars => OrphanInv'
    BY DEF vars, OrphanInv, NoOrphanNodes, HasRow
  <2>. QED  BY <2>1, AdvanceKeepsOwners, UserKeepsOwners DEF Next
<1>3. OrphanInv => NoOrphanNodes
  BY DEF OrphanInv
<1>. QED  BY <1>1, <1>2, <1>3, TypeCorrect, PTL DEF Spec

-----------------------------------------------------------------------------
(***************************************************************************)
(* Order.  What has started, or is about to in this wave, has only         *)
(* succeeded nodes before it, and no success is ever taken back: a wave    *)
(* holds no succeeded node, and the node at work is running.               *)
(***************************************************************************)

NodesInOrder(c) ==
  /\ DOMAIN c.sched = DOMAIN c.plan
  /\ \A n \in DOMAIN c.plan : c.plan[n] \subseteq DOMAIN c.plan
  /\ \A n \in DOMAIN c.plan : \A d \in c.plan[n] :
       c.sched[n] \in {"running", "succeeded"} \/ n \in c.wave => c.sched[d] = "succeeded"
  /\ \A n \in c.wave : n \in DOMAIN c.plan /\ c.sched[n] # "succeeded"
  /\ c.node # NoNode => /\ c.node \in DOMAIN c.plan \ c.wave
                        /\ c.sched[c.node] = "running"
  /\ c.phase = "planning" => c.wave = {} /\ c.node = NoNode

OrderInv == \A r \in Runs : NodesInOrder(co[r])

LEMMA IdleInOrder == NodesInOrder(Idle)
BY NoNodesType DEF NodesInOrder, Idle

\* Another phase, answer, abort or attempt disturbs nothing.
LEMMA SameNodesInOrder ==
  ASSUME NEW b, NEW c, NodesInOrder(b), c.sched = b.sched, c.plan = b.plan,
         c.wave = b.wave, c.node = b.node, c.phase \in {b.phase, "waves", "coding", "reviewing", "asking"}
  PROVE  NodesInOrder(c)
BY DEF NodesInOrder

LEMMA GotoInOrder ==
  ASSUME TypeOK, OrderInv, NEW r \in Runs, NEW c, Goto(r, c), NodesInOrder(c)
  PROVE  OrderInv'
<1>1. \A q \in Runs : NodesInOrder(co'[q])
  BY GotoIs DEF OrderInv
<1>. QED  BY <1>1 DEF OrderInv, NodesInOrder

LEMMA NextWaveInOrder ==
  ASSUME TypeOK, OrderInv, NEW r \in Runs, NextWave(r)
  PROVE  OrderInv'
<1>. DEFINE c == [co[r] EXCEPT !.wave = Ready(co[r])]
<1>1. Goto(r, c) /\ co[r].phase = "waves" /\ NodesInOrder(co[r])
  BY DEF NextWave, OrderInv
<1>2. /\ c.sched = co[r].sched /\ c.plan = co[r].plan /\ c.wave = Ready(co[r])
      /\ c.node = co[r].node /\ c.phase = co[r].phase
  BY CoType DEF Coordinators
<1>. HIDE DEF c
<1>3. NodesInOrder(c)
  BY <1>1, <1>2 DEF NodesInOrder, Ready
<1>. QED  BY <1>1, <1>3, GotoInOrder

LEMMA StartNodeInOrder ==
  ASSUME TypeOK, OrderInv, NEW r \in Runs, NEW n \in Ids, StartNode(r, n)
  PROVE  OrderInv'
<1>. DEFINE c == [co[r] EXCEPT !.phase = "coding", !.node = n, !.attempt = 0,
                    !.retried = FALSE, !.wave = @ \ {n},
                    !.sched = [@ EXCEPT ![n] = "running"]]
<1>1. Goto(r, c) /\ n \in co[r].wave /\ NodesInOrder(co[r])
  BY DEF StartNode, OrderInv
<1>2. /\ c.sched = [co[r].sched EXCEPT ![n] = "running"] /\ c.plan = co[r].plan
      /\ c.wave = co[r].wave \ {n} /\ c.node = n /\ c.phase = "coding"
  BY CoType DEF Coordinators
<1>. HIDE DEF c
<1>3. /\ DOMAIN c.sched = DOMAIN co[r].sched /\ c.sched[n] = "running"
      /\ \A m \in DOMAIN co[r].sched \ {n} : c.sched[m] = co[r].sched[m]
  BY <1>1, <1>2, CoType, SchedulesHave DEF NodesInOrder
<1>4. NodesInOrder(c)
  BY <1>1, <1>2, <1>3 DEF NodesInOrder
<1>. QED  BY <1>1, <1>4, GotoInOrder

LEMMA ApprovedInOrder ==
  ASSUME TypeOK, OrderInv, NEW r \in Runs, Approved(r)
  PROVE  OrderInv'
<1>. DEFINE n == co[r].node
            c == [co[r] EXCEPT !.phase = "waves", !.node = NoNode,
                    !.sched = [@ EXCEPT ![co[r].node] = "succeeded"]]
<1>1. Goto(r, c) /\ NodesInOrder(co[r])
  BY DEF Approved, OrderInv
<1>2. /\ c.sched = [co[r].sched EXCEPT ![n] = "succeeded"] /\ c.plan = co[r].plan
      /\ c.wave = co[r].wave /\ c.node = NoNode /\ c.phase = "waves"
  BY CoType DEF Coordinators
<1>. HIDE DEF c
<1>3. /\ DOMAIN c.sched = DOMAIN co[r].sched
      /\ n \in DOMAIN co[r].sched => c.sched[n] = "succeeded"
      /\ \A m \in DOMAIN co[r].sched \ {n} : c.sched[m] = co[r].sched[m]
  BY <1>2, CoType, SchedulesHave
<1>4. n = NoNode => n \notin DOMAIN co[r].sched
  BY CoType, SchedulesHave, ConstantsAssumption
<1>5. NodesInOrder(c)
  BY <1>1, <1>2, <1>3, <1>4 DEF NodesInOrder
<1>. QED  BY <1>1, <1>5, GotoInOrder

LEMMA BlockNodeInOrder ==
  ASSUME TypeOK, OrderInv, NEW r \in Runs, BlockNode(r)
  PROVE  OrderInv'
<1>. DEFINE c == [co[r] EXCEPT !.phase = "waves", !.node = NoNode, !.sched = Blocked(co[r])]
<1>1. Goto(r, c) /\ NodesInOrder(co[r])
  BY DEF BlockNode, OrderInv
<1>2. /\ c.sched = Blocked(co[r]) /\ c.plan = co[r].plan
      /\ c.wave = co[r].wave /\ c.node = NoNode /\ c.phase = "waves"
  BY CoType DEF Coordinators
<1>. HIDE DEF c
<1>3. /\ DOMAIN c.sched = DOMAIN co[r].sched
      /\ \A m \in DOMAIN co[r].sched :
           /\ c.sched[m] \in {"failed", "blocked", co[r].sched[m]}
           /\ m # co[r].node /\ co[r].sched[m] = "succeeded" => c.sched[m] = "succeeded"
  BY <1>2 DEF Blocked
<1>4. co[r].node \in DOMAIN co[r].sched => co[r].sched[co[r].node] # "succeeded"
  <2>1. co[r].node \in DOMAIN co[r].sched => co[r].node # NoNode
    BY CoType, SchedulesHave, ConstantsAssumption
  <2>. QED  BY <1>1, <2>1 DEF NodesInOrder
<1>5. NodesInOrder(c)
  BY <1>1, <1>2, <1>3, <1>4 DEF NodesInOrder
<1>. QED  BY <1>1, <1>5, GotoInOrder

LEMMA PlanAcceptedInOrder ==
  ASSUME TypeOK, OrderInv, NEW r \in Runs, NEW deps \in Plans, PlanAccepted(r, deps)
  PROVE  OrderInv'
<1>. DEFINE c == [co[r] EXCEPT !.phase = "approving", !.plan = deps,
                    !.sched = [n \in DOMAIN deps |-> "pending"],
                    !.answer = IF r \in early THEN "yes" ELSE "none"]
<1>1. Goto(r, c) /\ co[r].phase = "planning" /\ NodesInOrder(co[r])
  BY DEF PlanAccepted, OrderInv
<1>2. /\ c.sched = [n \in DOMAIN deps |-> "pending"] /\ c.plan = deps
      /\ c.wave = co[r].wave /\ c.node = co[r].node /\ c.phase = "approving"
  BY CoType DEF Coordinators
<1>. HIDE DEF c
<1>3. NodesInOrder(c)
  BY <1>1, <1>2, PlansHave DEF NodesInOrder
<1>. QED  BY <1>1, <1>3, GotoInOrder

LEMMA AdvanceInOrder ==
  ASSUME TypeOK, OrderInv, NEW r \in Runs, Advance(r)
  PROVE  OrderInv'
<1>1. NodesInOrder(co[r])
  BY DEF OrderInv
<1>2. ASSUME NEW status, Ended(r, status) PROVE OrderInv'
  BY <1>2, IdleInOrder, GotoInOrder DEF Ended
<1>3. CASE PlanFails(r) \/ PlanRejected(r) \/ WavesEnd(r) \/ Cancel(r)
  BY <1>2, <1>3 DEF PlanFails, PlanRejected, WavesEnd, Cancel
<1>4. ASSUME NEW deps \in Plans, PlanCollides(r, deps) PROVE OrderInv'
  BY <1>2, <1>4 DEF PlanCollides
<1>5. CASE PlanApproved(r)
  <2>. DEFINE c == [co[r] EXCEPT !.phase = "waves", !.answer = "none"]
  <2>1. Goto(r, c)
    BY <1>5 DEF PlanApproved
  <2>2. /\ c.sched = co[r].sched /\ c.plan = co[r].plan /\ c.wave = co[r].wave
        /\ c.node = co[r].node /\ c.phase \in {"waves", "coding", "reviewing", "asking"}
    BY CoType DEF Coordinators
  <2>. HIDE DEF c
  <2>3. NodesInOrder(c)
    BY <1>1, <2>2, SameNodesInOrder
  <2>. QED  BY <2>1, <2>3, GotoInOrder
<1>6. CASE CoderDone(r)
  <2>. DEFINE c == [co[r] EXCEPT !.phase = "reviewing"]
  <2>1. Goto(r, c)
    BY <1>6 DEF CoderDone
  <2>2. /\ c.sched = co[r].sched /\ c.plan = co[r].plan /\ c.wave = co[r].wave
        /\ c.node = co[r].node /\ c.phase \in {"waves", "coding", "reviewing", "asking"}
    BY CoType DEF Coordinators
  <2>. HIDE DEF c
  <2>3. NodesInOrder(c)
    BY <1>1, <2>2, SameNodesInOrder
  <2>. QED  BY <2>1, <2>3, GotoInOrder
<1>7. CASE ChangesRequested(r)
  <2>. DEFINE c == [co[r] EXCEPT !.phase = "coding", !.attempt = @ + 1]
  <2>1. Goto(r, c)
    BY <1>7 DEF ChangesRequested
  <2>2. /\ c.sched = co[r].sched /\ c.plan = co[r].plan /\ c.wave = co[r].wave
        /\ c.node = co[r].node /\ c.phase \in {"waves", "coding", "reviewing", "asking"}
    BY CoType DEF Coordinators
  <2>. HIDE DEF c
  <2>3. NodesInOrder(c)
    BY <1>1, <2>2, SameNodesInOrder
  <2>. QED  BY <2>1, <2>3, GotoInOrder
<1>8. CASE Retry(r)
  <2>. DEFINE c == [co[r] EXCEPT !.phase = "coding", !.attempt = 0, !.retried = TRUE]
  <2>1. Goto(r, c)
    BY <1>8 DEF Retry
  <2>2. /\ c.sched = co[r].sched /\ c.plan = co[r].plan /\ c.wave = co[r].wave
        /\ c.node = co[r].node /\ c.phase \in {"waves", "coding", "reviewing", "asking"}
    BY CoType DEF Coordinators
  <2>. HIDE DEF c
  <2>3. NodesInOrder(c)
    BY <1>1, <2>2, SameNodesInOrder
  <2>. QED  BY <2>1, <2>3, GotoInOrder
<1>9. CASE NodeFails(r)
  <2>1. CASE co[r].retried
    BY <1>9, <2>1, BlockNodeInOrder DEF NodeFails
  <2>2. CASE ~co[r].retried
    <3>. DEFINE c == [co[r] EXCEPT !.phase = "asking"]
    <3>1. Goto(r, c)
      BY <1>9, <2>2 DEF NodeFails
    <3>2. /\ c.sched = co[r].sched /\ c.plan = co[r].plan /\ c.wave = co[r].wave
          /\ c.node = co[r].node /\ c.phase = "asking"
      BY CoType DEF Coordinators
    <3>. HIDE DEF c
    <3>3. NodesInOrder(c)
      BY <1>1, <3>2, SameNodesInOrder
    <3>. QED  BY <3>1, <3>3, GotoInOrder
  <2>. QED  BY <2>1, <2>2
<1>10. CASE Skip(r)
  BY <1>10, BlockNodeInOrder DEF Skip
<1>. QED
  BY <1>3, <1>4, <1>5, <1>6, <1>7, <1>8, <1>9, <1>10, PlanAcceptedInOrder, NextWaveInOrder,
     StartNodeInOrder, ApprovedInOrder DEF Advance

LEMMA UserInOrder ==
  ASSUME TypeOK, OrderInv, User
  PROVE  OrderInv'
<1>1. ASSUME NEW r \in Runs, NEW c, NodesInOrder(co[r]), c.sched = co[r].sched,
             c.plan = co[r].plan, c.wave = co[r].wave, c.node = co[r].node,
             c.phase = co[r].phase
      PROVE  NodesInOrder(c)
  BY <1>1, SameNodesInOrder
<1>2. ASSUME NEW r \in Runs PROVE NodesInOrder(Aborted(r))
  <2>1. /\ Aborted(r).sched = co[r].sched /\ Aborted(r).plan = co[r].plan
        /\ Aborted(r).wave = co[r].wave /\ Aborted(r).node = co[r].node
        /\ Aborted(r).phase = co[r].phase
    BY CoType DEF Aborted, Coordinators
  <2>. QED  BY <1>1, <2>1 DEF OrderInv
<1>3. ASSUME NEW r \in Runs, RunTask(r) PROVE OrderInv'
  <2>. DEFINE c == [Idle EXCEPT !.phase = "planning"]
  <2>1. Goto(r, c)
    BY <1>3 DEF RunTask
  <2>2. NodesInOrder(c)
    BY NoNodesType DEF NodesInOrder, Idle
  <2>. HIDE DEF c
  <2>. QED  BY <2>1, <2>2, GotoInOrder
<1>4. ASSUME NEW r \in Runs, Approve(r) PROVE OrderInv'
  <2>. DEFINE c == [co[r] EXCEPT !.answer = "yes"]
  <2>1. Goto(r, c)
    BY <1>4 DEF Approve
  <2>2. /\ c.sched = co[r].sched /\ c.plan = co[r].plan /\ c.wave = co[r].wave
        /\ c.node = co[r].node /\ c.phase = co[r].phase
    BY CoType DEF Coordinators
  <2>. HIDE DEF c
  <2>3. NodesInOrder(c)
    BY <1>1, <2>2 DEF OrderInv
  <2>. QED  BY <2>1, <2>3, GotoInOrder
<1>5. ASSUME NEW r \in Runs, Stop(r) PROVE OrderInv'
  BY <1>2, <1>5, GotoInOrder DEF Stop
<1>6. ASSUME ClearRuns PROVE OrderInv'
  <2>1. \A r \in Runs : co'[r] \in {Aborted(r), co[r]}
    BY <1>6 DEF ClearRuns
  <2>2. \A r \in Runs : NodesInOrder(co'[r])
    BY <1>2, <2>1 DEF OrderInv
  <2>. QED  BY <2>2 DEF OrderInv, NodesInOrder
<1>7. ASSUME NEW r \in Runs, ApproveEarly(r) PROVE OrderInv'
  BY <1>7 DEF ApproveEarly, OrderInv, NodesInOrder
<1>8. ASSUME NEW n \in Ids, CancelTaskNode(n) PROVE OrderInv'
  BY <1>8 DEF CancelTaskNode, OrderInv, NodesInOrder
<1>. QED  BY <1>3, <1>4, <1>5, <1>6, <1>7, <1>8 DEF User

\* What a node depends on at any distance had to succeed before it started: the
\* nodes that have not started, or started after d succeeded, are closed under
\* "depends on".
LEMMA OrderAtAnyDistance ==
  ASSUME NEW c, NodesInOrder(c), c.node # NoNode, NEW d \in DOMAIN c.plan,
         c.node \in Dependents(c.plan, d)
  PROVE  c.sched[d] = "succeeded"
<1>. DEFINE S == {m \in DOMAIN c.plan :
                    c.sched[m] \in {"running", "succeeded"} => c.sched[d] = "succeeded"}
<1>1. DirectDependents(c.plan, d) \subseteq S
  BY DEF DirectDependents, NodesInOrder
<1>2. \A k \in S : DirectDependents(c.plan, k) \subseteq S
  BY DEF DirectDependents, NodesInOrder
<1>3. c.node \in S
  BY <1>1, <1>2 DEF Dependents
<1>. QED  BY <1>3 DEF NodesInOrder

\* No node is worked on before all it depends on, directly or not, has
\* succeeded, whatever failed, was retried, skipped or blocked before.
THEOREM NodesAreInOrder == Spec => []DependenciesFirst
<1>1. Init => OrderInv
  BY IdleInOrder DEF Init, OrderInv
<1>2. TypeOK /\ OrderInv /\ [Next]_vars => OrderInv'
  <2>1. TypeOK /\ OrderInv /\ UNCHANGED vars => OrderInv'
    BY DEF vars, OrderInv, NodesInOrder
  <2>. QED  BY <2>1, AdvanceInOrder, UserInOrder DEF Next
<1>3. OrderInv => DependenciesFirst
  BY OrderAtAnyDistance DEF OrderInv, DependenciesFirst
<1>. QED  BY <1>1, <1>2, <1>3, TypeCorrect, PTL DEF Spec

-----------------------------------------------------------------------------
(***************************************************************************)
(* What a plan settles to.  Only the node at work is running, the          *)
(* scheduler cancels none, and what depends on a node that failed or was   *)
(* blocked is itself out of reach.                                         *)
(***************************************************************************)

Work == {"coding", "reviewing", "asking"}

Stuck == {"failed", "blocked"}

Settling(c) ==
  /\ c.phase \in Work <=> c.node # NoNode
  /\ \A n \in DOMAIN c.sched : /\ c.sched[n] # "cancelled"
                               /\ c.sched[n] = "running" => n = c.node
  /\ \A n \in DOMAIN c.plan : \A d \in c.plan[n] :
       c.sched[d] \in Stuck => c.sched[n] \in Stuck

SettleInv == \A r \in Runs : Settling(co[r])

LEMMA SchedNames ==
  ASSUME TypeOK, NEW r \in Runs
  PROVE  DOMAIN co[r].sched \subseteq Ids
BY CoType, SchedulesHave

LEMMA IdleSettles ==
  ASSUME NEW c, c.plan = NoNodes, c.sched = NoNodes, c.node = NoNode, c.phase \notin Work
  PROVE  Settling(c)
BY NoNodesType DEF Settling

\* Another phase of the same kind, answer, abort, wave or attempt.
LEMMA SameSettling ==
  ASSUME NEW b, NEW c, Settling(b), c.sched = b.sched, c.plan = b.plan, c.node = b.node,
         c.phase \in Work <=> b.phase \in Work
  PROVE  Settling(c)
BY DEF Settling

LEMMA GotoSettles ==
  ASSUME TypeOK, SettleInv, NEW r \in Runs, NEW c, Goto(r, c), Settling(c)
  PROVE  SettleInv'
<1>1. \A q \in Runs : Settling(co'[q])
  BY GotoIs DEF SettleInv
<1>. QED  BY <1>1 DEF SettleInv, Settling

LEMMA StartNodeSettles ==
  ASSUME TypeOK, OrderInv, SettleInv, NEW r \in Runs, NEW n \in Ids, StartNode(r, n)
  PROVE  SettleInv'
<1>. DEFINE c == [co[r] EXCEPT !.phase = "coding", !.node = n, !.attempt = 0,
                    !.retried = FALSE, !.wave = @ \ {n},
                    !.sched = [@ EXCEPT ![n] = "running"]]
<1>1. /\ Goto(r, c) /\ n \in co[r].wave /\ co[r].phase = "waves"
      /\ NodesInOrder(co[r]) /\ Settling(co[r])
  BY DEF StartNode, OrderInv, SettleInv
<1>2. /\ c.sched = [co[r].sched EXCEPT ![n] = "running"] /\ c.plan = co[r].plan
      /\ c.node = n /\ c.phase = "coding"
  BY CoType DEF Coordinators
<1>. HIDE DEF c
<1>3. /\ DOMAIN c.sched = DOMAIN co[r].sched /\ c.sched[n] = "running"
      /\ \A m \in DOMAIN co[r].sched \ {n} : c.sched[m] = co[r].sched[m]
  BY <1>1, <1>2, CoType, SchedulesHave DEF NodesInOrder
<1>4. n # NoNode
  BY ConstantsAssumption
<1>5. \A m \in DOMAIN c.sched : c.sched[m] # "cancelled" /\ (c.sched[m] = "running" => m = n)
  <2>1. NoNode \notin DOMAIN co[r].sched
    BY SchedNames, ConstantsAssumption
  <2>. QED  BY <1>1, <1>3, <2>1 DEF Settling, Work
<1>6. ASSUME NEW m \in DOMAIN c.plan, NEW d \in c.plan[m], c.sched[d] \in Stuck
      PROVE  c.sched[m] \in Stuck
  <2>1. d # n /\ d \in DOMAIN co[r].sched /\ m \in DOMAIN co[r].sched /\ co[r].sched[d] \in Stuck
    BY <1>1, <1>2, <1>3, <1>6 DEF NodesInOrder, Stuck
  <2>2. m # n
    BY <1>1, <1>2, <1>6, <2>1 DEF NodesInOrder, Stuck
  <2>. QED  BY <1>1, <1>2, <1>3, <1>6, <2>1, <2>2 DEF Settling
<1>7. Settling(c)
  BY <1>2, <1>4, <1>5, <1>6 DEF Settling, Work
<1>. QED  BY <1>1, <1>7, GotoSettles

LEMMA ApprovedSettles ==
  ASSUME TypeOK, OrderInv, SettleInv, NEW r \in Runs, Approved(r)
  PROVE  SettleInv'
<1>. DEFINE n == co[r].node
            c == [co[r] EXCEPT !.phase = "waves", !.node = NoNode,
                    !.sched = [@ EXCEPT ![co[r].node] = "succeeded"]]
<1>1. Goto(r, c) /\ co[r].phase = "reviewing" /\ NodesInOrder(co[r]) /\ Settling(co[r])
  BY DEF Approved, OrderInv, SettleInv
<1>2. /\ c.sched = [co[r].sched EXCEPT ![n] = "succeeded"] /\ c.plan = co[r].plan
      /\ c.node = NoNode /\ c.phase = "waves"
  BY CoType DEF Coordinators
<1>3. n \in DOMAIN co[r].plan /\ co[r].sched[n] = "running" /\ DOMAIN co[r].sched = DOMAIN co[r].plan
  BY <1>1 DEF Settling, NodesInOrder, Work
<1>. HIDE DEF c, n
<1>4. /\ DOMAIN c.sched = DOMAIN co[r].sched /\ c.sched[n] = "succeeded"
      /\ \A m \in DOMAIN co[r].sched \ {n} : c.sched[m] = co[r].sched[m]
  BY <1>2, <1>3, CoType, SchedulesHave
<1>5. \A m \in DOMAIN c.sched : c.sched[m] \notin {"cancelled", "running"}
  BY <1>1, <1>4 DEF Settling, n
<1>6. ASSUME NEW m \in DOMAIN c.plan, NEW d \in c.plan[m], c.sched[d] \in Stuck
      PROVE  c.sched[m] \in Stuck
  <2>1. d # n /\ d \in DOMAIN co[r].sched /\ m \in DOMAIN co[r].sched /\ co[r].sched[d] \in Stuck
    BY <1>1, <1>2, <1>3, <1>4, <1>6 DEF NodesInOrder, Stuck
  <2>2. co[r].sched[m] \in Stuck /\ m # n
    BY <1>1, <1>2, <1>3, <1>6, <2>1 DEF Settling, Stuck
  <2>. QED  BY <1>4, <2>1, <2>2
<1>7. Settling(c)
  BY <1>2, <1>5, <1>6 DEF Settling, Work
<1>. QED  BY <1>1, <1>7, GotoSettles

LEMMA DependentsClosed ==
  ASSUME NEW deps, NEW n
  PROVE  /\ DirectDependents(deps, n) \subseteq Dependents(deps, n)
         /\ \A k \in Dependents(deps, n) : DirectDependents(deps, k) \subseteq Dependents(deps, n)
BY DEF Dependents, DirectDependents

\* Blocking reaches every dependent, and none of them had succeeded.
LEMMA BlockNodeSettles ==
  ASSUME TypeOK, OrderInv, SettleInv, NEW r \in Runs, BlockNode(r), co[r].phase \in Work
  PROVE  SettleInv'
<1>. DEFINE n == co[r].node
            b == co[r]
            c == [co[r] EXCEPT !.phase = "waves", !.node = NoNode, !.sched = Blocked(co[r])]
<1>1. Goto(r, c) /\ NodesInOrder(b) /\ Settling(b)
  BY DEF BlockNode, OrderInv, SettleInv
<1>2. /\ c.sched = Blocked(b) /\ c.plan = b.plan /\ c.node = NoNode /\ c.phase = "waves"
  BY CoType DEF Coordinators
<1>3. n \in DOMAIN b.plan /\ b.sched[n] = "running" /\ DOMAIN b.sched = DOMAIN b.plan
  BY <1>1 DEF Settling, NodesInOrder, Work
<1>4. /\ DOMAIN Blocked(b) = DOMAIN b.plan /\ Blocked(b)[n] = "failed"
      /\ \A m \in DOMAIN b.plan \ {n} :
           Blocked(b)[m] = IF m \in Dependents(b.plan, n) /\ b.sched[m] \notin {"failed", "succeeded"}
                           THEN "blocked" ELSE b.sched[m]
  BY <1>3 DEF Blocked
<1>. HIDE DEF c, n, b
<1>5. \A m \in DOMAIN c.sched : c.sched[m] \notin {"cancelled", "running"}
  BY <1>1, <1>2, <1>3, <1>4 DEF Settling, n, b
<1>6. ASSUME NEW m \in DOMAIN b.plan, NEW d \in b.plan[m], Blocked(b)[d] \in Stuck
      PROVE  Blocked(b)[m] \in Stuck
  <2>1. d \in DOMAIN b.plan /\ m \in DirectDependents(b.plan, d)
    BY <1>1, <1>6 DEF NodesInOrder, DirectDependents
  <2>2. CASE m = n
    BY <1>4, <2>2 DEF Stuck
  <2>3. CASE m # n /\ b.sched[d] \in Stuck
    <3>1. b.sched[m] \in Stuck
      BY <1>1, <1>6, <2>3 DEF Settling
    <3>. QED  BY <1>4, <2>3, <3>1 DEF Stuck
  <2>4. CASE m # n /\ b.sched[d] \notin Stuck
    <3>1. d = n \/ d \in Dependents(b.plan, n)
      BY <1>4, <1>6, <2>1, <2>4
    <3>2. m \in Dependents(b.plan, n)
      BY <2>1, <3>1, DependentsClosed
    <3>3. b.sched[m] # "succeeded"
      <4>1. b.sched[d] # "succeeded"
        BY <1>3, <1>4, <1>6, <2>1 DEF Stuck
      <4>. QED  BY <1>1, <1>6, <4>1 DEF NodesInOrder
    <3>. QED  BY <1>4, <2>4, <3>2, <3>3 DEF Stuck
  <2>. QED  BY <2>2, <2>3, <2>4
<1>7. Settling(c)
  BY <1>2, <1>5, <1>6 DEF Settling, Work
<1>. QED  BY <1>1, <1>7, GotoSettles

LEMMA PlanAcceptedSettles ==
  ASSUME TypeOK, SettleInv, NEW r \in Runs, NEW deps \in Plans, PlanAccepted(r, deps)
  PROVE  SettleInv'
<1>. DEFINE c == [co[r] EXCEPT !.phase = "approving", !.plan = deps,
                    !.sched = [n \in DOMAIN deps |-> "pending"],
                    !.answer = IF r \in early THEN "yes" ELSE "none"]
<1>1. Goto(r, c) /\ co[r].phase = "planning" /\ Settling(co[r])
  BY DEF PlanAccepted, SettleInv
<1>2. /\ c.sched = [n \in DOMAIN deps |-> "pending"] /\ c.plan = deps
      /\ c.node = co[r].node /\ c.phase = "approving"
  BY CoType DEF Coordinators
<1>. HIDE DEF c
<1>3. Settling(c)
  BY <1>1, <1>2, PlansHave DEF Settling, Work, Stuck
<1>. QED  BY <1>1, <1>3, GotoSettles

LEMMA AdvanceSettles ==
  ASSUME TypeOK, OrderInv, SettleInv, NEW r \in Runs, Advance(r)
  PROVE  SettleInv'
<1>1. Settling(co[r])
  BY DEF SettleInv
<1>2. ASSUME NEW status, Ended(r, status) PROVE SettleInv'
  BY <1>2, IdleSettles, GotoSettles DEF Ended, Idle, Work
<1>3. CASE PlanFails(r) \/ PlanRejected(r) \/ WavesEnd(r) \/ Cancel(r)
  BY <1>2, <1>3 DEF PlanFails, PlanRejected, WavesEnd, Cancel
<1>4. ASSUME NEW deps \in Plans, PlanCollides(r, deps) PROVE SettleInv'
  BY <1>2, <1>4 DEF PlanCollides
<1>5. ASSUME NEW c, Goto(r, c), c.sched = co[r].sched, c.plan = co[r].plan, c.node = co[r].node,
             c.phase \in Work <=> co[r].phase \in Work
      PROVE  SettleInv'
  BY <1>1, <1>5, SameSettling, GotoSettles
<1>6. CASE PlanApproved(r)
  <2>. DEFINE c == [co[r] EXCEPT !.phase = "waves", !.answer = "none"]
  <2>1. Goto(r, c) /\ co[r].phase = "approving"
    BY <1>6 DEF PlanApproved
  <2>2. c.sched = co[r].sched /\ c.plan = co[r].plan /\ c.node = co[r].node /\ c.phase = "waves"
    BY CoType DEF Coordinators
  <2>. HIDE DEF c
  <2>. QED  BY <1>5, <2>1, <2>2 DEF Work
<1>7. CASE NextWave(r)
  <2>. DEFINE c == [co[r] EXCEPT !.wave = Ready(co[r])]
  <2>1. Goto(r, c)
    BY <1>7 DEF NextWave
  <2>2. /\ c.sched = co[r].sched /\ c.plan = co[r].plan /\ c.node = co[r].node
        /\ c.phase = co[r].phase
    BY CoType DEF Coordinators
  <2>. HIDE DEF c
  <2>. QED  BY <1>5, <2>1, <2>2
<1>8. CASE CoderDone(r)
  <2>. DEFINE c == [co[r] EXCEPT !.phase = "reviewing"]
  <2>1. Goto(r, c) /\ co[r].phase \in Work
    BY <1>8 DEF CoderDone, Work
  <2>2. c.sched = co[r].sched /\ c.plan = co[r].plan /\ c.node = co[r].node /\ c.phase \in Work
    BY CoType DEF Coordinators, Work
  <2>. HIDE DEF c
  <2>. QED  BY <1>5, <2>1, <2>2
<1>9. CASE ChangesRequested(r)
  <2>. DEFINE c == [co[r] EXCEPT !.phase = "coding", !.attempt = @ + 1]
  <2>1. Goto(r, c) /\ co[r].phase \in Work
    BY <1>9 DEF ChangesRequested, Work
  <2>2. c.sched = co[r].sched /\ c.plan = co[r].plan /\ c.node = co[r].node /\ c.phase \in Work
    BY CoType DEF Coordinators, Work
  <2>. HIDE DEF c
  <2>. QED  BY <1>5, <2>1, <2>2
<1>10. CASE Retry(r)
  <2>. DEFINE c == [co[r] EXCEPT !.phase = "coding", !.attempt = 0, !.retried = TRUE]
  <2>1. Goto(r, c) /\ co[r].phase \in Work
    BY <1>10 DEF Retry, Work
  <2>2. c.sched = co[r].sched /\ c.plan = co[r].plan /\ c.node = co[r].node /\ c.phase \in Work
    BY CoType DEF Coordinators, Work
  <2>. HIDE DEF c
  <2>. QED  BY <1>5, <2>1, <2>2
<1>11. CASE NodeFails(r)
  <2>1. CASE co[r].retried
    BY <1>11, <2>1, BlockNodeSettles DEF NodeFails, Work
  <2>2. CASE ~co[r].retried
    <3>. DEFINE c == [co[r] EXCEPT !.phase = "asking"]
    <3>1. Goto(r, c) /\ co[r].phase \in Work
      BY <1>11, <2>2 DEF NodeFails, Work
    <3>2. c.sched = co[r].sched /\ c.plan = co[r].plan /\ c.node = co[r].node /\ c.phase \in Work
      BY CoType DEF Coordinators, Work
    <3>. HIDE DEF c
    <3>. QED  BY <1>5, <3>1, <3>2
  <2>. QED  BY <2>1, <2>2
<1>12. CASE Skip(r)
  BY <1>12, BlockNodeSettles DEF Skip, Work
<1>. QED
  BY <1>3, <1>4, <1>6, <1>7, <1>8, <1>9, <1>10, <1>11, <1>12, PlanAcceptedSettles,
     StartNodeSettles, ApprovedSettles DEF Advance

LEMMA AbortedIs ==
  ASSUME TypeOK, NEW r \in Runs
  PROVE  /\ Aborted(r).sched = co[r].sched /\ Aborted(r).plan = co[r].plan
         /\ Aborted(r).node = co[r].node /\ Aborted(r).phase = co[r].phase
BY CoType DEF Aborted, Coordinators

LEMMA UserSettles ==
  ASSUME TypeOK, SettleInv, User
  PROVE  SettleInv'
<1>1. ASSUME NEW r \in Runs PROVE Settling(Aborted(r))
  BY AbortedIs, SameSettling DEF SettleInv
<1>2. ASSUME NEW r \in Runs, RunTask(r) PROVE SettleInv'
  <2>. DEFINE c == [Idle EXCEPT !.phase = "planning"]
  <2>1. Goto(r, c)
    BY <1>2 DEF RunTask
  <2>2. c.plan = NoNodes /\ c.sched = NoNodes /\ c.node = NoNode /\ c.phase \notin Work
    BY DEF Idle, Work
  <2>. HIDE DEF c
  <2>. QED  BY <2>1, <2>2, IdleSettles, GotoSettles
<1>3. ASSUME NEW r \in Runs, Approve(r) PROVE SettleInv'
  <2>. DEFINE c == [co[r] EXCEPT !.answer = "yes"]
  <2>1. Goto(r, c)
    BY <1>3 DEF Approve
  <2>2. c.sched = co[r].sched /\ c.plan = co[r].plan /\ c.node = co[r].node /\ c.phase = co[r].phase
    BY CoType DEF Coordinators
  <2>. HIDE DEF c
  <2>3. Settling(c)
    BY <2>2, SameSettling DEF SettleInv
  <2>. QED  BY <2>1, <2>3, GotoSettles
<1>4. ASSUME NEW r \in Runs, Stop(r) PROVE SettleInv'
  BY <1>1, <1>4, GotoSettles DEF Stop
<1>5. ASSUME ClearRuns PROVE SettleInv'
  <2>1. \A r \in Runs : co'[r] \in {Aborted(r), co[r]}
    BY <1>5 DEF ClearRuns
  <2>2. \A r \in Runs : Settling(co'[r])
    BY <1>1, <2>1 DEF SettleInv
  <2>. QED  BY <2>2 DEF SettleInv, Settling
<1>6. ASSUME co' = co PROVE SettleInv'
  BY <1>6 DEF SettleInv, Settling
<1>. QED  BY <1>2, <1>3, <1>4, <1>5, <1>6 DEF User, ApproveEarly, CancelTaskNode

-----------------------------------------------------------------------------
(***************************************************************************)
(* Whose nodes they are.  A run has no node before its plan is accepted,   *)
(* and then no other than the scheduler's.                                 *)
(***************************************************************************)

Owned(r) ==
  /\ row[r] = "fresh" => co[r].phase = "idle"
  /\ row[r] = "fresh" \/ co[r].phase = "planning" => \A n \in Ids : tasks[n].run # r
  /\ co[r].phase \notin {"idle", "planning"} =>
       \A n \in Ids : tasks[n].run = r => n \in DOMAIN co[r].sched

OwnInv == \A r \in Runs : Owned(r)

LEMMA GoOnOwned ==
  ASSUME TypeOK, OwnInv, NEW r \in Runs, NEW c, Goto(r, c), row' = row,
         \A n \in Ids : tasks'[n].run = tasks[n].run,
         co[r].phase \notin {"idle", "planning"}, c.phase \notin {"idle", "planning"},
         DOMAIN c.sched = DOMAIN co[r].sched
  PROVE  OwnInv'
<1>1. \A q \in Runs : Owned(q)'
  BY GotoIs DEF OwnInv, Owned
<1>. QED  BY <1>1 DEF OwnInv

LEMMA EndOwned ==
  ASSUME TypeOK, OwnInv, NEW r \in Runs, NEW status \in {"done", "cancelled", "failed"},
         Ended(r, status), co[r].phase # "idle",
         \A n \in Ids : tasks'[n].run \in {tasks[n].run, r}
  PROVE  OwnInv'
<1>1. row[r] # "fresh" /\ row'[r] # "fresh" /\ co'[r].phase = "idle"
  BY GotoIs DEF Ended, TypeOK, OwnInv, Owned, Idle
<1>2. \A q \in Runs \ {r} : co'[q] = co[q] /\ row'[q] = row[q]
  BY GotoIs DEF Ended, TypeOK
<1>3. \A q \in Runs : Owned(q)'
  BY <1>1, <1>2 DEF OwnInv, Owned
<1>. QED  BY <1>3 DEF OwnInv

LEMMA PlanAcceptedOwned ==
  ASSUME TypeOK, OwnInv, NEW r \in Runs, NEW deps \in Plans, PlanAccepted(r, deps)
  PROVE  OwnInv'
<1>. DEFINE c == [co[r] EXCEPT !.phase = "approving", !.plan = deps,
                    !.sched = [n \in DOMAIN deps |-> "pending"],
                    !.answer = IF r \in early THEN "yes" ELSE "none"]
<1>1. Goto(r, c) /\ row' = row /\ co[r].phase = "planning"
  BY DEF PlanAccepted
<1>2. DOMAIN c.sched = DOMAIN deps /\ c.phase = "approving"
  BY CoType DEF Coordinators
<1>. HIDE DEF c
<1>3. \A n \in Ids : tasks'[n].run = IF n \in DOMAIN deps THEN r ELSE tasks[n].run
  BY DEF PlanAccepted
<1>4. \A q \in Runs : Owned(q)'
  BY <1>1, <1>2, <1>3, GotoIs DEF OwnInv, Owned
<1>. QED  BY <1>4 DEF OwnInv

LEMMA AdvanceOwned ==
  ASSUME TypeOK, OwnInv, NEW r \in Runs, Advance(r)
  PROVE  OwnInv'
<1>1. CASE PlanFails(r) \/ PlanRejected(r) \/ WavesEnd(r)
  <2>1. /\ tasks' = tasks /\ co[r].phase # "idle"
        /\ \E status \in {"done", "cancelled", "failed"} : Ended(r, status)
    BY <1>1 DEF PlanFails, PlanRejected, WavesEnd
  <2>. QED  BY <2>1, EndOwned
<1>2. ASSUME NEW deps \in Plans, PlanCollides(r, deps) PROVE OwnInv'
  <2>1. \A n \in Ids : tasks'[n].run \in {tasks[n].run, r}
    BY <1>2 DEF PlanCollides
  <2>. QED  BY <1>2, <2>1, EndOwned DEF PlanCollides
<1>3. CASE Cancel(r)
  <2>1. \A n \in Ids : tasks'[n].run = tasks[n].run
    BY <1>3, StoreKeepsRuns DEF Cancel
  <2>. QED  BY <1>3, <2>1, EndOwned DEF Cancel
<1>4. CASE PlanApproved(r)
  <2>. DEFINE c == [co[r] EXCEPT !.phase = "waves", !.answer = "none"]
  <2>1. Goto(r, c) /\ row' = row /\ tasks' = tasks /\ co[r].phase = "approving"
    BY <1>4 DEF PlanApproved
  <2>2. c.sched = co[r].sched /\ c.phase = "waves"
    BY CoType DEF Coordinators
  <2>. HIDE DEF c
  <2>. QED  BY <2>1, <2>2, GoOnOwned
<1>5. CASE NextWave(r)
  <2>. DEFINE c == [co[r] EXCEPT !.wave = Ready(co[r])]
  <2>1. Goto(r, c) /\ row' = row /\ tasks' = tasks /\ co[r].phase = "waves"
    BY <1>5 DEF NextWave
  <2>2. c.sched = co[r].sched /\ c.phase = co[r].phase
    BY CoType DEF Coordinators
  <2>. HIDE DEF c
  <2>. QED  BY <2>1, <2>2, GoOnOwned
<1>6. ASSUME NEW n \in Ids, StartNode(r, n) PROVE OwnInv'
  <2>. DEFINE c == [co[r] EXCEPT !.phase = "coding", !.node = n, !.attempt = 0,
                      !.retried = FALSE, !.wave = @ \ {n},
                      !.sched = [@ EXCEPT ![n] = "running"]]
  <2>1. Goto(r, c) /\ row' = row /\ co[r].phase = "waves"
    BY <1>6 DEF StartNode
  <2>2. c.sched = [co[r].sched EXCEPT ![n] = "running"] /\ c.phase = "coding"
    BY CoType DEF Coordinators
  <2>. HIDE DEF c
  <2>3. \A m \in Ids : tasks'[m].run = tasks[m].run
    BY <1>6, StoreKeepsRuns DEF StartNode
  <2>4. DOMAIN c.sched = DOMAIN co[r].sched
    BY <2>2
  <2>. QED  BY <2>1, <2>2, <2>3, <2>4, GoOnOwned
<1>7. CASE CoderDone(r)
  <2>. DEFINE c == [co[r] EXCEPT !.phase = "reviewing"]
  <2>1. Goto(r, c) /\ row' = row /\ tasks' = tasks /\ co[r].phase = "coding"
    BY <1>7 DEF CoderDone
  <2>2. c.sched = co[r].sched /\ c.phase = "reviewing"
    BY CoType DEF Coordinators
  <2>. HIDE DEF c
  <2>. QED  BY <2>1, <2>2, GoOnOwned
<1>8. CASE Approved(r)
  <2>. DEFINE c == [co[r] EXCEPT !.phase = "waves", !.node = NoNode,
                      !.sched = [@ EXCEPT ![co[r].node] = "succeeded"]]
  <2>1. Goto(r, c) /\ row' = row /\ co[r].phase = "reviewing"
    BY <1>8 DEF Approved
  <2>2. c.sched = [co[r].sched EXCEPT ![co[r].node] = "succeeded"] /\ c.phase = "waves"
    BY CoType DEF Coordinators
  <2>. HIDE DEF c
  <2>3. \A m \in Ids : tasks'[m].run = tasks[m].run
    BY <1>8, StoreKeepsRuns DEF Approved
  <2>4. DOMAIN c.sched = DOMAIN co[r].sched
    BY <2>2
  <2>. QED  BY <2>1, <2>2, <2>3, <2>4, GoOnOwned
<1>9. CASE ChangesRequested(r)
  <2>. DEFINE c == [co[r] EXCEPT !.phase = "coding", !.attempt = @ + 1]
  <2>1. Goto(r, c) /\ row' = row /\ tasks' = tasks /\ co[r].phase = "reviewing"
    BY <1>9 DEF ChangesRequested
  <2>2. c.sched = co[r].sched /\ c.phase = "coding"
    BY CoType DEF Coordinators
  <2>. HIDE DEF c
  <2>. QED  BY <2>1, <2>2, GoOnOwned
<1>10. ASSUME BlockNode(r), row' = row, co[r].phase \notin {"idle", "planning"} PROVE OwnInv'
  <2>. DEFINE c == [co[r] EXCEPT !.phase = "waves", !.node = NoNode, !.sched = Blocked(co[r])]
  <2>1. Goto(r, c)
    BY <1>10 DEF BlockNode
  <2>2. DOMAIN c.sched = DOMAIN co[r].sched /\ c.phase = "waves"
    BY CoType DEF Coordinators, Blocked
  <2>. HIDE DEF c
  <2>3. \A m \in Ids : tasks'[m].run = tasks[m].run
    BY <1>10, StoreKeepsRuns DEF BlockNode
  <2>. QED  BY <1>10, <2>1, <2>2, <2>3, GoOnOwned
<1>11. CASE NodeFails(r)
  <2>1. CASE co[r].retried
    BY <1>10, <1>11, <2>1 DEF NodeFails
  <2>2. CASE ~co[r].retried
    <3>. DEFINE c == [co[r] EXCEPT !.phase = "asking"]
    <3>1. Goto(r, c) /\ row' = row /\ tasks' = tasks /\ co[r].phase \in {"coding", "reviewing"}
      BY <1>11, <2>2 DEF NodeFails
    <3>2. c.sched = co[r].sched /\ c.phase = "asking"
      BY CoType DEF Coordinators
    <3>. HIDE DEF c
    <3>. QED  BY <3>1, <3>2, GoOnOwned
  <2>. QED  BY <2>1, <2>2
<1>12. CASE Retry(r)
  <2>. DEFINE c == [co[r] EXCEPT !.phase = "coding", !.attempt = 0, !.retried = TRUE]
  <2>1. Goto(r, c) /\ row' = row /\ tasks' = tasks /\ co[r].phase = "asking"
    BY <1>12 DEF Retry
  <2>2. c.sched = co[r].sched /\ c.phase = "coding"
    BY CoType DEF Coordinators
  <2>. HIDE DEF c
  <2>. QED  BY <2>1, <2>2, GoOnOwned
<1>13. CASE Skip(r)
  BY <1>10, <1>13 DEF Skip
<1>. QED
  BY <1>1, <1>2, <1>3, <1>4, <1>5, <1>6, <1>7, <1>8, <1>9, <1>11, <1>12, <1>13,
     PlanAcceptedOwned DEF Advance

LEMMA UserOwned ==
  ASSUME TypeOK, OwnInv, User
  PROVE  OwnInv'
<1>1. ASSUME NEW r \in Runs, RunTask(r) PROVE OwnInv'
  <2>1. co'[r].phase = "planning" /\ \A q \in Runs \ {r} : co'[q] = co[q]
    BY <1>1, GotoIs DEF RunTask, Idle
  <2>2. /\ row[r] = "fresh" /\ row'[r] = "tool_use" /\ tasks' = tasks
        /\ \A q \in Runs \ {r} : row'[q] = row[q]
    BY <1>1 DEF RunTask, TypeOK
  <2>3. \A q \in Runs : Owned(q)'
    BY <2>1, <2>2 DEF OwnInv, Owned
  <2>. QED  BY <2>3 DEF OwnInv
<1>2. ASSUME row' = row, \A n \in Ids : tasks'[n].run = tasks[n].run,
             \A r \in Runs : co'[r].phase = co[r].phase /\ co'[r].sched = co[r].sched
      PROVE  OwnInv'
  BY <1>2 DEF OwnInv, Owned
<1>3. ASSUME NEW r \in Runs, Approve(r) PROVE OwnInv'
  <2>. DEFINE c == [co[r] EXCEPT !.answer = "yes"]
  <2>1. Goto(r, c) /\ row' = row /\ tasks' = tasks
    BY <1>3 DEF Approve
  <2>2. c.sched = co[r].sched /\ c.phase = co[r].phase
    BY CoType DEF Coordinators
  <2>. HIDE DEF c
  <2>. QED  BY <1>2, <2>1, <2>2, GotoIs
<1>4. ASSUME NEW r \in Runs, ApproveEarly(r) PROVE OwnInv'
  BY <1>2, <1>4 DEF ApproveEarly
<1>5. ASSUME NEW r \in Runs, Stop(r) PROVE OwnInv'
  <2>1. Goto(r, Aborted(r)) /\ row' = row /\ tasks' = tasks
    BY <1>5 DEF Stop
  <2>. QED  BY <1>2, <2>1, AbortedIs, GotoIs
<1>6. ASSUME ClearRuns PROVE OwnInv'
  <2>1. \A r \in Runs : co'[r] \in {Aborted(r), co[r]}
    BY <1>6 DEF ClearRuns
  <2>2. \A r \in Runs : co'[r].phase = co[r].phase /\ co'[r].sched = co[r].sched
    BY <2>1, AbortedIs
  <2>3. \A r \in Runs : row'[r] \in {row[r], "deleted"}
    BY <1>6 DEF ClearRuns
  <2>4. \A n \in Ids : tasks'[n].run \in {tasks[n].run, NoRun}
    BY <1>6 DEF ClearRuns, NoTask
  <2>5. \A r \in Runs : \A n \in Ids : tasks'[n].run = r => tasks[n].run = r
    BY <2>4, ConstantsAssumption
  <2>6. \A r \in Runs : Owned(r)'
    BY <2>2, <2>3, <2>5 DEF OwnInv, Owned
  <2>. QED  BY <2>6 DEF OwnInv
<1>7. ASSUME NEW n \in Ids, CancelTaskNode(n) PROVE OwnInv'
  <2>1. \A m \in Ids : tasks'[m].run = tasks[m].run
    BY <1>7 DEF CancelTaskNode, TypeOK, NoTask
  <2>. QED  BY <1>2, <1>7, <2>1 DEF CancelTaskNode
<1>. QED  BY <1>1, <1>3, <1>4, <1>5, <1>6, <1>7 DEF User

LEMMA InitInv == Init => OrphanInv /\ OrderInv /\ SettleInv /\ OwnInv
<1>. SUFFICES ASSUME Init PROVE OrphanInv /\ OrderInv /\ SettleInv /\ OwnInv
  OBVIOUS
<1>1. \A r \in Runs : co[r] = Idle /\ row[r] = "fresh"
  BY DEF Init
<1>2. \A n \in Ids : tasks[n].run \notin Runs
  BY ConstantsAssumption DEF Init, NoTask
<1>3. OrphanInv
  BY <1>1, <1>2 DEF OrphanInv, NoOrphanNodes, Idle
<1>4. OrderInv
  BY <1>1, IdleInOrder DEF OrderInv
<1>5. SettleInv
  BY <1>1, IdleSettles DEF SettleInv, Idle, Work
<1>6. OwnInv
  BY <1>1, <1>2 DEF OwnInv, Owned, Idle
<1>. QED  BY <1>3, <1>4, <1>5, <1>6

-----------------------------------------------------------------------------
(***************************************************************************)
(* The database follows the scheduler.  A coordinator writes the nodes by  *)
(* name, and one whose run was deleted goes on writing: the names it still *)
(* holds must not be those of a run that came after it.                    *)
(***************************************************************************)

\* No coordinator of a deleted run holds a name of another run's node.
NamesApart ==
  \A r \in Runs : ~HasRow(r) => \A n \in DOMAIN co[r].sched : tasks[n].run \notin Runs

Mirrors(r) ==
  HasRow(r) =>
    \A n \in DOMAIN co[r].sched :
      /\ tasks[n].run = r
      /\ n \notin touched => tasks[n].status = co[r].sched[n]

MirrorInv ==
  \A r \in Runs : /\ Mirrors(r)
                  /\ co[r].phase \in {"idle", "planning"} => DOMAIN co[r].sched = {}

\* What a coordinator holds is its own run's, or nobody's.
LEMMA HeldNames ==
  ASSUME TypeOK, MirrorInv, NamesApart, NEW r \in Runs, NEW n \in DOMAIN co[r].sched
  PROVE  tasks[n].run \notin Runs \ {r}
BY DEF MirrorInv, Mirrors, NamesApart

\* The coordinator goes on, writes only what it holds, and writes it as the
\* scheduler has it.
LEMMA GoOnMirrors ==
  ASSUME TypeOK, MirrorInv, NamesApart, NEW r \in Runs, NEW c, Goto(r, c),
         row' = row, touched' = touched, c.phase \notin {"idle", "planning"},
         DOMAIN c.sched = DOMAIN co[r].sched,
         \A n \in Ids : tasks'[n].run = tasks[n].run,
         \A n \in Ids \ DOMAIN c.sched : tasks'[n] = tasks[n],
         \A n \in DOMAIN c.sched :
           tasks[n].run = r /\ tasks[n].status = co[r].sched[n] =>
             tasks'[n].status = c.sched[n]
  PROVE  MirrorInv'
<1>1. ASSUME NEW q \in Runs PROVE Mirrors(q)'
  <2>1. ASSUME HasRow(q), NEW n \in DOMAIN co'[q].sched
        PROVE  /\ tasks'[n].run = q
               /\ n \notin touched => tasks'[n].status = co'[q].sched[n]
    <3>1. CASE q = r
      <4>1. co'[q] = c /\ n \in DOMAIN co[r].sched /\ n \in Ids
        BY <2>1, <3>1, GotoIs, SchedNames
      <4>2. tasks[n].run = r /\ (n \notin touched => tasks[n].status = co[r].sched[n])
        BY <2>1, <3>1, <4>1 DEF MirrorInv, Mirrors
      <4>. QED  BY <3>1, <4>1, <4>2
    <3>2. CASE q # r
      <4>1. co'[q] = co[q] /\ n \in DOMAIN co[q].sched /\ n \in Ids
        BY <2>1, <3>2, GotoIs, SchedNames
      <4>2. tasks[n].run = q /\ (n \notin touched => tasks[n].status = co[q].sched[n])
        BY <2>1, <4>1 DEF MirrorInv, Mirrors
      <4>3. n \notin DOMAIN c.sched
        BY <3>2, <4>2, HeldNames
      <4>. QED  BY <4>1, <4>2, <4>3
    <3>. QED  BY <3>1, <3>2
  <2>. QED  BY <2>1 DEF Mirrors, HasRow
<1>2. \A q \in Runs : co'[q].phase \in {"idle", "planning"} => DOMAIN co'[q].sched = {}
  BY GotoIs DEF MirrorInv
<1>. QED  BY <1>1, <1>2 DEF MirrorInv

\* The run ends, and writes nothing of another run.
LEMMA EndMirrors ==
  ASSUME TypeOK, MirrorInv, NEW r \in Runs, NEW status, Ended(r, status), touched' = touched,
         \A n \in Ids : tasks[n].run \in Runs \ {r} => tasks'[n] = tasks[n]
  PROVE  MirrorInv'
<1>1. co'[r] = Idle /\ \A q \in Runs \ {r} : co'[q] = co[q] /\ row'[q] = row[q]
  BY GotoIs DEF Ended, TypeOK
<1>2. DOMAIN Idle.sched = {} /\ Idle.phase = "idle"
  BY NoNodesType DEF Idle
<1>3. ASSUME NEW q \in Runs PROVE Mirrors(q)'
  <2>1. CASE q = r
    BY <1>1, <1>2, <2>1 DEF Mirrors
  <2>2. CASE q # r
    <3>1. co'[q] = co[q] /\ row'[q] = row[q]
      BY <1>1, <2>2
    <3>2. ASSUME HasRow(q), NEW n \in DOMAIN co[q].sched
          PROVE  tasks[n].run = q /\ tasks'[n] = tasks[n]
      BY <2>2, <3>2, SchedNames DEF MirrorInv, Mirrors
    <3>. QED  BY <3>1, <3>2 DEF MirrorInv, Mirrors, HasRow
  <2>. QED  BY <2>1, <2>2
<1>4. \A q \in Runs : co'[q].phase \in {"idle", "planning"} => DOMAIN co'[q].sched = {}
  BY <1>1, <1>2 DEF MirrorInv
<1>. QED  BY <1>3, <1>4 DEF MirrorInv

LEMMA StoreIs ==
  ASSUME TypeOK, NEW status, Store(status), NEW n \in Ids
  PROVE  /\ n \notin DOMAIN status => tasks'[n] = tasks[n]
         /\ n \in DOMAIN status /\ tasks[n] # NoTask => tasks'[n].status = status[n]
         /\ tasks'[n].run = tasks[n].run
<1>1. tasks[n] \in TaskType
  BY DEF TypeOK, TaskType
<1>2. tasks[n] # NoTask => \A s : Stored(n, s).status = s
  BY <1>1 DEF Stored, TaskType
<1>. QED  BY <1>2, StoreKeepsRuns DEF Store

\* Steps that write no node.
LEMMA QuietMirrors ==
  ASSUME TypeOK, MirrorInv, NamesApart, NEW r \in Runs, NEW c, Goto(r, c),
         row' = row, touched' = touched, tasks' = tasks,
         c.phase \notin {"idle", "planning"}, c.sched = co[r].sched
  PROVE  MirrorInv'
BY GoOnMirrors

StoreOne(n, status) == Store([m \in {n} |-> status])

LEMMA OneNodeMirrors ==
  ASSUME TypeOK, MirrorInv, NamesApart, NEW r \in Runs, NEW c, Goto(r, c),
         row' = row, touched' = touched, c.phase \notin {"idle", "planning"},
         NEW n \in DOMAIN co[r].sched, NEW status \in NodeStatuses,
         StoreOne(n, status), c.sched = [co[r].sched EXCEPT ![n] = status]
  PROVE  MirrorInv'
<1>1. /\ DOMAIN c.sched = DOMAIN co[r].sched /\ c.sched[n] = status
      /\ \A m \in DOMAIN co[r].sched \ {n} : c.sched[m] = co[r].sched[m]
  BY CoType, SchedulesHave
<1>2. r # NoRun
  BY ConstantsAssumption
<1>3. ASSUME NEW m \in Ids
      PROVE  /\ tasks'[m].run = tasks[m].run
             /\ m # n => tasks'[m] = tasks[m]
             /\ m = n /\ tasks[m].run = r => tasks'[m].status = status
  BY <1>2, <1>3, StoreIs DEF StoreOne, NoTask
<1>4. n \in Ids /\ DOMAIN c.sched \subseteq Ids
  BY <1>1, SchedNames
<1>5. \A m \in Ids \ DOMAIN c.sched : tasks'[m] = tasks[m]
  BY <1>1, <1>3
<1>6. \A m \in DOMAIN c.sched :
        tasks[m].run = r /\ tasks[m].status = co[r].sched[m] => tasks'[m].status = c.sched[m]
  BY <1>1, <1>3, <1>4
<1>. QED  BY <1>1, <1>3, <1>5, <1>6, GoOnMirrors

LEMMA BlockNodeMirrors ==
  ASSUME TypeOK, MirrorInv, NamesApart, NEW r \in Runs, BlockNode(r),
         row' = row, touched' = touched
  PROVE  MirrorInv'
<1>. DEFINE sched == Blocked(co[r])
            c == [co[r] EXCEPT !.phase = "waves", !.node = NoNode, !.sched = sched]
            stored == {n \in DOMAIN sched : n = co[r].node \/ sched[n] = "blocked"}
            status == [n \in stored |-> sched[n]]
<1>1. Goto(r, c) /\ Store(status)
  BY DEF BlockNode
<1>2. c.sched = sched /\ c.phase = "waves"
  BY CoType DEF Coordinators
<1>3. DOMAIN sched = DOMAIN co[r].sched
  BY DEF Blocked
<1>4. \A n \in DOMAIN co[r].sched \ stored : sched[n] = co[r].sched[n]
  BY DEF Blocked
<1>5. DOMAIN status = stored /\ \A n \in stored : status[n] = sched[n]
  OBVIOUS
<1>6. stored \subseteq DOMAIN co[r].sched /\ DOMAIN co[r].sched \subseteq Ids /\ r # NoRun
  BY <1>3, SchedNames, ConstantsAssumption
<1>. HIDE DEF c, status, stored, sched
<1>7. ASSUME NEW n \in Ids
      PROVE  /\ tasks'[n].run = tasks[n].run
             /\ n \notin stored => tasks'[n] = tasks[n]
             /\ n \in stored /\ tasks[n].run = r => tasks'[n].status = sched[n]
  BY <1>1, <1>5, <1>6, StoreIs DEF NoTask
<1>8. DOMAIN c.sched = DOMAIN co[r].sched
  BY <1>2, <1>3
<1>9. \A n \in Ids \ DOMAIN c.sched : tasks'[n] = tasks[n]
  BY <1>6, <1>7, <1>8
<1>10. \A n \in DOMAIN c.sched :
         tasks[n].run = r /\ tasks[n].status = co[r].sched[n] => tasks'[n].status = c.sched[n]
  BY <1>2, <1>4, <1>6, <1>7, <1>8
<1>. QED  BY <1>1, <1>2, <1>7, <1>8, <1>9, <1>10, GoOnMirrors

LEMMA PlanAcceptedMirrors ==
  ASSUME TypeOK, MirrorInv, NEW r \in Runs, NEW deps \in Plans, PlanAccepted(r, deps)
  PROVE  MirrorInv'
<1>. DEFINE c == [co[r] EXCEPT !.phase = "approving", !.plan = deps,
                    !.sched = [n \in DOMAIN deps |-> "pending"],
                    !.answer = IF r \in early THEN "yes" ELSE "none"]
<1>1. Goto(r, c) /\ row' = row /\ touched' = touched
  BY DEF PlanAccepted
<1>2. c.sched = [n \in DOMAIN deps |-> "pending"] /\ c.phase = "approving"
  BY CoType DEF Coordinators
<1>. HIDE DEF c
<1>3. /\ \A n \in DOMAIN deps : n \in Ids /\ tasks[n] = NoTask
      /\ \A n \in DOMAIN deps : tasks'[n] = [run |-> r, status |-> "pending"]
      /\ \A n \in Ids \ DOMAIN deps : tasks'[n] = tasks[n]
  BY PlansHave DEF PlanAccepted
<1>4. ASSUME NEW q \in Runs PROVE Mirrors(q)'
  <2>1. CASE q = r
    <3>1. co'[q] = c
      BY <1>1, <2>1, GotoIs
    <3>2. \A n \in DOMAIN deps : tasks'[n].run = r /\ tasks'[n].status = "pending"
      BY <1>3
    <3>. QED  BY <1>2, <2>1, <3>1, <3>2 DEF Mirrors
  <2>2. CASE q # r
    <3>1. co'[q] = co[q] /\ row'[q] = row[q]
      BY <1>1, <2>2, GotoIs
    <3>2. ASSUME HasRow(q), NEW n \in DOMAIN co[q].sched
          PROVE  tasks[n].run = q /\ n \in Ids /\ n \notin DOMAIN deps
      <4>1. tasks[n].run = q /\ n \in Ids /\ q # NoRun
        BY <3>2, SchedNames, ConstantsAssumption DEF MirrorInv, Mirrors
      <4>. QED  BY <1>3, <4>1 DEF NoTask
    <3>. QED  BY <1>1, <1>3, <3>1, <3>2 DEF MirrorInv, Mirrors, HasRow
  <2>. QED  BY <2>1, <2>2
<1>5. \A q \in Runs : co'[q].phase \in {"idle", "planning"} => DOMAIN co'[q].sched = {}
  BY <1>1, <1>2, GotoIs DEF MirrorInv
<1>. QED  BY <1>4, <1>5 DEF MirrorInv

LEMMA AdvanceMirrors ==
  ASSUME TypeOK, OrderInv, SettleInv, MirrorInv, NamesApart, NEW r \in Runs, Advance(r)
  PROVE  MirrorInv'
<1>0. r # NoRun
  BY ConstantsAssumption
<1>1. CASE PlanFails(r) \/ PlanRejected(r) \/ WavesEnd(r)
  <2>1. /\ tasks' = tasks /\ touched' = touched
        /\ \E status \in {"done", "cancelled", "failed"} : Ended(r, status)
    BY <1>1 DEF PlanFails, PlanRejected, WavesEnd
  <2>. QED  BY <2>1, EndMirrors
<1>2. ASSUME NEW deps \in Plans, PlanCollides(r, deps) PROVE MirrorInv'
  <2>1. \A n \in Ids : tasks[n].run \in Runs \ {r} => tasks'[n] = tasks[n]
    BY <1>2, ConstantsAssumption DEF PlanCollides, NoTask
  <2>. QED  BY <1>2, <2>1, EndMirrors DEF PlanCollides
<1>3. CASE Cancel(r)
  <2>. DEFINE open == {n \in DOMAIN co[r].sched : co[r].sched[n] \in OpenNode}
  <2>1. Store([n \in open |-> "cancelled"]) /\ Ended(r, "cancelled") /\ touched' = touched
    BY <1>3 DEF Cancel
  <2>2. ASSUME NEW n \in Ids, tasks[n].run \in Runs \ {r} PROVE tasks'[n] = tasks[n]
    <3>1. n \notin DOMAIN co[r].sched
      BY <2>2, HeldNames
    <3>. QED  BY <2>1, <3>1, StoreIs
  <2>. QED  BY <2>1, <2>2, EndMirrors
<1>4. CASE PlanApproved(r)
  <2>. DEFINE c == [co[r] EXCEPT !.phase = "waves", !.answer = "none"]
  <2>1. Goto(r, c) /\ row' = row /\ tasks' = tasks /\ touched' = touched
    BY <1>4 DEF PlanApproved
  <2>2. c.sched = co[r].sched /\ c.phase = "waves"
    BY CoType DEF Coordinators
  <2>. HIDE DEF c
  <2>. QED  BY <2>1, <2>2, QuietMirrors
<1>5. CASE NextWave(r)
  <2>. DEFINE c == [co[r] EXCEPT !.wave = Ready(co[r])]
  <2>1. Goto(r, c) /\ row' = row /\ tasks' = tasks /\ touched' = touched /\ co[r].phase = "waves"
    BY <1>5 DEF NextWave
  <2>2. c.sched = co[r].sched /\ c.phase = co[r].phase
    BY CoType DEF Coordinators
  <2>. HIDE DEF c
  <2>. QED  BY <2>1, <2>2, QuietMirrors
<1>6. ASSUME NEW n \in Ids, StartNode(r, n) PROVE MirrorInv'
  <2>. DEFINE c == [co[r] EXCEPT !.phase = "coding", !.node = n, !.attempt = 0,
                      !.retried = FALSE, !.wave = @ \ {n},
                      !.sched = [@ EXCEPT ![n] = "running"]]
  <2>1. /\ Goto(r, c) /\ row' = row /\ touched' = touched /\ n \in co[r].wave
        /\ StoreOne(n, "running")
    BY <1>6 DEF StartNode, StoreOne
  <2>2. c.sched = [co[r].sched EXCEPT ![n] = "running"] /\ c.phase = "coding"
    BY CoType DEF Coordinators
  <2>. HIDE DEF c
  <2>3. n \in DOMAIN co[r].sched
    BY <2>1 DEF OrderInv, NodesInOrder
  <2>4. "running" \in NodeStatuses
    BY DEF NodeStatuses
  <2>. QED  BY <2>1, <2>2, <2>3, <2>4, OneNodeMirrors
<1>7. CASE CoderDone(r)
  <2>. DEFINE c == [co[r] EXCEPT !.phase = "reviewing"]
  <2>1. Goto(r, c) /\ row' = row /\ tasks' = tasks /\ touched' = touched
    BY <1>7 DEF CoderDone
  <2>2. c.sched = co[r].sched /\ c.phase = "reviewing"
    BY CoType DEF Coordinators
  <2>. HIDE DEF c
  <2>. QED  BY <2>1, <2>2, QuietMirrors
<1>8. CASE Approved(r)
  <2>. DEFINE n == co[r].node
              c == [co[r] EXCEPT !.phase = "waves", !.node = NoNode,
                      !.sched = [@ EXCEPT ![co[r].node] = "succeeded"]]
  <2>1. /\ Goto(r, c) /\ row' = row /\ touched' = touched /\ co[r].phase = "reviewing"
        /\ StoreOne(n, "succeeded")
    BY <1>8 DEF Approved, StoreOne
  <2>2. c.sched = [co[r].sched EXCEPT ![n] = "succeeded"] /\ c.phase = "waves"
    BY CoType DEF Coordinators
  <2>3. n \in DOMAIN co[r].sched
    BY <2>1 DEF OrderInv, NodesInOrder, SettleInv, Settling, Work
  <2>. HIDE DEF c, n
  <2>4. "succeeded" \in NodeStatuses
    BY DEF NodeStatuses
  <2>. QED  BY <2>1, <2>2, <2>3, <2>4, OneNodeMirrors
<1>9. CASE ChangesRequested(r)
  <2>. DEFINE c == [co[r] EXCEPT !.phase = "coding", !.attempt = @ + 1]
  <2>1. Goto(r, c) /\ row' = row /\ tasks' = tasks /\ touched' = touched
    BY <1>9 DEF ChangesRequested
  <2>2. c.sched = co[r].sched /\ c.phase = "coding"
    BY CoType DEF Coordinators
  <2>. HIDE DEF c
  <2>. QED  BY <2>1, <2>2, QuietMirrors
<1>10. CASE NodeFails(r)
  <2>1. CASE co[r].retried
    BY <1>10, <2>1, BlockNodeMirrors DEF NodeFails
  <2>2. CASE ~co[r].retried
    <3>. DEFINE c == [co[r] EXCEPT !.phase = "asking"]
    <3>1. Goto(r, c) /\ row' = row /\ tasks' = tasks /\ touched' = touched
      BY <1>10, <2>2 DEF NodeFails
    <3>2. c.sched = co[r].sched /\ c.phase = "asking"
      BY CoType DEF Coordinators
    <3>. HIDE DEF c
    <3>. QED  BY <3>1, <3>2, QuietMirrors
  <2>. QED  BY <2>1, <2>2
<1>11. CASE Retry(r)
  <2>. DEFINE c == [co[r] EXCEPT !.phase = "coding", !.attempt = 0, !.retried = TRUE]
  <2>1. Goto(r, c) /\ row' = row /\ tasks' = tasks /\ touched' = touched
    BY <1>11 DEF Retry
  <2>2. c.sched = co[r].sched /\ c.phase = "coding"
    BY CoType DEF Coordinators
  <2>. HIDE DEF c
  <2>. QED  BY <2>1, <2>2, QuietMirrors
<1>12. CASE Skip(r)
  BY <1>12, BlockNodeMirrors DEF Skip
<1>. QED
  BY <1>1, <1>2, <1>3, <1>4, <1>5, <1>6, <1>7, <1>8, <1>9, <1>10, <1>11, <1>12,
     PlanAcceptedMirrors DEF Advance

LEMMA UserMirrors ==
  ASSUME TypeOK, MirrorInv, User
  PROVE  MirrorInv'
<1>1. ASSUME row' = row, tasks' = tasks, touched' = touched,
             \A r \in Runs : co'[r].phase = co[r].phase /\ co'[r].sched = co[r].sched
      PROVE  MirrorInv'
  BY <1>1 DEF MirrorInv, Mirrors, HasRow
<1>2. ASSUME NEW r \in Runs, RunTask(r) PROVE MirrorInv'
  <2>1. /\ co'[r].phase = "planning" /\ DOMAIN co'[r].sched = {}
        /\ \A q \in Runs \ {r} : co'[q] = co[q]
    BY <1>2, GotoIs, NoNodesType DEF RunTask, Idle
  <2>2. tasks' = tasks /\ touched' = touched /\ \A q \in Runs \ {r} : row'[q] = row[q]
    BY <1>2 DEF RunTask, TypeOK
  <2>3. \A q \in Runs : Mirrors(q)'
    BY <2>1, <2>2 DEF MirrorInv, Mirrors, HasRow
  <2>. QED  BY <2>1, <2>3 DEF MirrorInv
<1>3. ASSUME NEW r \in Runs, Approve(r) PROVE MirrorInv'
  <2>. DEFINE c == [co[r] EXCEPT !.answer = "yes"]
  <2>1. Goto(r, c) /\ row' = row /\ tasks' = tasks /\ touched' = touched
    BY <1>3 DEF Approve
  <2>2. c.sched = co[r].sched /\ c.phase = co[r].phase
    BY CoType DEF Coordinators
  <2>. HIDE DEF c
  <2>. QED  BY <1>1, <2>1, <2>2, GotoIs
<1>4. ASSUME NEW r \in Runs, ApproveEarly(r) PROVE MirrorInv'
  BY <1>1, <1>4 DEF ApproveEarly
<1>5. ASSUME NEW r \in Runs, Stop(r) PROVE MirrorInv'
  <2>1. Goto(r, Aborted(r)) /\ row' = row /\ tasks' = tasks /\ touched' = touched
    BY <1>5 DEF Stop
  <2>. QED  BY <1>1, <2>1, AbortedIs, GotoIs
<1>6. ASSUME ClearRuns PROVE MirrorInv'
  <2>1. \A r \in Runs : co'[r] \in {Aborted(r), co[r]}
    BY <1>6 DEF ClearRuns
  <2>2. \A r \in Runs : co'[r].phase = co[r].phase /\ co'[r].sched = co[r].sched
    BY <2>1, AbortedIs
  <2>3. \A r \in Runs : ~HasRow(r)'
    BY <1>6 DEF ClearRuns, HasRow
  <2>4. \A r \in Runs : Mirrors(r)'
    BY <2>3 DEF Mirrors
  <2>. QED  BY <2>2, <2>4 DEF MirrorInv
<1>7. ASSUME NEW n \in Ids, CancelTaskNode(n) PROVE MirrorInv'
  <2>1. /\ \A m \in Ids : /\ tasks'[m].run = tasks[m].run
                          /\ m # n => tasks'[m] = tasks[m]
        /\ touched' = touched \cup {n} /\ row' = row /\ co' = co
    BY <1>7 DEF CancelTaskNode, TypeOK, NoTask
  <2>2. ASSUME NEW r \in Runs PROVE Mirrors(r)'
    <3>1. \A m \in DOMAIN co[r].sched : m \in Ids
      BY SchedNames
    <3>. QED  BY <2>1, <3>1 DEF MirrorInv, Mirrors, HasRow
  <2>. QED  BY <2>1, <2>2 DEF MirrorInv
<1>. QED  BY <1>2, <1>3, <1>4, <1>5, <1>6, <1>7 DEF User

LEMMA MirrorGivesStatuses ==
  ASSUME TypeOK, MirrorInv
  PROVE  StoreMirrorsScheduler
<1>1. ASSUME NEW r \in Runs, HasRow(r), NEW n \in DOMAIN co[r].sched \ touched
      PROVE  tasks[n] = [run |-> r, status |-> co[r].sched[n]]
  <2>1. tasks[n].run = r /\ tasks[n].status = co[r].sched[n] /\ n \in Ids /\ r # NoRun
    BY <1>1, SchedNames, ConstantsAssumption DEF MirrorInv, Mirrors
  <2>2. tasks[n] \in [run : Runs \cup {OldRun}, status : NodeStatuses]
    BY <2>1 DEF TypeOK, NoTask
  <2>. QED  BY <2>1, <2>2
<1>. QED  BY <1>1 DEF StoreMirrorsScheduler

\* All of the invariants together.
SchedulerInv == OrphanInv /\ OrderInv /\ SettleInv /\ OwnInv

LEMMA SchedulerStep ==
  ASSUME TypeOK, SchedulerInv, [Next]_vars
  PROVE  SchedulerInv'
<1>1. CASE Next
  BY <1>1, AdvanceKeepsOwners, UserKeepsOwners, AdvanceInOrder, UserInOrder, AdvanceSettles,
     UserSettles, AdvanceOwned, UserOwned DEF SchedulerInv, Next
<1>2. CASE UNCHANGED vars
  <2>1. OrphanInv'
    BY <1>2 DEF vars, SchedulerInv, OrphanInv, NoOrphanNodes, HasRow
  <2>2. OrderInv'
    BY <1>2 DEF vars, SchedulerInv, OrderInv, NodesInOrder
  <2>3. SettleInv'
    BY <1>2 DEF vars, SchedulerInv, SettleInv, Settling
  <2>4. OwnInv'
    BY <1>2 DEF vars, SchedulerInv, OwnInv, Owned
  <2>. QED  BY <2>1, <2>2, <2>3, <2>4 DEF SchedulerInv
<1>. QED  BY <1>1, <1>2

LEMMA SchedulerCorrect == Spec => [](TypeOK /\ SchedulerInv)
<1>1. Init => SchedulerInv
  BY InitInv DEF SchedulerInv
<1>2. TypeOK /\ SchedulerInv /\ [Next]_vars => SchedulerInv'
  BY SchedulerStep
<1>. QED  BY <1>1, <1>2, TypeCorrect, PTL DEF Spec

LEMMA MirrorStep ==
  ASSUME TypeOK, SchedulerInv, MirrorInv, NamesApart, [Next]_vars
  PROVE  MirrorInv'
<1>1. CASE Next
  BY <1>1, AdvanceMirrors, UserMirrors DEF SchedulerInv, Next
<1>2. CASE UNCHANGED vars
  BY <1>2 DEF vars, MirrorInv, Mirrors, HasRow
<1>. QED  BY <1>1, <1>2

LEMMA InitMirrors == Init => MirrorInv
BY NoNodesType DEF Init, MirrorInv, Mirrors, HasRow, Idle

LEMMA StoreFollows == Spec /\ []NamesApart => []MirrorInv
<1>1. Init => MirrorInv
  BY InitMirrors
<1>2. TypeOK /\ SchedulerInv /\ NamesApart /\ MirrorInv /\ [Next]_vars => MirrorInv'
  BY MirrorStep
<1>. QED  BY <1>1, <1>2, SchedulerCorrect, PTL DEF Spec

\* Any number of runs: as long as no coordinator of a deleted run holds a name
\* that a later run's planner chose again, the database tells of every node what
\* the scheduler does.
THEOREM StoreFollowsScheduler == Spec /\ []NamesApart => []StoreMirrorsScheduler
<1>1. TypeOK /\ MirrorInv => StoreMirrorsScheduler
  BY MirrorGivesStatuses
<1>. QED  BY <1>1, StoreFollows, TypeCorrect, PTL

\* A run alone: a deleted run has no nodes, so there is nothing to mix up.
LEMMA AloneIsApart ==
  ASSUME \A q, r \in Runs : q = r
  PROVE  Spec => []NamesApart
<1>1. TypeOK /\ SchedulerInv => NamesApart
  <2>. SUFFICES ASSUME TypeOK, SchedulerInv, NEW r \in Runs, ~HasRow(r),
                       NEW n \in DOMAIN co[r].sched, tasks[n].run \in Runs
                PROVE  FALSE
    BY DEF NamesApart
  <2>1. n \in Ids
    BY SchedNames
  <2>2. HasRow(tasks[n].run)
    BY <2>1 DEF SchedulerInv, OrphanInv, NoOrphanNodes
  <2>. QED  BY <2>2
<1>. QED  BY <1>1, SchedulerCorrect, PTL

\* One run in the database's workspaces: its nodes are always as its scheduler
\* has them, but for those the user cancelled in the task tree.
THEOREM StoreFollowsOneRun ==
  ASSUME \A q, r \in Runs : q = r
  PROVE  Spec => []StoreMirrorsScheduler
BY AloneIsApart, StoreFollowsScheduler, PTL

-----------------------------------------------------------------------------
(***************************************************************************)
(* The end.  When nothing is ready and nothing is at work, nothing is      *)
(* pending: of the pending nodes take one of the lowest rank; what it      *)
(* depends on is settled, and not failed or blocked, or it would be too.   *)
(***************************************************************************)

LEMMA LowestRank ==
  ASSUME NEW T, T \subseteq Nat, T # {}
  PROVE  \E x \in T : \A y \in T : x <= y
<1>1. PICK x \in T : \A y \in T : ~(<<y, x>> \in OpToRel(<, Nat))
  BY NatLessThanWellFounded, WFMin
<1>2. \A y \in T : ~(y < x)
  BY <1>1 DEF OpToRel
<1>. QED  BY <1>2

LEMMA NothingIsOpen ==
  ASSUME NEW c, NodesInOrder(c), Settling(c), c.plan \in Plans \cup {NoNodes},
         c.sched \in Schedules, c.node = NoNode, Ready(c) = {}
  PROVE  \A n \in DOMAIN c.sched : c.sched[n] \notin OpenNode
<1>1. /\ DOMAIN c.sched \subseteq Ids /\ c.sched \in [DOMAIN c.sched -> NodeStatuses]
      /\ DOMAIN c.sched = DOMAIN c.plan
  BY SchedulesHave DEF NodesInOrder
<1>2. \A n \in DOMAIN c.sched : c.sched[n] \in {"pending", "succeeded", "failed", "blocked"}
  BY <1>1, ConstantsAssumption DEF Settling, NodeStatuses
<1>3. ASSUME NEW p \in DOMAIN c.sched, c.sched[p] = "pending" PROVE FALSE
  <2>. DEFINE pending == {n \in DOMAIN c.sched : c.sched[n] = "pending"}
              top == Cardinality(DOMAIN c.plan)
  <2>1. c.plan \in Plans
    BY <1>1, <1>3, NoNodesType
  <2>2. Acyclic(c.plan)
    BY <2>1 DEF Plans
  <2>3. PICK rank \in [DOMAIN c.plan -> 1..top] :
          \A n \in DOMAIN c.plan : \A d \in c.plan[n] : rank[d] < rank[n]
    BY <2>2 DEF Acyclic
  <2>4. top \in Nat
    BY <1>1, ConstantsAssumption, FS_Subset, FS_CardinalityType
  <2>. HIDE DEF top
  <2>5. \A n \in DOMAIN c.plan : rank[n] \in Nat
    BY <2>3, <2>4
  <2>. DEFINE ranks == {rank[n] : n \in pending}
  <2>6. PICK x \in ranks : \A y \in ranks : x <= y
    <3>1. ranks \subseteq Nat /\ ranks # {}
      BY <1>1, <1>3, <2>5
    <3>. HIDE DEF ranks
    <3>. QED  BY <3>1, LowestRank
  <2>7. PICK n \in pending : \A m \in pending : rank[n] <= rank[m]
    BY <2>6
  <2>8. \A d \in c.plan[n] : d \in DOMAIN c.sched /\ c.sched[d] # "pending"
    <3>. SUFFICES ASSUME NEW d \in c.plan[n]
                  PROVE  d \in DOMAIN c.sched /\ c.sched[d] # "pending"
      OBVIOUS
    <3>1. n \in DOMAIN c.plan /\ d \in DOMAIN c.plan
      BY <1>1 DEF NodesInOrder
    <3>2. rank[d] < rank[n] /\ rank[d] \in Nat /\ rank[n] \in Nat
      BY <2>3, <2>5, <3>1
    <3>3. d \notin pending
      BY <2>7, <3>2
    <3>. QED  BY <1>1, <3>1, <3>3
  <2>9. \A d \in c.plan[n] : c.sched[d] \notin Stuck
    BY <1>1 DEF Settling, Stuck
  <2>10. \A d \in c.plan[n] : c.sched[d] = "succeeded"
    BY <1>2, <2>8, <2>9 DEF Stuck
  <2>. QED  BY <2>10 DEF Ready
<1>. QED  BY <1>2, <1>3 DEF OpenNode

\* From its waves a run ends in two ways only.
LEMMA WaysToEnd ==
  ASSUME TypeOK, NEW r \in Runs, co[r].phase \in {"waves", "coding", "reviewing", "asking"},
         co'[r].phase = "idle", [Next]_vars
  PROVE  WavesEnd(r) \/ Cancel(r)
<1>1. ASSUME UNCHANGED vars PROVE FALSE
  BY <1>1 DEF vars
<1>2. ASSUME NEW q \in Runs, Advance(q) PROVE q = r
  <2>1. \E c : Goto(q, c)
    BY <1>2 DEF Advance, PlanFails, PlanAccepted, PlanCollides, PlanRejected, PlanApproved,
                NextWave, WavesEnd, StartNode, CoderDone, Approved, ChangesRequested,
                NodeFails, BlockNode, Retry, Skip, Cancel, Ended
  <2>. QED  BY <2>1, GotoIs
<1>3. ASSUME User PROVE FALSE
  <2>1. ASSUME NEW q \in Runs, RunTask(q) PROVE FALSE
    BY <2>1, GotoIs DEF RunTask, Idle
  <2>2. ASSUME NEW q \in Runs, Approve(q) PROVE FALSE
    <3>1. co'[r].phase = co[r].phase
      BY <2>2 DEF Approve, Goto, TypeOK, Coordinators
    <3>. QED  BY <3>1
  <2>3. ASSUME NEW q \in Runs, Stop(q) PROVE FALSE
    BY <2>3, GotoIs, AbortedIs DEF Stop
  <2>4. ASSUME ClearRuns PROVE FALSE
    <3>1. co'[r] \in {Aborted(r), co[r]}
      BY <2>4 DEF ClearRuns
    <3>. QED  BY <3>1, AbortedIs
  <2>. QED  BY <1>3, <2>1, <2>2, <2>3, <2>4 DEF User, ApproveEarly, CancelTaskNode
<1>4. ASSUME NEW c, Goto(r, c), c.phase # "idle" PROVE FALSE
  BY <1>4, GotoIs
<1>5. ASSUME Advance(r), ~WavesEnd(r), ~Cancel(r) PROVE FALSE
  <2>. co[r] \in Coordinators
    BY CoType
  <2>1. ~PlanFails(r) /\ ~PlanRejected(r) /\ ~PlanApproved(r)
    BY DEF PlanFails, PlanRejected, PlanApproved
  <2>2. \A deps \in Plans : ~PlanAccepted(r, deps) /\ ~PlanCollides(r, deps)
    BY DEF PlanAccepted, PlanCollides
  <2>3. ASSUME NextWave(r) PROVE FALSE
    <3>1. [co[r] EXCEPT !.wave = Ready(co[r])].phase = co[r].phase
      BY DEF Coordinators
    <3>. QED  BY <2>3, <3>1, <1>4 DEF NextWave
  <2>4. ASSUME NEW n \in Ids, StartNode(r, n) PROVE FALSE
    <3>. DEFINE c == [co[r] EXCEPT !.phase = "coding", !.node = n, !.attempt = 0,
                        !.retried = FALSE, !.wave = @ \ {n},
                        !.sched = [@ EXCEPT ![n] = "running"]]
    <3>1. c.phase = "coding"
      BY DEF Coordinators
    <3>2. Goto(r, c)
      BY <2>4 DEF StartNode
    <3>. HIDE DEF c
    <3>. QED  BY <3>1, <3>2, <1>4
  <2>5. ASSUME CoderDone(r) PROVE FALSE
    <3>1. [co[r] EXCEPT !.phase = "reviewing"].phase = "reviewing"
      BY DEF Coordinators
    <3>. QED  BY <2>5, <3>1, <1>4 DEF CoderDone
  <2>6. ASSUME Approved(r) PROVE FALSE
    <3>. DEFINE c == [co[r] EXCEPT !.phase = "waves", !.node = NoNode,
                        !.sched = [@ EXCEPT ![co[r].node] = "succeeded"]]
    <3>1. c.phase = "waves"
      BY DEF Coordinators
    <3>2. Goto(r, c)
      BY <2>6 DEF Approved
    <3>. HIDE DEF c
    <3>. QED  BY <3>1, <3>2, <1>4
  <2>7. ASSUME ChangesRequested(r) PROVE FALSE
    <3>. DEFINE c == [co[r] EXCEPT !.phase = "coding", !.attempt = @ + 1]
    <3>1. c.phase = "coding"
      BY DEF Coordinators
    <3>2. Goto(r, c)
      BY <2>7 DEF ChangesRequested
    <3>. HIDE DEF c
    <3>. QED  BY <3>1, <3>2, <1>4
  <2>8. ASSUME BlockNode(r) PROVE FALSE
    <3>. DEFINE c == [co[r] EXCEPT !.phase = "waves", !.node = NoNode, !.sched = Blocked(co[r])]
    <3>1. c.phase = "waves"
      BY DEF Coordinators
    <3>2. Goto(r, c)
      BY <2>8 DEF BlockNode
    <3>. HIDE DEF c
    <3>. QED  BY <3>1, <3>2, <1>4
  <2>9. ASSUME NodeFails(r), ~BlockNode(r) PROVE FALSE
    <3>. DEFINE c == [co[r] EXCEPT !.phase = "asking"]
    <3>1. c.phase = "asking"
      BY DEF Coordinators
    <3>2. Goto(r, c)
      BY <2>9 DEF NodeFails
    <3>. HIDE DEF c
    <3>. QED  BY <3>1, <3>2, <1>4
  <2>10. ASSUME Retry(r) PROVE FALSE
    <3>. DEFINE c == [co[r] EXCEPT !.phase = "coding", !.attempt = 0, !.retried = TRUE]
    <3>1. c.phase = "coding"
      BY DEF Coordinators
    <3>2. Goto(r, c)
      BY <2>10 DEF Retry
    <3>. HIDE DEF c
    <3>. QED  BY <3>1, <3>2, <1>4
  <2>11. ~Skip(r)
    BY <2>8 DEF Skip
  <2>. QED  BY <1>5, <2>1, <2>2, <2>3, <2>4, <2>5, <2>6, <2>7, <2>8, <2>9, <2>10, <2>11
            DEF Advance
<1>. QED  BY <1>1, <1>2, <1>3, <1>5 DEF Next

\* A node of the run is its scheduler's, and the store tells its status.
LEMMA NodeOfRun ==
  ASSUME TypeOK, SchedulerInv, MirrorInv, NEW r \in Runs,
         co[r].phase \notin {"idle", "planning"}, NEW n \in Ids \ touched, tasks[n].run = r
  PROVE  HasRow(r) /\ n \in DOMAIN co[r].sched /\ tasks[n].status = co[r].sched[n]
<1>1. HasRow(r) /\ n \in DOMAIN co[r].sched
  BY DEF SchedulerInv, OrphanInv, NoOrphanNodes, OwnInv, Owned
<1>. QED  BY <1>1 DEF MirrorInv, Mirrors

LEMMA WavesEndSettles ==
  ASSUME TypeOK, SchedulerInv, MirrorInv, NEW r \in Runs, WavesEnd(r),
         NEW n \in Ids \ touched, tasks'[n].run = r
  PROVE  /\ tasks'[n].status \notin OpenNode
         /\ row'[r] = "done" => tasks'[n].status = "succeeded"
<1>1. co[r].phase = "waves" /\ tasks' = tasks /\ Ready(co[r]) = {}
  BY DEF WavesEnd
<1>2. HasRow(r) /\ n \in DOMAIN co[r].sched /\ tasks[n].status = co[r].sched[n]
  BY <1>1, NodeOfRun
<1>3. co[r].node = NoNode
  BY <1>1 DEF SchedulerInv, SettleInv, Settling, Work
<1>4. \A m \in DOMAIN co[r].sched : co[r].sched[m] \notin OpenNode
  BY <1>1, <1>3, CoType, NothingIsOpen DEF SchedulerInv, OrderInv, SettleInv
<1>5. row'[r] = IF \A m \in DOMAIN co[r].sched : co[r].sched[m] = "succeeded"
                THEN "done" ELSE "failed"
  BY <1>2 DEF WavesEnd, Ended, TypeOK
<1>. QED  BY <1>1, <1>2, <1>4, <1>5

LEMMA CancelSettles ==
  ASSUME TypeOK, SchedulerInv, MirrorInv, NEW r \in Runs, Cancel(r),
         NEW n \in Ids \ touched, tasks'[n].run = r
  PROVE  /\ tasks'[n].status \notin OpenNode
         /\ row'[r] = "done" => tasks'[n].status = "succeeded"
<1>. DEFINE open == {m \in DOMAIN co[r].sched : co[r].sched[m] \in OpenNode}
            status == [m \in open |-> "cancelled"]
<1>1. co[r].phase = "asking" /\ Store(status) /\ Ended(r, "cancelled")
  BY DEF Cancel
<1>2. DOMAIN status = open /\ \A m \in open : status[m] = "cancelled"
  OBVIOUS
<1>. HIDE DEF status
<1>3. tasks[n].run = r /\ r # NoRun
  BY <1>1, StoreIs, ConstantsAssumption
<1>4. HasRow(r) /\ n \in DOMAIN co[r].sched /\ tasks[n].status = co[r].sched[n]
  BY <1>1, <1>3, NodeOfRun
<1>5. /\ n \notin open => tasks'[n] = tasks[n]
      /\ n \in open => tasks'[n].status = "cancelled"
  BY <1>1, <1>2, <1>3, StoreIs DEF NoTask
<1>6. row'[r] = "cancelled"
  BY <1>1, <1>4 DEF Ended, TypeOK
<1>. QED  BY <1>4, <1>5, <1>6 DEF OpenNode

LEMMA EndSettles ==
  ASSUME TypeOK, SchedulerInv, MirrorInv, [Next]_vars
  PROVE  \A r \in Runs :
           co[r].phase \in {"waves", "coding", "reviewing", "asking"} /\ co'[r].phase = "idle"
           => \A n \in Ids \ touched : tasks'[n].run = r =>
                /\ tasks'[n].status \notin OpenNode
                /\ row'[r] = "done" => tasks'[n].status = "succeeded"
BY WaysToEnd, WavesEndSettles, CancelSettles

\* Any number of runs, under the condition of StoreFollowsScheduler: a run that
\* ends from its waves leaves no open node in the database, and is recorded as
\* done only when all its nodes have succeeded, for plans of any size.
THEOREM EndsSettled == Spec /\ []NamesApart => EndedPlanIsSettled
<1>1. TypeOK /\ SchedulerInv /\ MirrorInv /\ [Next]_vars =>
        [\A r \in Runs :
           co[r].phase \in {"waves", "coding", "reviewing", "asking"} /\ co'[r].phase = "idle"
           => \A n \in Ids \ touched : tasks'[n].run = r =>
                /\ tasks'[n].status \notin OpenNode
                /\ row'[r] = "done" => tasks'[n].status = "succeeded"]_vars
  BY EndSettles
<1>. QED  BY <1>1, StoreFollows, SchedulerCorrect, PTL DEF Spec, EndedPlanIsSettled

\* The same of one run, without the condition.
THEOREM OneRunEndsSettled ==
  ASSUME \A q, r \in Runs : q = r
  PROVE  Spec => EndedPlanIsSettled
BY AloneIsApart, EndsSettled, PTL

=============================================================================
