------------------------------ MODULE Planner ------------------------------
(* What the planner computes over a breakdown of tasks: the depth-first     *)
(* search for cycles and the topological order (dependency-graph.ts), and   *)
(* the schedule in waves (scheduler.ts, computeSchedule). The breakdown     *)
(* comes from a model, so any graph is an input: one with cycles, tasks     *)
(* that depend on themselves or on an id nobody has. Each round of a loop   *)
(* is a step; the order in which an array lists its members is free.        *)
EXTENDS Integers, Sequences, FiniteSets, FileScopes

CONSTANTS Node,           \* task ids
          Unknown,        \* an id no task has
          Graphs,         \* what dependsOn may be: functions of the tasks
          Scopes,         \* what filesScope may be: sets of globs
          MaxParallelism  \* MAX_PARALLELISM

ASSUME PlannerAssumption ==
    /\ IsFiniteSet(Node) /\ Unknown \notin Node
    /\ Graphs \subseteq [Node -> SUBSET (Node \cup {Unknown})]
    /\ Scopes \subseteq SUBSET Globs
    /\ MaxParallelism \in Nat \ {0}

VARIABLES
    phase,     \* "detect", "cyclic" (topoOrder throws), "sort", "place", "done"
    deps,      \* dependsOn of each task
    color,     \* "white", "gray", "black"
    stack,     \* the visits that are open: a task and the ids left to look at
    inCycle,   \* what detectCycles returns
    finished,  \* visits ended so far, and for each task ...
    rank,      \* ... the number of its own (0: not ended): no part of the code
    remaining, \* remainingDeps
    ready,     \* the queue of topoOrder
    order,     \* its result
    next,      \* how many of order have been placed
    scope,     \* filesScope of each task
    placed     \* task -> wave, or Nowhere

vars == <<phase, deps, color, stack, inCycle, finished, rank, remaining, ready,
          order, next, scope, placed>>
visitVars == <<color, stack, inCycle, finished, rank>>
sortVars == <<remaining, ready, order>>
waveVars == <<next, scope, placed>>

Nowhere == -1

(* The ids a task depends on that are tasks (adjacency.has). *)
Known(n) == deps[n] \cap Node

TypeOK ==
    /\ phase \in {"detect", "cyclic", "sort", "place", "done"}
    /\ deps \in [Node -> SUBSET (Node \cup {Unknown})]
    /\ color \in [Node -> {"white", "gray", "black"}]
    /\ stack \in Seq([node : Node, left : SUBSET (Node \cup {Unknown})])
    /\ inCycle \in SUBSET Node
    /\ finished \in Nat
    /\ rank \in [Node -> Nat]
    /\ remaining \in [Node -> Nat]
    /\ ready \in SUBSET Node
    /\ order \in Seq(Node)
    /\ next \in Nat
    /\ scope \in [Node -> SUBSET Globs]
    /\ placed \in [Node -> Nat \cup {Nowhere}]

Init ==
    /\ phase = "detect"
    /\ deps \in Graphs
    /\ color = [n \in Node |-> "white"]
    /\ stack = <<>>
    /\ inCycle = {}
    /\ finished = 0
    /\ rank = [n \in Node |-> 0]
    /\ remaining = [n \in Node |-> 0]
    /\ ready = {}
    /\ order = <<>>
    /\ next = 0
    /\ scope = [n \in Node |-> {}]
    /\ placed = [n \in Node |-> Nowhere]

-----------------------------------------------------------------------------
(* detectCycles *)

Open(n) == [node |-> n, left |-> deps[n]]
Depth == Len(stack)
Top == stack[Depth]

(* The loop over all ids starts a visit at a white one. *)
StartVisit(n) ==
    /\ phase = "detect" /\ stack = <<>> /\ color[n] = "white"
    /\ color' = [color EXCEPT ![n] = "gray"]
    /\ stack' = <<Open(n)>>
    /\ UNCHANGED <<phase, deps, inCycle, finished, rank, sortVars, waveVars>>

(* Mutant of FromOnStack: the whole stack. *)
FromOnStackAll(n) == {stack[i].node : i \in 1 .. Depth}

(* Everything from the task with the back-edge up the stack. *)
FromOnStack(n) == {stack[i].node : i \in {k \in 1 .. Depth :
                                          \E s \in 1 .. k : stack[s].node = n}}

(* One round of the loop over dependsOn: an unknown id is skipped, a gray   *)
(* one closes a cycle, a white one is visited.                              *)
Look(id) ==
    /\ phase = "detect" /\ stack # <<>> /\ id \in Top.left
    /\ LET rest == [stack EXCEPT ![Depth] = [node |-> Top.node, left |-> Top.left \ {id}]]
       IN IF id \in Node /\ color[id] = "white"
          THEN /\ color' = [color EXCEPT ![id] = "gray"]
               /\ stack' = Append(rest, Open(id))
               /\ UNCHANGED inCycle
          ELSE /\ stack' = rest
               /\ inCycle' = IF id \in Node /\ color[id] = "gray"
                             THEN inCycle \cup FromOnStack(id) ELSE inCycle
               /\ UNCHANGED color
    /\ UNCHANGED <<phase, deps, finished, rank, sortVars, waveVars>>

EndVisit ==
    /\ phase = "detect" /\ stack # <<>> /\ Top.left = {}
    /\ color' = [color EXCEPT ![Top.node] = "black"]
    /\ stack' = SubSeq(stack, 1, Depth - 1)
    /\ finished' = finished + 1
    /\ rank' = [rank EXCEPT ![Top.node] = finished + 1]
    /\ UNCHANGED <<phase, deps, inCycle, sortVars, waveVars>>

-----------------------------------------------------------------------------
(* topoOrder *)

(* All are black: topoOrder throws, or counts the dependencies of each task *)
(* and queues those that have none.                                         *)
StartSort ==
    /\ phase = "detect" /\ stack = <<>>
    /\ \A n \in Node : color[n] = "black"
    /\ IF inCycle # {}
       THEN phase' = "cyclic" /\ UNCHANGED sortVars
       ELSE /\ phase' = "sort"
            /\ remaining' = [n \in Node |-> Cardinality(Known(n))]
            /\ ready' = {n \in Node : Known(n) = {}}
            /\ UNCHANGED order
    /\ UNCHANGED <<deps, visitVars, waveVars>>

Dependents(n) == {m \in Node : n \in deps[m]}

(* Mutant of Emit: a dependent is queued as soon as one dependency is out.  *)
EmitEager(n) ==
    /\ phase = "sort" /\ n \in ready
    /\ order' = Append(order, n)
    /\ remaining' = [m \in Node |-> IF m \in Dependents(n) THEN remaining[m] - 1 ELSE remaining[m]]
    /\ ready' = (ready \ {n}) \cup {m \in Dependents(n) : \A i \in DOMAIN order : order[i] # m}
    /\ UNCHANGED <<phase, deps, visitVars, waveVars>>

(* The next task of the queue comes out, and its dependents may follow. *)
Emit(n) ==
    /\ phase = "sort" /\ n \in ready
    /\ order' = Append(order, n)
    /\ remaining' = [m \in Node |-> IF m \in Dependents(n) THEN remaining[m] - 1 ELSE remaining[m]]
    /\ ready' = (ready \ {n}) \cup {m \in Dependents(n) : remaining[m] - 1 = 0}
    /\ UNCHANGED <<phase, deps, visitVars, waveVars>>

-----------------------------------------------------------------------------
(* computeSchedule *)

StartPlacing ==
    /\ phase = "sort" /\ ready = {}
    /\ phase' = "place"
    /\ scope' \in [Node -> Scopes]
    /\ UNCHANGED <<deps, visitVars, sortVars, next, placed>>

Placed == {n \in Node : placed[n] # Nowhere}
Wave(w) == {n \in Node : placed[n] = w}

(* earliestWaveAfterDeps: one past the last wave of a placed dependency. *)
AfterDeps(n, w) == \A d \in Known(n) \cap Placed : w > placed[d]

(* Mutant of Fits: the members of the wave are not compared. *)
FitsAnyScope(n, w) == Cardinality(Wave(w)) < MaxParallelism

(* findWaveSlot: there is room, and no member may touch the same files. *)
Fits(n, w) ==
    /\ Cardinality(Wave(w)) < MaxParallelism
    /\ \A m \in Wave(w) : ~ScopesOverlap(scope[n], scope[m])

Place(n) ==
    /\ phase = "place" /\ next < Len(order) /\ n = order[next + 1]
    /\ \E w \in 0 .. Cardinality(Node) :
          /\ AfterDeps(n, w) /\ Fits(n, w)
          /\ \A v \in 0 .. w - 1 : ~(AfterDeps(n, v) /\ Fits(n, v))
          /\ placed' = [placed EXCEPT ![n] = w]
    /\ next' = next + 1
    /\ UNCHANGED <<phase, deps, visitVars, sortVars, scope>>

Finish ==
    /\ phase = "place" /\ next = Len(order)
    /\ phase' = "done"
    /\ UNCHANGED <<deps, visitVars, sortVars, waveVars>>

(* Nothing is left to do. A stop anywhere else would be a deadlock. *)
Ended == phase \in {"cyclic", "done"} /\ UNCHANGED vars

Next ==
    \/ \E n \in Node : StartVisit(n) \/ Emit(n) \/ Place(n)
    \/ \E id \in Node \cup {Unknown} : Look(id)
    \/ EndVisit \/ StartSort \/ StartPlacing \/ Finish \/ Ended

Spec == Init /\ [][Next]_vars

-----------------------------------------------------------------------------
(* Properties *)

(* The least set that has the tasks n depends on and all those they do.     *)
Reach(n) ==
    {m \in Node : \A S \in SUBSET Node :
                      Known(n) \subseteq S /\ (\A k \in S : Known(k) \subseteq S) => m \in S}
OnCycle == {n \in Node : n \in Reach(n)}

(* Every task the search reports is on a cycle, and it reports nothing only *)
(* when there is none.                                                      *)
CycleVerdict ==
    /\ inCycle \subseteq OnCycle
    /\ phase = "cyclic" => inCycle # {}
    /\ phase \in {"sort", "place", "done"} => OnCycle = {}

(* A graph in which the search finds no cycle is ordered in full: each task *)
(* once, its dependencies before it. So the count of a task never stays     *)
(* above zero for good.                                                     *)
OrderIsTopological ==
    /\ phase \in {"sort", "place", "done"} =>
         \A i \in DOMAIN order :
            /\ \A d \in Known(order[i]) : \E k \in 1 .. i - 1 : order[k] = d
            /\ \A k \in DOMAIN order : order[k] = order[i] => k = i
    /\ phase \in {"place", "done"} => \A n \in Node : \E i \in DOMAIN order : order[i] = n

(* The schedule: every task in one wave, after those it depends on, at most *)
(* MAX_PARALLELISM together, and no two whose scopes may overlap.           *)
WavesAreSafe ==
    /\ \A n \in Placed :
         /\ \A d \in Known(n) : d \in Placed /\ placed[d] < placed[n]
         /\ Cardinality(Wave(placed[n])) <= MaxParallelism
         /\ \A m \in Placed : m # n /\ placed[m] = placed[n] => ~ScopesOverlap(scope[n], scope[m])
    /\ phase = "done" => Placed = Node

(* What the waves rest on: scopes the heuristic keeps apart share no file.  *)
ScopesKeepApart == phase = "place" => ScopesConservative
=============================================================================
