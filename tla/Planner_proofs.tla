--------------------------- MODULE Planner_proofs ---------------------------
(* Proofs about the planner's algorithms for every finite set of tasks and  *)
(* every graph over them. The search for cycles numbers the tasks by the    *)
(* end of their visits; when it finds no cycle, each task ends after those  *)
(* it depends on. That numbering is what makes the topological order        *)
(* complete: among the tasks left out, the one that ended first would have  *)
(* had all its dependencies out. The schedule then rests on the order.      *)
EXTENDS Planner, TLAPS, FiniteSetTheorems, SequenceTheorems, WellFoundedInduction

(* The search: the gray tasks are those on the stack, once each, and while  *)
(* no cycle has been found what a task has looked at is black and was done  *)
(* before it, or is the visit right above it on the stack.                  *)
Search ==
    /\ \A n \in Node : color[n] = "gray" <=> \E i \in 1 .. Len(stack) : stack[i].node = n
    /\ \A i, j \in 1 .. Len(stack) : stack[i].node = stack[j].node => i = j
    /\ \A n \in Node : rank[n] <= finished
    /\ inCycle = {} =>
         /\ \A n \in Node : color[n] = "black" =>
               \A d \in Known(n) : color[d] = "black" /\ rank[d] < rank[n]
         /\ \A i \in 1 .. Len(stack) : \A d \in Known(stack[i].node) :
               \/ d \in stack[i].left
               \/ color[d] = "black"
               \/ i < Len(stack) /\ stack[i + 1].node = d

Sorting == phase \in {"sort", "place", "done"}
Emitted == {order[i] : i \in 1 .. Len(order)}

(* Once the search has found nothing: tasks end after their dependencies,   *)
(* counts and queue are what is still to come.                              *)
Sorted ==
    Sorting =>
    /\ \A n \in Node : \A d \in Known(n) : rank[d] < rank[n]
    /\ \A i, j \in 1 .. Len(order) : order[i] = order[j] => i = j
    /\ \A i \in 1 .. Len(order) : \A d \in Known(order[i]) : \E k \in 1 .. i - 1 : order[k] = d
    /\ \A n \in Node : remaining[n] = Cardinality(Known(n) \ Emitted)
    /\ \A n \in Node : n \in ready <=> n \notin Emitted /\ Known(n) \subseteq Emitted
    /\ phase # "sort" => Emitted = Node

(* The schedule so far: the first ones of the order, placed as they should. *)
Scheduled ==
    /\ phase \notin {"place", "done"} => Placed = {} /\ next = 0
    /\ phase = "detect" => order = <<>>
    /\ phase = "done" => next = Len(order)
    /\ next <= Len(order)
    /\ Placed = {order[i] : i \in 1 .. next}
    /\ \A n \in Placed :
         /\ \A d \in Known(n) : d \in Placed /\ placed[d] < placed[n]
         /\ Cardinality(Wave(placed[n])) <= MaxParallelism
         /\ \A m \in Placed : m # n /\ placed[m] = placed[n] => ~ScopesOverlap(scope[n], scope[m])

IInv == TypeOK /\ Search /\ Sorted /\ Scheduled

-----------------------------------------------------------------------------
(* The pairwise test does not depend on who comes first.                    *)
LEMMA OverlapSymmetric ==
  ASSUME NEW a, NEW b
  PROVE  ScopesOverlap(a, b) <=> ScopesOverlap(b, a)
  BY DEF ScopesOverlap, PairOverlaps

LEMMA FiniteParts ==
  ASSUME NEW S, S \subseteq Node
  PROVE  IsFiniteSet(S) /\ Cardinality(S) \in Nat
  BY PlannerAssumption, FS_Subset, FS_CardinalityType

(* Among any tasks there is one whose visit ended first.                    *)
LEMMA FirstToEnd ==
  ASSUME TypeOK, NEW S \in SUBSET Node, S # {}
  PROVE  \E m \in S : \A n \in S : ~(rank[n] < rank[m])
<1> DEFINE T == {rank[n] : n \in S}
<1>1. T \subseteq Nat /\ T # {}
  BY DEF TypeOK
<1>2. IsWellFoundedOn(OpToRel(<, Nat), Nat)
  BY NatLessThanWellFounded
<1>3. \E x \in T : \A y \in T : ~(<<y, x>> \in OpToRel(<, Nat))
  <2> HIDE DEF T
  <2> QED  BY <1>1, <1>2, WFMin
<1>4. PICK x \in T : \A y \in T : ~(<<y, x>> \in OpToRel(<, Nat))
  BY <1>3
<1>5. \A y \in T : ~(y < x)
  BY <1>1, <1>4 DEF OpToRel
<1> QED  BY <1>5

LEMMA StackFacts ==
  ASSUME TypeOK
  PROVE  /\ Depth \in Nat /\ Depth = Len(stack) /\ (stack # <<>> => Depth > 0)
         /\ \A i \in 1 .. Depth : /\ stack[i].node \in Node
                                 /\ stack[i].left \in SUBSET (Node \cup {Unknown})
<1> DEFINE V == [node : Node, left : SUBSET (Node \cup {Unknown})]
<1>1. stack \in Seq(V)
  BY DEF TypeOK
<1>2. \A v \in V : v.node \in Node /\ v.left \in SUBSET (Node \cup {Unknown})
  OBVIOUS
<1> HIDE DEF V
<1>3. Depth \in Nat /\ Depth = Len(stack) /\ (stack # <<>> => Depth > 0)
  BY <1>1 DEF Depth
<1>4. \A i \in 1 .. Depth : stack[i] \in V
  BY <1>1, <1>3
<1> QED  BY <1>2, <1>3, <1>4

LEMMA InitInv == Init => IInv
<1> SUFFICES ASSUME Init PROVE IInv
  OBVIOUS
<1>1. TypeOK
  BY PlannerAssumption DEF Init, TypeOK, Nowhere
<1>2. Search
  BY DEF Init, Search
<1>3. Sorted /\ Scheduled
  BY DEF Init, Sorted, Sorting, Scheduled, Placed, Nowhere
<1> QED  BY <1>1, <1>2, <1>3 DEF IInv

-----------------------------------------------------------------------------
(* The search leaves the sorting and the placing alone.                     *)
LEMMA SearchOnly ==
  ASSUME IInv, phase = "detect", UNCHANGED <<phase, deps, sortVars, waveVars>>
  PROVE  Sorted' /\ Scheduled'
  BY DEF IInv, Sorted, Sorting, Scheduled, sortVars, waveVars, Placed, Wave, Known

LEMMA StartVisitStep ==
  ASSUME IInv, NEW n \in Node, StartVisit(n)
  PROVE  IInv'
<1>1. /\ phase = "detect" /\ stack = <<>> /\ color[n] = "white"
      /\ color' = [color EXCEPT ![n] = "gray"] /\ stack' = <<Open(n)>>
      /\ UNCHANGED <<phase, deps, inCycle, finished, rank, sortVars, waveVars>>
  BY DEF StartVisit
<1>2. Open(n) \in [node : Node, left : SUBSET (Node \cup {Unknown})]
  BY DEF IInv, TypeOK, Open
<1>3. TypeOK'
  BY <1>1, <1>2 DEF IInv, TypeOK, sortVars, waveVars
<1>4. Search'
  <2>1. Len(stack') = 1 /\ stack'[1].node = n /\ stack'[1].left = deps[n]
    BY <1>1 DEF Open
  <2>2. \A m \in Node : color'[m] = IF m = n THEN "gray" ELSE color[m]
    BY <1>1 DEF IInv, TypeOK
  <2>3. \A m \in Node : color[m] # "gray"
    BY <1>1 DEF IInv, Search
  <2>4. \A m : Known(m)' = Known(m)
    BY <1>1 DEF Known
  <2>5. \A m \in Node : color'[m] = "gray" <=> \E i \in 1 .. Len(stack') : stack'[i].node = m
    BY <2>1, <2>2, <2>3
  <2>6. inCycle' = {} => \A m \in Node : color'[m] = "black" =>
               \A d \in Known(m)' : color'[d] = "black" /\ rank'[d] < rank'[m]
    BY <1>1, <2>2, <2>4 DEF IInv, Search, Known
  <2>7. \A i \in 1 .. Len(stack') : \A d \in Known(stack[i].node)' : d \in stack'[i].left
    <3>1. \A i \in 1 .. Len(stack') : i = 1
      BY <2>1
    <3>2. \A d \in Known(stack[1].node)' : d \in stack'[1].left
      BY <1>1, <2>1 DEF Known
    <3> QED  BY <3>1, <3>2
  <2> QED  BY <1>1, <2>1, <2>5, <2>6, <2>7 DEF IInv, Search
<1> QED  BY <1>1, <1>3, <1>4, SearchOnly DEF IInv

(* What both branches of Look do to the stack: the top has one id less to   *)
(* look at.                                                                 *)
LEMMA LookStep ==
  ASSUME IInv, NEW id \in Node \cup {Unknown}, Look(id)
  PROVE  IInv'
<1> DEFINE rest == [stack EXCEPT ![Depth] = [node |-> Top.node, left |-> Top.left \ {id}]]
<1>1. /\ phase = "detect" /\ stack # <<>> /\ id \in Top.left
      /\ UNCHANGED <<phase, deps, finished, rank, sortVars, waveVars>>
      /\ IF id \in Node /\ color[id] = "white"
         THEN /\ color' = [color EXCEPT ![id] = "gray"]
              /\ stack' = Append(rest, Open(id))
              /\ UNCHANGED inCycle
         ELSE /\ stack' = rest
              /\ inCycle' = IF id \in Node /\ color[id] = "gray"
                            THEN inCycle \cup FromOnStack(id) ELSE inCycle
              /\ UNCHANGED color
  BY DEF Look
<1>2. /\ Depth \in Nat /\ Depth > 0 /\ Depth = Len(stack)
      /\ Top = stack[Depth] /\ Top.node \in Node /\ Top.left \in SUBSET (Node \cup {Unknown})
  BY <1>1, StackFacts DEF IInv, Top
<1>3. /\ rest \in Seq([node : Node, left : SUBSET (Node \cup {Unknown})])
      /\ Len(rest) = Depth
      /\ \A i \in 1 .. Depth : rest[i].node = stack[i].node
      /\ \A i \in 1 .. Depth - 1 : rest[i].left = stack[i].left
      /\ rest[Depth].left = stack[Depth].left \ {id}
  BY <1>2 DEF IInv, TypeOK
<1>4. Sorted' /\ Scheduled'
  BY <1>1, SearchOnly
<1>5. \A m : Known(m)' = Known(m)
  BY <1>1 DEF Known
<1> HIDE DEF rest
<1>a. CASE id \in Node /\ color[id] = "white"
  <2>1. /\ color' = [color EXCEPT ![id] = "gray"] /\ stack' = Append(rest, Open(id))
        /\ inCycle' = inCycle
    BY <1>1, <1>a
  <2>2. Open(id) \in [node : Node, left : SUBSET (Node \cup {Unknown})]
        /\ Open(id).node = id /\ Open(id).left = deps[id]
    BY <1>a DEF IInv, TypeOK, Open
  <2>3. /\ Len(stack') = Depth + 1
        /\ \A i \in 1 .. Depth : stack'[i] = rest[i]
        /\ stack'[Depth + 1] = Open(id)
        /\ stack' \in Seq([node : Node, left : SUBSET (Node \cup {Unknown})])
    BY <1>2, <1>3, <2>1, <2>2
  <2>4. TypeOK'
    BY <1>1, <1>a, <2>1, <2>3 DEF IInv, TypeOK, sortVars, waveVars
  <2>5. \A m \in Node : color'[m] = IF m = id THEN "gray" ELSE color[m]
    BY <2>1 DEF IInv, TypeOK
  <2>6. \A i \in 1 .. Depth : stack[i].node # id
    BY <1>2, <1>a DEF IInv, Search
  <2>7. \A m \in Node : color'[m] = "gray" <=> \E i \in 1 .. Len(stack') : stack'[i].node = m
    <3>1. ASSUME NEW m \in Node, color'[m] = "gray"
          PROVE  \E i \in 1 .. Len(stack') : stack'[i].node = m
      <4>1. CASE m = id
        BY <1>2, <2>2, <2>3, <4>1
      <4>2. CASE m # id
        <5>1. PICK i \in 1 .. Depth : stack[i].node = m
          BY <1>2, <2>5, <3>1, <4>2 DEF IInv, Search
        <5> QED  BY <1>2, <1>3, <2>3, <5>1
      <4> QED  BY <4>1, <4>2
    <3>2. ASSUME NEW m \in Node, NEW i \in 1 .. Len(stack'), stack'[i].node = m
          PROVE  color'[m] = "gray"
      <4>1. CASE i = Depth + 1
        BY <2>2, <2>3, <2>5, <3>2, <4>1
      <4>2. CASE i \in 1 .. Depth
        BY <1>2, <1>3, <2>3, <2>5, <3>2, <4>2 DEF IInv, Search
      <4> QED  BY <1>2, <2>3, <4>1, <4>2
    <3> QED  BY <3>1, <3>2
  <2>8. \A i, j \in 1 .. Len(stack') : stack'[i].node = stack'[j].node => i = j
    <3> SUFFICES ASSUME NEW i \in 1 .. Depth + 1, NEW j \in 1 .. Depth + 1,
                        stack'[i].node = stack'[j].node
                 PROVE  i = j
      BY <2>3
    <3>1. CASE i = Depth + 1
      BY <1>2, <1>3, <2>2, <2>3, <2>6, <3>1
    <3>2. CASE j = Depth + 1
      BY <1>2, <1>3, <2>2, <2>3, <2>6, <3>2
    <3>3. CASE i \in 1 .. Depth /\ j \in 1 .. Depth
      BY <1>2, <1>3, <2>3, <3>3 DEF IInv, Search
    <3> QED  BY <1>2, <3>1, <3>2, <3>3
  <2>9. ASSUME inCycle' = {}
        PROVE  /\ \A n \in Node : color'[n] = "black" =>
                     \A d \in Known(n) : color'[d] = "black" /\ rank[d] < rank[n]
               /\ \A i \in 1 .. Len(stack') : \A d \in Known(stack'[i].node) :
                     \/ d \in stack'[i].left
                     \/ color'[d] = "black"
                     \/ i < Len(stack') /\ stack'[i + 1].node = d
    <3>1. \A n \in Node : color'[n] = "black" =>
                 \A d \in Known(n) : color'[d] = "black" /\ rank[d] < rank[n]
      BY <1>a, <2>1, <2>5, <2>9 DEF IInv, Search, Known
    <3>2. ASSUME NEW i \in 1 .. Depth + 1, NEW d \in Known(stack'[i].node)
          PROVE  \/ d \in stack'[i].left
                 \/ color'[d] = "black"
                 \/ i < Depth + 1 /\ stack'[i + 1].node = d
      <4>0. d \in Node /\ (color[d] = "black" => color'[d] = "black")
        BY <1>a, <2>5 DEF Known
      <4>1. CASE i = Depth + 1
        BY <2>2, <2>3, <4>1 DEF Known
      <4>2. CASE i = Depth
        <5>1. d \in stack[i].left \/ color[d] = "black"
          BY <1>2, <1>3, <2>1, <2>3, <2>9, <3>2, <4>2 DEF IInv, Search
        <5>2. d \in rest[i].left \/ d = id \/ color[d] = "black"
          BY <1>3, <4>2, <5>1
        <5> QED  BY <1>2, <2>2, <2>3, <4>0, <4>2, <5>2
      <4>3. CASE i \in 1 .. Depth - 1
        <5>1. d \in stack[i].left \/ color[d] = "black" \/ stack[i + 1].node = d
          BY <1>2, <1>3, <2>1, <2>3, <2>9, <3>2, <4>3 DEF IInv, Search
        <5>2. i \in 1 .. Depth /\ i + 1 \in 1 .. Depth
          BY <1>2, <4>3
        <5> QED  BY <1>3, <2>3, <4>0, <4>3, <5>1, <5>2
      <4> QED  BY <1>2, <4>1, <4>2, <4>3
    <3> QED  BY <2>3, <3>1, <3>2
  <2>10. Search'
    BY <1>1, <1>5, <2>7, <2>8, <2>9 DEF IInv, Search
  <2> QED  BY <1>4, <2>4, <2>10 DEF IInv
<1>b. CASE ~(id \in Node /\ color[id] = "white")
  <2>1. /\ stack' = rest /\ color' = color
        /\ inCycle' = IF id \in Node /\ color[id] = "gray"
                      THEN inCycle \cup FromOnStack(id) ELSE inCycle
    BY <1>1, <1>b
  <2>2. FromOnStack(id) \subseteq Node
    BY StackFacts DEF FromOnStack, IInv
  <2>3. TypeOK'
    BY <1>1, <1>3, <2>1, <2>2 DEF IInv, TypeOK, sortVars, waveVars
  <2>4. id \in Node /\ color[id] = "gray" => id \in FromOnStack(id)
    <3> SUFFICES ASSUME id \in Node, color[id] = "gray" PROVE id \in FromOnStack(id)
      OBVIOUS
    <3>1. PICK i \in 1 .. Depth : stack[i].node = id
      BY <1>2 DEF IInv, Search
    <3>2. i \in {k \in 1 .. Depth : \E s \in 1 .. k : stack[s].node = id}
      BY <1>2, <3>1
    <3> QED  BY <3>1, <3>2 DEF FromOnStack
  <2>5. \A m \in Node : color[m] = "gray" <=> \E i \in 1 .. Len(rest) : rest[i].node = m
    BY <1>2, <1>3 DEF IInv, Search
  <2>6. \A i, j \in 1 .. Len(rest) : rest[i].node = rest[j].node => i = j
    BY <1>2, <1>3 DEF IInv, Search
  <2>7. ASSUME inCycle' = {}
        PROVE  /\ inCycle = {}
               /\ \A i \in 1 .. Len(rest) : \A d \in Known(rest[i].node) :
                     \/ d \in rest[i].left
                     \/ color[d] = "black"
                     \/ i < Len(rest) /\ rest[i + 1].node = d
    <3>1. inCycle = {} /\ (id \in Node => color[id] # "gray")
      BY <2>1, <2>4, <2>7
    <3>2. id \in Node => color[id] = "black"
      BY <1>b, <3>1 DEF IInv, TypeOK
    <3> SUFFICES ASSUME NEW i \in 1 .. Depth, NEW d \in Known(rest[i].node)
                 PROVE  \/ d \in rest[i].left
                        \/ color[d] = "black"
                        \/ i < Depth /\ rest[i + 1].node = d
      BY <1>3, <3>1
    <3>3. \/ d \in stack[i].left
          \/ color[d] = "black"
          \/ i < Depth /\ stack[i + 1].node = d
      BY <1>2, <1>3, <3>1 DEF IInv, Search
    <3>4. d \in stack[i].left => d \in rest[i].left \/ d = id
      BY <1>2, <1>3
    <3>5. i < Depth => rest[i + 1].node = stack[i + 1].node
      BY <1>2, <1>3
    <3> QED  BY <3>2, <3>3, <3>4, <3>5 DEF Known
  <2>8. Search'
    BY <1>1, <1>5, <2>1, <2>5, <2>6, <2>7 DEF IInv, Search
  <2> QED  BY <1>4, <2>3, <2>8 DEF IInv
<1> QED  BY <1>a, <1>b

LEMMA EndVisitStep ==
  ASSUME IInv, EndVisit
  PROVE  IInv'
<1> DEFINE n == Top.node
<1>1. /\ phase = "detect" /\ stack # <<>> /\ Top.left = {}
      /\ color' = [color EXCEPT ![n] = "black"]
      /\ stack' = SubSeq(stack, 1, Depth - 1)
      /\ finished' = finished + 1
      /\ rank' = [rank EXCEPT ![n] = finished + 1]
      /\ UNCHANGED <<phase, deps, inCycle, sortVars, waveVars>>
  BY DEF EndVisit
<1>2. /\ Depth \in Nat /\ Depth > 0 /\ Depth = Len(stack)
      /\ Top = stack[Depth] /\ n \in Node /\ n = stack[Depth].node
  BY <1>1, StackFacts DEF IInv, Top
<1>3. /\ stack' \in Seq([node : Node, left : SUBSET (Node \cup {Unknown})])
      /\ Len(stack') = Depth - 1
      /\ \A i \in 1 .. Depth - 1 : stack'[i] = stack[i]
  <2> DEFINE V == [node : Node, left : SUBSET (Node \cup {Unknown})]
  <2>1. stack \in Seq(V)
    BY DEF IInv, TypeOK
  <2> HIDE DEF V
  <2>2. Depth - 1 \in Int /\ \A i \in 1 .. Depth - 1 : stack[i] \in V
    BY <1>2, <2>1
  <2>3. /\ stack' \in Seq(V)
        /\ Len(stack') = IF 1 <= Depth - 1 THEN (Depth - 1) - 1 + 1 ELSE 0
        /\ \A i \in 1 .. (Depth - 1) - 1 + 1 : stack'[i] = stack[1 + i - 1]
    BY <1>1, <2>2, SubSeqProperties
  <2>4. \A i \in 1 .. Depth - 1 : stack'[i] = stack[i]
    BY <1>2, <2>3
  <2> QED  BY <1>2, <2>3, <2>4 DEF V
<1> HIDE DEF n
<1>4. /\ \A m \in Node : color'[m] = IF m = n THEN "black" ELSE color[m]
      /\ \A m \in Node : rank'[m] = IF m = n THEN finished + 1 ELSE rank[m]
  BY <1>1 DEF IInv, TypeOK
<1>5. TypeOK'
  <2>1. color' \in [Node -> {"white", "gray", "black"}]
    BY <1>1, <1>2 DEF IInv, TypeOK
  <2>2. rank' \in [Node -> Nat] /\ finished' \in Nat
    BY <1>1, <1>2 DEF IInv, TypeOK
  <2>3. UNCHANGED <<phase, deps, inCycle, remaining, ready, order, next, scope, placed>>
    BY <1>1 DEF sortVars, waveVars
  <2> QED  BY <1>3, <2>1, <2>2, <2>3 DEF IInv, TypeOK
<1>6. Sorted' /\ Scheduled'
  <2>1. Scheduled'
    BY <1>1 DEF IInv, Scheduled, sortVars, waveVars, Placed, Wave, Known
  <2> QED  BY <1>1, <2>1 DEF Sorted, Sorting
<1>7. \A m : Known(m)' = Known(m)
  BY <1>1 DEF Known
<1>8. color[n] = "gray" /\ \A i \in 1 .. Depth - 1 : stack[i].node # n
  BY <1>2 DEF IInv, Search
<1>9. \A m \in Node : color'[m] = "gray" <=> \E i \in 1 .. Len(stack') : stack'[i].node = m
  <2>1. ASSUME NEW m \in Node, color'[m] = "gray"
        PROVE  \E i \in 1 .. Len(stack') : stack'[i].node = m
    <3>1. m # n /\ color[m] = "gray"
      BY <1>4, <2>1
    <3>2. PICK i \in 1 .. Depth : stack[i].node = m
      BY <1>2, <3>1 DEF IInv, Search
    <3> QED  BY <1>2, <1>3, <3>1, <3>2
  <2>2. ASSUME NEW m \in Node, NEW i \in 1 .. Len(stack'), stack'[i].node = m
        PROVE  color'[m] = "gray"
    BY <1>2, <1>3, <1>4, <1>8, <2>2 DEF IInv, Search
  <2> QED  BY <2>1, <2>2
<1>10. \A i, j \in 1 .. Len(stack') : stack'[i].node = stack'[j].node => i = j
  <2>1. \A i, j \in 1 .. Depth : stack[i].node = stack[j].node => i = j
    BY <1>2 DEF IInv, Search
  <2>2. \A i \in 1 .. Len(stack') : i \in 1 .. Depth /\ stack'[i] = stack[i]
    BY <1>2, <1>3
  <2> QED  BY <2>1, <2>2
<1>11. \A m \in Node : rank'[m] <= finished'
  BY <1>1, <1>4 DEF IInv, TypeOK, Search
<1>12. ASSUME inCycle' = {}
       PROVE  /\ \A m \in Node : color'[m] = "black" =>
                    \A d \in Known(m) : color'[d] = "black" /\ rank'[d] < rank'[m]
              /\ \A i \in 1 .. Len(stack') : \A d \in Known(stack'[i].node) :
                    \/ d \in stack'[i].left
                    \/ color'[d] = "black"
                    \/ i < Len(stack') /\ stack'[i + 1].node = d
  <2>1. inCycle = {}
    BY <1>1, <1>12
  <2>2. \A d \in Known(n) : color[d] = "black"
    <3>1. \A d \in Known(n) : d \in stack[Depth].left \/ color[d] = "black"
      BY <1>2, <2>1 DEF IInv, Search
    <3> QED  BY <1>1, <1>2, <3>1
  <2>3. ASSUME NEW m \in Node, color'[m] = "black", NEW d \in Known(m)
        PROVE  color'[d] = "black" /\ rank'[d] < rank'[m]
    <3>0. d \in Node /\ rank[d] \in Nat /\ rank[d] <= finished /\ finished \in Nat
      BY DEF Known, IInv, TypeOK, Search
    <3>1. CASE m = n
      <4>1. color[d] = "black" /\ d # n
        BY <1>8, <2>2, <2>3, <3>1
      <4> QED  BY <1>2, <1>4, <3>0, <3>1, <4>1
    <3>2. CASE m # n
      <4>1. color[m] = "black"
        BY <1>4, <2>3, <3>2
      <4>2. color[d] = "black" /\ rank[d] < rank[m]
        BY <2>1, <2>3, <4>1 DEF IInv, Search
      <4> QED  BY <1>4, <1>8, <3>0, <3>2, <4>2
    <3> QED  BY <3>1, <3>2
  <2>4. ASSUME NEW i \in 1 .. Depth - 1, NEW d \in Known(stack[i].node)
        PROVE  \/ d \in stack[i].left
               \/ color'[d] = "black"
               \/ i < Depth - 1 /\ stack[i + 1].node = d
    <3>1. \/ d \in stack[i].left
          \/ color[d] = "black"
          \/ stack[i + 1].node = d
      BY <1>2, <2>1 DEF IInv, Search
    <3>2. d \in Node
      BY DEF Known
    <3>3. i = Depth - 1 => stack[i + 1].node = n
      BY <1>2
    <3> QED  BY <1>2, <1>4, <3>1, <3>2, <3>3
  <2>5. \A i \in 1 .. Len(stack') : /\ i \in 1 .. Depth - 1 /\ stack'[i] = stack[i]
                                  /\ i < Depth - 1 => stack'[i + 1] = stack[i + 1]
    BY <1>2, <1>3
  <2> QED  BY <1>3, <2>3, <2>4, <2>5
<1>13. Search'
  BY <1>1, <1>7, <1>9, <1>10, <1>11, <1>12 DEF Search
<1> QED  BY <1>5, <1>6, <1>13 DEF IInv

-----------------------------------------------------------------------------
(* topoOrder: what the queue and the counts are when it starts.             *)
LEMMA StartSortStep ==
  ASSUME IInv, StartSort
  PROVE  IInv'
<1>1. /\ phase = "detect" /\ \A n \in Node : color[n] = "black"
      /\ UNCHANGED <<deps, visitVars, waveVars>>
  BY DEF StartSort
<1>2. order = <<>> /\ Emitted = {}
  BY <1>1 DEF IInv, Scheduled, Emitted
<1>3. Search'
  BY <1>1 DEF IInv, Search, visitVars, Known
<1>4. Placed = {} /\ next = 0
  BY <1>1 DEF IInv, Scheduled
<1>a. CASE inCycle # {}
  <2>1. phase' = "cyclic" /\ UNCHANGED sortVars
    BY <1>a DEF StartSort
  <2>2. TypeOK'
    BY <1>1, <2>1 DEF IInv, TypeOK, visitVars, waveVars, sortVars
  <2>3. Sorted' /\ Scheduled'
    BY <1>1, <1>2, <1>4, <2>1 DEF Sorted, Sorting, Scheduled, waveVars, sortVars, Placed
  <2> QED  BY <1>3, <2>2, <2>3 DEF IInv
<1>b. CASE inCycle = {}
  <2>1. /\ phase' = "sort" /\ order' = order
        /\ remaining' = [n \in Node |-> Cardinality(Known(n))]
        /\ ready' = {n \in Node : Known(n) = {}}
    BY <1>b DEF StartSort
  <2>2. \A n \in Node : Cardinality(Known(n)) \in Nat
    BY FiniteParts DEF Known
  <2>3. TypeOK'
    BY <1>1, <2>1, <2>2 DEF IInv, TypeOK, visitVars, waveVars
  <2>4. \A n \in Node : \A d \in Known(n) : rank[d] < rank[n]
    BY <1>1, <1>b DEF IInv, Search
  <2>5. Emitted' = {} /\ \A n : Known(n)' = Known(n)
    BY <1>1, <1>2, <2>1 DEF Emitted, Known
  <2>6. Sorted'
    BY <1>1, <1>2, <2>1, <2>4, <2>5 DEF Sorted, visitVars
  <2>7. Scheduled'
    BY <1>1, <1>2, <1>4, <2>1 DEF Scheduled, waveVars, Placed
  <2> QED  BY <1>3, <2>3, <2>6, <2>7 DEF IInv
<1> QED  BY <1>a, <1>b

LEMMA EmitStep ==
  ASSUME IInv, NEW n \in Node, Emit(n)
  PROVE  IInv'
<1>1. /\ phase = "sort" /\ n \in ready
      /\ order' = Append(order, n)
      /\ remaining' = [m \in Node |-> IF m \in Dependents(n) THEN remaining[m] - 1 ELSE remaining[m]]
      /\ ready' = (ready \ {n}) \cup {m \in Dependents(n) : remaining[m] - 1 = 0}
      /\ UNCHANGED <<phase, deps, visitVars, waveVars>>
  BY DEF Emit
<1>2. Search'
  BY <1>1 DEF IInv, Search, visitVars, Known
<1>3. /\ Len(order) \in Nat /\ Len(order') = Len(order) + 1
      /\ order'[Len(order) + 1] = n /\ order' \in Seq(Node)
      /\ \A i \in 1 .. Len(order) : order'[i] = order[i] /\ order[i] \in Node
  BY <1>1 DEF IInv, TypeOK
<1>4. Emitted' = Emitted \cup {n} /\ Emitted \subseteq Node
  BY <1>3 DEF Emitted
<1>5. \A m : Known(m)' = Known(m)
  BY <1>1 DEF Known
<1>6. n \notin Emitted /\ Known(n) \subseteq Emitted
  BY <1>1 DEF IInv, Sorted, Sorting
<1>7. \A m \in Node : m \in Dependents(n) <=> n \in Known(m)
  BY DEF Dependents, Known
<1>8. \A m \in Node : m \in Emitted => Known(m) \subseteq Emitted
  <2>1. \A i \in 1 .. Len(order) : \A d \in Known(order[i]) : \E k \in 1 .. i - 1 : order[k] = d
    BY <1>1 DEF IInv, Sorted, Sorting
  <2> SUFFICES ASSUME NEW i \in 1 .. Len(order), NEW d \in Known(order[i]) PROVE d \in Emitted
    BY DEF Emitted
  <2>2. PICK k \in 1 .. i - 1 : order[k] = d
    BY <2>1
  <2>3. k \in 1 .. Len(order)
    BY <1>3
  <2> QED  BY <2>2, <2>3 DEF Emitted
<1>9. ASSUME NEW m \in Node
      PROVE  /\ remaining'[m] = Cardinality(Known(m) \ Emitted')
             /\ remaining'[m] \in Nat
             /\ m \in ready' <=> m \notin Emitted' /\ Known(m) \subseteq Emitted'
  <2>1. /\ remaining[m] = Cardinality(Known(m) \ Emitted)
        /\ m \in ready <=> m \notin Emitted /\ Known(m) \subseteq Emitted
    BY <1>1 DEF IInv, Sorted, Sorting
  <2>2. IsFiniteSet(Known(m) \ Emitted) /\ IsFiniteSet(Known(m) \ Emitted')
        /\ Cardinality(Known(m) \ Emitted') \in Nat
    <3>1. Known(m) \ Emitted \subseteq Node /\ Known(m) \ Emitted' \subseteq Node
      BY DEF Known
    <3> QED  BY <3>1, FiniteParts
  <2>3. CASE n \in Known(m)
    <3>1. m \in Dependents(n) /\ remaining'[m] = remaining[m] - 1
      BY <1>1, <1>7, <2>3
    <3>2. Known(m) \ Emitted' = (Known(m) \ Emitted) \ {n} /\ n \in Known(m) \ Emitted
      BY <1>4, <1>6, <2>3
    <3>3. Cardinality(Known(m) \ Emitted') = Cardinality(Known(m) \ Emitted) - 1
      BY <2>2, <3>2, FS_RemoveElement
    <3>4. remaining'[m] = 0 <=> Known(m) \subseteq Emitted'
      <4>1. Cardinality(Known(m) \ Emitted') = 0 <=> Known(m) \ Emitted' = {}
        BY <2>2, FS_EmptySet
      <4> QED  BY <2>1, <3>1, <3>3, <4>1
    <3>5. m \notin Emitted /\ m # n
      BY <1>6, <1>8, <2>3
    <3>6. m \notin ready
      BY <1>6, <2>1, <2>3
    <3> QED  BY <1>1, <1>4, <2>1, <2>2, <3>1, <3>3, <3>4, <3>5, <3>6
  <2>4. CASE n \notin Known(m)
    <3>1. m \notin Dependents(n) /\ remaining'[m] = remaining[m]
      BY <1>1, <1>7, <2>4
    <3>2. Known(m) \ Emitted' = Known(m) \ Emitted
      BY <1>4, <2>4
    <3>3. m \in ready' <=> m \in ready /\ m # n
      BY <1>1, <3>1
    <3> QED  BY <1>4, <2>1, <2>2, <3>1, <3>2, <3>3
  <2> QED  BY <2>3, <2>4
<1>10. TypeOK'
  <2>1. remaining' \in [Node -> Nat]
    BY <1>1, <1>9
  <2>2. ready' \in SUBSET Node
    BY <1>1 DEF IInv, TypeOK, Dependents
  <2> QED  BY <1>1, <1>3, <2>1, <2>2 DEF IInv, TypeOK, visitVars, waveVars
<1>11. Sorted'
  <2>1. \A m \in Node : \A d \in Known(m)' : rank'[d] < rank'[m]
    BY <1>1, <1>5 DEF IInv, Sorted, Sorting, visitVars
  <2>2. \A i, j \in 1 .. Len(order') : order'[i] = order'[j] => i = j
    <3>1. \A i \in 1 .. Len(order) : order[i] # n
      BY <1>6 DEF Emitted
    <3>2. \A i, j \in 1 .. Len(order) : order[i] = order[j] => i = j
      BY <1>1 DEF IInv, Sorted, Sorting
    <3> QED  BY <1>3, <3>1, <3>2
  <2>3. ASSUME NEW i \in 1 .. Len(order'), NEW d \in Known(order'[i])
        PROVE  \E k \in 1 .. i - 1 : order'[k] = d
    <3>1. CASE i = Len(order) + 1
      <4>1. PICK k \in 1 .. Len(order) : order[k] = d
        BY <1>3, <1>6, <2>3, <3>1 DEF Emitted
      <4> QED  BY <1>3, <3>1, <4>1
    <3>2. CASE i \in 1 .. Len(order)
      <4>1. PICK k \in 1 .. i - 1 : order[k] = d
        BY <1>1, <1>3, <2>3, <3>2 DEF IInv, Sorted, Sorting
      <4> QED  BY <1>3, <3>2, <4>1
    <3> QED  BY <1>3, <3>1, <3>2
  <2> QED  BY <1>1, <1>5, <1>9, <2>1, <2>2, <2>3 DEF Sorted
<1>12. Scheduled'
  <2>1. Placed = {} /\ next = 0
    BY <1>1 DEF IInv, Scheduled
  <2>2. Placed' = {} /\ next' = 0 /\ phase' = "sort"
    BY <1>1, <2>1 DEF waveVars, Placed
  <2> QED  BY <1>3, <2>2 DEF Scheduled
<1> QED  BY <1>2, <1>10, <1>11, <1>12 DEF IInv

LEMMA EmittedTasks == TypeOK => Emitted \subseteq Node /\ Len(order) \in Nat
<1> SUFFICES ASSUME TypeOK PROVE Emitted \subseteq Node /\ Len(order) \in Nat
  OBVIOUS
<1>1. order \in Seq(Node)
  BY DEF TypeOK
<1>2. Len(order) \in Nat /\ \A i \in 1 .. Len(order) : order[i] \in Node
  BY <1>1
<1> QED  BY <1>2 DEF Emitted

(* When the queue is empty every task is out: otherwise the one left that   *)
(* ended first in the search has all its dependencies out, and is queued.   *)
LEMMA NothingLeftOut ==
  ASSUME IInv, phase = "sort", ready = {}
  PROVE  Emitted = Node
<1> SUFFICES ASSUME Node \ Emitted # {} PROVE FALSE
  BY EmittedTasks DEF IInv
<1>1. PICK m \in Node \ Emitted : \A k \in Node \ Emitted : ~(rank[k] < rank[m])
  BY FirstToEnd DEF IInv
<1>2. Known(m) \subseteq Emitted
  BY <1>1 DEF IInv, Sorted, Sorting, Known
<1> QED  BY <1>1, <1>2 DEF IInv, Sorted, Sorting

(* What is said about the order does not depend on the placing.             *)
LEMMA SortedKept ==
  ASSUME IInv, Sorting, UNCHANGED <<deps, visitVars, sortVars>>,
         phase' # "sort" => Emitted = Node
  PROVE  Sorted'
<1>1. Emitted' = Emitted
  BY DEF Emitted, sortVars
<1>2. \A m : Known(m)' = Known(m)
  BY DEF Known
<1>3. rank' = rank /\ order' = order /\ remaining' = remaining /\ ready' = ready
  BY DEF visitVars, sortVars
<1>4. /\ \A n \in Node : \A d \in Known(n) : rank[d] < rank[n]
      /\ \A i, j \in 1 .. Len(order) : order[i] = order[j] => i = j
      /\ \A i \in 1 .. Len(order) : \A d \in Known(order[i]) : \E k \in 1 .. i - 1 : order[k] = d
      /\ \A n \in Node : remaining[n] = Cardinality(Known(n) \ Emitted)
      /\ \A n \in Node : n \in ready <=> n \notin Emitted /\ Known(n) \subseteq Emitted
  BY DEF IInv, Sorted
<1>5. /\ \A n \in Node : \A d \in Known(n)' : rank'[d] < rank'[n]
      /\ \A i, j \in 1 .. Len(order') : order'[i] = order'[j] => i = j
      /\ \A n \in Node : remaining'[n] = Cardinality(Known(n)' \ Emitted')
      /\ \A n \in Node : n \in ready' <=> n \notin Emitted' /\ Known(n)' \subseteq Emitted'
  BY <1>1, <1>2, <1>3, <1>4
<1>6. \A i \in 1 .. Len(order') : \A d \in Known(order[i])' : \E k \in 1 .. i - 1 : order'[k] = d
  <2> SUFFICES ASSUME NEW i \in 1 .. Len(order'), NEW d \in Known(order[i])'
               PROVE  \E k \in 1 .. i - 1 : order'[k] = d
    OBVIOUS
  <2>1. d \in Known(order[i]) /\ i \in 1 .. Len(order)
    BY <1>3 DEF Known
  <2>2. \E k \in 1 .. i - 1 : order[k] = d
    BY <1>4, <2>1
  <2> QED  BY <1>3, <2>2
<1> QED  BY <1>1, <1>5, <1>6 DEF Sorted

LEMMA StartPlacingStep ==
  ASSUME IInv, StartPlacing
  PROVE  IInv'
<1>1. /\ phase = "sort" /\ ready = {} /\ phase' = "place" /\ scope' \in [Node -> Scopes]
      /\ UNCHANGED <<deps, visitVars, sortVars, next, placed>>
  BY DEF StartPlacing
<1>2. Emitted = Node
  BY <1>1, NothingLeftOut
<1>3. TypeOK'
  BY <1>1, PlannerAssumption DEF IInv, TypeOK, visitVars, sortVars
<1>4. Search'
  BY <1>1 DEF IInv, Search, visitVars, Known
<1>5. Sorted'
  BY <1>1, <1>2, SortedKept DEF Sorting
<1>6. Scheduled'
  <2>1. Placed = {} /\ next = 0 /\ Len(order) \in Nat
    BY <1>1, EmittedTasks DEF IInv, Scheduled
  <2>2. Placed' = {} /\ next' = 0 /\ Len(order') \in Nat
    BY <1>1, <2>1 DEF sortVars, Placed
  <2> QED  BY <1>1, <2>2 DEF Scheduled
<1> QED  BY <1>3, <1>4, <1>5, <1>6 DEF IInv

LEMMA PlaceStep ==
  ASSUME IInv, NEW n \in Node, Place(n)
  PROVE  IInv'
<1>1. /\ phase = "place" /\ next < Len(order) /\ n = order[next + 1] /\ next' = next + 1
      /\ UNCHANGED <<phase, deps, visitVars, sortVars, scope>>
  BY DEF Place
<1>2. PICK w \in 0 .. Cardinality(Node) : /\ AfterDeps(n, w) /\ Fits(n, w)
                                         /\ placed' = [placed EXCEPT ![n] = w]
  BY DEF Place
<1>3. w \in Nat /\ w # Nowhere
  BY FiniteParts DEF Nowhere
<1>4. \A m \in Node : placed'[m] = IF m = n THEN w ELSE placed[m]
  BY <1>2 DEF IInv, TypeOK
<1>5. next \in Nat /\ Len(order) \in Nat /\ next + 1 \in 1 .. Len(order)
  BY <1>1, EmittedTasks DEF IInv, TypeOK
<1>6. TypeOK'
  BY <1>1, <1>2, <1>3 DEF IInv, TypeOK, visitVars, sortVars
<1>7. Search'
  BY <1>1 DEF IInv, Search, visitVars, Known
<1>8. Sorted'
  <2>1. Emitted = Node
    BY <1>1 DEF IInv, Sorted, Sorting
  <2> QED  BY <1>1, <2>1, SortedKept DEF Sorting
<1>9. n \notin Placed
  <2>1. \A i \in 1 .. next : order[i] # n
    BY <1>1, <1>5 DEF IInv, Sorted, Sorting
  <2> QED  BY <2>1 DEF IInv, Scheduled
<1>10. Placed' = Placed \cup {n}
  BY <1>3, <1>4 DEF Placed
<1>11. \A d \in Known(n) : d \in Placed /\ placed[d] < w
  <2> SUFFICES ASSUME NEW d \in Known(n) PROVE d \in Placed /\ placed[d] < w
    OBVIOUS
  <2>1. PICK k \in 1 .. next + 1 - 1 : order[k] = d
    BY <1>1, <1>5 DEF IInv, Sorted, Sorting
  <2>2. d \in Placed
    BY <1>5, <2>1 DEF IInv, Scheduled
  <2>3. placed[d] \in Nat
    BY <2>2 DEF Placed, IInv, TypeOK
  <2> QED  BY <1>2, <1>3, <2>2, <2>3 DEF AfterDeps
<1>12. \A v : /\ v # w => Wave(v)' = Wave(v) \/ v = Nowhere
              /\ v = w => Wave(v)' = Wave(v) \cup {n}
  BY <1>3, <1>4, <1>9 DEF Wave, Placed
<1>13. Cardinality(Wave(w)') <= MaxParallelism
  <2>1. IsFiniteSet(Wave(w)) /\ Cardinality(Wave(w)) \in Nat /\ n \notin Wave(w)
    BY <1>3, <1>9, FiniteParts DEF Wave, Placed
  <2>2. Cardinality(Wave(w) \cup {n}) = Cardinality(Wave(w)) + 1
    BY <2>1, FS_AddElement
  <2>3. Wave(w)' = Wave(w) \cup {n}
    BY <1>12
  <2>4. Cardinality(Wave(w)) < MaxParallelism
    BY <1>2 DEF Fits
  <2> QED  BY <2>1, <2>2, <2>3, <2>4, PlannerAssumption
<1>14. \A m \in Placed : placed[m] = w => ~ScopesOverlap(scope[n], scope[m])
                                         /\ ~ScopesOverlap(scope[m], scope[n])
  BY <1>2, OverlapSymmetric DEF Fits, Wave, Placed
<1>15. \A m \in Placed' :
         /\ \A d \in Known(m)' : d \in Placed' /\ placed'[d] < placed'[m]
         /\ Cardinality(Wave(placed[m])') <= MaxParallelism
         /\ \A k \in Placed' : k # m /\ placed'[k] = placed'[m] => ~ScopesOverlap(scope'[m], scope'[k])
  <2> SUFFICES ASSUME NEW m \in Placed'
               PROVE  /\ \A d \in Known(m) : d \in Placed' /\ placed'[d] < placed'[m]
                      /\ Cardinality(Wave(placed[m])') <= MaxParallelism
                      /\ \A k \in Placed' : k # m /\ placed'[k] = placed'[m]
                                            => ~ScopesOverlap(scope[m], scope[k])
    BY <1>1 DEF Known
  <2>0. \A k \in Placed : k \in Node /\ k # n /\ placed'[k] = placed[k]
    BY <1>4, <1>9 DEF Placed
  <2>1. CASE m = n
    <3>1. placed'[n] = w /\ \A d \in Known(n) : d \in Placed' /\ placed'[d] < w
      BY <1>4, <1>10, <1>11, <2>0
    <3>2. Wave(placed[m])' = Wave(w)'
      BY <2>1, <3>1 DEF Wave
    <3>3. \A k \in Placed' : k # m => k \in Placed /\ placed'[k] = placed[k]
      BY <1>10, <2>0, <2>1
    <3> QED  BY <1>13, <1>14, <2>1, <3>1, <3>2, <3>3
  <2>2. CASE m # n
    <3>1. m \in Placed /\ placed'[m] = placed[m]
      BY <1>10, <2>0, <2>2
    <3>2. /\ \A d \in Known(m) : d \in Placed /\ placed[d] < placed[m]
          /\ Cardinality(Wave(placed[m])) <= MaxParallelism
          /\ \A k \in Placed : k # m /\ placed[k] = placed[m] => ~ScopesOverlap(scope[m], scope[k])
      BY <3>1 DEF IInv, Scheduled
    <3>3. Cardinality(Wave(placed[m])') <= MaxParallelism
      <4>1. Wave(placed[m])' = {k \in Node : placed'[k] = placed[m]}
        BY <3>1 DEF Wave
      <4>2. CASE placed[m] = w
        <5>1. Wave(placed[m])' = Wave(w)'
          BY <4>1, <4>2 DEF Wave
        <5> QED  BY <1>13, <5>1
      <4>3. CASE placed[m] # w
        <5>1. Wave(placed[m])' = Wave(placed[m])
          BY <1>4, <1>9, <3>1, <4>1, <4>3 DEF Wave, Placed
        <5> QED  BY <3>2, <5>1
      <4> QED  BY <4>2, <4>3
    <3>4. \A d \in Known(m) : d \in Placed' /\ placed'[d] < placed'[m]
      BY <1>10, <2>0, <3>1, <3>2
    <3>5. placed'[n] = placed'[m] => ~ScopesOverlap(scope[m], scope[n])
      BY <1>4, <1>14, <3>1
    <3> QED  BY <1>10, <2>0, <3>1, <3>2, <3>3, <3>4, <3>5
  <2> QED  BY <2>1, <2>2
<1>16. Placed' = {order'[i] : i \in 1 .. next'}
  <2>1. Placed = {order[i] : i \in 1 .. next}
    BY DEF IInv, Scheduled
  <2>2. order' = order
    BY <1>1 DEF sortVars
  <2> QED  BY <1>1, <1>5, <1>10, <2>1, <2>2
<1>17. next' <= Len(order')
  BY <1>1, <1>5 DEF sortVars
<1> QED
  <2>1. Scheduled'
    BY <1>1, <1>15, <1>16, <1>17 DEF Scheduled
  <2> QED  BY <1>6, <1>7, <1>8, <2>1 DEF IInv

LEMMA ScheduledKept ==
  ASSUME IInv, UNCHANGED <<deps, order, waveVars>>,
         phase' = phase \/ (phase = "place" /\ phase' = "done" /\ next = Len(order))
  PROVE  Scheduled'
<1>1. next' = next /\ scope' = scope /\ placed' = placed /\ order' = order
  BY DEF waveVars
<1>2. Placed' = Placed
  BY <1>1 DEF Placed
<1>3. \A m \in Node : Known(m)' = Known(m) /\ Wave(placed[m])' = Wave(placed[m])
  BY <1>1 DEF Known, Wave
<1>4. \A m \in Placed : m \in Node
  BY DEF Placed
<1>5. \A n \in Placed' :
         /\ \A d \in Known(n)' : d \in Placed' /\ placed'[d] < placed'[n]
         /\ Cardinality(Wave(placed[n])') <= MaxParallelism
         /\ \A m \in Placed' : m # n /\ placed'[m] = placed'[n] => ~ScopesOverlap(scope'[n], scope'[m])
  BY <1>1, <1>2, <1>3, <1>4 DEF IInv, Scheduled
<1>6. /\ phase' \notin {"place", "done"} => Placed' = {} /\ next' = 0
      /\ phase' = "detect" => order' = <<>>
      /\ phase' = "done" => next' = Len(order')
      /\ next' <= Len(order')
      /\ Placed' = {order'[i] : i \in 1 .. next'}
  BY <1>1, <1>2 DEF IInv, Scheduled
<1> QED  BY <1>5, <1>6 DEF Scheduled

LEMMA FinishStep ==
  ASSUME IInv, Finish
  PROVE  IInv'
<1>1. /\ phase = "place" /\ next = Len(order) /\ phase' = "done"
      /\ UNCHANGED <<deps, visitVars, sortVars, waveVars>>
  BY DEF Finish
<1>2. TypeOK' /\ Search'
  BY <1>1 DEF IInv, TypeOK, Search, visitVars, sortVars, waveVars, Known
<1>3. Sorted'
  <2>1. Emitted = Node
    BY <1>1 DEF IInv, Sorted, Sorting
  <2> QED  BY <1>1, <2>1, SortedKept DEF Sorting
<1>4. Scheduled'
  BY <1>1, ScheduledKept DEF sortVars
<1> QED  BY <1>2, <1>3, <1>4 DEF IInv

-----------------------------------------------------------------------------
(* The invariant is inductive, for every finite set of tasks and every      *)
(* graph over them.                                                         *)
THEOREM Inductive == Spec => []IInv
<1>1. ASSUME IInv, [Next]_vars PROVE IInv'
  <2>1. CASE UNCHANGED vars
    <3>1. TypeOK' /\ Search'
      <4>1. TypeOK /\ Search
        BY <1>1 DEF IInv
      <4>2. TypeOK'
        BY <2>1, <4>1 DEF vars, TypeOK
      <4>3. UNCHANGED <<deps, color, stack, inCycle, finished, rank>>
        BY <2>1 DEF vars
      <4>4. Search'
        BY <4>1, <4>3 DEF Search, Known
      <4> QED  BY <4>2, <4>4
    <3>2. Scheduled'
      <4>1. UNCHANGED <<deps, order, waveVars>> /\ phase' = phase
        BY <2>1 DEF vars, waveVars
      <4> QED  BY <1>1, <4>1, ScheduledKept
    <3>3. CASE Sorting
      <4>1. phase' # "sort" => Emitted = Node
        BY <1>1, <2>1, <3>3 DEF vars, IInv, Sorted
      <4> QED  BY <1>1, <2>1, <3>1, <3>2, <3>3, <4>1, SortedKept DEF vars, visitVars, sortVars, IInv
    <3>4. CASE ~Sorting
      BY <2>1, <3>1, <3>2, <3>4 DEF vars, Sorted, Sorting, IInv
    <3> QED  BY <3>3, <3>4
  <2>2. ASSUME NEW n \in Node, StartVisit(n) PROVE IInv'
    BY <1>1, <2>2, StartVisitStep
  <2>3. ASSUME NEW id \in Node \cup {Unknown}, Look(id) PROVE IInv'
    BY <1>1, <2>3, LookStep
  <2>4. CASE EndVisit
    BY <1>1, <2>4, EndVisitStep
  <2>5. CASE StartSort
    BY <1>1, <2>5, StartSortStep
  <2>6. ASSUME NEW n \in Node, Emit(n) PROVE IInv'
    BY <1>1, <2>6, EmitStep
  <2>7. CASE StartPlacing
    BY <1>1, <2>7, StartPlacingStep
  <2>8. ASSUME NEW n \in Node, Place(n) PROVE IInv'
    BY <1>1, <2>8, PlaceStep
  <2>9. CASE Finish
    BY <1>1, <2>9, FinishStep
  <2> QED  BY <1>1, <2>1, <2>2, <2>3, <2>4, <2>5, <2>6, <2>7, <2>8, <2>9 DEF Next, Ended
<1> QED  BY <1>1, InitInv, PTL DEF Spec

(* Every state of the planner's algorithms has its type.                    *)
THEOREM Typing == Spec => []TypeOK
  BY Inductive, PTL DEF IInv

(* topoOrder: once the search has found no cycle, every task is ordered     *)
(* once, after its dependencies, and none is left out.                      *)
THEOREM TopologicalOrder == Spec => []OrderIsTopological
<1>1. IInv => OrderIsTopological
  <2> SUFFICES ASSUME IInv, Sorting
               PROVE  /\ \A i \in DOMAIN order :
                           /\ \A d \in Known(order[i]) : \E k \in 1 .. i - 1 : order[k] = d
                           /\ \A k \in DOMAIN order : order[k] = order[i] => k = i
                      /\ phase # "sort" => \A n \in Node : \E i \in DOMAIN order : order[i] = n
    BY DEF OrderIsTopological, Sorting
  <2>1. DOMAIN order = 1 .. Len(order)
    BY DEF IInv, TypeOK
  <2>2. phase # "sort" => Emitted = Node
    BY DEF IInv, Sorted
  <2>3. phase # "sort" => \A n \in Node : \E i \in DOMAIN order : order[i] = n
    BY <2>1, <2>2 DEF Emitted
  <2> QED  BY <2>1, <2>3 DEF IInv, Sorted
<1> QED  BY <1>1, Inductive, PTL

(* computeSchedule: tasks run after their dependencies, no more than the    *)
(* limit together, and tasks of one wave have scopes that do not overlap;   *)
(* every task is in a wave when it is done.                                 *)
THEOREM SafeWaves == Spec => []WavesAreSafe
<1>1. IInv => WavesAreSafe
  <2> SUFFICES ASSUME IInv, phase = "done" PROVE Placed = Node
    BY DEF IInv, Scheduled, WavesAreSafe
  <2>1. Emitted = Node
    BY DEF IInv, Sorted, Sorting
  <2> QED  BY <2>1 DEF IInv, Scheduled, Emitted
<1> QED  BY <1>1, Inductive, PTL

-----------------------------------------------------------------------------
(* The verdict on cycles. The stack is a path of the graph, so when the     *)
(* search meets a task that is on the stack, everything from it to the top  *)
(* is on a cycle; and where tasks end after what they depend on, no cycle   *)
(* is possible.                                                             *)
IsPath ==
    /\ \A i \in 1 .. Len(stack) : stack[i].left \subseteq deps[stack[i].node]
    /\ \A i \in 1 .. Len(stack) - 1 : stack[i + 1].node \in Known(stack[i].node)

Verdict ==
    /\ IsPath
    /\ inCycle \subseteq OnCycle
    /\ phase = "cyclic" => inCycle # {}

Closed(S) == \A k \in S : Known(k) \subseteq S

LEMMA LeastNumber ==
  ASSUME NEW T, T \subseteq Nat, T # {}
  PROVE  \E x \in T : \A y \in T : x <= y
<1>1. PICK x \in T : \A y \in T : ~(<<y, x>> \in OpToRel(<, Nat))
  BY NatLessThanWellFounded, WFMin
<1>2. \A y \in T : ~(y < x)
  BY <1>1 DEF OpToRel
<1> QED  BY <1>2

(* A closed set that has a task of the path has the rest of the path.       *)
LEMMA ClosedAlong ==
  ASSUME TypeOK, IsPath, NEW S \in SUBSET Node, Closed(S),
         NEW a \in 1 .. Len(stack), stack[a].node \in S
  PROVE  \A k \in a .. Len(stack) : stack[k].node \in S
<1> DEFINE T == {k \in a .. Len(stack) : stack[k].node \notin S}
<1>0. Len(stack) \in Nat
  BY StackFacts
<1>1. T \subseteq Nat
  BY <1>0
<1>2. ASSUME T # {} PROVE FALSE
  <2>1. \E x \in T : \A y \in T : x <= y
    <3> HIDE DEF T
    <3> QED  BY <1>1, <1>2, LeastNumber
  <2>2. PICK k \in T : \A y \in T : k <= y
    BY <2>1
  <2>3. k \in a + 1 .. Len(stack)
    BY <1>0, <2>2
  <2>4. k - 1 \in a .. Len(stack) /\ k - 1 \notin T
    BY <1>0, <2>2, <2>3
  <2>5. stack[k - 1].node \in S
    BY <2>4
  <2>6. k - 1 \in 1 .. Len(stack) - 1 /\ (k - 1) + 1 = k
    BY <1>0, <2>3
  <2>7. stack[k].node \in Known(stack[k - 1].node)
    BY <2>6 DEF IsPath
  <2> QED  BY <2>2, <2>5, <2>7 DEF Closed
<1> QED  BY <1>2

(* A task on the stack that the top depends on closes a cycle.              *)
LEMMA BackEdge ==
  ASSUME TypeOK, IsPath, stack # <<>>, NEW id \in Known(Top.node)
  PROVE  FromOnStack(id) \subseteq OnCycle
<1>1. Depth \in Nat /\ Depth = Len(stack) /\ Depth > 0 /\ Top = stack[Depth]
  BY StackFacts DEF Top
<1> SUFFICES ASSUME NEW i \in 1 .. Depth, NEW s \in 1 .. i, stack[s].node = id
             PROVE  stack[i].node \in OnCycle
  BY DEF FromOnStack
<1> DEFINE x == stack[i].node
<1>2. x \in Node
  BY StackFacts
<1>3. ASSUME NEW S \in SUBSET Node, Known(x) \subseteq S, Closed(S) PROVE x \in S
  <2>1. Known(Top.node) \subseteq S
    <3>1. CASE i = Depth
      BY <1>1, <1>3, <3>1
    <3>2. CASE i < Depth
      <4>1. i \in 1 .. Len(stack) - 1 /\ i + 1 \in 1 .. Len(stack) /\ Depth \in i + 1 .. Len(stack)
        BY <1>1, <3>2
      <4>2. stack[i + 1].node \in S
        BY <1>3, <4>1 DEF IsPath
      <4>3. stack[Depth].node \in S
        BY <1>3, <4>1, <4>2, ClosedAlong
      <4> QED  BY <1>1, <1>3, <4>3 DEF Closed
    <3> QED  BY <1>1, <3>1, <3>2
  <2>2. stack[s].node \in S
    BY <2>1
  <2>3. s \in 1 .. Len(stack) /\ i \in s .. Len(stack)
    BY <1>1
  <2> QED  BY <1>3, <2>2, <2>3, ClosedAlong
<1>4. x \in Reach(x)
  BY <1>2, <1>3 DEF Reach, Closed
<1> QED  BY <1>2, <1>4 DEF OnCycle

LEMMA OnCycleKept ==
  ASSUME deps' = deps
  PROVE  OnCycle' = OnCycle /\ \A n : Known(n)' = Known(n)
BY DEF OnCycle, Reach, Known

(* Steps that leave the search alone, but for the sorting that it starts.   *)
LEMMA VerdictKept ==
  ASSUME Verdict, UNCHANGED <<deps, stack, inCycle>>, phase' = "cyclic" => inCycle # {}
  PROVE  Verdict'
BY OnCycleKept DEF Verdict, IsPath

LEMMA StartVisitVerdict ==
  ASSUME TypeOK, Verdict, NEW n \in Node, StartVisit(n)
  PROVE  Verdict'
<1>1. /\ stack' = <<Open(n)>> /\ inCycle' = inCycle /\ deps' = deps /\ phase' = "detect"
  BY DEF StartVisit
<1>2. Len(stack') = 1 /\ stack'[1].node = n /\ stack'[1].left = deps[n]
  BY <1>1 DEF Open
<1>3. \A i \in 1 .. 1 : i = 1
  OBVIOUS
<1>4. IsPath'
  BY <1>1, <1>2, <1>3 DEF IsPath
<1> QED  BY <1>1, <1>4, OnCycleKept DEF Verdict

LEMMA LookVerdict ==
  ASSUME TypeOK, Verdict, NEW id \in Node \cup {Unknown}, Look(id)
  PROVE  Verdict'
<1> DEFINE rest == [stack EXCEPT ![Depth] = [node |-> Top.node, left |-> Top.left \ {id}]]
<1>1. /\ phase = "detect" /\ stack # <<>> /\ id \in Top.left
      /\ phase' = phase /\ deps' = deps
      /\ IF id \in Node /\ color[id] = "white"
         THEN stack' = Append(rest, Open(id)) /\ inCycle' = inCycle
         ELSE /\ stack' = rest
              /\ inCycle' = IF id \in Node /\ color[id] = "gray"
                            THEN inCycle \cup FromOnStack(id) ELSE inCycle
  BY DEF Look
<1>2. /\ Depth \in Nat /\ Depth > 0 /\ Depth = Len(stack)
      /\ Top = stack[Depth] /\ Top.node \in Node /\ Top.left \in SUBSET (Node \cup {Unknown})
  BY <1>1, StackFacts DEF Top
<1>3. /\ rest \in Seq([node : Node, left : SUBSET (Node \cup {Unknown})])
      /\ Len(rest) = Depth
      /\ \A i \in 1 .. Depth : rest[i].node = stack[i].node
      /\ \A i \in 1 .. Depth - 1 : rest[i].left = stack[i].left
      /\ rest[Depth].left = stack[Depth].left \ {id}
  BY <1>2 DEF TypeOK
<1> HIDE DEF rest
<1>4. \A i \in 1 .. Depth : rest[i].left \subseteq deps[rest[i].node]
  <2>1. \A i \in 1 .. Depth : i \in 1 .. Depth - 1 \/ i = Depth
    BY <1>2
  <2> QED  BY <1>2, <1>3, <2>1 DEF Verdict, IsPath
<1>5. \A i \in 1 .. Depth - 1 : rest[i + 1].node \in Known(rest[i].node)
  <2>1. \A i \in 1 .. Depth - 1 : i \in 1 .. Depth /\ i + 1 \in 1 .. Depth
    BY <1>2
  <2> QED  BY <1>2, <1>3, <2>1 DEF Verdict, IsPath
<1>6. id \in deps[Top.node]
  BY <1>1, <1>2 DEF Verdict, IsPath
<1>a. CASE id \in Node /\ color[id] = "white"
  <2>1. stack' = Append(rest, Open(id)) /\ inCycle' = inCycle
    BY <1>1, <1>a
  <2>2. Open(id) \in [node : Node, left : SUBSET (Node \cup {Unknown})]
        /\ Open(id).node = id /\ Open(id).left = deps[id]
    BY <1>a DEF TypeOK, Open
  <2>3. /\ Len(stack') = Depth + 1
        /\ \A i \in 1 .. Depth : stack'[i] = rest[i]
        /\ stack'[Depth + 1] = Open(id)
    BY <1>2, <1>3, <2>1, <2>2
  <2>4. \A i \in 1 .. Len(stack') : stack'[i].left \subseteq deps[stack'[i].node]
    <3>1. \A i \in 1 .. Depth + 1 : i \in 1 .. Depth \/ i = Depth + 1
      BY <1>2
    <3> QED  BY <1>4, <2>2, <2>3, <3>1
  <2>5. \A i \in 1 .. Len(stack') - 1 : stack'[i + 1].node \in Known(stack'[i].node)
    <3> SUFFICES ASSUME NEW i \in 1 .. Depth
                 PROVE  stack'[i + 1].node \in Known(stack'[i].node)
      BY <1>2, <2>3
    <3>1. CASE i = Depth
      BY <1>2, <1>3, <1>6, <1>a, <2>2, <2>3, <3>1 DEF Known
    <3>2. CASE i \in 1 .. Depth - 1
      <4>1. i + 1 \in 1 .. Depth
        BY <1>2, <3>2
      <4> QED  BY <1>5, <2>3, <3>2, <4>1
    <3> QED  BY <1>2, <3>1, <3>2
  <2>6. IsPath'
    BY <1>1, <2>4, <2>5, OnCycleKept DEF IsPath
  <2> QED  BY <1>1, <2>1, <2>6, OnCycleKept DEF Verdict
<1>b. CASE ~(id \in Node /\ color[id] = "white")
  <2>1. /\ stack' = rest
        /\ inCycle' = IF id \in Node /\ color[id] = "gray"
                      THEN inCycle \cup FromOnStack(id) ELSE inCycle
    BY <1>1, <1>b
  <2>2. IsPath'
    BY <1>1, <1>3, <1>4, <1>5, <2>1, OnCycleKept DEF IsPath
  <2>3. id \in Node => FromOnStack(id) \subseteq OnCycle
    BY <1>1, <1>6, BackEdge DEF Verdict, Known
  <2>4. inCycle' \subseteq OnCycle
    BY <2>1, <2>3 DEF Verdict
  <2> QED  BY <1>1, <2>2, <2>4, OnCycleKept DEF Verdict
<1> QED  BY <1>a, <1>b

LEMMA EndVisitVerdict ==
  ASSUME TypeOK, Verdict, EndVisit
  PROVE  Verdict'
<1>1. /\ stack # <<>> /\ stack' = SubSeq(stack, 1, Depth - 1)
      /\ inCycle' = inCycle /\ deps' = deps /\ phase' = "detect"
  BY DEF EndVisit
<1>2. Depth \in Nat /\ Depth > 0 /\ Depth = Len(stack)
  BY <1>1, StackFacts
<1>3. /\ Len(stack') = Depth - 1
      /\ \A i \in 1 .. Depth - 1 : stack'[i] = stack[i]
  BY <1>1, <1>2 DEF TypeOK
<1>4. \A i \in 1 .. Len(stack') : stack'[i].left \subseteq deps[stack'[i].node]
  BY <1>2, <1>3 DEF Verdict, IsPath
<1>5. \A i \in 1 .. Len(stack') - 1 : stack'[i + 1].node \in Known(stack'[i].node)
  <2>1. \A i \in 1 .. Depth - 2 : /\ i \in 1 .. Depth - 1 /\ i + 1 \in 1 .. Depth - 1
                                  /\ i \in 1 .. Len(stack) - 1
    BY <1>2
  <2>2. Len(stack') - 1 = Depth - 2
    BY <1>2, <1>3
  <2> QED  BY <1>3, <2>1, <2>2 DEF Verdict, IsPath
<1>6. IsPath'
  BY <1>1, <1>4, <1>5, OnCycleKept DEF IsPath
<1> QED  BY <1>1, <1>6, OnCycleKept DEF Verdict

LEMMA InitVerdict == Init => Verdict
<1> SUFFICES ASSUME Init PROVE Verdict
  OBVIOUS
<1>1. Len(stack) = 0 /\ inCycle = {} /\ phase = "detect"
  BY DEF Init
<1>2. IsPath
  <2>1. 1 .. 0 = {} /\ 1 .. 0 - 1 = {}
    OBVIOUS
  <2> QED  BY <1>1, <2>1 DEF IsPath
<1> QED  BY <1>1, <1>2 DEF Verdict

(* Where tasks end after what they depend on, what a task leads to has      *)
(* ended before it, so it is not among it.                                  *)
LEMMA RankedHasNoCycle ==
  ASSUME TypeOK, \A n \in Node : \A d \in Known(n) : rank[d] < rank[n]
  PROVE  OnCycle = {}
<1> SUFFICES ASSUME NEW n \in Node, n \in Reach(n) PROVE FALSE
  BY DEF OnCycle
<1> DEFINE S == {m \in Node : rank[m] < rank[n]}
<1>1. \A m \in Node : rank[m] \in Nat
  BY DEF TypeOK
<1>2. Known(n) \subseteq S
  BY DEF Known
<1>3. \A k \in S : Known(k) \subseteq S
  <2> SUFFICES ASSUME NEW k \in S, NEW d \in Known(k) PROVE d \in S
    OBVIOUS
  <2>1. d \in Node /\ rank[d] < rank[k] /\ rank[k] < rank[n]
    BY DEF Known
  <2> QED  BY <1>1, <2>1
<1>4. n \in S
  BY <1>2, <1>3 DEF Reach
<1> QED  BY <1>1, <1>4

(* detectCycles: every task it reports is on a cycle, and it reports none   *)
(* only when the graph has none, for every finite graph.                    *)
THEOREM CyclesAreFound == Spec => []CycleVerdict
<1>1. TypeOK /\ Verdict /\ [Next]_vars => Verdict'
  <2> SUFFICES ASSUME TypeOK, Verdict, [Next]_vars PROVE Verdict'
    OBVIOUS
  <2>1. CASE UNCHANGED vars
    BY <2>1, VerdictKept DEF vars, Verdict
  <2>2. ASSUME NEW n \in Node, StartVisit(n) PROVE Verdict'
    BY <2>2, StartVisitVerdict
  <2>3. ASSUME NEW id \in Node \cup {Unknown}, Look(id) PROVE Verdict'
    BY <2>3, LookVerdict
  <2>4. CASE EndVisit
    BY <2>4, EndVisitVerdict
  <2>5. CASE StartSort
    BY <2>5, VerdictKept DEF StartSort, visitVars
  <2>6. ASSUME NEW n \in Node, Emit(n) \/ Place(n) PROVE Verdict'
    BY <2>6, VerdictKept DEF Emit, Place, visitVars
  <2>7. CASE StartPlacing \/ Finish
    BY <2>7, VerdictKept DEF StartPlacing, Finish, visitVars
  <2> QED  BY <2>1, <2>2, <2>3, <2>4, <2>5, <2>6, <2>7 DEF Next, Ended
<1>2. IInv /\ Verdict => CycleVerdict
  <2> SUFFICES ASSUME IInv, Verdict, Sorting PROVE OnCycle = {}
    BY DEF Verdict, CycleVerdict, Sorting
  <2> QED  BY RankedHasNoCycle DEF IInv, Sorted
<1> QED  BY <1>1, <1>2, InitVerdict, Inductive, PTL DEF Spec, IInv

-----------------------------------------------------------------------------
(* The scopes. A glob begins with its literal prefix, and so does every     *)
(* file it matches: two globs with a file in common have prefixes of which  *)
(* one begins the other.                                                    *)

LEMMA AllUpTo ==
  ASSUME NEW n \in Nat, NEW S, 0 \in S, \A i \in 1 .. n : i - 1 \in S => i \in S
  PROVE  \A i \in 0 .. n : i \in S
<1> DEFINE Outside == {i \in 0 .. n : i \notin S}
<1> SUFFICES ASSUME Outside # {}  PROVE FALSE
  OBVIOUS
<1>1. PICK k \in Outside : \A j \in Outside : k <= j
  <2>1. Outside \subseteq Nat
    OBVIOUS
  <2> HIDE DEF Outside
  <2> QED  BY <2>1, LeastNumber
<1>2. k \in 1 .. n /\ k - 1 \in 0 .. n /\ k - 1 \notin Outside
  BY <1>1
<1> QED  BY <1>1, <1>2

LEMMA PathFacts ==
  ASSUME NEW S, NEW n, NEW p \in SeqUpTo(S, n)
  PROVE  /\ Len(p) \in Nat /\ DOMAIN p = 1 .. Len(p) /\ p \in Seq(S)
         /\ \A i \in 1 .. Len(p) : p[i] \in S
<1>1. PICK k \in 1 .. n : p \in [1 .. k -> S]
  BY DEF SeqUpTo
<1>2. p \in Seq(S) /\ Len(p) = k
  BY <1>1
<1> QED  BY <1>1, <1>2

(* What the rest of a glob matches rests on its later segments only.        *)
LEMMA RestOfLater ==
  ASSUME NEW glob, NEW file, Len(glob) \in Nat, Len(file) \in Nat,
         NEW i \in 1 .. Len(glob) + 1, NEW j \in 1 .. Len(file) + 1,
         NEW t, NEW u,
         \A a \in 1 .. Len(glob) + 1, b \in 1 .. Len(file) + 1 :
            a > i => t[<<a, b>>] = u[<<a, b>>]
  PROVE  RestMatches(t, glob, file, i, j) = RestMatches(u, glob, file, i, j)
<1>1. ASSUME i <= Len(glob), j <= Len(file)
      PROVE t[<<i + 1, j + 1>>] = u[<<i + 1, j + 1>>]
  BY <1>1
<1>2. ASSUME i < Len(glob), NEW k \in j .. Len(file)
      PROVE t[<<i + 1, k>>] = u[<<i + 1, k>>] /\ t[<<i + 2, k + 1>>] = u[<<i + 2, k + 1>>]
  <2>1. /\ i + 1 \in 1 .. Len(glob) + 1 /\ i + 2 \in 1 .. Len(glob) + 1
        /\ k \in 1 .. Len(file) + 1 /\ k + 1 \in 1 .. Len(file) + 1
        /\ i + 1 > i /\ i + 2 > i
    BY <1>2
  <2> QED  BY <2>1
<1> QED  BY <1>1, <1>2 DEF RestMatches

Positions(glob, file) == (1 .. Len(glob) + 1) \X (1 .. Len(file) + 1)

IsTable(t, glob, file) ==
  t = [at \in Positions(glob, file) |-> RestMatches(t, glob, file, at[1], at[2])]

(* The rows of the last m segments of a glob are filled in.                 *)
Filled(t, m, glob, file) ==
  /\ t = [at \in Positions(glob, file) |-> t[at]]
  /\ \A a \in 1 .. Len(glob) + 1, b \in 1 .. Len(file) + 1 :
        a > Len(glob) + 1 - m => t[<<a, b>>] = RestMatches(t, glob, file, a, b)

(* The recursion of the compiled glob has a solution.                       *)
LEMMA TablesExist ==
  ASSUME NEW glob, NEW file, Len(glob) \in Nat, Len(file) \in Nat
  PROVE  \E t : IsTable(t, glob, file)
<1> DEFINE G == Len(glob)
           P == Positions(glob, file)
           Reached == {m \in 0 .. G + 1 : \E t : Filled(t, m, glob, file)}
<1>1. 0 \in Reached
  <2> DEFINE t == [at \in P |-> TRUE]
  <2>1. t = [at \in P |-> t[at]]
    OBVIOUS
  <2>2. \A a \in 1 .. G + 1 : ~(a > G + 1 - 0)
    OBVIOUS
  <2> HIDE DEF t
  <2>3. Filled(t, 0, glob, file)
    BY <2>1, <2>2 DEF Filled
  <2> QED  BY <2>3
<1>2. ASSUME NEW m \in 1 .. G + 1, m - 1 \in Reached  PROVE m \in Reached
  <2>1. PICK t : Filled(t, m - 1, glob, file)
    BY <1>2
  <2> DEFINE r == G + 2 - m
             u == [at \in P |-> IF at[1] = r THEN RestMatches(t, glob, file, r, at[2]) ELSE t[at]]
  <2>2. r \in 1 .. G + 1 /\ r = G + 1 - (m - 1) /\ G + 1 - m = r - 1
    OBVIOUS
  <2>3. \A a \in 1 .. G + 1, b \in 1 .. Len(file) + 1 :
           u[<<a, b>>] = IF a = r THEN RestMatches(t, glob, file, r, b) ELSE t[<<a, b>>]
    BY DEF Positions
  <2>4. u = [at \in P |-> u[at]]
    OBVIOUS
  <2> HIDE DEF u, r
  <2>5. ASSUME NEW a \in 1 .. G + 1, NEW b \in 1 .. Len(file) + 1, a >= r
        PROVE  u[<<a, b>>] = RestMatches(u, glob, file, a, b)
    <3>1. \A x \in 1 .. G + 1, y \in 1 .. Len(file) + 1 : x > a => u[<<x, y>>] = t[<<x, y>>]
      BY <2>2, <2>3, <2>5
    <3>2. RestMatches(u, glob, file, a, b) = RestMatches(t, glob, file, a, b)
      BY <3>1, RestOfLater
    <3>3. CASE a = r
      BY <2>3, <3>2, <3>3
    <3>4. CASE a # r
      <4>1. a > G + 1 - (m - 1)
        BY <2>2, <2>5, <3>4
      <4>2. t[<<a, b>>] = RestMatches(t, glob, file, a, b)
        BY <2>1, <4>1 DEF Filled
      <4> QED  BY <2>3, <3>2, <3>4, <4>2
    <3> QED  BY <3>3, <3>4
  <2>6. Filled(u, m, glob, file)
    <3>1. \A a \in 1 .. G + 1 : a > G + 1 - m => a >= r
      BY <2>2
    <3>2. \A a \in 1 .. G + 1, b \in 1 .. Len(file) + 1 :
             a > G + 1 - m => u[<<a, b>>] = RestMatches(u, glob, file, a, b)
      BY <2>5, <3>1
    <3> QED  BY <2>4, <3>2 DEF Filled
  <2> QED  BY <2>6
<1>3. G + 1 \in Reached
  <2>1. G + 1 \in Nat /\ G + 1 \in 0 .. G + 1
    OBVIOUS
  <2> HIDE DEF Reached, G
  <2> QED  BY <1>1, <1>2, <2>1, AllUpTo
<1>4. PICK t : Filled(t, G + 1, glob, file)
  BY <1>3
<1>5. ASSUME NEW at \in P  PROVE t[at] = RestMatches(t, glob, file, at[1], at[2])
  <2>1. at[1] \in 1 .. G + 1 /\ at[2] \in 1 .. Len(file) + 1 /\ at = <<at[1], at[2]>>
    BY DEF Positions
  <2>2. at[1] > G + 1 - (G + 1)
    BY <2>1
  <2> QED  BY <1>4, <2>1, <2>2 DEF Filled
<1>6. t = [at \in P |-> RestMatches(t, glob, file, at[1], at[2])]
  <2>1. t = [at \in P |-> t[at]]
    BY <1>4 DEF Filled
  <2> QED  BY <1>5, <2>1
<1> QED  BY <1>6 DEF IsTable

LEMMA MatchesByTable ==
  ASSUME NEW glob, NEW file, Len(glob) \in Nat, Len(file) \in Nat
  PROVE  \E t : IsTable(t, glob, file) /\ (Matches(glob, file) <=> t[<<1, 1>>])
<1> DEFINE t == CHOOSE from : IsTable(from, glob, file)
<1>1. IsTable(t, glob, file)
  BY TablesExist
<1>2. Matches(glob, file) = t[<<1, 1>>]
  BY DEF Matches, IsTable, Positions
<1> HIDE DEF t
<1> QED  BY <1>1, <1>2

LEMMA PrefixFacts ==
  ASSUME NEW glob \in Seq(Segments)
  PROVE  /\ Len(LiteralPrefix(glob)) \in 0 .. Len(glob)
         /\ LiteralPrefix(glob) \in Seq(Segments)
         /\ \A i \in 1 .. Len(LiteralPrefix(glob)) :
               LiteralPrefix(glob)[i] = glob[i] /\ glob[i] \in Names
<1> DEFINE wild == {i \in DOMAIN glob : glob[i] \in Wild}
           first == CHOOSE i \in wild : \A k \in wild : i <= k
<1>1. /\ Len(glob) \in Nat /\ DOMAIN glob = 1 .. Len(glob) /\ glob \in Seq(Segments)
      /\ \A i \in 1 .. Len(glob) : glob[i] \in Segments
  OBVIOUS
<1>2. CASE wild = {}
  <2>1. LiteralPrefix(glob) = glob
    BY <1>2 DEF LiteralPrefix
  <2>2. \A i \in 1 .. Len(glob) : glob[i] \in Names
    BY <1>1, <1>2 DEF Segments
  <2> QED  BY <1>1, <2>1, <2>2
<1>3. CASE wild # {}
  <2>1. wild \subseteq Nat
    BY <1>1
  <2>2. \E x \in wild : \A k \in wild : x <= k
    <3> HIDE DEF wild
    <3> QED  BY <1>3, <2>1, LeastNumber
  <2>3. first \in wild /\ \A k \in wild : first <= k
    BY <2>2
  <2>4. LiteralPrefix(glob) = SubSeq(glob, 1, first - 1)
    BY <1>3 DEF LiteralPrefix
  <2>5. first \in 1 .. Len(glob)
    BY <1>1, <2>3
  <2> HIDE DEF first
  <2>6. \A i \in 1 .. first - 1 : i \in 1 .. Len(glob) /\ i \notin wild
    BY <1>1, <2>3, <2>5
  <2>7. \A i \in 1 .. first - 1 : glob[i] \in Names
    BY <1>1, <2>6 DEF Segments
  <2>8. /\ SubSeq(glob, 1, first - 1) \in Seq(Segments)
        /\ Len(SubSeq(glob, 1, first - 1)) = first - 1
        /\ \A i \in 1 .. first - 1 : SubSeq(glob, 1, first - 1)[i] = glob[i]
    BY <1>1, <2>5
  <2> QED  BY <1>1, <2>4, <2>5, <2>7, <2>8
<1> QED  BY <1>2, <1>3

(* A file that a glob matches begins with the glob's literal prefix.        *)
LEMMA MatchedBeginsWithPrefix ==
  ASSUME NEW glob \in Seq(Segments), NEW file \in Seq(Names), Matches(glob, file)
  PROVE  /\ Len(LiteralPrefix(glob)) <= Len(file)
         /\ \A i \in 1 .. Len(LiteralPrefix(glob)) : LiteralPrefix(glob)[i] = file[i]
<1> DEFINE n == Len(LiteralPrefix(glob))
<1>1. Len(glob) \in Nat /\ Len(file) \in Nat
  OBVIOUS
<1>2. PICK t : IsTable(t, glob, file) /\ t[<<1, 1>>]
  BY <1>1, MatchesByTable
<1>3. n \in 0 .. Len(glob) /\ \A i \in 1 .. n : LiteralPrefix(glob)[i] = glob[i] /\ glob[i] \in Names
  BY PrefixFacts
<1> HIDE DEF n
<1>4. ASSUME NEW i \in 1 .. n, i <= Len(file) + 1, t[<<i, i>>]
      PROVE  i <= Len(file) /\ glob[i] = file[i] /\ t[<<i + 1, i + 1>>]
  <2>1. <<i, i>> \in Positions(glob, file)
    BY <1>1, <1>3, <1>4 DEF Positions
  <2>2. t[<<i, i>>] = RestMatches(t, glob, file, i, i)
    BY <1>2, <2>1 DEF IsTable
  <2>3. RestMatches(t, glob, file, i, i)
    BY <1>4, <2>2
  <2>4. i <= Len(glob) /\ i # Len(glob) + 1
    BY <1>1, <1>3
  <2>5. glob[i] \in {"a", "b", "ab"}
    BY <1>3 DEF Names
  <2>6. glob[i] # "**" /\ glob[i] # "*" /\ glob[i] # "a*"
    BY <2>5
  <2>7. i <= Len(file) /\ SegmentMatches(glob[i], file[i]) /\ t[<<i + 1, i + 1>>]
    BY <2>3, <2>4, <2>6 DEF RestMatches
  <2> QED  BY <2>6, <2>7 DEF SegmentMatches
<1>5. DEFINE Along == {k \in 0 .. n : /\ k <= Len(file) /\ t[<<k + 1, k + 1>>]
                                      /\ \A i \in 1 .. k : glob[i] = file[i]}
<1>6. 0 \in Along
  BY <1>1, <1>2, <1>3
<1>7. ASSUME NEW k \in 1 .. n, k - 1 \in Along  PROVE k \in Along
  <2>1. (k - 1) + 1 = k /\ k <= Len(file) + 1 /\ t[<<k, k>>]
    BY <1>1, <1>7
  <2>2. k <= Len(file) /\ glob[k] = file[k] /\ t[<<k + 1, k + 1>>]
    BY <1>4, <2>1
  <2>3. \A i \in 1 .. k : i = k \/ i \in 1 .. (k - 1)
    OBVIOUS
  <2> QED  BY <1>3, <1>7, <2>2, <2>3
<1>8. n \in Along
  <2>1. n \in Nat /\ n \in 0 .. n
    BY <1>1, <1>3
  <2> HIDE DEF Along
  <2> QED  BY <1>6, <1>7, <2>1, AllUpTo
<1> QED  BY <1>3, <1>8 DEF n

LEMMA Nested ==
  ASSUME NEW p, NEW q, p \in Seq(Segments), q \in Seq(Segments), Len(p) <= Len(q),
         \A i \in 1 .. Len(p) : p[i] = q[i]
  PROVE  IsPrefixDir(p, q)
<1>1. /\ SubSeq(q, 1, Len(p)) \in Seq(Segments) /\ Len(SubSeq(q, 1, Len(p))) = Len(p)
      /\ \A i \in 1 .. Len(p) : SubSeq(q, 1, Len(p))[i] = q[i]
  OBVIOUS
<1>2. p = SubSeq(q, 1, Len(p))
  BY <1>1
<1> QED  BY <1>2 DEF IsPrefixDir

(* Two globs that match a common file are held to overlap, however long     *)
(* they are: both literal prefixes begin the file, so one begins the other. *)
(* The comment on scopesOverlap promises this for prefix-nested scopes.     *)
THEOREM SharedFileOverlaps ==
  ASSUME NEW g \in Seq(Segments), NEW h \in Seq(Segments), NEW f \in Seq(Names),
         Matches(g, f), Matches(h, f)
  PROVE  PairOverlaps(g, h)
<1> DEFINE p == LiteralPrefix(g)
           q == LiteralPrefix(h)
<1>1. /\ p \in Seq(Segments) /\ q \in Seq(Segments) /\ Len(p) \in Nat /\ Len(q) \in Nat
  BY PrefixFacts
<1>2. /\ \A i \in 1 .. Len(p) : p[i] = f[i]
      /\ \A i \in 1 .. Len(q) : q[i] = f[i]
  BY MatchedBeginsWithPrefix
<1> HIDE DEF p, q
<1>3. CASE Len(p) <= Len(q)
  <2>1. \A i \in 1 .. Len(p) : p[i] = q[i]
    BY <1>1, <1>2, <1>3
  <2>2. IsPrefixDir(p, q)
    BY <1>1, <1>3, <2>1, Nested
  <2> QED  BY <2>2 DEF PairOverlaps, p, q
<1>4. CASE Len(q) <= Len(p)
  <2>1. \A i \in 1 .. Len(q) : q[i] = p[i]
    BY <1>1, <1>2, <1>4
  <2>2. IsPrefixDir(q, p)
    BY <1>1, <1>4, <2>1, Nested
  <2> QED  BY <2>2 DEF PairOverlaps, p, q
<1> QED  BY <1>1, <1>3, <1>4

LEMMA Conservative == ScopesConservative
<1> SUFFICES ASSUME NEW g \in Globs, NEW h \in Globs, NEW f \in Files,
                    f \in Matched(g) \cap Matched(h)
             PROVE  PairOverlaps(g, h)
  <2>1. \A g \in Globs : Matched(g) \subseteq Files
    BY DEF Matched
  <2> QED  BY <2>1 DEF ScopesConservative
<1>1. g \in Seq(Segments) /\ h \in Seq(Segments) /\ f \in Seq(Names)
  BY PathFacts DEF Globs, Files
<1> QED  BY <1>1, SharedFileOverlaps DEF Matched

(* While the tasks are placed, the test that keeps two of them apart never  *)
(* misses a file both may touch.                                            *)
THEOREM ScopesApart == Spec => []ScopesKeepApart
<1>1. ScopesKeepApart
  BY Conservative DEF ScopesKeepApart
<1> QED  BY <1>1, PTL
=============================================================================
