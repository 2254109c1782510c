----------------------- MODULE ParallelWorkers_proofs -----------------------
(* Proofs about the lock manager and the pool of workers, for any number of *)
(* items, runners and paths. The inductive invariant ties the three views   *)
(* of one lock together (the table, the waiter arrays, the callers'         *)
(* promises) and the pool's runners to the workers they await.              *)
EXTENDS ParallelWorkers, TLAPS

(* The table and the arrays against the promises, entry by entry. *)
Agree ==
    \A p \in Path, i \in Holder :
        /\ promise[<<i, p>>] = "resolved" <=> held[p] = i
        /\ promise[<<i, p>>] = "pending" <=> i \in queue[p]
        /\ i \in queue[p] => held[p] \notin {Nobody, i}

(* Only a worker that runs holds a lock or waits for one. *)
Alive ==
    \A p \in Path, i \in Holder : held[p] = i \/ i \in queue[p] => phase[i] = "open"

(* Every worker that runs is awaited by a runner; a failure not yet noted    *)
(* is one a runner is about to note; a runner leaves when nothing is left    *)
(* to hand out or a worker has failed.                                      *)
Pool ==
    /\ \A i \in Holder : phase[i] = "new" <=> i > cursor
    /\ \A i \in Holder : phase[i] = "open" => \E r \in Runner : at[r] = i
    /\ \A i \in Holder : phase[i] = "failed" => failed \/ \E r \in Runner : at[r] = i
    /\ failed => \E i \in Holder : phase[i] = "failed"
    /\ \A r \in Runner : at[r] # Gone => phase[at[r]] # "new"
    /\ \A r, s \in Runner : at[r] # Gone /\ at[r] = at[s] => r = s
    /\ \A r \in Runner : at[r] = Gone => cursor = Items \/ failed
    /\ outcome # "open" =>
         (\A r \in Runner : at[r] = Gone) /\ (outcome = "rejected" <=> failed)

IInv == TypeOK /\ Agree /\ Alive /\ Pool

-----------------------------------------------------------------------------
LEMMA Counts == /\ Items \in Nat /\ Items > 0
                /\ Holder = 1 .. Items /\ Gone \notin Holder /\ Nobody \notin Holder
                /\ Least(Effective, Items) \in Nat /\ Least(Effective, Items) > 0
                /\ Least(Effective, Items) <= Items
                /\ Runner = 1 .. Least(Effective, Items)
  BY PoolAssumption, NobodyAssumption DEF Least, Effective, Most, Runner, Gone

LEMMA InitInv == Init => IInv
<1> SUFFICES ASSUME Init PROVE IInv
  OBVIOUS
<1>1. TypeOK
  <2>1. LockTypeOK
    BY DEF Init, LockInit, LockTypeOK
  <2>2. cursor \in 0 .. Items
    BY Counts DEF Init
  <2>5. failed \in BOOLEAN /\ outcome \in {"open", "resolved", "rejected"}
    BY DEF Init
  <2>3. at \in [Runner -> Holder \cup {Gone}]
    BY Counts DEF Init
  <2>4. needs \in [Holder -> Work] /\ phase \in [Holder -> {"new", "open", "done", "failed"}]
    BY DEF Init
  <2> QED  BY <2>1, <2>2, <2>3, <2>4, <2>5 DEF TypeOK
<1>2. Agree /\ Alive
  BY Counts DEF Init, LockInit, Agree, Alive, Ticket
<1>3. Pool
  BY Counts DEF Init, Pool, Gone
<1> QED  BY <1>1, <1>2, <1>3 DEF IInv

-----------------------------------------------------------------------------
(* The steps that leave the pool alone keep what is said about it.          *)
LEMMA PoolKept == Pool /\ UNCHANGED poolVars => Pool'
  BY DEF Pool, poolVars

LEMMA AskStep ==
  ASSUME IInv, NEW i \in Holder, Ask(i)
  PROVE  IInv'
<1>1. PICK paths \in SUBSET (needs[i] \cap Tickets(i, {"none"})) : Acquire(i, paths)
  BY DEF Ask
<1>2. phase[i] = "open" /\ UNCHANGED poolVars
  BY DEF Ask
<1>3. \A p \in paths : p \in Path /\ promise[<<i, p>>] = "none"
  BY <1>1 DEF Tickets
<1>4. TypeOK'
  BY <1>1, <1>2, Counts DEF IInv, TypeOK, LockTypeOK, Acquire, poolVars, Ticket
<1>5. \A p \in Path, j \in Holder :
        /\ held'[p] = (IF p \in paths /\ held[p] = Nobody THEN i ELSE held[p])
        /\ queue'[p] = (IF p \in paths /\ ~Granted(i, p) THEN queue[p] \cup {i} ELSE queue[p])
        /\ promise'[<<j, p>>] = (IF j # i \/ p \notin paths THEN promise[<<j, p>>]
                                 ELSE IF Granted(i, p) THEN "resolved" ELSE "pending")
  BY <1>1 DEF Acquire, Ticket
<1>6. Agree'
  <2> SUFFICES ASSUME NEW p \in Path, NEW j \in Holder
               PROVE  /\ promise'[<<j, p>>] = "resolved" <=> held'[p] = j
                      /\ promise'[<<j, p>>] = "pending" <=> j \in queue'[p]
                      /\ j \in queue'[p] => held'[p] \notin {Nobody, j}
    BY DEF Agree
  <2>1. /\ promise[<<j, p>>] = "resolved" <=> held[p] = j
        /\ promise[<<j, p>>] = "pending" <=> j \in queue[p]
        /\ j \in queue[p] => held[p] \notin {Nobody, j}
        /\ promise[<<i, p>>] = "resolved" <=> held[p] = i
        /\ promise[<<i, p>>] = "pending" <=> i \in queue[p]
    BY DEF IInv, Agree
  <2>2. CASE p \in paths /\ j = i
    BY <1>3, <1>5, <2>1, <2>2, Counts DEF Granted
  <2>3. CASE p \in paths /\ j # i
    <3>1. held[p] # i /\ promise'[<<j, p>>] = promise[<<j, p>>]
      BY <1>3, <1>5, <2>1, <2>3
    <3>2. CASE held[p] = Nobody
      <4>1. held'[p] = i /\ queue'[p] = queue[p]
        BY <1>5, <2>3, <3>2 DEF Granted
      <4> QED  BY <2>1, <2>3, <3>1, <3>2, <4>1, Counts
    <3>3. CASE held[p] # Nobody
      <4>1. held'[p] = held[p] /\ queue'[p] = queue[p] \cup {i}
        BY <1>5, <2>3, <3>1, <3>3 DEF Granted
      <4> QED  BY <2>1, <2>3, <3>1, <3>3, <4>1
    <3> QED  BY <3>2, <3>3
  <2>4. CASE p \notin paths
    BY <1>5, <2>1, <2>4
  <2> QED  BY <2>2, <2>3, <2>4
<1>7. Alive'
  <2> SUFFICES ASSUME NEW p \in Path, NEW j \in Holder, held'[p] = j \/ j \in queue'[p]
               PROVE  phase'[j] = "open"
    BY DEF Alive
  <2>1. j = i \/ held[p] = j \/ j \in queue[p]
    BY <1>5
  <2> QED  BY <1>2, <2>1 DEF IInv, Alive, poolVars
<1> QED  BY <1>2, <1>4, <1>6, <1>7, PoolKept DEF IInv

LEMMA TimerStep ==
  ASSUME IInv, NEW i \in Holder, NEW p \in Path, TimerFires(i, p)
  PROVE  IInv'
<1>1. /\ i \in queue[p] /\ queue' = [queue EXCEPT ![p] = @ \ {i}] /\ KeepOrder
      /\ promise' = [promise EXCEPT ![<<i, p>>] = "rejected"]
      /\ held' = held /\ UNCHANGED poolVars
  BY DEF TimerFires, Timeout
<1>2. <<i, p>> \in Ticket
  BY DEF Ticket
<1>3. TypeOK'
  BY <1>1, <1>2 DEF IInv, TypeOK, LockTypeOK, poolVars, KeepOrder
<1>4. \A q \in Path, j \in Holder :
        /\ queue'[q] = (IF q = p THEN queue[q] \ {i} ELSE queue[q])
        /\ promise'[<<j, q>>] = (IF j = i /\ q = p THEN "rejected" ELSE promise[<<j, q>>])
  BY <1>1 DEF IInv, TypeOK, LockTypeOK, Ticket
<1>5. Agree'
  <2> SUFFICES ASSUME NEW q \in Path, NEW j \in Holder
               PROVE  /\ promise'[<<j, q>>] = "resolved" <=> held'[q] = j
                      /\ promise'[<<j, q>>] = "pending" <=> j \in queue'[q]
                      /\ j \in queue'[q] => held'[q] \notin {Nobody, j}
    BY DEF Agree
  <2>1. /\ promise[<<j, q>>] = "resolved" <=> held[q] = j
        /\ promise[<<j, q>>] = "pending" <=> j \in queue[q]
        /\ j \in queue[q] => held[q] \notin {Nobody, j}
    BY DEF IInv, Agree
  <2>2. CASE j = i /\ q = p
    BY <1>1, <1>4, <2>1, <2>2
  <2>3. CASE ~(j = i /\ q = p)
    BY <1>1, <1>4, <2>1, <2>3
  <2> QED  BY <2>2, <2>3
<1>6. Alive'
  BY <1>1, <1>4 DEF IInv, Alive, poolVars
<1> QED  BY <1>1, <1>3, <1>5, <1>6, PoolKept DEF IInv

-----------------------------------------------------------------------------
(* Handing locks over keeps the three views in agreement: whatever h gives   *)
(* up goes to a waiter or to nobody. Outside its queues h has no wish left   *)
(* where its filter was applied.                                            *)
LEMMA HandOverAgrees ==
  ASSUME TypeOK, Agree, NEW h \in Holder, NEW mine \in SUBSET Path,
         NEW waiting \in [Path -> SUBSET Holder],
         \A p \in mine : held[p] = h,
         \A p \in Path : waiting[p] = queue[p] \/ waiting[p] = queue[p] \ {h},
         HandOver(h, mine, waiting)
  PROVE  /\ LockTypeOK' /\ Agree'
         /\ \A p \in Path : queue'[p] \subseteq waiting[p]
         /\ \A p \in Path : (held'[p] = held[p] /\ p \notin mine) \/ held'[p] \in waiting[p] \cup {Nobody}
<1>1. PICK next \in [Path -> Holder \cup {Nobody}] :
        /\ \A p \in Path : IF p \in mine THEN IsNext(next[p], p, waiting) ELSE next[p] = Nobody
        /\ held' = [p \in Path |-> IF p \in mine THEN next[p] ELSE held[p]]
        /\ queue' = [p \in Path |-> waiting[p] \ {next[p]}]
        /\ KeepOrder
        /\ promise' = [t \in Ticket |->
               IF t[1] = next[t[2]] THEN "resolved"
               ELSE IF t[1] = h /\ (t[2] \in mine \/ h \in queue[t[2]] \ waiting[t[2]])
                    THEN "over" ELSE promise[t]]
  BY DEF HandOver
<1>2. \A p \in Path : /\ p \in mine => next[p] \in waiting[p] \/ (next[p] = Nobody /\ waiting[p] = {})
                      /\ p \notin mine => next[p] = Nobody
  BY <1>1 DEF IsNext
<1>3. \A p \in Path, j \in Holder :
        /\ held'[p] = (IF p \in mine THEN next[p] ELSE held[p])
        /\ queue'[p] = waiting[p] \ {next[p]}
        /\ promise'[<<j, p>>] = (IF j = next[p] THEN "resolved"
               ELSE IF j = h /\ (p \in mine \/ h \in queue[p] \ waiting[p])
                    THEN "over" ELSE promise[<<j, p>>])
  BY <1>1 DEF Ticket
<1>4. LockTypeOK'
  <2>1. held' \in [Path -> Holder \cup {Nobody}] /\ queue' \in [Path -> SUBSET Holder]
    BY <1>1 DEF TypeOK, LockTypeOK
  <2>2. promise' \in [Ticket -> {"none", "pending", "resolved", "rejected", "over"}]
    BY <1>1 DEF TypeOK, LockTypeOK
  <2>3. ahead' \in [Ticket -> SUBSET Holder]
    BY <1>1 DEF TypeOK, LockTypeOK, KeepOrder
  <2> QED  BY <2>1, <2>2, <2>3 DEF LockTypeOK
<1>5. Agree'
  <2> SUFFICES ASSUME NEW p \in Path, NEW j \in Holder
               PROVE  /\ promise'[<<j, p>>] = "resolved" <=> held'[p] = j
                      /\ promise'[<<j, p>>] = "pending" <=> j \in queue'[p]
                      /\ j \in queue'[p] => held'[p] \notin {Nobody, j}
    BY DEF Agree
  <2>1. /\ promise[<<j, p>>] = "resolved" <=> held[p] = j
        /\ promise[<<j, p>>] = "pending" <=> j \in queue[p]
        /\ j \in queue[p] => held[p] \notin {Nobody, j}
        /\ h \in queue[p] => held[p] # h
    BY DEF Agree
  <2>2. CASE p \in mine
    BY <1>2, <1>3, <2>1, <2>2, Counts
  <2>3. CASE p \notin mine
    BY <1>2, <1>3, <2>1, <2>3, Counts
  <2> QED  BY <2>2, <2>3
<1>6. \A p \in Path : queue'[p] \subseteq waiting[p]
  BY <1>3
<1>7. \A p \in Path : (held'[p] = held[p] /\ p \notin mine) \/ held'[p] \in waiting[p] \cup {Nobody}
  BY <1>2, <1>3, Counts DEF TypeOK, LockTypeOK
<1> QED  BY <1>4, <1>5, <1>6, <1>7

LEMMA LetGoStep ==
  ASSUME IInv, NEW i \in Holder, NEW p \in Path, LetGo(i, p)
  PROVE  IInv'
<1>1. held[p] = i /\ HandOver(i, {p}, queue) /\ UNCHANGED poolVars /\ phase[i] = "open"
  BY DEF LetGo, Release
<1>2. queue \in [Path -> SUBSET Holder]
  BY DEF IInv, TypeOK, LockTypeOK
<1>3. /\ LockTypeOK' /\ Agree' /\ \A q \in Path : queue'[q] \subseteq queue[q]
      /\ \A q \in Path : held'[q] = held[q] \/ held'[q] \in queue[q] \cup {Nobody}
  <2>1. {p} \in SUBSET Path /\ \A q \in {p} : held[q] = i
    BY <1>1
  <2>2. \A q \in Path : queue[q] = queue[q] \/ queue[q] = queue[q] \ {i}
    OBVIOUS
  <2>3. TypeOK /\ Agree
    BY DEF IInv
  <2> QED  BY <1>1, <1>2, <2>1, <2>2, <2>3, HandOverAgrees
<1>4. TypeOK'
  BY <1>1, <1>3 DEF IInv, TypeOK, poolVars
<1>5. Alive'
  BY <1>1, <1>3, Counts DEF IInv, Alive, poolVars
<1> QED  BY <1>1, <1>3, <1>4, <1>5, PoolKept DEF IInv

(* A worker ends, one way or the other: it has nothing and waits nowhere.    *)
LEMMA EndStep ==
  ASSUME IInv, NEW i \in Holder, NEW end \in {"done", "failed"},
         phase[i] = "open", ReleaseAll(i), phase' = [phase EXCEPT ![i] = end],
         UNCHANGED <<needs, at, cursor, failed, outcome>>
  PROVE  IInv'
<1> DEFINE mine == {p \in Path : held[p] = i}
           waiting == WithoutHolder(i)
<1>1. waiting \in [Path -> SUBSET Holder] /\ \A p \in Path : waiting[p] = queue[p] \ {i}
  BY DEF IInv, TypeOK, LockTypeOK, WithoutHolder
<1>2. HandOver(i, mine, waiting)
  BY DEF ReleaseAll
<1>3. mine \in SUBSET Path /\ \A p \in mine : held[p] = i
  OBVIOUS
<1> HIDE DEF mine, waiting
<1>4. /\ LockTypeOK' /\ Agree' /\ \A p \in Path : queue'[p] \subseteq waiting[p]
      /\ \A p \in Path : (held'[p] = held[p] /\ p \notin mine) \/ held'[p] \in waiting[p] \cup {Nobody}
  BY <1>1, <1>2, <1>3, HandOverAgrees DEF IInv
<1>5. TypeOK'
  BY <1>4 DEF IInv, TypeOK
<1>6. \A j \in Holder : phase'[j] = IF j = i THEN end ELSE phase[j]
  BY DEF IInv, TypeOK
<1>7. Alive'
  <2> SUFFICES ASSUME NEW p \in Path, NEW j \in Holder, held'[p] = j \/ j \in queue'[p]
               PROVE  phase'[j] = "open"
    BY DEF Alive
  <2>1. j # i
    <3>1. i \notin waiting[p]
      BY <1>1
    <3>2. held[p] = held'[p] /\ p \notin mine => held'[p] # i
      BY DEF mine
    <3> QED  BY <1>4, <3>1, <3>2, Counts
  <2>2. held[p] = j \/ j \in queue[p]
    BY <1>1, <1>4, Counts
  <2> QED  BY <1>6, <2>1, <2>2 DEF IInv, Alive
<1>8. Pool'
  BY <1>6, Counts DEF IInv, TypeOK, Pool
<1> QED  BY <1>4, <1>5, <1>7, <1>8 DEF IInv

LEMMA ContinueStep ==
  ASSUME IInv, NEW r \in Runner, Continue(r)
  PROVE  IInv'
<1>1. /\ at[r] \in Holder /\ phase[at[r]] \in {"done", "failed"}
      /\ failed' = (failed \/ phase[at[r]] = "failed")
      /\ UNCHANGED <<lockVars, needs, outcome>>
  BY DEF Continue, IInv, TypeOK
<1>2. outcome = "open"
  BY <1>1, Counts DEF IInv, Pool, Continue
<1>3. failed' \in BOOLEAN
  BY <1>1 DEF IInv, TypeOK
<1>a. CASE cursor < Items /\ ~failed'
  <2>1. /\ cursor' = cursor + 1 /\ at' = [at EXCEPT ![r] = cursor + 1]
        /\ phase' = [phase EXCEPT ![cursor + 1] = "open"]
    BY <1>a DEF Continue
  <2>2. cursor + 1 \in Holder /\ phase[cursor + 1] = "new"
    BY <1>a, Counts DEF IInv, TypeOK, Pool
  <2>3. TypeOK'
    BY <1>1, <1>3, <2>1, <2>2, Counts, <1>a DEF IInv, TypeOK, LockTypeOK, lockVars
  <2>4. \A i \in Holder : phase'[i] = IF i = cursor + 1 THEN "open" ELSE phase[i]
    BY <2>1 DEF IInv, TypeOK
  <2>5. \A s \in Runner : at'[s] = IF s = r THEN cursor + 1 ELSE at[s]
    BY <2>1 DEF IInv, TypeOK
  <2>6. Agree' /\ Alive'
    BY <1>1, <2>4 DEF IInv, Agree, Alive, lockVars
  <2>7. Pool'
    <3>1. ~failed /\ ~failed' /\ phase[at[r]] = "done"
      BY <1>1, <1>a
    <3>2. \A i \in Holder : phase'[i] = "new" <=> i > cursor'
      BY <2>1, <2>2, <2>4, Counts DEF IInv, TypeOK, Pool
    <3>3. \A i \in Holder : phase'[i] = "open" => \E s \in Runner : at'[s] = i
      BY <2>4, <2>5, <3>1 DEF IInv, Pool
    <3>4. \A i \in Holder : phase'[i] = "failed" => \E s \in Runner : at'[s] = i
      BY <2>4, <2>5, <3>1 DEF IInv, Pool
    <3>5. \A s \in Runner : at'[s] # Gone => phase'[at'[s]] # "new"
      BY <2>2, <2>4, <2>5 DEF IInv, Pool, TypeOK
    <3>6. \A s, t \in Runner : at'[s] # Gone /\ at'[s] = at'[t] => s = t
      BY <2>2, <2>5 DEF IInv, Pool, TypeOK
    <3>7. \A s \in Runner : at'[s] = Gone => cursor' = Items \/ failed'
      BY <2>2, <2>5, <3>1, <1>a, Counts DEF IInv, Pool
    <3> QED  BY <1>1, <1>2, <3>1, <3>2, <3>3, <3>4, <3>5, <3>6, <3>7 DEF Pool
  <2> QED  BY <2>3, <2>6, <2>7 DEF IInv
<1>b. CASE ~(cursor < Items /\ ~failed')
  <2>1. at' = [at EXCEPT ![r] = Gone] /\ UNCHANGED <<cursor, phase>>
    BY <1>b DEF Continue
  <2>2. TypeOK'
    BY <1>1, <1>3, <2>1 DEF IInv, TypeOK, LockTypeOK, lockVars
  <2>3. \A s \in Runner : at'[s] = IF s = r THEN Gone ELSE at[s]
    BY <2>1 DEF IInv, TypeOK
  <2>4. Agree' /\ Alive'
    BY <1>1, <2>1 DEF IInv, Agree, Alive, lockVars
  <2>5. Pool'
    <3>1. cursor = Items \/ failed'
      BY <1>b, Counts DEF IInv, TypeOK
    <3>2. failed' => \E i \in Holder : phase[i] = "failed"
      BY <1>1 DEF IInv, Pool
    <3>3. \A i \in Holder : phase[i] = "open" => \E s \in Runner : at'[s] = i
      BY <1>1, <2>3 DEF IInv, Pool
    <3>4. \A i \in Holder : phase[i] = "failed" => failed' \/ \E s \in Runner : at'[s] = i
      BY <1>1, <2>3 DEF IInv, Pool
    <3>5. \A s \in Runner : at'[s] # Gone => phase[at'[s]] # "new"
      BY <2>3 DEF IInv, Pool
    <3>6. \A s, t \in Runner : at'[s] # Gone /\ at'[s] = at'[t] => s = t
      BY <2>3 DEF IInv, Pool
    <3>7. \A s \in Runner : at'[s] = Gone => cursor = Items \/ failed'
      BY <1>1, <2>3, <3>1 DEF IInv, Pool
    <3>8. (\A i \in Holder : phase[i] = "new" <=> i > cursor) /\ outcome' = "open"
      BY <1>1, <1>2 DEF IInv, Pool
    <3> QED  BY <2>1, <3>2, <3>3, <3>4, <3>5, <3>6, <3>7, <3>8 DEF Pool
  <2> QED  BY <2>2, <2>4, <2>5 DEF IInv
<1> QED  BY <1>a, <1>b

LEMMA SettleStep == IInv /\ Settle => IInv'
<1> SUFFICES ASSUME IInv, Settle PROVE IInv'
  OBVIOUS
<1>1. TypeOK'
  BY DEF IInv, TypeOK, LockTypeOK, lockVars, Settle
<1>2. Agree' /\ Alive'
  BY DEF IInv, Agree, Alive, lockVars, Settle
<1>3. Pool'
  BY DEF IInv, Pool, Settle, TypeOK
<1> QED  BY <1>1, <1>2, <1>3 DEF IInv

-----------------------------------------------------------------------------
(* The invariant is inductive.                                              *)
THEOREM Inductive == Spec => []IInv
<1>1. ASSUME IInv, [Next]_vars PROVE IInv'
  <2>1. CASE UNCHANGED vars
    BY <1>1, <2>1 DEF IInv, TypeOK, LockTypeOK, Agree, Alive, Pool, vars, lockVars, poolVars
  <2>2. ASSUME NEW i \in Holder, Ask(i) PROVE IInv'
    BY <1>1, <2>2, AskStep
  <2>3. ASSUME NEW i \in Holder, Finish(i) PROVE IInv'
    <3>1. PICK end \in {"done", "failed"} : phase' = [phase EXCEPT ![i] = end]
      BY <2>3 DEF Finish
    <3> QED  BY <1>1, <2>3, <3>1, EndStep DEF Finish
  <2>4. ASSUME NEW i \in Holder, GiveUp(i) PROVE IInv'
    BY <1>1, <2>4, EndStep DEF GiveUp
  <2>5. ASSUME NEW i \in Holder, NEW p \in Path, LetGo(i, p) PROVE IInv'
    BY <1>1, <2>5, LetGoStep
  <2>6. ASSUME NEW i \in Holder, NEW p \in Path, TimerFires(i, p) PROVE IInv'
    BY <1>1, <2>6, TimerStep
  <2>7. ASSUME NEW r \in Runner, Continue(r) PROVE IInv'
    BY <1>1, <2>7, ContinueStep
  <2>8. CASE Settle
    BY <1>1, <2>8, SettleStep
  <2> QED  BY <1>1, <2>1, <2>2, <2>3, <2>4, <2>5, <2>6, <2>7, <2>8 DEF Next
<1> QED  BY <1>1, InitInv, PTL DEF Spec

(* Every state has its type, for any number of items, runners and paths.    *)
THEOREM Typing == Spec => []TypeOK
  BY Inductive, PTL DEF IInv

(* No file has two editors, and none belongs to a worker that has ended     *)
(* (lock-manager.ts release and releaseAll).                                *)
THEOREM MutualExclusion == Spec => []OneEditor
<1>1. IInv => OneEditor
  <2> SUFFICES ASSUME IInv, NEW p \in Path
               PROVE  /\ {i \in Holder : promise[<<i, p>>] = "resolved"} = {held[p]} \ {Nobody}
                      /\ held[p] # Nobody => phase[held[p]] = "open"
    BY DEF OneEditor
  <2>1. held[p] \in Holder \cup {Nobody}
    BY DEF IInv, TypeOK, LockTypeOK
  <2>2. \A i \in Holder : promise[<<i, p>>] = "resolved" <=> held[p] = i
    BY DEF IInv, Agree
  <2> QED  BY <2>1, <2>2, Counts DEF IInv, Alive
<1> QED  BY <1>1, Inductive, PTL

(* The arrays hold exactly the acquires that are pending, and never one on  *)
(* a lock that is free.                                                     *)
THEOREM WaitersAreSeen == Spec => []NoLostWakeup
<1>1. IInv => NoLostWakeup
  BY DEF IInv, TypeOK, LockTypeOK, Agree, Alive, NoLostWakeup
<1> QED  BY <1>1, Inductive, PTL

(* When runPool settles nothing runs, nothing is locked and its verdict is  *)
(* that of the items (worker-pool.ts).                                      *)
THEOREM PoolEndsClean == Spec => []CleanEnd
<1>1. IInv => CleanEnd
  <2> SUFFICES ASSUME IInv, outcome # "open"
               PROVE  /\ \A p \in Path : held[p] = Nobody /\ queue[p] = {}
                      /\ \A i \in Holder : phase[i] # "open"
                      /\ outcome = "resolved" => \A i \in Holder : phase[i] = "done"
                      /\ outcome = "rejected" => \E i \in Holder : phase[i] = "failed"
    BY DEF CleanEnd
  <2>1. (\A r \in Runner : at[r] = Gone) /\ (outcome = "rejected" <=> failed)
    BY DEF IInv, Pool
  <2>2. \A i \in Holder : phase[i] # "open"
    BY <2>1, Counts DEF IInv, Pool
  <2>3. \A p \in Path : held[p] = Nobody /\ queue[p] = {}
    BY <2>2 DEF IInv, TypeOK, LockTypeOK, Alive
  <2>4. ~failed => \A i \in Holder : phase[i] = "done"
    <3>1. 1 \in Runner
      BY Counts
    <3>2. ~failed => cursor = Items
      BY <2>1, <3>1 DEF IInv, Pool
    <3>3. ~failed => \A i \in Holder : phase[i] # "new" /\ phase[i] # "failed"
      BY <2>1, <3>2, Counts DEF IInv, Pool
    <3> QED  BY <2>2, <3>3 DEF IInv, TypeOK
  <2>5. failed => \E i \in Holder : phase[i] = "failed"
    BY DEF IInv, Pool
  <2> QED  BY <2>1, <2>2, <2>3, <2>4, <2>5
<1> QED  BY <1>1, Inductive, PTL

-----------------------------------------------------------------------------
(* The step of ArrivalOrder: who is granted late leaves nobody behind who    *)
(* stood ahead.                                                             *)
NoOvertaking(p, i, j) ==
    i \in ahead[<<j, p>>] /\ promise'[<<j, p>>] = "resolved" => promise'[<<i, p>>] # "pending"

LEMMA HandOverInOrder ==
  ASSUME IInv, NEW h \in Holder, NEW mine \in SUBSET Path,
         NEW waiting \in [Path -> SUBSET Holder],
         \A p \in Path : waiting[p] = queue[p] \/ waiting[p] = queue[p] \ {h},
         HandOver(h, mine, waiting),
         NEW p \in Path, NEW i \in queue[p], NEW j \in queue[p]
  PROVE  NoOvertaking(p, i, j)
<1>1. PICK next \in [Path -> Holder \cup {Nobody}] :
        /\ \A q \in Path : IF q \in mine THEN IsNext(next[q], q, waiting) ELSE next[q] = Nobody
        /\ promise' = [t \in Ticket |->
               IF t[1] = next[t[2]] THEN "resolved"
               ELSE IF t[1] = h /\ (t[2] \in mine \/ h \in queue[t[2]] \ waiting[t[2]])
                    THEN "over" ELSE promise[t]]
  BY DEF HandOver
<1>2. i \in Holder /\ j \in Holder /\ promise[<<j, p>>] = "pending"
  BY DEF IInv, TypeOK, LockTypeOK, Agree
<1>3. \A k \in Holder : promise'[<<k, p>>] =
         (IF k = next[p] THEN "resolved"
          ELSE IF k = h /\ (p \in mine \/ h \in queue[p] \ waiting[p])
               THEN "over" ELSE promise[<<k, p>>])
  BY <1>1 DEF Ticket
<1>4. SUFFICES ASSUME i \in ahead[<<j, p>>], promise'[<<j, p>>] = "resolved"
               PROVE  promise'[<<i, p>>] # "pending"
  BY DEF NoOvertaking
<1>5. j = next[p]
  BY <1>2, <1>3, <1>4
<1>6. ahead[<<j, p>>] \cap waiting[p] = {}
  BY <1>1, <1>2, <1>5, Counts DEF IsNext
<1>7. i = h /\ h \in queue[p] \ waiting[p]
  BY <1>4, <1>6
<1> QED  BY <1>2, <1>3, <1>7

(* Locks are handed over in the order of arrival, whatever is released, by  *)
(* whom, and whoever left the array in between (lock-manager.ts release).   *)
THEOREM FirstComeFirstServed == Spec => ArrivalOrder
<1>1. ASSUME IInv, [Next]_vars, NEW p \in Path, NEW i \in queue[p], NEW j \in queue[p]
      PROVE  NoOvertaking(p, i, j)
  <2>0. i \in Holder /\ j \in Holder /\ promise[<<i, p>>] = "pending" /\ promise[<<j, p>>] = "pending"
    BY <1>1 DEF IInv, TypeOK, LockTypeOK, Agree
  <2>1. CASE promise' = promise
    BY <2>0, <2>1 DEF NoOvertaking
  <2>2. ASSUME NEW h \in Holder, Ask(h) PROVE NoOvertaking(p, i, j)
    <3>1. PICK paths \in SUBSET (needs[h] \cap Tickets(h, {"none"})) : Acquire(h, paths)
      BY <2>2 DEF Ask
    <3>2. j = h => p \notin paths
      BY <2>0 DEF Tickets
    <3>3. promise'[<<j, p>>] = promise[<<j, p>>]
      BY <2>0, <3>1, <3>2 DEF Acquire, Ticket
    <3> QED  BY <2>0, <3>3 DEF NoOvertaking
  <2>3. ASSUME NEW h \in Holder, ReleaseAll(h) PROVE NoOvertaking(p, i, j)
    <3>1. /\ WithoutHolder(h) \in [Path -> SUBSET Holder]
          /\ \A q \in Path : WithoutHolder(h)[q] = queue[q] \ {h}
      BY <1>1 DEF IInv, TypeOK, LockTypeOK, WithoutHolder
    <3>2. {q \in Path : held[q] = h} \in SUBSET Path
      OBVIOUS
    <3> QED  BY <1>1, <2>3, <3>1, <3>2, HandOverInOrder DEF ReleaseAll
  <2>4. ASSUME NEW h \in Holder, NEW q \in Path, LetGo(h, q) PROVE NoOvertaking(p, i, j)
    <3>1. queue \in [Path -> SUBSET Holder] /\ {q} \in SUBSET Path
      BY <1>1 DEF IInv, TypeOK, LockTypeOK
    <3> QED  BY <1>1, <2>4, <3>1, HandOverInOrder DEF LetGo, Release
  <2>5. ASSUME NEW h \in Holder, NEW q \in Path, TimerFires(h, q) PROVE NoOvertaking(p, i, j)
    BY <1>1, <2>0, <2>5 DEF TimerFires, Timeout, NoOvertaking, IInv, TypeOK, LockTypeOK, Ticket
  <2>6. CASE UNCHANGED vars
    BY <2>1, <2>6 DEF vars, lockVars
  <2>7. ASSUME NEW r \in Runner, Continue(r) PROVE NoOvertaking(p, i, j)
    BY <2>1, <2>7 DEF Continue, lockVars
  <2>8. CASE Settle
    BY <2>1, <2>8 DEF Settle, lockVars
  <2> QED  BY <1>1, <2>2, <2>3, <2>4, <2>5, <2>6, <2>7, <2>8 DEF Next, Finish, GiveUp
<1>2. ASSUME IInv, [Next]_vars
      PROVE  [\A p \in Path : \A i, j \in queue[p] :
                (i \in ahead[<<j, p>>] /\ promise'[<<j, p>>] = "resolved")
                => promise'[<<i, p>>] # "pending"]_vars
  BY <1>1, <1>2 DEF NoOvertaking
<1> QED  BY <1>2, Inductive, PTL DEF Spec, ArrivalOrder
=============================================================================
