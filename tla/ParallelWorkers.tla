-------------------------- MODULE ParallelWorkers --------------------------
(* Workers that edit files under the lock manager (lock-manager.ts), run by *)
(* the bounded pool (worker-pool.ts). Each item of work takes exclusive     *)
(* locks on the files it needs, all at once or a few at a time in an order  *)
(* of its own, edits, and gives everything back on its way out, also when   *)
(* an acquire is rejected. Two items may wait on each other: the timeout of *)
(* a waiter is what breaks such a deadlock.                                 *)
(* The body of a worker is the pool's parameter; nothing in src/ passes one *)
(* yet, and this is the use the two files are documented for.               *)
EXTENDS LockManager, FiniteSets

CONSTANTS Items,     \* items.length
          Limit,     \* the limit runPool is called with
          MaxWorkers, \* MAX_WORKERS
          Work       \* the sets of files an item may need

ASSUME PoolAssumption == /\ Work \subseteq SUBSET Path
                         /\ Items \in Nat \ {0}
                         /\ Limit \in Int
                         /\ MaxWorkers \in Nat \ {0}
                         /\ Holder = 1 .. Items

(* effectiveLimit, and the runners the first loop starts *)
Least(a, b) == IF a < b THEN a ELSE b
Most(a, b) == IF a > b THEN a ELSE b
Effective == Most(1, Least(Limit, MaxWorkers))
Runner == 1 .. Least(Effective, Items)

Gone == 0   \* a runner that has left its loop

VARIABLES
    needs,     \* item -> the paths it locks
    phase,     \* item -> "new", "open" (its worker runs), "done", "failed"
    at,        \* runner -> the item it awaits, or Gone
    cursor,    \* items handed out so far
    failed,    \* firstError is set
    outcome    \* the promise of runPool: "open", "resolved", "rejected"

poolVars == <<needs, phase, at, cursor, failed, outcome>>
vars == <<lockVars, poolVars>>

TypeOK ==
    /\ LockTypeOK
    /\ needs \in [Holder -> Work]
    /\ phase \in [Holder -> {"new", "open", "done", "failed"}]
    /\ at \in [Runner -> Holder \cup {Gone}]
    /\ cursor \in 0 .. Items
    /\ failed \in BOOLEAN
    /\ outcome \in {"open", "resolved", "rejected"}

(* The pool starts its first workers in one stretch. *)
Init ==
    /\ LockInit
    /\ needs \in [Holder -> Work]
    /\ at = [r \in Runner |-> r]
    /\ cursor = Least(Effective, Items)
    /\ phase = [i \in Holder |-> IF i <= cursor THEN "open" ELSE "new"]
    /\ failed = FALSE
    /\ outcome = "open"

Tickets(i, states) == {p \in Path : promise[<<i, p>>] \in states}

(* The worker asks for some of the paths it has not asked for yet, and      *)
(* awaits them together.                                                    *)
Ask(i) ==
    /\ phase[i] = "open"
    /\ Tickets(i, {"pending", "rejected", "over"}) = {}
    /\ \E paths \in SUBSET (needs[i] \cap Tickets(i, {"none"})) :
           paths # {} /\ Acquire(i, paths)
    /\ UNCHANGED poolVars

TimerFires(i, p) == Timeout(i, p) /\ UNCHANGED poolVars

HasAll(i) == needs[i] \cap Tickets(i, {"none", "pending", "rejected"}) = {}

(* It is through with one file before the others. *)
LetGo(i, p) ==
    /\ phase[i] = "open" /\ HasAll(i)
    /\ Release(i, p)
    /\ UNCHANGED poolVars

(* The worker returns, or throws. *)
Finish(i) ==
    /\ phase[i] = "open" /\ HasAll(i)
    /\ ReleaseAll(i)
    /\ \E end \in {"done", "failed"} : phase' = [phase EXCEPT ![i] = end]
    /\ UNCHANGED <<needs, at, cursor, failed, outcome>>

(* An acquire was rejected: the worker gives up what it has and throws.     *)
(* Its other pending acquires are dropped with it.                          *)
GiveUp(i) ==
    /\ phase[i] = "open" /\ Tickets(i, {"rejected"}) # {}
    /\ ReleaseAll(i)
    /\ phase' = [phase EXCEPT ![i] = "failed"]
    /\ UNCHANGED <<needs, at, cursor, failed, outcome>>

(* The continuation of a runner: it notes the error, then takes the next    *)
(* item and starts its worker, or leaves.                                   *)
Continue(r) ==
    /\ at[r] # Gone /\ phase[at[r]] \in {"done", "failed"}
    /\ failed' = (failed \/ phase[at[r]] = "failed")
    /\ IF cursor < Items /\ ~failed'
       THEN /\ cursor' = cursor + 1
            /\ at' = [at EXCEPT ![r] = cursor + 1]
            /\ phase' = [phase EXCEPT ![cursor + 1] = "open"]
       ELSE at' = [at EXCEPT ![r] = Gone] /\ UNCHANGED <<cursor, phase>>
    /\ UNCHANGED <<lockVars, needs, outcome>>

(* Promise.all over the runners. *)
Settle ==
    /\ outcome = "open"
    /\ \A r \in Runner : at[r] = Gone
    /\ outcome' = IF failed THEN "rejected" ELSE "resolved"
    /\ UNCHANGED <<lockVars, needs, phase, at, cursor, failed>>

Next ==
    \/ \E i \in Holder : Ask(i) \/ Finish(i) \/ GiveUp(i)
    \/ \E i \in Holder, p \in Path : LetGo(i, p) \/ TimerFires(i, p)
    \/ \E r \in Runner : Continue(r)
    \/ Settle

(* A worker's code runs on, a timer fires, a continuation is scheduled.     *)
Spec ==
    /\ Init /\ [][Next]_vars
    /\ \A i \in Holder : WF_vars(Ask(i)) /\ WF_vars(Finish(i)) /\ WF_vars(GiveUp(i))
    /\ \A i \in Holder, p \in Path : WF_vars(TimerFires(i, p))
    /\ \A r \in Runner : WF_vars(Continue(r))
    /\ WF_vars(Settle)

-----------------------------------------------------------------------------
(* Properties *)

(* What the workers believe is what the table says: the one item whose      *)
(* acquire of a path was resolved and that has not let it go is its holder, *)
(* and it is still at work. So two workers never edit one file, and no lock *)
(* is handed to a worker that has ended and would never give it back.       *)
OneEditor ==
    \A p \in Path :
        /\ {i \in Holder : promise[<<i, p>>] = "resolved"} = {held[p]} \ {Nobody}
        /\ held[p] # Nobody => phase[held[p]] = "open"

(* Nobody waits unseen: the array of a path holds exactly the pending       *)
(* acquires on it, each of a worker that still runs, and only a path that   *)
(* somebody else holds has any. A lock that came free with a waiter left    *)
(* in its array would be a lost wakeup.                                     *)
NoLostWakeup ==
    \A p \in Path :
        /\ queue[p] = {i \in Holder : promise[<<i, p>>] = "pending"}
        /\ \A i \in queue[p] : held[p] \notin {Nobody, i} /\ phase[i] = "open"

(* A lock goes to whoever waited longest: an acquire that is resolved late  *)
(* leaves no earlier one of the same path behind in the array.              *)
ArrivalOrder ==
    [][\A p \in Path : \A i, j \in queue[p] :
          (i \in ahead[<<j, p>>] /\ promise'[<<j, p>>] = "resolved")
          => promise'[<<i, p>>] # "pending"]_vars

(* runPool settles last: no worker is in flight, no lock held and nobody    *)
(* queued; it resolves only if every item was run to its end, and rejects   *)
(* only if one failed.                                                      *)
CleanEnd ==
    outcome # "open" =>
        /\ \A p \in Path : held[p] = Nobody /\ queue[p] = {}
        /\ \A i \in Holder : phase[i] # "open"
        /\ outcome = "resolved" => \A i \in Holder : phase[i] = "done"
        /\ outcome = "rejected" => \E i \in Holder : phase[i] = "failed"

(* Whatever locks the workers take in whatever order, the pool settles: the *)
(* timeouts break every deadlock.                                           *)
PoolSettles == <>(outcome # "open")

=============================================================================
