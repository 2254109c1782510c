---------------------------- MODULE LockManager ----------------------------
(* The work-tree file locks of the orchestrator (lock-manager.ts): one      *)
(* exclusive lock per path, a queue of waiters in the order they arrived,   *)
(* a timer per waiter. A call of acquire returns a promise: the ticket      *)
(* <<holder, path>> stands for it, its state is what the caller can see,    *)
(* and the table (held, queue) is what the manager knows. A waiter array is *)
(* a set of holders, with those that stand ahead of each.                   *)
EXTENDS Integers

CONSTANTS Holder,  \* who takes locks
          Path,    \* file paths
          Nobody   \* no lock state for the path: it is free

ASSUME NobodyAssumption == Nobody \notin Holder

Ticket == Holder \X Path

VARIABLES
    held,     \* path -> the holder, or Nobody when the map has no entry
    queue,    \* path -> the holders in the waiter array
    ahead,    \* ticket -> those in front of it in the array it waits in
    promise   \* ticket -> "none", "pending", "resolved", "rejected", or
              \*           "over": let go by its caller, or dropped unsettled

lockVars == <<held, queue, ahead, promise>>

LockTypeOK ==
    /\ held \in [Path -> Holder \cup {Nobody}]
    /\ queue \in [Path -> SUBSET Holder]
    /\ ahead \in [Ticket -> SUBSET Holder]
    /\ promise \in [Ticket -> {"none", "pending", "resolved", "rejected", "over"}]

LockInit ==
    /\ held = [p \in Path |-> Nobody]
    /\ queue = [p \in Path |-> {}]
    /\ ahead = [t \in Ticket |-> {}]
    /\ promise = [t \in Ticket |-> "none"]

(* Those who leave an array no longer stand ahead of anyone. *)
KeepOrder == ahead' = [t \in Ticket |-> IF t[1] \in queue'[t[2]]
                                        THEN ahead[t] \cap queue'[t[2]] ELSE {}]

(* A free path, or one h holds already, is granted at once. *)
Granted(h, p) == held[p] \in {Nobody, h}

(* h calls acquire on every path of paths in one synchronous stretch. *)
Acquire(h, paths) ==
    /\ held' = [p \in Path |-> IF p \in paths /\ held[p] = Nobody THEN h ELSE held[p]]
    /\ queue' = [p \in Path |-> IF p \in paths /\ ~Granted(h, p) THEN queue[p] \cup {h}
                                                                 ELSE queue[p]]
    /\ ahead' = [t \in Ticket |-> IF t[1] = h /\ t[2] \in paths /\ ~Granted(h, t[2])
                                   THEN queue[t[2]] ELSE ahead[t]]
    /\ promise' = [t \in Ticket |-> IF t[1] # h \/ t[2] \notin paths THEN promise[t]
                                    ELSE IF Granted(h, t[2]) THEN "resolved" ELSE "pending"]

(* Mutant of Timeout: the waiter is removed but its promise not rejected. *)
TimeoutMute(h, p) ==
    /\ h \in queue[p]
    /\ queue' = [queue EXCEPT ![p] = @ \ {h}]
    /\ KeepOrder
    /\ UNCHANGED <<held, promise>>

(* A waiter's timer fires: it leaves the array and its promise rejects. *)
Timeout(h, p) ==
    /\ h \in queue[p]
    /\ queue' = [queue EXCEPT ![p] = @ \ {h}]
    /\ KeepOrder
    /\ promise' = [promise EXCEPT ![<<h, p>>] = "rejected"]
    /\ UNCHANGED held

(* Mutant of IsNext: pop in place of shift. *)
IsNextLast(n, p, waiting) == IF waiting[p] = {} THEN n = Nobody
                             ELSE n \in waiting[p] /\ ahead[<<n, p>>] = waiting[p] \ {n}

(* waiters.shift(): nobody, or the waiter with none of the others ahead. *)
IsNext(n, p, waiting) == IF waiting[p] = {} THEN n = Nobody
                        ELSE n \in waiting[p] /\ ahead[<<n, p>>] \cap waiting[p] = {}

(* Mutant of HandOver: the lock is deleted whoever waits for it. *)
HandOverDeletes(h, mine, waiting) ==
    /\ held' = [p \in Path |-> IF p \in mine THEN Nobody ELSE held[p]]
    /\ queue' = waiting
    /\ KeepOrder
    /\ promise' = [t \in Ticket |->
           IF t[1] = h /\ (t[2] \in mine \/ h \in queue[t[2]] \ waiting[t[2]])
           THEN "over" ELSE promise[t]]

(* release of the paths of mine (h holds them) when the arrays are waiting: *)
(* each next waiter takes the lock over and its promise resolves.           *)
HandOver(h, mine, waiting) ==
    \E next \in [Path -> Holder \cup {Nobody}] :
        /\ \A p \in Path : IF p \in mine THEN IsNext(next[p], p, waiting) ELSE next[p] = Nobody
        /\ held' = [p \in Path |-> IF p \in mine THEN next[p] ELSE held[p]]
        /\ queue' = [p \in Path |-> waiting[p] \ {next[p]}]
        /\ KeepOrder
        /\ promise' = [t \in Ticket |->
               IF t[1] = next[t[2]] THEN "resolved"
               ELSE IF t[1] = h /\ (t[2] \in mine \/ h \in queue[t[2]] \ waiting[t[2]])
                    THEN "over" ELSE promise[t]]

(* release: ignored unless h is the holder. *)
Release(h, p) == held[p] = h /\ HandOver(h, {p}, queue)

(* Mutant of WithoutHolder: the filter is forgotten. *)
WithoutHolderKept(h) == queue

(* releaseAll: h leaves every waiter array, its promises there are never    *)
(* settled, and every lock it holds is handed over.                         *)
WithoutHolder(h) == [p \in Path |-> queue[p] \ {h}]

ReleaseAll(h) == HandOver(h, {p \in Path : held[p] = h}, WithoutHolder(h))
=============================================================================
