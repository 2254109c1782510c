--------------------------- MODULE StartupRecovery ---------------------------
(***************************************************************************)
(* Several processes (desktop windows, terminal sessions) on one database. *)
(* Each drives the runs it started or continued; each, when it starts,     *)
(* closes the runs that dead processes left open.  The start-up reads the  *)
(* open runs once and then takes one transaction per run, so the other     *)
(* processes' writes come in between.                                      *)
(*                                                                         *)
(* A loop is here what it writes to its run's row; module AgentService has *)
(* its steps.                                                              *)
(***************************************************************************)
EXTENDS RunLifecycle, Naturals, FiniteSets

CONSTANTS
  Runs,
  Processes,         \* the processes that may start, each once
  Pids, NoPid,       \* what the system gives a process as its identifier
  ReusePids,         \* may a process get the identifier of a dead one?
  ContinueElsewhere  \* may a user continue a run in a process that did not create it?

ASSUME ConstantsAssumption ==
  /\ NoPid \notin Pids
  /\ ReusePids \in BOOLEAN
  /\ ContinueElsewhere \in BOOLEAN

VARIABLES
  row,       \* agent_runs: status, owner, whether a conversation is stored, and whether
             \* the last write is older than the grace period
  proc,      \* each process: its phase, its pid, the start-up's candidates,
             \* and (history) the runs of dead owners it found open
  driving,   \* the runs each process has a live loop for
  audits,    \* the "interrupted" steps of each run
  abandoned  \* history: how often a process died and left the run open

vars == <<row, proc, driving, audits, abandoned>>

Phases == {"off", "starting", "up", "dead"}

IsOpen(w) == w.status \in RunStates \ Terminal

HasRow(r) == row[r].status \in RunStates

Alive(p) == proc[p].phase \in {"starting", "up"}

\* isProcessAlive: some process has the identifier, whichever it is.
IsAlive(pid) == \E p \in Processes : Alive(p) /\ proc[p].pid = pid

Driven(r) == \E p \in Processes : r \in driving[p]

\* A write to the status refreshes updated_at.
Written(w, status) == [w EXCEPT !.status = status, !.aged = FALSE]

-----------------------------------------------------------------------------
(***************************************************************************)
(* Start-up                                                                *)
(***************************************************************************)

\* Nobody alive has or drives the run.
Left(r) ==
  /\ IsOpen(row[r]) /\ row[r].owner # NoPid /\ ~Driven(r)
  /\ \A q \in Processes : proc[q].pid = row[r].owner => ~Alive(q)

\* The open runs, with the row as the query found it.
Start(p, pid) ==
  /\ proc[p].phase = "off"
  /\ ~IsAlive(pid)
  /\ ReusePids \/ \A q \in Processes : proc[q].pid # pid
  /\ proc' = [proc EXCEPT ![p] =
       [phase |-> "starting", pid |-> pid,
        candidates |-> [r \in {r \in Runs : IsOpen(row[r])} |->
                         [owner |-> row[r].owner, aged |-> row[r].aged]],
        found |-> {r \in Runs : Left(r)}]]
  /\ UNCHANGED <<row, driving, audits, abandoned>>

\* Mutant: only the process itself counts as alive.
SparedOwnOnly(p, candidate) ==
  IF candidate.owner # NoPid THEN candidate.owner = proc[p].pid ELSE ~candidate.aged

\* Mutant: the grace period protects every run.
SparedYoung(p, candidate) ==
  candidate.owner = proc[p].pid \/ IsAlive(candidate.owner) \/ ~candidate.aged

\* The owner and the age are those the query found.
Spared(p, candidate) ==
  IF candidate.owner # NoPid
  THEN candidate.owner = proc[p].pid \/ IsAlive(candidate.owner)
  ELSE ~candidate.aged

Remaining(p, r) ==
  LET candidates == proc[p].candidates
  IN [q \in DOMAIN candidates \ {r} |-> candidates[q]]

Taken(p, r) == proc' = [proc EXCEPT ![p] = [@ EXCEPT !.candidates = Remaining(p, r)]]

Spare(p, r) ==
  /\ proc[p].phase = "starting" /\ r \in DOMAIN proc[p].candidates
  /\ Spared(p, proc[p].candidates[r])
  /\ Taken(p, r)
  /\ UNCHANGED <<row, driving, audits, abandoned>>

\* Mutant: the row is written without reading its status again.
RecoverUnread(p, r) ==
  /\ proc[p].phase = "starting" /\ r \in DOMAIN proc[p].candidates
  /\ ~Spared(p, proc[p].candidates[r])
  /\ HasRow(r)
  /\ row' = [row EXCEPT ![r] = Written(@, "failed")]
  /\ audits' = [audits EXCEPT ![r] = @ + 1]
  /\ Taken(p, r)
  /\ UNCHANGED <<driving, abandoned>>

\* The transaction reads the status again: a run that is gone or closed by now
\* is left alone.
Recover(p, r) ==
  /\ proc[p].phase = "starting" /\ r \in DOMAIN proc[p].candidates
  /\ ~Spared(p, proc[p].candidates[r])
  /\ IF IsOpen(row[r])
     THEN /\ row' = [row EXCEPT ![r] = Written(@, "failed")]
          /\ audits' = [audits EXCEPT ![r] = @ + 1]
     ELSE UNCHANGED <<row, audits>>
  /\ Taken(p, r)
  /\ UNCHANGED <<driving, abandoned>>

StartDone(p) ==
  /\ proc[p].phase = "starting" /\ DOMAIN proc[p].candidates = {}
  /\ proc' = [proc EXCEPT ![p] = [@ EXCEPT !.phase = "up"]]
  /\ UNCHANGED <<row, driving, audits, abandoned>>

NoCandidates == [r \in {} |-> NoPid]

\* A process dies, or throws out of its start-up (a transaction that finds the
\* database changed under it does).
Die(p) ==
  /\ Alive(p)
  /\ proc' = [proc EXCEPT ![p] = [@ EXCEPT !.phase = "dead", !.candidates = NoCandidates]]
  /\ driving' = [driving EXCEPT ![p] = {}]
  /\ abandoned' = [r \in Runs |->
       IF r \in driving[p] /\ IsOpen(row[r]) THEN abandoned[r] + 1 ELSE abandoned[r]]
  /\ UNCHANGED <<row, audits>>

-----------------------------------------------------------------------------
(***************************************************************************)
(* What the service of a process writes                                    *)
(***************************************************************************)

RunTask(p, r) ==
  /\ proc[p].phase = "up" /\ row[r].status = "fresh"
  /\ row' = [row EXCEPT ![r] = [Written(@, "tool_use") EXCEPT !.owner = proc[p].pid]]
  /\ driving' = [driving EXCEPT ![p] = @ \cup {r}]
  /\ UNCHANGED <<proc, audits, abandoned>>

\* Only this process's controllers are consulted, and the owner stays.
ContinueTask(p, r) ==
  /\ proc[p].phase = "up" /\ HasRow(r) /\ r \notin driving[p] /\ row[r].messages
  /\ ContinueElsewhere \/ row[r].owner = proc[p].pid
  /\ row' = [row EXCEPT ![r] = Written(@, "tool_use")]
  /\ driving' = [driving EXCEPT ![p] = @ \cup {r}]
  /\ UNCHANGED <<proc, audits, abandoned>>

\* A turn of the loop, a question to the user: what the lifecycle refuses is
\* not written.  A run without a row is driven to its end all the same.
LoopWrites(p, r) ==
  /\ r \in driving[p] /\ HasRow(r)
  /\ \E status \in {"tool_use", "waiting_for_user_approval"} :
       /\ CanTransition(row[r].status, status)
       /\ row' = [row EXCEPT ![r] = Written(@, status)]
  /\ UNCHANGED <<proc, driving, audits, abandoned>>

\* The conversation is saved whatever the status; failRun follows
\* a refused status.
LoopEnds(p, r) ==
  /\ r \in driving[p]
  /\ \E status \in {"done", "failed"} :
       row' = IF ~HasRow(r) THEN row
              ELSE [row EXCEPT ![r] =
                LET saved == [@ EXCEPT !.messages = TRUE]
                IN IF CanTransition(saved.status, status) THEN Written(saved, status)
                   ELSE IF IsOpen(saved) THEN Written(saved, "failed") ELSE saved]
  /\ driving' = [driving EXCEPT ![p] = @ \ {r}]
  /\ UNCHANGED <<proc, audits, abandoned>>

\* Rejecting a run that waits in another process: nothing here waits for an
\* answer, so the record is closed.
RejectPatch(p, r) ==
  /\ proc[p].phase = "up" /\ row[r].status = "waiting_for_user_approval"
  /\ r \notin driving[p]
  /\ row' = [row EXCEPT ![r] = Written(@, "cancelled")]
  /\ UNCHANGED <<proc, driving, audits, abandoned>>

\* Every run of the workspace is deleted, whoever drives it.
ClearRuns(p) ==
  /\ proc[p].phase = "up" /\ \E r \in Runs : HasRow(r)
  /\ row' = [r \in Runs |-> IF HasRow(r) THEN [row[r] EXCEPT !.status = "deleted"] ELSE row[r]]
  /\ UNCHANGED <<proc, driving, audits, abandoned>>

\* Half a minute passes without a write to the run.
Age(r) ==
  /\ HasRow(r) /\ ~row[r].aged
  /\ row' = [row EXCEPT ![r] = [@ EXCEPT !.aged = TRUE]]
  /\ UNCHANGED <<proc, driving, audits, abandoned>>

-----------------------------------------------------------------------------
Fresh == [status |-> "fresh", owner |-> NoPid, messages |-> FALSE, aged |-> FALSE]

\* A run that a version without owners left open.
Legacy == [Fresh EXCEPT !.status = "tool_use"]

NotStarted == [phase |-> "off", pid |-> NoPid, candidates |-> NoCandidates, found |-> {}]

Init ==
  /\ row \in [Runs -> {Fresh, Legacy}]
  /\ proc = [p \in Processes |-> NotStarted]
  /\ driving = [p \in Processes |-> {}]
  /\ audits = [r \in Runs |-> 0]
  /\ abandoned = [r \in Runs |-> IF row[r] = Legacy THEN 1 ELSE 0]

StartUp(p) ==
  \/ \E pid \in Pids : Start(p, pid)
  \/ \E r \in Runs : Spare(p, r) \/ Recover(p, r)
  \/ StartDone(p)

Service(p) ==
  \/ \E r \in Runs : \/ RunTask(p, r) \/ ContinueTask(p, r)
                     \/ LoopWrites(p, r) \/ LoopEnds(p, r) \/ RejectPatch(p, r)
  \/ ClearRuns(p)

Next == (\E p \in Processes : StartUp(p) \/ Service(p) \/ Die(p)) \/ \E r \in Runs : Age(r)

Spec == Init /\ [][Next]_vars

-----------------------------------------------------------------------------
(***************************************************************************)
(* Properties                                                              *)
(***************************************************************************)

Rows == [status : RunStates \cup {"fresh", "deleted"}, owner : Pids \cup {NoPid},
         messages : BOOLEAN, aged : BOOLEAN]

Candidate == [owner : Pids \cup {NoPid}, aged : BOOLEAN]

CandidateSets == UNION {[runs -> Candidate] : runs \in SUBSET Runs}

Procs ==
  [phase : Phases, pid : Pids \cup {NoPid}, candidates : CandidateSets, found : SUBSET Runs]

\* Every variable holds a value of its type, and only a process that is up
\* drives runs.
TypeOK ==
  /\ row \in [Runs -> Rows]
  /\ proc \in [Processes -> Procs]
  /\ driving \in [Processes -> SUBSET Runs]
  /\ \A p \in Processes : driving[p] # {} => proc[p].phase = "up"
  /\ audits \in [Runs -> Nat]
  /\ abandoned \in [Runs -> Nat]

\* "Runs abandoned by dead owner processes": no start-up closes a run that a
\* live process drives, however the starts and the deaths interleave.
DrivenRunsAreSpared ==
  [][\A r \in Runs : audits'[r] # audits[r] => ~Driven(r)]_vars

\* "Exactly once": two processes that start together, or one that starts again
\* after a crash in its start-up, mark an abandoned run once.
MarkedOnce == \A r \in Runs : audits[r] <= abandoned[r]

\* When a start-up ends, none of the runs that dead owners had left open when
\* it began is open any more.
StartClosesAbandoned ==
  \A p \in Processes : proc[p].phase = "up" => \A r \in proc[p].found : ~IsOpen(row[r])

=============================================================================
