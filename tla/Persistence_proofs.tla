------------------------ MODULE Persistence_proofs ------------------------
(***************************************************************************)
(* Proofs about what the processes leave on disk, for any number of them:  *)
(*                                                                         *)
(*   StartupRecovery: as long as identifiers are not reused and a run      *)
(*   stays in the process that created it, the owner of a row tells who    *)
(*   drives it.                                                            *)
(*                                                                         *)
(*   SessionBridge: what torn appends, a second writer and restarts can    *)
(*   cost a conversation, and that /tree draws whatever reads back.        *)
(***************************************************************************)
EXTENDS StartupRecovery, SessionBridge, TLAPS,
        FiniteSetTheorems, SequenceTheorems, WellFoundedInduction


-----------------------------------------------------------------------------
(***************************************************************************)
(* Types                                                                   *)
(***************************************************************************)

LEMMA WrittenType ==
  ASSUME NEW w \in Rows, NEW status \in RunStates
  PROVE  Written(w, status) \in Rows
BY DEF Written, Rows

LEMMA CandidateSetsType ==
  ASSUME NEW taken \in SUBSET Runs, NEW f \in [taken -> Candidate]
  PROVE  f \in CandidateSets
BY DEF CandidateSets

LEMMA CandidateSetsHave ==
  ASSUME NEW f \in CandidateSets
  PROVE  /\ DOMAIN f \subseteq Runs
         /\ \A r \in DOMAIN f : f[r] \in Candidate
BY DEF CandidateSets

\* A candidate is taken: nothing else of any process changes.
LEMMA TakenIs ==
  ASSUME TypeOK, NEW p \in Processes, NEW r, Taken(p, r)
  PROVE  /\ proc' \in [Processes -> Procs]
         /\ proc'[p] = [proc[p] EXCEPT !.candidates = Remaining(p, r)]
         /\ \A q \in Processes \ {p} : proc'[q] = proc[q]
         /\ \A q \in Processes : /\ proc'[q].phase = proc[q].phase
                                 /\ proc'[q].pid = proc[q].pid
                                 /\ proc'[q].found = proc[q].found
         /\ DOMAIN proc'[p].candidates = DOMAIN proc[p].candidates \ {r}
         /\ \A s \in DOMAIN proc'[p].candidates :
               proc'[p].candidates[s] = proc[p].candidates[s]
<1>1. proc[p] \in Procs /\ proc[p].candidates \in CandidateSets
  BY DEF TypeOK, Procs
<1>2. Remaining(p, r) \in CandidateSets
  <2>1. Remaining(p, r) \in [DOMAIN proc[p].candidates \ {r} -> Candidate]
    BY <1>1, CandidateSetsHave DEF Remaining
  <2>. QED  BY <2>1, <1>1, CandidateSetsHave, CandidateSetsType
<1>3. proc' = [proc EXCEPT ![p] = [proc[p] EXCEPT !.candidates = Remaining(p, r)]]
  BY DEF Taken
<1>4. [proc[p] EXCEPT !.candidates = Remaining(p, r)] \in Procs
  BY <1>1, <1>2 DEF Procs
<1>5. /\ proc'[p] = [proc[p] EXCEPT !.candidates = Remaining(p, r)]
      /\ \A q \in Processes \ {p} : proc'[q] = proc[q]
      /\ proc' \in [Processes -> Procs]
  BY <1>3, <1>4 DEF TypeOK
<1>6. proc'[p].candidates = Remaining(p, r)
  BY <1>5, <1>1 DEF Procs
<1>7. /\ DOMAIN proc'[p].candidates = DOMAIN proc[p].candidates \ {r}
      /\ \A s \in DOMAIN proc'[p].candidates : proc'[p].candidates[s] = proc[p].candidates[s]
  BY <1>6 DEF Remaining
<1>8. /\ proc'[p].phase = proc[p].phase
      /\ proc'[p].pid = proc[p].pid
      /\ proc'[p].found = proc[p].found
  BY <1>5, <1>1 DEF Procs
<1>. QED  BY <1>5, <1>7, <1>8

LEMMA StartUpType ==
  ASSUME TypeOK, NEW p \in Processes, StartUp(p)
  PROVE  TypeOK'
<1>1. CASE \E pid \in Pids : Start(p, pid)
  <2>1. PICK pid \in Pids : Start(p, pid)
    BY <1>1
  <2>. DEFINE open == {r \in Runs : IsOpen(row[r])}
              query == [r \in open |-> [owner |-> row[r].owner, aged |-> row[r].aged]]
              started == [phase |-> "starting", pid |-> pid, candidates |-> query,
                          found |-> {r \in Runs : Left(r)}]
  <2>2. query \in [open -> Candidate]
    BY DEF TypeOK, Rows, Candidate
  <2>3. query \in CandidateSets
    BY <2>2, CandidateSetsType
  <2>4. started \in Procs
    BY <2>3 DEF Procs, Phases
  <2>5. proc' = [proc EXCEPT ![p] = started]
    BY <2>1 DEF Start
  <2>6. proc' \in [Processes -> Procs]
    BY <2>4, <2>5 DEF TypeOK
  <2>7. driving[p] = {}
    BY <2>1 DEF Start, TypeOK
  <2>8. \A q \in Processes : driving[q] # {} => proc'[q] = proc[q]
    BY <2>5, <2>7 DEF TypeOK
  <2>. QED  BY <2>1, <2>6, <2>8 DEF Start, TypeOK
<1>2. CASE \E r \in Runs : Spare(p, r)
  BY <1>2, TakenIs DEF Spare, TypeOK
<1>3. CASE \E r \in Runs : Recover(p, r)
  <2>1. PICK r \in Runs : Recover(p, r)
    BY <1>3
  <2>2. row' \in [Runs -> Rows] /\ audits' \in [Runs -> Nat]
    BY <2>1, WrittenType DEF Recover, TypeOK, RunStates
  <2>. QED  BY <2>1, <2>2, TakenIs DEF Recover, TypeOK
<1>4. CASE StartDone(p)
  <2>1. proc'[p] = [proc[p] EXCEPT !.phase = "up"] /\ proc' \in [Processes -> Procs]
    BY <1>4 DEF StartDone, TypeOK, Procs, Phases
  <2>2. \A q \in Processes \ {p} : proc'[q] = proc[q]
    BY <1>4 DEF StartDone, TypeOK
  <2>3. proc'[p].phase = "up"
    BY <2>1 DEF TypeOK, Procs
  <2>. QED  BY <1>4, <2>1, <2>2, <2>3 DEF StartDone, TypeOK
<1>. QED  BY <1>1, <1>2, <1>3, <1>4 DEF StartUp

LEMMA ServiceType ==
  ASSUME TypeOK, NEW p \in Processes, Service(p)
  PROVE  TypeOK'
<1>1. ASSUME NEW r \in Runs, RunTask(p, r) PROVE TypeOK'
  <2>1. [Written(row[r], "tool_use") EXCEPT !.owner = proc[p].pid] \in Rows
    BY WrittenType DEF TypeOK, Rows, Procs, RunStates
  <2>. QED  BY <1>1, <2>1 DEF RunTask, TypeOK
<1>2. ASSUME NEW r \in Runs, ContinueTask(p, r) PROVE TypeOK'
  BY <1>2, WrittenType DEF ContinueTask, TypeOK, RunStates
<1>3. ASSUME NEW r \in Runs, LoopWrites(p, r) PROVE TypeOK'
  BY <1>3, WrittenType DEF LoopWrites, TypeOK, RunStates
<1>4. ASSUME NEW r \in Runs, LoopEnds(p, r) PROVE TypeOK'
  <2>. DEFINE saved == [row[r] EXCEPT !.messages = TRUE]
  <2>1. saved \in Rows
    BY DEF TypeOK, Rows
  <2>2. row' \in [Runs -> Rows]
    BY <1>4, <2>1, WrittenType DEF LoopEnds, TypeOK, RunStates
  <2>. QED  BY <1>4, <2>2 DEF LoopEnds, TypeOK
<1>5. ASSUME NEW r \in Runs, RejectPatch(p, r) PROVE TypeOK'
  BY <1>5, WrittenType DEF RejectPatch, TypeOK, RunStates
<1>6. CASE ClearRuns(p)
  <2>1. \A r \in Runs : [row[r] EXCEPT !.status = "deleted"] \in Rows
    BY DEF TypeOK, Rows
  <2>. QED  BY <1>6, <2>1 DEF ClearRuns, TypeOK
<1>. QED  BY <1>1, <1>2, <1>3, <1>4, <1>5, <1>6 DEF Service

LEMMA NoCandidatesType == NoCandidates \in CandidateSets
<1>1. NoCandidates \in [{} -> Candidate]
  BY DEF NoCandidates
<1>. QED  BY <1>1, CandidateSetsType

LEMMA DieType ==
  ASSUME TypeOK, NEW p \in Processes, Die(p)
  PROVE  TypeOK'
<1>1. proc' = [proc EXCEPT ![p] = [proc[p] EXCEPT !.phase = "dead", !.candidates = NoCandidates]]
  BY DEF Die
<1>2. [proc[p] EXCEPT !.phase = "dead", !.candidates = NoCandidates] \in Procs
  BY NoCandidatesType DEF TypeOK, Procs, Phases
<1>3. proc' \in [Processes -> Procs] /\ \A q \in Processes \ {p} : proc'[q] = proc[q]
  BY <1>1, <1>2 DEF TypeOK
<1>4. driving' \in [Processes -> SUBSET Runs]
  BY DEF Die, TypeOK
<1>5. \A q \in Processes : driving'[q] # {} => proc'[q].phase = "up"
  BY <1>3 DEF Die, TypeOK
<1>6. abandoned' \in [Runs -> Nat]
  BY DEF Die, TypeOK
<1>. QED  BY <1>3, <1>4, <1>5, <1>6 DEF Die, TypeOK

LEMMA InitType == Init => TypeOK
<1>1. Fresh \in Rows /\ Legacy \in Rows
  BY DEF Fresh, Legacy, Rows, RunStates
<1>2. NotStarted \in Procs
  BY NoCandidatesType DEF NotStarted, Procs, Phases
<1>. QED  BY <1>1, <1>2 DEF Init, TypeOK

LEMMA NextType ==
  ASSUME TypeOK, [Next]_vars
  PROVE  TypeOK'
<1>1. CASE \E r \in Runs : Age(r)
  <2>1. \A r \in Runs : [row[r] EXCEPT !.aged = TRUE] \in Rows
    BY DEF TypeOK, Rows
  <2>. QED  BY <1>1, <2>1 DEF Age, TypeOK
<1>2. CASE UNCHANGED vars
  BY <1>2 DEF vars, TypeOK
<1>. QED  BY <1>1, <1>2, StartUpType, ServiceType, DieType DEF Next

\* Every reachable state is well typed, and only a process that is up drives runs.
THEOREM TypeCorrect == Spec => []TypeOK
<1>1. Init => TypeOK
  BY InitType
<1>2. TypeOK /\ [Next]_vars => TypeOK'
  BY NextType
<1>. QED  BY <1>1, <1>2, PTL DEF Spec

-----------------------------------------------------------------------------
(***************************************************************************)
(* Owners.  A pid names one process for ever, so the owner of a row, which *)
(* only its creation writes, names the one process that may drive it; and  *)
(* what a start-up read of the owner stays true.                           *)
(***************************************************************************)

PidInv ==
  /\ \A p \in Processes : proc[p].phase = "off" <=> proc[p].pid = NoPid
  /\ \A p, q \in Processes : proc[p].pid = proc[q].pid /\ proc[p].pid # NoPid => p = q

OwnedRun(r) ==
  /\ row[r].owner # NoPid => \E p \in Processes : proc[p].pid = row[r].owner
  /\ \A p \in Processes :
       /\ r \in driving[p] => row[r].owner = proc[p].pid /\ row[r].status # "fresh"
       /\ r \in DOMAIN proc[p].candidates =>
            /\ proc[p].candidates[r].owner = row[r].owner
            /\ row[r].status # "fresh"

OwnerInv == PidInv /\ \A r \in Runs : OwnedRun(r)

KeepsOwner(r) ==
  /\ row'[r].owner = row[r].owner
  /\ row[r].status # "fresh" => row'[r].status # "fresh"

\* A row keeps its owner, whatever happens but its creation.
LEMMA OwnerIsKept ==
  ASSUME TypeOK, [Next]_vars, NEW r \in Runs, ~ \E p \in Processes : RunTask(p, r)
  PROVE  KeepsOwner(r)
<1>. row \in [Runs -> Rows]
  BY DEF TypeOK
<1>1. ASSUME NEW p \in Processes, StartUp(p) PROVE KeepsOwner(r)
  <2>1. ASSUME NEW s \in Runs, Recover(p, s) PROVE KeepsOwner(r)
    <3>1. CASE IsOpen(row[s])
      <4>1. row' = [row EXCEPT ![s] = Written(row[s], "failed")]
        BY <2>1, <3>1 DEF Recover
      <4>. QED  BY <4>1 DEF Written, Rows, KeepsOwner
    <3>2. CASE ~IsOpen(row[s])
      BY <2>1, <3>2 DEF Recover, KeepsOwner
    <3>. QED  BY <3>1, <3>2
  <2>. QED  BY <1>1, <2>1 DEF StartUp, Start, Spare, StartDone, KeepsOwner
<1>2. ASSUME NEW p \in Processes, Service(p) PROVE KeepsOwner(r)
  <2>1. ASSUME NEW s \in Runs, RunTask(p, s) PROVE KeepsOwner(r)
    BY <2>1 DEF RunTask, KeepsOwner, TypeOK
  <2>2. ASSUME NEW s \in Runs, ContinueTask(p, s) PROVE KeepsOwner(r)
    BY <2>2 DEF ContinueTask, Written, Rows, KeepsOwner
  <2>3. ASSUME NEW s \in Runs, LoopWrites(p, s) PROVE KeepsOwner(r)
    BY <2>3 DEF LoopWrites, Written, Rows, KeepsOwner
  <2>4. ASSUME NEW s \in Runs, LoopEnds(p, s) PROVE KeepsOwner(r)
    BY <2>4 DEF LoopEnds, Written, Rows, KeepsOwner
  <2>5. ASSUME NEW s \in Runs, RejectPatch(p, s) PROVE KeepsOwner(r)
    BY <2>5 DEF RejectPatch, Written, Rows, KeepsOwner
  <2>6. CASE ClearRuns(p)
    BY <2>6 DEF ClearRuns, Rows, KeepsOwner
  <2>. QED  BY <1>2, <2>1, <2>2, <2>3, <2>4, <2>5, <2>6 DEF Service
<1>3. ASSUME NEW p \in Processes, Die(p) PROVE KeepsOwner(r)
  BY <1>3 DEF Die, KeepsOwner
<1>4. CASE \E s \in Runs : Age(s)
  BY <1>4 DEF Age, Rows, KeepsOwner
<1>5. CASE UNCHANGED vars
  BY <1>5 DEF vars, KeepsOwner
<1>. QED  BY <1>1, <1>2, <1>3, <1>4, <1>5 DEF Next

\* A process keeps its pid and what it read when it started.
KeepsReads(p) ==
  /\ \/ proc'[p].phase = proc[p].phase
     \/ Alive(p) /\ proc'[p].phase \in {"up", "dead"}
  /\ proc'[p].pid = proc[p].pid
  /\ proc'[p].found = proc[p].found
  /\ DOMAIN proc'[p].candidates \subseteq DOMAIN proc[p].candidates
  /\ \A r \in DOMAIN proc'[p].candidates : proc'[p].candidates[r] = proc[p].candidates[r]

LEMMA SameProcess ==
  ASSUME NEW p, proc'[p] = proc[p]
  PROVE  KeepsReads(p)
BY DEF KeepsReads

LEMMA ReadsAreKept ==
  ASSUME TypeOK, [Next]_vars, NEW p \in Processes, ~ \E pid \in Pids : Start(p, pid)
  PROVE  KeepsReads(p)
<1>1. proc[p] \in Procs
  BY DEF TypeOK
<1>2. ASSUME NEW q \in Processes, StartUp(q) PROVE KeepsReads(p)
  <2>1. ASSUME NEW pid \in Pids, Start(q, pid) PROVE KeepsReads(p)
    <3>1. q # p
      BY <2>1
    <3>. QED  BY <3>1, <2>1, SameProcess DEF Start, TypeOK
  <2>2. ASSUME NEW r \in Runs, Taken(q, r) PROVE KeepsReads(p)
    <3>1. CASE p = q
      BY <2>2, <3>1, TakenIs DEF KeepsReads
    <3>2. CASE p # q
      BY <2>2, <3>2, TakenIs, SameProcess
    <3>. QED  BY <3>1, <3>2
  <2>3. CASE StartDone(q)
    <3>1. CASE p = q
      BY <2>3, <3>1, <1>1 DEF StartDone, TypeOK, Procs, KeepsReads, Alive
    <3>2. CASE p # q
      BY <2>3, <3>2, SameProcess DEF StartDone, TypeOK
    <3>. QED  BY <3>1, <3>2
  <2>. QED  BY <1>2, <2>1, <2>2, <2>3 DEF StartUp, Spare, Recover
<1>3. ASSUME NEW q \in Processes, Die(q) PROVE KeepsReads(p)
  <2>1. CASE p = q
    <3>1. proc'[p] = [proc[p] EXCEPT !.phase = "dead", !.candidates = NoCandidates]
      BY <1>3, <2>1 DEF Die, TypeOK
    <3>2. /\ proc'[p].phase = "dead" /\ proc'[p].pid = proc[p].pid
          /\ proc'[p].found = proc[p].found /\ proc'[p].candidates = NoCandidates
      BY <3>1, <1>1 DEF Procs
    <3>3. DOMAIN NoCandidates = {}
      BY DEF NoCandidates
    <3>. QED  BY <1>3, <2>1, <3>2, <3>3 DEF Die, KeepsReads
  <2>2. CASE p # q
    BY <1>3, <2>2, SameProcess DEF Die, TypeOK
  <2>. QED  BY <2>1, <2>2
<1>4. ASSUME UNCHANGED proc PROVE KeepsReads(p)
  BY <1>4, SameProcess
<1>5. ASSUME NEW q \in Processes, Service(q) PROVE UNCHANGED proc
  BY <1>5 DEF Service, RunTask, ContinueTask, LoopWrites, LoopEnds, RejectPatch, ClearRuns
<1>. QED  BY <1>2, <1>3, <1>4, <1>5 DEF Next, Age, vars

LEMMA PidStep ==
  ASSUME TypeOK, PidInv, [Next]_vars, ~ReusePids
  PROVE  PidInv'
<1>1. CASE \E q \in Processes, pid \in Pids : Start(q, pid)
  <2>1. PICK q \in Processes, pid \in Pids : Start(q, pid)
    BY <1>1
  <2>2. /\ proc'[q].phase = "starting" /\ proc'[q].pid = pid
        /\ \A p \in Processes \ {q} : proc'[p] = proc[p]
        /\ \A p \in Processes : proc[p].pid # pid
    BY <2>1 DEF Start, TypeOK
  <2>. QED  BY <2>2, ConstantsAssumption DEF PidInv
<1>2. CASE ~ \E q \in Processes, pid \in Pids : Start(q, pid)
  <2>1. \A p \in Processes : KeepsReads(p)
    BY <1>2, ReadsAreKept
  <2>. QED  BY <2>1 DEF PidInv, KeepsReads, Alive
<1>. QED  BY <1>1, <1>2

\* The process that a pid named, if it is gone, is gone for good.
LEMMA DeadStaysDead ==
  ASSUME TypeOK, PidInv, [Next]_vars, ~ReusePids, NEW pid, pid # NoPid,
         \E p \in Processes : proc[p].pid = pid
  PROVE  /\ \E p \in Processes : proc'[p].pid = pid
         /\ ~IsAlive(pid) => ~IsAlive(pid)'
<1>1. ASSUME NEW p \in Processes, proc[p].pid # NoPid PROVE KeepsReads(p)
  BY <1>1, ReadsAreKept DEF Start, PidInv
<1>2. ASSUME NEW p \in Processes, NEW new \in Pids, Start(p, new) PROVE proc'[p].pid # pid
  BY <1>2 DEF Start, TypeOK
<1>3. \A p \in Processes : proc'[p].pid = pid => KeepsReads(p)
  BY <1>2, ReadsAreKept
<1>. QED  BY <1>1, <1>3 DEF KeepsReads, IsAlive, Alive

LEMMA OwnerStep ==
  ASSUME TypeOK, OwnerInv, [Next]_vars, ~ReusePids, ~ContinueElsewhere
  PROVE  OwnerInv'
<1>1. PidInv'
  BY PidStep DEF OwnerInv
<1>2. SUFFICES ASSUME NEW r \in Runs PROVE OwnedRun(r)'
  BY <1>1 DEF OwnerInv
<1>3. PidInv /\ OwnedRun(r) /\ row[r] \in Rows
  BY DEF OwnerInv, TypeOK
\* The parts of OwnedRun, first for a row that is not being created.
<1>4. ASSUME NEW p \in Processes, r \in DOMAIN proc'[p].candidates
      PROVE  proc'[p].candidates[r].owner = row'[r].owner /\ row'[r].status # "fresh"
  <2>1. CASE KeepsReads(p)
    BY <1>3, <1>4, <2>1, OwnerIsKept DEF KeepsReads, OwnedRun, KeepsOwner, RunTask
  <2>2. ASSUME NEW pid \in Pids, Start(p, pid)
        PROVE  proc'[p].candidates[r].owner = row'[r].owner /\ row'[r].status # "fresh"
    <3>1. /\ DOMAIN proc'[p].candidates = {s \in Runs : IsOpen(row[s])}
          /\ \A s \in DOMAIN proc'[p].candidates : proc'[p].candidates[s].owner = row[s].owner
          /\ row' = row
      BY <2>2 DEF Start, TypeOK
    <3>. QED  BY <1>4, <3>1 DEF IsOpen, RunStates
  <2>. QED  BY <2>1, <2>2, ReadsAreKept
<1>5. ASSUME NEW p \in Processes, r \in driving'[p]
      PROVE  row'[r].owner = proc'[p].pid /\ row'[r].status # "fresh"
  <2>1. CASE RunTask(p, r)
    BY <2>1 DEF RunTask, Written, Rows, TypeOK
  <2>2. CASE r \in driving[p]
    <3>1. proc'[p].pid = proc[p].pid
      BY <2>2, ReadsAreKept DEF KeepsReads, Start, TypeOK
    <3>. QED  BY <2>2, <3>1, <1>3, OwnerIsKept DEF OwnedRun, KeepsOwner, RunTask
  <2>3. CASE ContinueTask(p, r)
    <3>1. row[r].status # "fresh" /\ row[r].owner = proc[p].pid /\ proc' = proc
      BY <2>3 DEF ContinueTask, HasRow, RunStates
    <3>. QED  BY <3>1, OwnerIsKept DEF KeepsOwner, RunTask
  <2>4. ASSUME r \notin driving[p] PROVE RunTask(p, r) \/ ContinueTask(p, r)
    <3>1. ASSUME NEW q \in Processes, StartUp(q) PROVE driving' = driving
      BY <3>1 DEF StartUp, Start, Spare, Recover, StartDone
    <3>2. ASSUME NEW q \in Processes, Die(q) PROVE driving'[p] \subseteq driving[p]
      BY <3>2 DEF Die, TypeOK
    <3>3. ASSUME NEW q \in Processes, Service(q) PROVE RunTask(p, r) \/ ContinueTask(p, r)
      <4>1. ASSUME NEW s \in Runs, RunTask(q, s) PROVE q = p /\ s = r
        BY <4>1, <1>5, <2>4 DEF RunTask, TypeOK
      <4>2. ASSUME NEW s \in Runs, ContinueTask(q, s) PROVE q = p /\ s = r
        BY <4>2, <1>5, <2>4 DEF ContinueTask, TypeOK
      <4>3. ASSUME NEW s \in Runs, LoopEnds(q, s) PROVE FALSE
        BY <4>3, <1>5, <2>4 DEF LoopEnds, TypeOK
      <4>. QED  BY <3>3, <1>5, <2>4, <4>1, <4>2, <4>3
                DEF Service, LoopWrites, RejectPatch, ClearRuns
    <3>. QED  BY <3>1, <3>2, <3>3, <1>5, <2>4 DEF Next, Age, vars
  <2>. QED  BY <2>1, <2>2, <2>3, <2>4
<1>6. ASSUME row'[r].owner # NoPid
      PROVE  \E p \in Processes : proc'[p].pid = row'[r].owner
  <2>1. CASE row'[r].owner = row[r].owner
    BY <1>3, <1>6, <2>1, DeadStaysDead DEF OwnedRun
  <2>2. CASE row'[r].owner # row[r].owner
    <3>1. PICK p \in Processes : RunTask(p, r)
      BY <2>2, OwnerIsKept DEF KeepsOwner
    <3>. QED  BY <3>1 DEF RunTask, TypeOK, Rows, Written
  <2>. QED  BY <2>1, <2>2
<1>. QED  BY <1>4, <1>5, <1>6 DEF OwnedRun

LEMMA OwnerInit == Init => OwnerInv
<1>. SUFFICES ASSUME Init PROVE OwnerInv
  OBVIOUS
<1>1. PidInv
  BY DEF Init, NotStarted, PidInv
<1>2. ASSUME NEW p \in Processes PROVE DOMAIN proc[p].candidates = {} /\ driving[p] = {}
  BY DEF Init, NotStarted, NoCandidates
<1>3. ASSUME NEW r \in Runs PROVE row[r].owner = NoPid
  BY DEF Init, Fresh, Legacy
<1>. QED  BY <1>1, <1>2, <1>3 DEF OwnerInv, OwnedRun

LEMMA OwnerInvariant ==
  ASSUME ~ReusePids, ~ContinueElsewhere
  PROVE  Spec => []OwnerInv
<1>1. Init => OwnerInv
  BY OwnerInit
<1>2. TypeOK /\ OwnerInv /\ [Next]_vars => OwnerInv'
  BY OwnerStep
<1>. QED  BY <1>1, <1>2, TypeCorrect, PTL DEF Spec

-----------------------------------------------------------------------------
(***************************************************************************)
(* Driven runs.  Who drives a run owns it and is alive, so the start-up    *)
(* finds the owner's pid in use.                                           *)
(***************************************************************************)

LEMMA DriverIsAlive ==
  ASSUME TypeOK, OwnerInv, NEW p \in Processes, NEW r \in Runs, r \in driving[p]
  PROVE  row[r].owner = proc[p].pid /\ row[r].owner # NoPid /\ IsAlive(row[r].owner)
BY DEF TypeOK, OwnerInv, OwnedRun, PidInv, IsAlive, Alive

LEMMA RecoveredIsNotDriven ==
  ASSUME TypeOK, OwnerInv, NEW p \in Processes, NEW r \in Runs, Recover(p, r)
  PROVE  ~Driven(r)
<1>1. proc[p].candidates[r].owner = row[r].owner
  BY DEF Recover, OwnerInv, OwnedRun
<1>2. row[r].owner # NoPid => ~IsAlive(row[r].owner)
  BY <1>1 DEF Recover, Spared
<1>. QED  BY <1>2, DriverIsAlive DEF Driven

\* Which steps write the audit of a run.
LEMMA AuditsAreRecoveries ==
  ASSUME TypeOK, [Next]_vars, NEW r \in Runs, audits'[r] # audits[r]
  PROVE  \E p \in Processes : Recover(p, r)
<1>1. PICK p \in Processes, s \in Runs : Recover(p, s)
  BY DEF Next, StartUp, Service, Start, Spare, StartDone, Die, RunTask, ContinueTask,
         LoopWrites, LoopEnds, RejectPatch, ClearRuns, Age, vars
<1>2. s = r
  BY <1>1 DEF Recover, TypeOK
<1>. QED  BY <1>1, <1>2

\* No start-up closes a run that a live process drives, however the starts and
\* the deaths of any number of processes interleave.
THEOREM LiveRunsAreSpared ==
  ASSUME ~ReusePids, ~ContinueElsewhere
  PROVE  Spec => DrivenRunsAreSpared
<1>1. TypeOK /\ OwnerInv /\ [Next]_vars
        => [\A r \in Runs : audits'[r] # audits[r] => ~Driven(r)]_vars
  BY AuditsAreRecoveries, RecoveredIsNotDriven
<1>. QED  BY <1>1, TypeCorrect, OwnerInvariant, PTL DEF Spec, DrivenRunsAreSpared

-----------------------------------------------------------------------------
(***************************************************************************)
(* Exactly once.  An open run that nobody drives was left by one more      *)
(* death than it has marks; marking it closes it.                          *)
(***************************************************************************)

MarkedRun(r) ==
  /\ audits[r] <= abandoned[r]
  /\ IsOpen(row[r]) /\ ~Driven(r) => audits[r] < abandoned[r]

MarkInv == \A r \in Runs : MarkedRun(r)

\* A step that neither counts, nor opens the run, nor takes it from its driver.
LEMMA MarkedFrame ==
  ASSUME NEW r, MarkedRun(r), audits'[r] = audits[r], abandoned'[r] = abandoned[r],
         IsOpen(row'[r]) => IsOpen(row[r]) \/ Driven(r)', Driven(r) => Driven(r)' \/ ~IsOpen(row'[r])
  PROVE  MarkedRun(r)'
BY DEF MarkedRun

LEMMA RecoverMarks ==
  ASSUME TypeOK, OwnerInv, NEW r \in Runs, MarkedRun(r), NEW p \in Processes, NEW s \in Runs,
         Recover(p, s)
  PROVE  MarkedRun(r)'
<1>1. CASE IsOpen(row[s])
  <2>1. /\ row' = [row EXCEPT ![s] = Written(row[s], "failed")]
        /\ audits' = [audits EXCEPT ![s] = audits[s] + 1]
        /\ abandoned' = abandoned /\ driving' = driving
    BY <1>1 DEF Recover
  <2>2. CASE s = r
    <3>1. ~Driven(r)
      BY <2>2, RecoveredIsNotDriven
    <3>2. row'[r] = Written(row[r], "failed")
      BY <2>1, <2>2 DEF TypeOK
    <3>3. ~IsOpen(row'[r])
      BY <3>2 DEF IsOpen, Written, Terminal, TypeOK, Rows
    <3>4. audits[r] < abandoned[r]
      BY <1>1, <2>2, <3>1 DEF MarkedRun
    <3>. QED  BY <2>1, <2>2, <3>3, <3>4 DEF MarkedRun, TypeOK
  <2>3. CASE s # r
    <3>1. row'[r] = row[r] /\ audits'[r] = audits[r]
      BY <2>1, <2>3 DEF TypeOK
    <3>. QED  BY <2>1, <3>1, MarkedFrame DEF Driven
  <2>. QED  BY <2>2, <2>3
<1>2. CASE ~IsOpen(row[s])
  BY <1>2, MarkedFrame DEF Recover, Driven
<1>. QED  BY <1>1, <1>2

LEMMA ServiceMarks ==
  ASSUME TypeOK, NEW r \in Runs, MarkedRun(r), NEW p \in Processes, Service(p)
  PROVE  MarkedRun(r)'
<1>. audits' = audits /\ abandoned' = abandoned
  BY DEF Service, RunTask, ContinueTask, LoopWrites, LoopEnds, RejectPatch, ClearRuns
<1>1. ASSUME NEW s \in Runs, RunTask(p, s) \/ ContinueTask(p, s) PROVE MarkedRun(r)'
  <2>1. driving' = [driving EXCEPT ![p] = driving[p] \cup {s}]
    BY <1>1 DEF RunTask, ContinueTask
  <2>2. CASE s = r
    BY <2>1, <2>2, MarkedFrame DEF Driven, TypeOK
  <2>3. CASE s # r
    <3>1. row'[r] = row[r]
      BY <1>1, <2>3 DEF RunTask, ContinueTask, TypeOK
    <3>. QED  BY <2>1, <3>1, MarkedFrame DEF Driven, TypeOK
  <2>. QED  BY <2>2, <2>3
<1>2. ASSUME NEW s \in Runs, LoopWrites(p, s) PROVE MarkedRun(r)'
  <2>1. s # r => row'[r] = row[r]
    BY <1>2 DEF LoopWrites, TypeOK
  <2>2. Driven(r)' = Driven(r) /\ Driven(s)
    BY <1>2 DEF LoopWrites, Driven
  <2>. QED  BY <2>1, <2>2, MarkedFrame
<1>3. ASSUME NEW s \in Runs, LoopEnds(p, s) PROVE MarkedRun(r)'
  <2>1. CASE s = r
    <3>1. PICK status \in {"done", "failed"} :
            row' = IF ~HasRow(r) THEN row
                   ELSE [row EXCEPT ![r] =
                     LET saved == [row[r] EXCEPT !.messages = TRUE]
                     IN IF CanTransition(saved.status, status) THEN Written(saved, status)
                        ELSE IF IsOpen(saved) THEN Written(saved, "failed") ELSE saved]
      BY <1>3, <2>1 DEF LoopEnds
    <3>2. ~IsOpen(row'[r])
      BY <3>1 DEF IsOpen, HasRow, Written, Terminal, TypeOK, Rows
    <3>. QED  BY <3>2 DEF MarkedRun
  <2>2. CASE s # r
    <3>1. row'[r] = row[r] /\ Driven(r)' = Driven(r)
      BY <1>3, <2>2 DEF LoopEnds, Driven, TypeOK
    <3>. QED  BY <3>1, MarkedFrame
  <2>. QED  BY <2>1, <2>2
<1>4. ASSUME NEW s \in Runs, RejectPatch(p, s) PROVE MarkedRun(r)'
  <2>1. IsOpen(row'[r]) => row'[r] = row[r]
    BY <1>4 DEF RejectPatch, IsOpen, Written, Terminal, TypeOK, Rows
  <2>2. Driven(r)' = Driven(r)
    BY <1>4 DEF RejectPatch, Driven
  <2>. QED  BY <2>1, <2>2, MarkedFrame
<1>5. CASE ClearRuns(p)
  <2>1. IsOpen(row'[r]) => row'[r] = row[r]
    BY <1>5 DEF ClearRuns, IsOpen, RunStates, TypeOK, Rows
  <2>2. Driven(r)' = Driven(r)
    BY <1>5 DEF ClearRuns, Driven
  <2>. QED  BY <2>1, <2>2, MarkedFrame
<1>. QED  BY <1>1, <1>2, <1>3, <1>4, <1>5 DEF Service

LEMMA DieMarks ==
  ASSUME TypeOK, NEW r \in Runs, MarkedRun(r), NEW p \in Processes, Die(p)
  PROVE  MarkedRun(r)'
<1>1. /\ row' = row /\ audits' = audits
      /\ driving' = [driving EXCEPT ![p] = {}]
      /\ abandoned'[r] = IF r \in driving[p] /\ IsOpen(row[r]) THEN abandoned[r] + 1
                         ELSE abandoned[r]
  BY DEF Die
<1>2. CASE r \in driving[p] /\ IsOpen(row[r])
  BY <1>1, <1>2 DEF MarkedRun, TypeOK
<1>3. CASE r \notin driving[p]
  <2>1. Driven(r)' = Driven(r)
    BY <1>1, <1>3 DEF Driven, TypeOK
  <2>. QED  BY <1>1, <1>3, <2>1, MarkedFrame
<1>4. CASE ~IsOpen(row[r])
  BY <1>1, <1>4, MarkedFrame
<1>. QED  BY <1>2, <1>3, <1>4

\* A run is marked as interrupted at most once for each time its process died
\* and left it open, however many processes start together or die while they do.
THEOREM InterruptedOnce ==
  ASSUME ~ReusePids, ~ContinueElsewhere
  PROVE  Spec => []MarkedOnce
<1>1. Init => MarkInv
  <2>. SUFFICES ASSUME Init, NEW r \in Runs PROVE MarkedRun(r)
    BY DEF MarkInv
  <2>1. audits[r] = 0 /\ abandoned[r] = IF row[r] = Legacy THEN 1 ELSE 0
    BY DEF Init
  <2>2. row[r] # Legacy => ~IsOpen(row[r])
    BY DEF Init, Fresh, IsOpen, RunStates
  <2>. QED  BY <2>1, <2>2 DEF MarkedRun
<1>2. TypeOK /\ OwnerInv /\ MarkInv /\ [Next]_vars => MarkInv'
  <2>. SUFFICES ASSUME TypeOK, OwnerInv, MarkInv, [Next]_vars, NEW r \in Runs PROVE MarkedRun(r)'
    BY DEF MarkInv
  <2>1. MarkedRun(r)
    BY DEF MarkInv
  <2>2. ASSUME NEW p \in Processes, StartUp(p) PROVE MarkedRun(r)'
    <3>1. ASSUME ~ \E s \in Runs : Recover(p, s) PROVE UNCHANGED <<row, driving, audits, abandoned>>
      BY <2>2, <3>1 DEF StartUp, Start, Spare, StartDone
    <3>. QED  BY <2>1, <3>1, RecoverMarks, MarkedFrame DEF Driven
  <2>3. ASSUME NEW s \in Runs, Age(s) PROVE MarkedRun(r)'
    <3>1. row'[r].status = row[r].status /\ Driven(r)' = Driven(r)
      BY <2>3 DEF Age, Driven, TypeOK, Rows
    <3>. QED  BY <2>1, <2>3, <3>1, MarkedFrame DEF Age, IsOpen
  <2>4. CASE UNCHANGED vars
    BY <2>1, <2>4, MarkedFrame DEF vars, Driven
  <2>. QED  BY <2>1, <2>2, <2>3, <2>4, ServiceMarks, DieMarks DEF Next
<1>3. MarkInv => MarkedOnce
  BY DEF MarkInv, MarkedRun, MarkedOnce
<1>. QED  BY <1>1, <1>2, <1>3, TypeCorrect, OwnerInvariant, PTL DEF Spec

-----------------------------------------------------------------------------
(***************************************************************************)
(* What a start-up leaves behind.  A run with a dead owner stays closed    *)
(* once it is closed, and the start-up cannot spare it.                    *)
(***************************************************************************)

\* The owner is gone for good.
OwnerDead(r) == row[r].owner # NoPid /\ row[r].status # "fresh" /\ ~IsAlive(row[r].owner)

FoundRun(p, r) ==
  r \in proc[p].found =>
    /\ OwnerDead(r)
    /\ proc[p].phase = "starting" /\ IsOpen(row[r]) => r \in DOMAIN proc[p].candidates
    /\ proc[p].phase = "up" => ~IsOpen(row[r])

FoundInv == \A p \in Processes, r \in Runs : FoundRun(p, r)

LEMMA OwnerStaysDead ==
  ASSUME TypeOK, OwnerInv, [Next]_vars, ~ReusePids, NEW r \in Runs, OwnerDead(r)
  PROVE  OwnerDead(r)'
<1>1. KeepsOwner(r)
  BY OwnerIsKept DEF OwnerDead, RunTask
<1>2. PICK owner : owner = row[r].owner
  OBVIOUS
<1>3. /\ owner # NoPid /\ ~IsAlive(owner)
      /\ PidInv /\ \E p \in Processes : proc[p].pid = owner
  BY <1>2 DEF OwnerInv, OwnedRun, OwnerDead, IsAlive
<1>4. ~IsAlive(owner)'
  BY <1>3, DeadStaysDead
<1>5. owner = row'[r].owner
  BY <1>1, <1>2 DEF KeepsOwner
<1>. QED  BY <1>1, <1>3, <1>4, <1>5 DEF OwnerDead, KeepsOwner, IsAlive

LEMMA DeadOwnersRunStaysClosed ==
  ASSUME TypeOK, OwnerInv, [Next]_vars, ~ContinueElsewhere, NEW r \in Runs, OwnerDead(r),
         IsOpen(row'[r])
  PROVE  IsOpen(row[r])
<1>. SUFFICES ASSUME ~IsOpen(row[r]) PROVE FALSE
  OBVIOUS
<1>1. \A p \in Processes : r \notin driving[p]
  BY DriverIsAlive DEF OwnerDead
<1>2. row'[r] # row[r]
  OBVIOUS
<1>3. ASSUME NEW p \in Processes, StartUp(p) PROVE FALSE
  <2>1. PICK s \in Runs : Recover(p, s)
    BY <1>2, <1>3 DEF StartUp, Start, Spare, StartDone
  <2>2. s # r
    BY <2>1, <1>2 DEF Recover
  <2>. QED  BY <2>1, <2>2, <1>2 DEF Recover, TypeOK
<1>4. ASSUME NEW p \in Processes, Service(p) PROVE FALSE
  <2>1. ASSUME NEW s \in Runs, RunTask(p, s) PROVE FALSE
    BY <2>1, <1>2 DEF RunTask, OwnerDead, TypeOK
  <2>2. ASSUME NEW s \in Runs, ContinueTask(p, s) PROVE FALSE
    <3>1. s = r
      BY <2>2, <1>2 DEF ContinueTask, TypeOK
    <3>. QED  BY <2>2, <3>1 DEF ContinueTask, OwnerDead, IsAlive, Alive
  <2>3. ASSUME NEW s \in Runs, LoopWrites(p, s) PROVE FALSE
    BY <2>3, <1>1, <1>2 DEF LoopWrites, TypeOK
  <2>4. ASSUME NEW s \in Runs, LoopEnds(p, s) PROVE FALSE
    BY <2>4, <1>1, <1>2 DEF LoopEnds, TypeOK
  <2>5. ASSUME NEW s \in Runs, RejectPatch(p, s) PROVE FALSE
    BY <2>5, <1>2 DEF RejectPatch, IsOpen, Written, Terminal, TypeOK, Rows
  <2>6. ASSUME ClearRuns(p) PROVE FALSE
    BY <2>6, <1>2 DEF ClearRuns, IsOpen, RunStates, TypeOK, Rows
  <2>. QED  BY <1>4, <2>1, <2>2, <2>3, <2>4, <2>5, <2>6 DEF Service
<1>5. ASSUME NEW p \in Processes, Die(p) PROVE FALSE
  BY <1>5, <1>2 DEF Die
<1>6. ASSUME NEW s \in Runs, Age(s) PROVE FALSE
  BY <1>6 DEF Age, IsOpen, TypeOK, Rows
<1>. QED  BY <1>2, <1>3, <1>4, <1>5, <1>6 DEF Next, vars

\* A candidate whose owner is dead leaves the list by being closed.
LEMMA DeadOwnersRunIsTaken ==
  ASSUME TypeOK, OwnerInv, [Next]_vars, NEW p \in Processes, NEW r \in Runs, OwnerDead(r),
         proc'[p].phase \in {"starting", "up"}, proc[p].phase = "starting",
         r \in DOMAIN proc[p].candidates,
         r \notin DOMAIN proc'[p].candidates \/ proc'[p].phase = "up"
  PROVE  ~IsOpen(row'[r])
<1>0. proc' # proc
  BY DEF Phases
<1>1. ASSUME NEW q \in Processes, StartUp(q) PROVE ~IsOpen(row'[r])
  <2>1. ASSUME NEW pid \in Pids, Start(q, pid) PROVE FALSE
    BY <2>1 DEF Start, TypeOK
  <2>2. ASSUME StartDone(q) PROVE FALSE
    <3>1. q = p => DOMAIN proc[p].candidates = {}
      BY <2>2 DEF StartDone
    <3>. QED  BY <2>2, <3>1 DEF StartDone, TypeOK
  <2>3. ASSUME NEW s \in Runs, Taken(q, s) PROVE q = p /\ s = r
    <3>1. proc'[p].phase = "starting"
      BY <2>3, TakenIs
    <3>2. r \in DOMAIN proc[p].candidates \ DOMAIN proc'[p].candidates
      BY <3>1
    <3>3. q = p
      BY <2>3, <3>2, TakenIs
    <3>4. DOMAIN proc'[p].candidates = DOMAIN proc[p].candidates \ {s}
      BY <2>3, <3>3, TakenIs
    <3>. QED  BY <3>2, <3>3, <3>4
  <2>4. ASSUME NEW s \in Runs, Spare(q, s) PROVE FALSE
    <3>1. Spare(p, r)
      BY <2>3, <2>4 DEF Spare
    <3>2. proc[p].candidates[r].owner = row[r].owner
      BY DEF OwnerInv, OwnedRun
    <3>. QED  BY <3>1, <3>2 DEF Spare, Spared, OwnerDead, IsAlive, Alive
  <2>5. ASSUME NEW s \in Runs, Recover(q, s) PROVE ~IsOpen(row'[r])
    <3>1. s = r
      BY <2>3, <2>5 DEF Recover
    <3>2. CASE IsOpen(row[r])
      <4>1. row'[r] = Written(row[r], "failed")
        BY <2>5, <3>1, <3>2 DEF Recover, TypeOK
      <4>. QED  BY <4>1 DEF IsOpen, Written, Terminal, TypeOK, Rows
    <3>3. CASE ~IsOpen(row[r])
      BY <2>5, <3>1, <3>3 DEF Recover
    <3>. QED  BY <3>2, <3>3
  <2>. QED  BY <1>1, <2>1, <2>2, <2>4, <2>5 DEF StartUp
<1>2. ASSUME NEW q \in Processes, Die(q) PROVE FALSE
  <2>1. q # p => proc'[p] = proc[p]
    BY <1>2 DEF Die, TypeOK
  <2>2. q = p => proc'[p].phase = "dead"
    BY <1>2 DEF Die, TypeOK, Procs
  <2>. QED  BY <2>1, <2>2
<1>3. ASSUME NEW q \in Processes, Service(q) PROVE FALSE
  BY <1>0, <1>3 DEF Service, RunTask, ContinueTask, LoopWrites, LoopEnds, RejectPatch, ClearRuns
<1>. QED  BY <1>0, <1>1, <1>2, <1>3 DEF Next, Age, vars

LEMMA FoundStep ==
  ASSUME TypeOK, OwnerInv, FoundInv, [Next]_vars, ~ReusePids, ~ContinueElsewhere
  PROVE  FoundInv'
<1>. SUFFICES ASSUME NEW p \in Processes, NEW r \in Runs, r \in proc'[p].found
              PROVE  /\ OwnerDead(r)'
                     /\ proc'[p].phase = "starting" /\ IsOpen(row'[r])
                          => r \in DOMAIN proc'[p].candidates
                     /\ proc'[p].phase = "up" => ~IsOpen(row'[r])
  BY DEF FoundInv, FoundRun
<1>1. CASE KeepsReads(p)
  <2>1. /\ OwnerDead(r)
        /\ proc[p].phase = "starting" /\ IsOpen(row[r]) => r \in DOMAIN proc[p].candidates
        /\ proc[p].phase = "up" => ~IsOpen(row[r])
    BY <1>1 DEF KeepsReads, FoundInv, FoundRun
  <2>2. OwnerDead(r)'
    BY <2>1, OwnerStaysDead
  <2>3. IsOpen(row'[r]) => IsOpen(row[r])
    BY <2>1, DeadOwnersRunStaysClosed
  <2>4. proc'[p].phase \in {"starting", "up"} => proc[p].phase \in {"starting", "up"}
    BY <1>1 DEF KeepsReads, Alive
  <2>. QED  BY <1>1, <2>1, <2>2, <2>3, <2>4, DeadOwnersRunIsTaken DEF KeepsReads
<1>2. ASSUME NEW pid \in Pids, Start(p, pid) PROVE
                     /\ OwnerDead(r)'
                     /\ proc'[p].phase = "starting" /\ IsOpen(row'[r])
                          => r \in DOMAIN proc'[p].candidates
                     /\ proc'[p].phase = "up" => ~IsOpen(row'[r])
  <2>1. /\ Left(r) /\ row' = row
        /\ DOMAIN proc'[p].candidates = {s \in Runs : IsOpen(row[s])}
        /\ proc'[p].phase = "starting"
    BY <1>2 DEF Start, TypeOK
  <2>2. OwnerDead(r)
    BY <2>1 DEF Left, OwnerDead, IsOpen, IsAlive, RunStates
  <2>. QED  BY <2>1, <2>2, OwnerStaysDead
<1>. QED  BY <1>1, <1>2, ReadsAreKept

\* When a start-up ends, every run that dead owners had left open when it began
\* is closed, and it stays closed: whatever other processes do meanwhile.
THEOREM AbandonedRunsAreClosed ==
  ASSUME ~ReusePids, ~ContinueElsewhere
  PROVE  Spec => []StartClosesAbandoned
<1>1. Init => FoundInv
  BY DEF Init, NotStarted, FoundInv, FoundRun
<1>2. TypeOK /\ OwnerInv /\ FoundInv /\ [Next]_vars => FoundInv'
  BY FoundStep
<1>3. TypeOK /\ FoundInv => StartClosesAbandoned
  BY DEF FoundInv, FoundRun, StartClosesAbandoned, TypeOK, Procs
<1>. QED  BY <1>1, <1>2, <1>3, TypeCorrect, OwnerInvariant, PTL DEF Spec

-----------------------------------------------------------------------------
(***************************************************************************)
(* Session files.  The invariant is stated of any files D, writers W,      *)
(* acknowledged ids A, clock c and count e of exposed tails, so that an    *)
(* action can be taken as the appends, faults and openings it is made of.  *)
(* X are messages somebody is about to continue from.                      *)
(***************************************************************************)

Line ==
  {Malformed}
    \cup [kind : {"session"}, id : Nat, ts : Nat, parent : Nat]
    \cup [kind : {"event"}, id : Nat]
    \cup [kind : {"message"}, id : Nat, ts : Nat, parent : Nat,
          role : {"user", "assistant", "tool"}, runs : SUBSET Run]

Content == {d \in [lines : Seq(Line), cut : BOOLEAN] : d.cut => d.lines # <<>>}

\* The lines of a file that have their newline; no append changes them.
Whole(d) == IF d.cut THEN Len(d.lines) - 1 ELSE Len(d.lines)

Born(r, c) ==
  /\ r.kind \in {"message", "session"} => r.id \in 1 .. c /\ r.parent \in 0 .. r.id - 1
  /\ r.kind = "message" /\ ~SharedTick => r.ts = r.id

\* The header is older than every message of its file.
HeaderFirst(lines) ==
  \A i \in 2 .. Len(lines) :
     lines[1].kind = "session" /\ IsMessage(lines[i]) => lines[1].id < lines[i].id

FileOK(d, c) ==
  /\ d \in Content
  /\ Len(d.lines) <= c
  /\ \A i \in 1 .. Len(d.lines) : Born(d.lines[i], c)
  /\ d.lines # <<>> => d.lines[1].kind \in {"session", "malformed"}
  /\ Whole(d) > 0 => d.lines[1].kind = "session"
  /\ HeaderFirst(d.lines)

Files(D, c) == \A g \in File : FileOK(D[g], c)

\* The message id is the i-th line of d.
At(d, i, id) == IsMessage(d.lines[i]) /\ d.lines[i].id = id

IdsApart(D) ==
  \A f, g \in File : \A i \in 1 .. Len(D[f].lines), j \in 1 .. Len(D[g].lines) :
     /\ IsMessage(D[f].lines[i]) /\ IsMessage(D[g].lines[j])
     /\ D[f].lines[i].id = D[g].lines[j].id
     => f = g /\ i = j

WritersOK(D, W, c) ==
  \A q \in Proc :
     /\ W[q].last <= c
     /\ W[q].file = None => W[q].last = None
     /\ W[q].file # None => Whole(D[W[q].file]) > 0

Kept(D, id) == \E f \in File : \E i \in 1 .. Whole(D[f]) : At(D[f], i, id)
Shown(D, id) == \E f \in File : \E i \in 1 .. Len(D[f].lines) : At(D[f], i, id)
Cited(D, W, X, id) ==
  \/ id \in X
  \/ \E q \in Proc : W[q].last = id
  \/ \E f \in File : \E i \in 1 .. Len(D[f].lines) :
        IsMessage(D[f].lines[i]) /\ D[f].lines[i].parent = id

Gone(D, A) == {id \in A : ~Kept(D, id)}
Scars(D) == {s \in File \X Nat : s[2] \in 1 .. Whole(D[s[1]]) /\ D[s[1]].lines[s[2]] = Malformed}
Raw(D, W) == {f \in File : D[f].cut /\ \E q \in Proc : W[q].file = f}
Dangling(D, W, X) == {id \in Nat : id # None /\ Cited(D, W, X, id) /\ ~Shown(D, id)}

Typed(D, W, A, c, e, X) ==
  /\ D \in [File -> Content] /\ W \in [Proc -> [file : File \cup {None}, last : Nat]]
  /\ A \subseteq 1 .. c /\ c \in Nat /\ e \in Nat /\ X \subseteq 0 .. c

\* A record lost has left a scar; a file whose torn tail lies under a writer may
\* still cost one record and break two links.
Balanced(gone, scars, raw, dangling, e) ==
  /\ Cardinality(gone) <= Cardinality(scars)
  /\ Cardinality(gone) + Cardinality(raw) <= e
  /\ Cardinality(dangling) + 2 * Cardinality(raw) <= 2 * e

Paid(D, W, A, e, X) == Balanced(Gone(D, A), Scars(D), Raw(D, W), Dangling(D, W, X), e)

Sound(D, W, A, c, e, X) ==
  /\ Typed(D, W, A, c, e, X)
  /\ Files(D, c)
  /\ IdsApart(D)
  /\ WritersOK(D, W, c)
  /\ Paid(D, W, A, e, X)

LEMMA LineFacts ==
  /\ Malformed \in Line /\ Malformed.kind = "malformed"
  /\ \A r \in Line :
       /\ r.kind \in {"malformed", "session", "event", "message"}
       /\ r.kind = "malformed" => r = Malformed
       /\ IsMessage(r) => r.id \in Nat /\ r.parent \in Nat /\ r.ts \in Nat
       /\ r.kind = "session" => r.id \in Nat /\ r.parent \in Nat /\ r.ts \in Nat
<1>1. Malformed \in Line /\ Malformed.kind = "malformed"
  BY DEF Line, Malformed
<1>2. ASSUME NEW r \in Line
      PROVE  /\ r.kind \in {"malformed", "session", "event", "message"}
             /\ r.kind = "malformed" => r = Malformed
             /\ IsMessage(r) => r.id \in Nat /\ r.parent \in Nat /\ r.ts \in Nat
             /\ r.kind = "session" => r.id \in Nat /\ r.parent \in Nat /\ r.ts \in Nat
  BY <1>2 DEF Line, Malformed, IsMessage
<1>. QED  BY <1>1, <1>2

LEMMA ContentFacts ==
  ASSUME NEW d \in Content
  PROVE  /\ d.lines \in Seq(Line) /\ d.cut \in BOOLEAN
         /\ Len(d.lines) \in Nat /\ Whole(d) \in Nat
         /\ d.cut => Len(d.lines) = Whole(d) + 1
         /\ ~d.cut => Len(d.lines) = Whole(d)
         /\ \A i \in 1 .. Len(d.lines) : d.lines[i] \in Line
         /\ DOMAIN d.lines = 1 .. Len(d.lines)
         /\ d.lines # <<>> <=> Len(d.lines) > 0
         /\ d = [lines |-> d.lines, cut |-> d.cut]
<1>1. d \in [lines : Seq(Line), cut : BOOLEAN] /\ (d.cut => d.lines # <<>>)
  BY DEF Content
<1>2. d.lines \in Seq(Line) /\ d.cut \in BOOLEAN /\ d = [lines |-> d.lines, cut |-> d.cut]
  BY <1>1
<1>3. /\ Len(d.lines) \in Nat /\ (d.lines # <<>> <=> Len(d.lines) > 0)
      /\ \A i \in 1 .. Len(d.lines) : d.lines[i] \in Line
      /\ DOMAIN d.lines = 1 .. Len(d.lines)
  BY <1>2
<1>. QED  BY <1>1, <1>2, <1>3 DEF Whole

LEMMA ContentMade ==
  ASSUME NEW m \in Seq(Line)
  PROVE  /\ [lines |-> m, cut |-> FALSE] \in Content
         /\ m # <<>> => [lines |-> m, cut |-> TRUE] \in Content
BY DEF Content

LEMMA NotCut == ASSUME NEW m, NEW e, e = [lines |-> m, cut |-> FALSE] PROVE ~e.cut /\ e.lines = m
OBVIOUS

LEMMA AppendedOne ==
  ASSUME NEW d \in Content, NEW r \in Line, NEW e, e = Appended(d, <<r>>)
  PROVE  /\ e \in Content /\ ~e.cut
         /\ Len(e.lines) = Whole(d) + 1 /\ Whole(e) = Whole(d) + 1
         /\ \A i \in 1 .. Whole(d) : e.lines[i] = d.lines[i]
         /\ e.lines[Whole(d) + 1] = IF d.cut THEN Malformed ELSE r
<1>. DEFINE l == d.lines
<1>0. /\ l \in Seq(Line) /\ Len(l) \in Nat /\ d.cut \in BOOLEAN
      /\ d.cut => Len(l) = Whole(d) + 1 /\ Whole(d) \in Nat
      /\ ~d.cut => Len(l) = Whole(d)
  BY ContentFacts
<1>1. CASE d.cut
  <2>1. e = [lines |-> [l EXCEPT ![Len(l)] = Malformed] \o Tail(<<r>>), cut |-> FALSE]
    BY <1>1 DEF Appended, WithLast
  <2>. DEFINE m == [l EXCEPT ![Len(l)] = Malformed]
  <2>2. m \in Seq(Line) /\ Len(m) = Len(l) /\ m[Len(l)] = Malformed
        /\ \A i \in 1 .. Whole(d) : m[i] = l[i]
    BY <1>0, <1>1, LineFacts
  <2>3. Tail(<<r>>) = <<>>
    OBVIOUS
  <2>. HIDE DEF m
  <2>4. m \o Tail(<<r>>) = m
    BY <2>2, <2>3
  <2>5. e = [lines |-> m, cut |-> FALSE]
    BY <2>1, <2>4 DEF m
  <2>6. e.lines = m /\ ~e.cut /\ e \in Content
    <3>1. e \in Content
      BY <2>2, <2>5, ContentMade
    <3>. QED  BY <3>1, <2>5, NotCut
  <2>. QED  BY <1>0, <1>1, <2>2, <2>6 DEF Whole
<1>2. CASE ~d.cut
  <2>1. e = [lines |-> l \o <<r>>, cut |-> FALSE]
    BY <1>2 DEF Appended
  <2>. DEFINE m == l \o <<r>>
  <2>2. m \in Seq(Line) /\ Len(m) = Len(l) + 1 /\ m[Len(l) + 1] = r
        /\ \A i \in 1 .. Len(l) : m[i] = l[i]
    BY <1>0
  <2>. HIDE DEF m
  <2>3. e = [lines |-> m, cut |-> FALSE]
    BY <2>1 DEF m
  <2>4. e.lines = m /\ ~e.cut /\ e \in Content
    <3>1. e \in Content
      BY <2>2, <2>3, ContentMade
    <3>. QED  BY <3>1, <2>3, NotCut
  <2>. QED  BY <1>0, <1>2, <2>2, <2>4 DEF Whole
<1>. QED  BY <1>0, <1>1, <1>2

LEMMA TornOne ==
  ASSUME NEW d \in Content, NEW r \in Line, NEW e \in Torn(d, r), e # d
  PROVE  /\ e \in Content /\ e.cut
         /\ Len(e.lines) = Whole(d) + 1 /\ Whole(e) = Whole(d)
         /\ \A i \in 1 .. Whole(d) : e.lines[i] = d.lines[i]
         /\ e.lines[Whole(d) + 1] \in {Malformed, r}
         /\ d.cut => e.lines[Whole(d) + 1] = Malformed
<1>. DEFINE l == d.lines
<1>0. /\ l \in Seq(Line) /\ Len(l) \in Nat /\ d.cut \in BOOLEAN
      /\ d.cut => Len(l) = Whole(d) + 1 /\ Whole(d) \in Nat
      /\ ~d.cut => Len(l) = Whole(d)
  BY ContentFacts
<1>1. CASE d.cut
  <2>. DEFINE m == [l EXCEPT ![Len(l)] = Malformed]
  <2>1. e = [lines |-> m, cut |-> TRUE]
    BY <1>1 DEF Torn, WithLast
  <2>2. m \in Seq(Line) /\ Len(m) = Len(l) /\ m[Len(l)] = Malformed
        /\ \A i \in 1 .. Whole(d) : m[i] = l[i]
    BY <1>0, <1>1, LineFacts
  <2>. HIDE DEF m
  <2>3. m # <<>>
    BY <1>0, <1>1, <2>2
  <2>. QED  BY <1>0, <1>1, <2>1, <2>2, <2>3 DEF Content, Whole
<1>2. CASE ~d.cut
  <2>1. PICK t \in {Malformed, r} : e = [lines |-> Append(l, t), cut |-> TRUE]
    BY <1>2 DEF Torn
  <2>0. t \in Line
    BY LineFacts
  <2>. DEFINE m == Append(l, t)
  <2>2. m \in Seq(Line) /\ Len(m) = Len(l) + 1 /\ m[Len(l) + 1] = t
        /\ \A i \in 1 .. Len(l) : m[i] = l[i]
    BY <1>0, <2>0
  <2>. HIDE DEF m
  <2>3. m # <<>>
    BY <1>0, <2>2
  <2>4. e = [lines |-> m, cut |-> TRUE]
    BY <2>1 DEF m
  <2>. QED  BY <1>0, <1>2, <2>1, <2>2, <2>3, <2>4 DEF Content, Whole
<1>. QED  BY <1>0, <1>1, <1>2

LEMMA AppendedNone == ASSUME NEW d \in Content PROVE Appended(d, <<>>) = d
BY DEF Appended

LEMMA TwoByOne ==
  ASSUME NEW S, NEW s \in Seq(S), NEW a \in S, NEW b \in S
  PROVE  (s \o <<a>>) \o <<b>> = s \o <<a, b>>
<1>1. <<a>> \in Seq(S) /\ <<b>> \in Seq(S)
  OBVIOUS
<1>2. <<a>> \o <<b>> = <<a, b>>
  <2>. DEFINE x == <<a>>
              y == <<b>>
              z == <<a, b>>
  <2>1. /\ x \in Seq(S) /\ y \in Seq(S) /\ z \in Seq(S)
        /\ Len(x) = 1 /\ Len(y) = 1 /\ Len(z) = 2
        /\ x[1] = a /\ y[1] = b /\ z[1] = a /\ z[2] = b
    OBVIOUS
  <2>. HIDE DEF x, y, z
  <2>2. /\ x \o y \in Seq(S) /\ Len(x \o y) = 2
        /\ \A i \in 1 .. 2 : (x \o y)[i] = IF i <= 1 THEN x[i] ELSE y[i - 1]
    <3>1. /\ x \o y \in Seq(S) /\ Len(x \o y) = Len(x) + Len(y)
          /\ \A i \in 1 .. Len(x) + Len(y) :
                (x \o y)[i] = IF i <= Len(x) THEN x[i] ELSE y[i - Len(x)]
      BY <2>1, ConcatProperties
    <3>. QED  BY <2>1, <3>1
  <2>3. x \o y = z
    BY <2>1, <2>2, SeqEqual
  <2>. QED  BY <2>3 DEF x, y, z
<1>3. (s \o <<a>>) \o <<b>> = s \o (<<a>> \o <<b>>)
  BY <1>1, ConcatAssociative
<1>. QED  BY <1>2, <1>3

LEMMA NoneMore == ASSUME NEW S, NEW s \in Seq(S) PROVE s \o <<>> = s
OBVIOUS

LEMMA Overwritten ==
  ASSUME NEW d \in Content, d.cut
  PROVE  WithLast(d.lines, Malformed) \in Seq(Line)
<1>1. d.lines \in Seq(Line) /\ Len(d.lines) \in Nat /\ Len(d.lines) > 0
  BY ContentFacts
<1>. QED  BY <1>1, LineFacts DEF WithLast

LEMMA AppendedTwo ==
  ASSUME NEW d \in Content, NEW a \in Line, NEW b \in Line
  PROVE  Appended(d, <<a, b>>) = Appended(Appended(d, <<a>>), <<b>>)
<1>. DEFINE l == d.lines
            u == WithLast(l, Malformed)
<1>0. l \in Seq(Line) /\ d.cut \in BOOLEAN /\ Tail(<<a, b>>) = <<b>> /\ Tail(<<a>>) = <<>>
      /\ Tail(<<b>>) = <<>>
  BY ContentFacts
<1>1. CASE d.cut
  <2>1. u \in Seq(Line)
    BY <1>1, Overwritten
  <2>2. Appended(d, <<a, b>>) = [lines |-> u \o <<b>>, cut |-> FALSE]
    BY <1>0, <1>1 DEF Appended
  <2>3. Appended(d, <<a>>) = [lines |-> u \o <<>>, cut |-> FALSE]
    BY <1>0, <1>1 DEF Appended
  <2>. HIDE DEF u
  <2>4. u \o <<>> = u
    BY <2>1, NoneMore
  <2>. QED  BY <2>2, <2>3, <2>4 DEF Appended
<1>2. CASE ~d.cut
  <2>1. Appended(d, <<a, b>>) = [lines |-> l \o <<a, b>>, cut |-> FALSE]
    BY <1>2 DEF Appended
  <2>2. Appended(d, <<a>>) = [lines |-> l \o <<a>>, cut |-> FALSE]
    BY <1>2 DEF Appended
  <2>0. l \in Seq(Line)
    BY <1>0
  <2>. HIDE DEF l
  <2>3. (l \o <<a>>) \o <<b>> = l \o <<a, b>>
    BY <2>0, TwoByOne
  <2>. QED  BY <2>1, <2>2, <2>3 DEF Appended
<1>. QED  BY <1>0, <1>1, <1>2

(***************************************************************************)
(* D2 is D with the line t put behind the whole lines of file f.           *)
(***************************************************************************)

Put(D, D2, f, t) ==
  /\ D \in [File -> Content] /\ D2 \in [File -> Content] /\ f \in File
  /\ \A g \in File : g # f => D2[g] = D[g]
  /\ Len(D2[f].lines) = Whole(D[f]) + 1
  /\ \A i \in 1 .. Whole(D[f]) : D2[f].lines[i] = D[f].lines[i]
  /\ D2[f].lines[Whole(D[f]) + 1] = t

\* What may be put in file d at time c.
Fits(d, t, c) ==
  /\ t \in Line /\ Born(t, c + 1)
  /\ IsMessage(t) => t.id = c + 1
  /\ Whole(d) = 0 => t.kind \in {"session", "malformed"}

LEMMA PutFacts ==
  ASSUME NEW D, NEW D2, NEW f, NEW t, Put(D, D2, f, t)
  PROVE  /\ f \in File /\ D2 \in [File -> Content]
         /\ Whole(D[f]) \in Nat /\ Len(D[f].lines) \in Nat
         /\ Len(D2[f].lines) = Whole(D[f]) + 1
         /\ D2[f].lines[Whole(D[f]) + 1] = t
         /\ D[f].cut => Len(D[f].lines) = Whole(D[f]) + 1
         /\ ~D[f].cut => Len(D[f].lines) = Whole(D[f])
         /\ D2[f].cut => Whole(D2[f]) = Whole(D[f])
         /\ ~D2[f].cut => Whole(D2[f]) = Whole(D[f]) + 1
         /\ Whole(D2[f]) \in Nat /\ Whole(D[f]) <= Whole(D2[f])
         /\ Whole(D2[f]) <= Whole(D[f]) + 1
         /\ \A g \in File : /\ D[g] \in Content /\ D2[g] \in Content
                            /\ Len(D[g].lines) \in Nat /\ Whole(D[g]) \in Nat
                            /\ Whole(D[g]) <= Len(D[g].lines)
                            /\ Len(D[g].lines) <= Whole(D[g]) + 1
         /\ \A g \in File : g # f => D2[g] = D[g]
         /\ \A i \in 1 .. Whole(D[f]) : D2[f].lines[i] = D[f].lines[i]
<1>1. f \in File /\ D2 \in [File -> Content] /\ D \in [File -> Content]
  BY DEF Put
<1>2. D[f] \in Content /\ D2[f] \in Content
  BY <1>1
<1>3. /\ Whole(D[f]) \in Nat /\ Len(D[f].lines) \in Nat /\ Whole(D2[f]) \in Nat
      /\ D[f].cut => Len(D[f].lines) = Whole(D[f]) + 1
      /\ ~D[f].cut => Len(D[f].lines) = Whole(D[f])
      /\ D2[f].cut => Len(D2[f].lines) = Whole(D2[f]) + 1
      /\ ~D2[f].cut => Len(D2[f].lines) = Whole(D2[f])
  BY <1>2, ContentFacts
<1>4. /\ Len(D2[f].lines) = Whole(D[f]) + 1 /\ D2[f].lines[Whole(D[f]) + 1] = t
      /\ \A g \in File : g # f => D2[g] = D[g]
      /\ \A i \in 1 .. Whole(D[f]) : D2[f].lines[i] = D[f].lines[i]
  BY DEF Put
<1>5. ASSUME NEW g \in File
      PROVE  /\ D[g] \in Content /\ D2[g] \in Content
             /\ Len(D[g].lines) \in Nat /\ Whole(D[g]) \in Nat
             /\ Whole(D[g]) <= Len(D[g].lines)
             /\ Len(D[g].lines) <= Whole(D[g]) + 1
  <2>1. D[g] \in Content /\ D2[g] \in Content
    BY <1>1
  <2>2. /\ Len(D[g].lines) \in Nat /\ Whole(D[g]) \in Nat
        /\ D[g].cut => Len(D[g].lines) = Whole(D[g]) + 1
        /\ ~D[g].cut => Len(D[g].lines) = Whole(D[g])
    BY <2>1, ContentFacts
  <2>. QED  BY <2>1, <2>2
<1>. QED  BY <1>1, <1>3, <1>4, <1>5

\* A line of the new file is an old one or the one put.
LEMMA PutLine ==
  ASSUME NEW D, NEW D2, NEW f, NEW t, Put(D, D2, f, t),
         NEW g \in File, NEW i \in 1 .. Len(D2[g].lines)
  PROVE  \/ i \in 1 .. Len(D[g].lines) /\ D2[g].lines[i] = D[g].lines[i]
         \/ g = f /\ i = Whole(D[f]) + 1 /\ D2[g].lines[i] = t
<1>1. CASE g # f
  BY <1>1, PutFacts
<1>2. CASE g = f /\ i = Whole(D[f]) + 1
  BY <1>2, PutFacts
<1>3. CASE g = f /\ i # Whole(D[f]) + 1
  <2>1. i \in 1 .. Whole(D[f]) /\ Whole(D[f]) <= Len(D[f].lines) /\ Len(D[f].lines) \in Nat
        /\ Whole(D[f]) \in Nat
    BY <1>3, PutFacts
  <2>2. i \in 1 .. Len(D[f].lines) /\ D2[f].lines[i] = D[f].lines[i]
    BY <2>1, PutFacts
  <2>. QED  BY <1>3, <2>2
<1>. QED  BY <1>1, <1>2, <1>3

LEMMA BornLater ==
  ASSUME NEW r \in Line, NEW c \in Nat, NEW k \in Nat, Born(r, c), c <= k
  PROVE  Born(r, k)
BY DEF Born

LEMMA Between ==
  ASSUME NEW w \in Nat, NEW n \in Nat, w <= n, NEW i \in 2 .. w + 1, i # w + 1
  PROVE  i \in 1 .. w /\ i \in 2 .. n
OBVIOUS

LEMMA PutFiles ==
  ASSUME NEW D, NEW D2, NEW f, NEW t, Put(D, D2, f, t), NEW c \in Nat, Files(D, c),
         Fits(D[f], t, c), Whole(D2[f]) > 0 /\ Whole(D[f]) = 0 => t.kind = "session"
  PROVE  Files(D2, c + 1)
<1>. SUFFICES ASSUME NEW g \in File  PROVE FileOK(D2[g], c + 1)
  BY DEF Files
<1>0. /\ FileOK(D[g], c) /\ D[g] \in Content /\ D2[g] \in Content
      /\ Len(D[g].lines) \in Nat /\ Len(D[g].lines) <= c
      /\ \A i \in 1 .. Len(D[g].lines) : Born(D[g].lines[i], c) /\ D[g].lines[i] \in Line
      /\ t \in Line /\ Born(t, c + 1) /\ f \in File /\ Len(D2[g].lines) \in Nat
      /\ D2[g].lines # <<>> <=> Len(D2[g].lines) > 0
      /\ D[g].lines # <<>> <=> Len(D[g].lines) > 0
  <2>1. FileOK(D[g], c) /\ D[g] \in Content /\ D2[g] \in Content /\ f \in File
    BY PutFacts DEF Files
  <2>2. /\ Len(D[g].lines) \in Nat /\ \A i \in 1 .. Len(D[g].lines) : D[g].lines[i] \in Line
        /\ Len(D2[g].lines) \in Nat
        /\ D2[g].lines # <<>> <=> Len(D2[g].lines) > 0
        /\ D[g].lines # <<>> <=> Len(D[g].lines) > 0
    BY <2>1, ContentFacts
  <2>. QED  BY <2>1, <2>2 DEF FileOK, Fits
<1>1. \A i \in 1 .. Len(D2[g].lines) : Born(D2[g].lines[i], c + 1)
  <2>. SUFFICES ASSUME NEW i \in 1 .. Len(D2[g].lines)  PROVE Born(D2[g].lines[i], c + 1)
    OBVIOUS
  <2>1. \/ i \in 1 .. Len(D[g].lines) /\ D2[g].lines[i] = D[g].lines[i]
        \/ D2[g].lines[i] = t
    BY PutLine
  <2>2. ASSUME i \in 1 .. Len(D[g].lines)  PROVE Born(D[g].lines[i], c + 1)
    BY <1>0, <2>2, BornLater
  <2>. QED  BY <1>0, <2>1, <2>2
<1>1a. HeaderFirst(D2[g].lines)
  <2>1. HeaderFirst(D[g].lines)
    BY <1>0 DEF FileOK
  <2>2. CASE g # f
    BY <2>1, <2>2, PutFacts
  <2>3. CASE g = f
    <3>. SUFFICES ASSUME NEW i \in 2 .. Len(D2[f].lines), D2[f].lines[1].kind = "session",
                         IsMessage(D2[f].lines[i])
                  PROVE  D2[f].lines[1].id < D2[f].lines[i].id
      BY <2>3 DEF HeaderFirst
    <3>1. /\ Len(D2[f].lines) = Whole(D[f]) + 1 /\ Whole(D[f]) \in Nat
          /\ Whole(D[f]) <= Len(D[f].lines) /\ Len(D[f].lines) \in Nat
          /\ \A j \in 1 .. Whole(D[f]) : D2[f].lines[j] = D[f].lines[j]
          /\ D2[f].lines[Whole(D[f]) + 1] = t
      BY PutFacts
    <3>2. D2[f].lines[1] = D[f].lines[1] /\ 1 \in 1 .. Len(D[f].lines)
      <4>1. Whole(D[f]) + 1 >= 2
        BY <3>1
      <4>2. 1 \in 1 .. Whole(D[f]) /\ 1 \in 1 .. Len(D[f].lines)
        BY <3>1, <4>1
      <4>. QED  BY <3>1, <4>2
    <3>3. CASE i = Whole(D[f]) + 1
      <4>1. D[f].lines[1].id <= c /\ D[f].lines[1].id \in Nat
        BY <1>0, <2>3, <3>2 DEF Born
      <4>2. D2[f].lines[i].id = c + 1
        BY <3>1, <3>3 DEF Fits
      <4>. QED  BY <3>2, <4>1, <4>2
    <3>4. CASE i # Whole(D[f]) + 1
      <4>1. i \in 1 .. Whole(D[f]) /\ i \in 2 .. Len(D[f].lines)
        <5>1. i \in 2 .. Whole(D[f]) + 1
          BY <3>1
        <5>2. Whole(D[f]) \in Nat /\ Len(D[f].lines) \in Nat /\ Whole(D[f]) <= Len(D[f].lines)
          BY <3>1
        <5>. QED  BY <3>4, <5>1, <5>2, Between
      <4>2. D2[f].lines[i] = D[f].lines[i]
        BY <3>1, <4>1
      <4>. QED  BY <2>1, <2>3, <3>2, <4>1, <4>2 DEF HeaderFirst
    <3>. QED  BY <3>3, <3>4
  <2>. QED  BY <2>2, <2>3
<1>2. CASE g # f
  <2>1. D2[g] = D[g]
    BY <1>2, PutFacts
  <2>. QED  BY <1>0, <1>1, <1>1a, <2>1 DEF FileOK
<1>3. CASE g = f
  <2>1. /\ Len(D2[f].lines) = Whole(D[f]) + 1 /\ Whole(D[f]) \in Nat /\ Whole(D2[f]) \in Nat
        /\ Whole(D[f]) <= Len(D[f].lines) /\ Whole(D[f]) <= c
        /\ D2[f].lines[Whole(D[f]) + 1] = t
        /\ Whole(D[f]) > 0 => D2[f].lines[1] = D[f].lines[1]
    BY <1>0, <1>3, PutFacts
  <2>2. CASE Whole(D[f]) = 0
    BY <1>0, <1>1, <1>1a, <1>3, <2>1, <2>2 DEF FileOK, Fits
  <2>3. CASE Whole(D[f]) > 0
    <3>1. FileOK(D[f], c)
      BY <1>0, <1>3
    <3>2. D[f].lines[1].kind = "session"
      BY <2>3, <3>1 DEF FileOK
    <3>3. D2[f].lines[1] = D[f].lines[1]
      BY <2>1, <2>3
    <3>4. D2[f].lines[1].kind = "session" /\ Len(D2[f].lines) <= c + 1
      BY <2>1, <3>2, <3>3
    <3>. QED  BY <1>0, <1>1, <1>1a, <1>3, <3>4 DEF FileOK
  <2>. QED  BY <2>1, <2>2, <2>3
<1>. QED  BY <1>2, <1>3

LEMMA PutApart ==
  ASSUME NEW D, NEW D2, NEW f, NEW t, Put(D, D2, f, t), NEW c \in Nat, Files(D, c),
         Fits(D[f], t, c), IdsApart(D)
  PROVE  IdsApart(D2)
<1>. SUFFICES ASSUME NEW g \in File, NEW h \in File,
                     NEW i \in 1 .. Len(D2[g].lines), NEW j \in 1 .. Len(D2[h].lines),
                     IsMessage(D2[g].lines[i]), IsMessage(D2[h].lines[j]),
                     D2[g].lines[i].id = D2[h].lines[j].id
              PROVE  g = h /\ i = j
  BY DEF IdsApart
<1>1. \A k \in File : \A n \in 1 .. Len(D[k].lines) :
         IsMessage(D[k].lines[n]) => D[k].lines[n].id \in 1 .. c
  BY DEF Files, FileOK, Born, IsMessage
<1>2. IsMessage(t) => t.id = c + 1
  BY DEF Fits
<1>3. \/ i \in 1 .. Len(D[g].lines) /\ D2[g].lines[i] = D[g].lines[i]
      \/ g = f /\ i = Whole(D[f]) + 1 /\ D2[g].lines[i] = t
  BY PutLine
<1>4. \/ j \in 1 .. Len(D[h].lines) /\ D2[h].lines[j] = D[h].lines[j]
      \/ h = f /\ j = Whole(D[f]) + 1 /\ D2[h].lines[j] = t
  BY PutLine
<1>5. CASE /\ i \in 1 .. Len(D[g].lines) /\ D2[g].lines[i] = D[g].lines[i]
           /\ j \in 1 .. Len(D[h].lines) /\ D2[h].lines[j] = D[h].lines[j]
  BY <1>5 DEF IdsApart
<1>6. CASE /\ i \in 1 .. Len(D[g].lines) /\ D2[g].lines[i] = D[g].lines[i]
           /\ D2[h].lines[j] = t
  <2>1. D2[g].lines[i].id \in 1 .. c
    BY <1>1, <1>6
  <2>2. D2[h].lines[j].id = c + 1
    BY <1>2, <1>6
  <2>. QED  BY <2>1, <2>2
<1>7. CASE /\ j \in 1 .. Len(D[h].lines) /\ D2[h].lines[j] = D[h].lines[j]
           /\ D2[g].lines[i] = t
  <2>1. D2[h].lines[j].id \in 1 .. c
    BY <1>1, <1>7
  <2>2. D2[g].lines[i].id = c + 1
    BY <1>2, <1>7
  <2>. QED  BY <2>1, <2>2
<1>. QED  BY <1>3, <1>4, <1>5, <1>6, <1>7

LEMMA PutKept ==
  ASSUME NEW D, NEW D2, NEW f, NEW t, Put(D, D2, f, t)
  PROVE  /\ \A id : Kept(D, id) => Kept(D2, id)
         /\ IsMessage(t) /\ ~D2[f].cut => Kept(D2, t.id)
<1>1. ASSUME NEW id, Kept(D, id)  PROVE Kept(D2, id)
  <2>1. PICK g \in File : \E i \in 1 .. Whole(D[g]) : At(D[g], i, id)
    BY <1>1 DEF Kept
  <2>2. PICK i \in 1 .. Whole(D[g]) : At(D[g], i, id)
    BY <2>1
  <2>3. i \in 1 .. Whole(D2[g]) /\ D2[g].lines[i] = D[g].lines[i]
    <3>1. CASE g = f
      BY <3>1, PutFacts
    <3>2. CASE g # f
      BY <3>2, PutFacts
    <3>. QED  BY <3>1, <3>2
  <2>4. At(D2[g], i, id)
    BY <2>2, <2>3 DEF At
  <2>. QED  BY <2>3, <2>4 DEF Kept
<1>2. ASSUME IsMessage(t), ~D2[f].cut  PROVE Kept(D2, t.id)
  <2>1. f \in File /\ Whole(D[f]) + 1 \in 1 .. Whole(D2[f]) /\ D2[f].lines[Whole(D[f]) + 1] = t
    BY <1>2, PutFacts
  <2>2. At(D2[f], Whole(D[f]) + 1, t.id)
    BY <1>2, <2>1 DEF At
  <2>. QED  BY <2>1, <2>2 DEF Kept
<1>. QED  BY <1>1, <1>2

\* Of the messages shown only a torn one may go.
LEMMA PutShown ==
  ASSUME NEW D, NEW D2, NEW f, NEW t, Put(D, D2, f, t)
  PROVE  /\ \A id : Shown(D, id) =>
              Shown(D2, id) \/ (D[f].cut /\ At(D[f], Whole(D[f]) + 1, id))
         /\ IsMessage(t) => Shown(D2, t.id)
<1>1. ASSUME NEW id, Shown(D, id)
      PROVE  Shown(D2, id) \/ (D[f].cut /\ At(D[f], Whole(D[f]) + 1, id))
  <2>1. PICK g \in File : \E i \in 1 .. Len(D[g].lines) : At(D[g], i, id)
    BY <1>1 DEF Shown
  <2>2. PICK i \in 1 .. Len(D[g].lines) : At(D[g], i, id)
    BY <2>1
  <2>3. CASE g = f /\ i = Whole(D[f]) + 1
    <3>1. D[f].cut
      BY <2>3, PutFacts
    <3>. QED  BY <2>2, <2>3, <3>1
  <2>4. CASE ~(g = f /\ i = Whole(D[f]) + 1)
    <3>1. i \in 1 .. Len(D2[g].lines) /\ D2[g].lines[i] = D[g].lines[i]
      <4>1. CASE g = f
        BY <2>4, <4>1, PutFacts
      <4>2. CASE g # f
        BY <4>2, PutFacts
      <4>. QED  BY <4>1, <4>2
    <3>2. At(D2[g], i, id)
      BY <2>2, <3>1 DEF At
    <3>. QED  BY <3>1, <3>2 DEF Shown
  <2>. QED  BY <2>3, <2>4
<1>2. ASSUME IsMessage(t)  PROVE Shown(D2, t.id)
  <2>1. f \in File /\ Whole(D[f]) + 1 \in 1 .. Len(D2[f].lines) /\ D2[f].lines[Whole(D[f]) + 1] = t
    BY PutFacts
  <2>2. At(D2[f], Whole(D[f]) + 1, t.id)
    BY <1>2, <2>1 DEF At
  <2>. QED  BY <2>1, <2>2 DEF Shown
<1>. QED  BY <1>1, <1>2

LEMMA PutScars ==
  ASSUME NEW D, NEW D2, NEW f, NEW t, Put(D, D2, f, t)
  PROVE  /\ Scars(D) \subseteq Scars(D2)
         /\ <<f, Whole(D[f]) + 1>> \notin Scars(D)
         /\ t = Malformed /\ ~D2[f].cut => <<f, Whole(D[f]) + 1>> \in Scars(D2)
<1>1. ASSUME NEW s \in Scars(D)  PROVE s \in Scars(D2)
  <2>1. s \in File \X Nat /\ s[2] \in 1 .. Whole(D[s[1]]) /\ D[s[1]].lines[s[2]] = Malformed
    BY DEF Scars
  <2>2. s[2] \in 1 .. Whole(D2[s[1]]) /\ D2[s[1]].lines[s[2]] = D[s[1]].lines[s[2]]
    <3>0. s[1] \in File
      BY <2>1
    <3>1. CASE s[1] = f
      BY <2>1, <3>1, PutFacts
    <3>2. CASE s[1] # f
      BY <2>1, <3>0, <3>2, PutFacts
    <3>. QED  BY <3>1, <3>2
  <2>. QED  BY <2>1, <2>2 DEF Scars
<1>2. <<f, Whole(D[f]) + 1>> \notin Scars(D)
  <2>1. Whole(D[f]) \in Nat /\ f \in File
    BY PutFacts
  <2>. QED  BY <2>1 DEF Scars
<1>3. ASSUME t = Malformed, ~D2[f].cut  PROVE <<f, Whole(D[f]) + 1>> \in Scars(D2)
  <2>1. /\ f \in File /\ Whole(D[f]) \in Nat /\ Whole(D2[f]) = Whole(D[f]) + 1
        /\ D2[f].lines[Whole(D[f]) + 1] = t
    BY <1>3, PutFacts
  <2>. QED  BY <1>3, <2>1 DEF Scars
<1>. QED  BY <1>1, <1>2, <1>3

\* Nobody cites more than before but the line put.
LEMMA PutCited ==
  ASSUME NEW D, NEW D2, NEW f, NEW t, Put(D, D2, f, t), NEW W, NEW X, NEW id,
         \E g \in File : \E i \in 1 .. Len(D2[g].lines) :
            IsMessage(D2[g].lines[i]) /\ D2[g].lines[i].parent = id
  PROVE  Cited(D, W, X, id) \/ (IsMessage(t) /\ t.parent = id)
<1>1. PICK g \in File : \E i \in 1 .. Len(D2[g].lines) :
         IsMessage(D2[g].lines[i]) /\ D2[g].lines[i].parent = id
  OBVIOUS
<1>2. PICK i \in 1 .. Len(D2[g].lines) : IsMessage(D2[g].lines[i]) /\ D2[g].lines[i].parent = id
  BY <1>1
<1>3. \/ i \in 1 .. Len(D[g].lines) /\ D2[g].lines[i] = D[g].lines[i]
      \/ D2[g].lines[i] = t
  BY PutLine
<1>. QED  BY <1>2, <1>3 DEF Cited

-----------------------------------------------------------------------------
(* Counting.                                                               *)

LEMMA AtMostOneMore ==
  ASSUME NEW S, IsFiniteSet(S), NEW x, NEW T, T \subseteq S \cup {x}
  PROVE  IsFiniteSet(T) /\ Cardinality(T) \in Nat /\ Cardinality(S) \in Nat
         /\ Cardinality(T) <= Cardinality(S) + 1
<1>1. /\ IsFiniteSet(S \cup {x}) /\ Cardinality(S \cup {x}) <= Cardinality(S) + 1
      /\ Cardinality(S) \in Nat /\ Cardinality(S \cup {x}) \in Nat
  BY FS_AddElement, FS_CardinalityType
<1>2. IsFiniteSet(T) /\ Cardinality(T) <= Cardinality(S \cup {x}) /\ Cardinality(T) \in Nat
  BY <1>1, FS_Subset, FS_CardinalityType
<1>. QED  BY <1>1, <1>2

LEMMA AtMostTwoMore ==
  ASSUME NEW S, IsFiniteSet(S), NEW x, NEW y, NEW T, T \subseteq S \cup {x, y}
  PROVE  IsFiniteSet(T) /\ Cardinality(T) \in Nat /\ Cardinality(S) \in Nat
         /\ Cardinality(T) <= Cardinality(S) + 2
<1>. DEFINE U == S \cup {x}
<1>1. IsFiniteSet(U) /\ Cardinality(U) \in Nat /\ Cardinality(U) <= Cardinality(S) + 1
      /\ Cardinality(S) \in Nat
  BY AtMostOneMore
<1>2. T \subseteq U \cup {y}
  OBVIOUS
<1>. HIDE DEF U
<1>3. IsFiniteSet(T) /\ Cardinality(T) \in Nat /\ Cardinality(T) <= Cardinality(U) + 1
  BY <1>1, <1>2, AtMostOneMore
<1>. QED  BY <1>1, <1>3

LEMMA NoMore ==
  ASSUME NEW S, IsFiniteSet(S), NEW T, T \subseteq S
  PROVE  IsFiniteSet(T) /\ Cardinality(T) \in Nat /\ Cardinality(S) \in Nat
         /\ Cardinality(T) <= Cardinality(S)
BY FS_Subset, FS_CardinalityType

LEMMA OneLess ==
  ASSUME NEW S, IsFiniteSet(S), NEW x \in S, NEW T, T \subseteq S, x \notin T
  PROVE  IsFiniteSet(T) /\ Cardinality(T) \in Nat /\ Cardinality(S) \in Nat
         /\ Cardinality(T) + 1 <= Cardinality(S)
<1>1. /\ IsFiniteSet(S \ {x}) /\ Cardinality(S \ {x}) = Cardinality(S) - 1
      /\ Cardinality(S) \in Nat
  BY FS_RemoveElement, FS_CardinalityType
<1>2. T \subseteq S \ {x}
  OBVIOUS
<1>3. IsFiniteSet(T) /\ Cardinality(T) \in Nat /\ Cardinality(T) <= Cardinality(S \ {x})
  BY <1>1, <1>2, NoMore
<1>. QED  BY <1>1, <1>3

Finite(gone, scars, raw, dangling) ==
  IsFiniteSet(gone) /\ IsFiniteSet(scars) /\ IsFiniteSet(raw) /\ IsFiniteSet(dangling)

\* A step that takes nothing.
LEMMA FreeOfCharge ==
  ASSUME NEW G, NEW S, NEW R, NEW N, Finite(G, S, R, N), NEW e \in Nat, Balanced(G, S, R, N, e),
         NEW G2, NEW S2, NEW R2, NEW N2, IsFiniteSet(S2), NEW e2 \in Nat, e <= e2,
         G2 \subseteq G, S \subseteq S2, R2 \subseteq R, N2 \subseteq N
  PROVE  Balanced(G2, S2, R2, N2, e2)
<1>1. Cardinality(G2) <= Cardinality(G) /\ Cardinality(G2) \in Nat /\ Cardinality(G) \in Nat
  BY NoMore DEF Finite
<1>2. Cardinality(R2) <= Cardinality(R) /\ Cardinality(R2) \in Nat /\ Cardinality(R) \in Nat
  BY NoMore DEF Finite
<1>3. Cardinality(N2) <= Cardinality(N) /\ Cardinality(N2) \in Nat /\ Cardinality(N) \in Nat
  BY NoMore DEF Finite
<1>4. Cardinality(S) <= Cardinality(S2) /\ Cardinality(S) \in Nat /\ Cardinality(S2) \in Nat
  BY NoMore
<1>. QED  BY <1>1, <1>2, <1>3, <1>4 DEF Balanced

\* A record is glued to a torn tail.
LEMMA GluePays ==
  ASSUME NEW G, NEW S, NEW R, NEW N, Finite(G, S, R, N), NEW e \in Nat, Balanced(G, S, R, N, e),
         NEW G2, NEW S2, NEW R2, NEW N2, IsFiniteSet(S2), NEW x, NEW y, NEW s, NEW f,
         G2 \subseteq G \cup {x}, S \subseteq S2, s \in S2, s \notin S,
         f \in R, f \notin R2, R2 \subseteq R, N2 \subseteq N \cup {x, y}
  PROVE  Balanced(G2, S2, R2, N2, e)
<1>1. Cardinality(G2) <= Cardinality(G) + 1 /\ Cardinality(G2) \in Nat /\ Cardinality(G) \in Nat
  BY AtMostOneMore DEF Finite
<1>2. Cardinality(R2) + 1 <= Cardinality(R) /\ Cardinality(R2) \in Nat /\ Cardinality(R) \in Nat
  BY OneLess DEF Finite
<1>3. Cardinality(N2) <= Cardinality(N) + 2 /\ Cardinality(N2) \in Nat /\ Cardinality(N) \in Nat
  BY AtMostTwoMore DEF Finite
<1>4. Cardinality(S) + 1 <= Cardinality(S2) /\ Cardinality(S) \in Nat /\ Cardinality(S2) \in Nat
  BY OneLess
<1>. QED  BY <1>1, <1>2, <1>3, <1>4 DEF Balanced

\* A torn line is torn again, and its writer closes.
LEMMA ClosingPays ==
  ASSUME NEW G, NEW S, NEW R, NEW N, Finite(G, S, R, N), NEW e \in Nat, Balanced(G, S, R, N, e),
         NEW G2, NEW S2, NEW R2, NEW N2, IsFiniteSet(S2), NEW y, NEW f,
         G2 \subseteq G, S \subseteq S2, f \in R, f \notin R2, R2 \subseteq R, N2 \subseteq N \cup {y}
  PROVE  Balanced(G2, S2, R2, N2, e)
<1>1. Cardinality(G2) <= Cardinality(G) /\ Cardinality(G2) \in Nat /\ Cardinality(G) \in Nat
  BY NoMore DEF Finite
<1>2. Cardinality(R2) + 1 <= Cardinality(R) /\ Cardinality(R2) \in Nat /\ Cardinality(R) \in Nat
  BY OneLess DEF Finite
<1>3. Cardinality(N2) <= Cardinality(N) + 1 /\ Cardinality(N2) \in Nat /\ Cardinality(N) \in Nat
  BY AtMostOneMore DEF Finite
<1>4. Cardinality(S) <= Cardinality(S2) /\ Cardinality(S) \in Nat /\ Cardinality(S2) \in Nat
  BY NoMore
<1>. QED  BY <1>1, <1>2, <1>3, <1>4 DEF Balanced

\* A tail is torn under a writer that stays.
LEMMA ExposurePays ==
  ASSUME NEW G, NEW S, NEW R, NEW N, Finite(G, S, R, N), NEW e \in Nat, Balanced(G, S, R, N, e),
         NEW G2, NEW S2, NEW R2, NEW N2, IsFiniteSet(S2), NEW y, NEW f,
         G2 \subseteq G, S \subseteq S2,
         \/ R2 \subseteq R \cup {f} /\ N2 \subseteq N
         \/ R2 \subseteq R /\ N2 \subseteq N \cup {y}
  PROVE  Balanced(G2, S2, R2, N2, e + 1)
<1>1. Cardinality(G2) <= Cardinality(G) /\ Cardinality(G2) \in Nat /\ Cardinality(G) \in Nat
  BY NoMore DEF Finite
<1>2. R2 \subseteq R \cup {f} /\ N2 \subseteq N \cup {y}
  OBVIOUS
<1>3. /\ Cardinality(R2) <= Cardinality(R) + 1 /\ Cardinality(R2) \in Nat /\ Cardinality(R) \in Nat
      /\ Cardinality(N2) <= Cardinality(N) + 1 /\ Cardinality(N2) \in Nat /\ Cardinality(N) \in Nat
  BY <1>2, AtMostOneMore DEF Finite
<1>4. Cardinality(R2) <= Cardinality(R) \/ Cardinality(N2) <= Cardinality(N)
  BY NoMore DEF Finite
<1>5. Cardinality(S) <= Cardinality(S2) /\ Cardinality(S) \in Nat /\ Cardinality(S2) \in Nat
  BY NoMore
<1>. QED  BY <1>1, <1>3, <1>4, <1>5 DEF Balanced

LEMMA FileFinite == IsFiniteSet(File)
<1>1. MaxFiles \in Int /\ 1 \in Int
  BY FilesAssumption
<1>. QED  BY <1>1, FS_Interval DEF File

LEMMA ScarsFinite ==
  ASSUME NEW D, NEW c \in Nat, Files(D, c)
  PROVE  IsFiniteSet(Scars(D))
<1>1. IsFiniteSet(1 .. c)
  BY FS_Interval
<1>2. IsFiniteSet(File \X (1 .. c))
  BY <1>1, FileFinite, FS_Product
<1>3. Scars(D) \subseteq File \X (1 .. c)
  <2>. SUFFICES ASSUME NEW s \in Scars(D)  PROVE s \in File \X (1 .. c)
    OBVIOUS
  <2>1. s \in File \X Nat /\ s[2] \in 1 .. Whole(D[s[1]])
    BY DEF Scars
  <2>2. FileOK(D[s[1]], c) /\ s[1] \in File
    BY <2>1 DEF Files
  <2>3. D[s[1]] \in Content /\ Len(D[s[1]].lines) <= c
    BY <2>2 DEF FileOK
  <2>4. Whole(D[s[1]]) \in Nat /\ Whole(D[s[1]]) <= Len(D[s[1]].lines) /\ Len(D[s[1]].lines) \in Nat
    BY <2>3, ContentFacts
  <2>. QED  BY <2>1, <2>3, <2>4
<1>. QED  BY <1>2, <1>3, FS_Subset

\* What is cited was written.
LEMMA CitedIsOld ==
  ASSUME NEW D, NEW W, NEW A, NEW c, NEW e, NEW X, Sound(D, W, A, c, e, X), NEW id \in Nat,
         Cited(D, W, X, id)
  PROVE  id <= c
<1>0. c \in Nat /\ X \subseteq 0 .. c
  BY DEF Sound, Typed
<1>1. CASE id \in X
  BY <1>0, <1>1
<1>2. CASE \E q \in Proc : W[q].last = id
  BY <1>2 DEF Sound, WritersOK
<1>3. ASSUME NEW f \in File, NEW i \in 1 .. Len(D[f].lines), IsMessage(D[f].lines[i]),
             D[f].lines[i].parent = id
      PROVE  id <= c
  <2>1. Born(D[f].lines[i], c)
    BY <1>3 DEF Sound, Files, FileOK
  <2>. QED  BY <1>0, <1>3, <2>1 DEF Born, IsMessage
<1>. QED  BY <1>1, <1>2, <1>3 DEF Cited

LEMMA SoundIsFinite ==
  ASSUME NEW D, NEW W, NEW A, NEW c, NEW e, NEW X, Sound(D, W, A, c, e, X)
  PROVE  Finite(Gone(D, A), Scars(D), Raw(D, W), Dangling(D, W, X))
<1>1. c \in Nat /\ A \subseteq 1 .. c /\ Files(D, c)
  BY DEF Sound, Typed
<1>2. IsFiniteSet(1 .. c)
  BY <1>1, FS_Interval
<1>3. Gone(D, A) \subseteq 1 .. c /\ Raw(D, W) \subseteq File
  BY <1>1 DEF Gone, Raw
<1>4. Dangling(D, W, X) \subseteq 1 .. c
  <2>. SUFFICES ASSUME NEW id \in Dangling(D, W, X)  PROVE id \in 1 .. c
    OBVIOUS
  <2>1. id \in Nat /\ id # 0 /\ Cited(D, W, X, id)
    BY DEF Dangling, None
  <2>2. id <= c
    BY <2>1, CitedIsOld
  <2>. QED  BY <1>1, <2>1, <2>2
<1>. QED  BY <1>1, <1>2, <1>3, <1>4, FileFinite, ScarsFinite, FS_Subset DEF Finite

LEMMA SoundFacts ==
  ASSUME NEW D, NEW W, NEW A, NEW c, NEW e, NEW X, Sound(D, W, A, c, e, X)
  PROVE  /\ D \in [File -> Content] /\ W \in [Proc -> [file : File \cup {None}, last : Nat]]
         /\ A \subseteq 1 .. c /\ c \in Nat /\ e \in Nat /\ X \subseteq 0 .. c
         /\ Files(D, c) /\ IdsApart(D)
         /\ Finite(Gone(D, A), Scars(D), Raw(D, W), Dangling(D, W, X))
         /\ Balanced(Gone(D, A), Scars(D), Raw(D, W), Dangling(D, W, X), e)
         /\ \A q \in Proc : /\ W[q].last \in Nat /\ W[q].last <= c /\ W[q].file \in File \cup {None}
                            /\ W[q].file = None => W[q].last = None
                            /\ W[q].file # None => Whole(D[W[q].file]) > 0
BY SoundIsFinite DEF Sound, Typed, Paid, WritersOK

-----------------------------------------------------------------------------
(* The elementary steps.                                                   *)

Writers == [Proc -> [file : File \cup {None}, last : Nat]]

LEMMA FileNotNone == None \notin File
BY FilesAssumption DEF None, File

\* The writers fit the files.
LEMMA SoundAgain ==
  ASSUME NEW D2 \in [File -> Content], NEW W2 \in Writers, NEW A2, NEW c2 \in Nat, NEW e2 \in Nat,
         NEW X2, A2 \subseteq 1 .. c2, X2 \subseteq 0 .. c2, Files(D2, c2), IdsApart(D2),
         \A q \in Proc : /\ W2[q].last <= c2
                         /\ W2[q].file = None => W2[q].last = None
                         /\ W2[q].file # None => Whole(D2[W2[q].file]) > 0,
         Balanced(Gone(D2, A2), Scars(D2), Raw(D2, W2), Dangling(D2, W2, X2), e2)
  PROVE  Sound(D2, W2, A2, c2, e2, X2)
BY DEF Sound, Typed, Paid, WritersOK, Writers

\* What remains to be shown after a line was put.
LEMMA PutSound ==
  ASSUME NEW D, NEW W, NEW A, NEW c, NEW e, NEW X, Sound(D, W, A, c, e, X),
         NEW D2, NEW f, NEW t, Put(D, D2, f, t), Fits(D[f], t, c),
         Whole(D2[f]) > 0 /\ Whole(D[f]) = 0 => t.kind = "session",
         NEW W2 \in Writers, NEW A2, NEW e2 \in Nat, NEW X2, A2 \subseteq A \cup {c + 1}, X2 \subseteq X,
         \A q \in Proc : \/ W2[q] = W[q] \/ W2[q] = NoWriter
                         \/ /\ W2[q].file # None /\ W2[q].last <= c + 1
                            /\ Whole(D2[W2[q].file]) > 0,
         Balanced(Gone(D2, A2), Scars(D2), Raw(D2, W2), Dangling(D2, W2, X2), e2)
  PROVE  Sound(D2, W2, A2, c + 1, e2, X2)
<1>1. /\ c \in Nat /\ A \subseteq 1 .. c /\ X \subseteq 0 .. c /\ Files(D, c) /\ IdsApart(D)
      /\ \A q \in Proc : /\ W[q].last \in Nat /\ W[q].last <= c /\ W[q].file \in File \cup {None}
                         /\ W[q].file = None => W[q].last = None
                         /\ W[q].file # None => Whole(D[W[q].file]) > 0
  BY SoundFacts
<1>2. Files(D2, c + 1)
  BY <1>1, PutFiles
<1>3. IdsApart(D2)
  BY <1>1, PutApart
<1>4. A2 \subseteq 1 .. (c + 1) /\ X2 \subseteq 0 .. (c + 1) /\ c + 1 \in Nat
  BY <1>1
<1>5. D2 \in [File -> Content]
  BY PutFacts
<1>6. ASSUME NEW q \in Proc
      PROVE  /\ W2[q].last <= c + 1
             /\ W2[q].file = None => W2[q].last = None
             /\ W2[q].file # None => Whole(D2[W2[q].file]) > 0
  <2>1. CASE W2[q] = W[q]
    <3>1. W[q].last \in Nat /\ W[q].last <= c + 1 /\ (W[q].file = None => W[q].last = None)
      BY <1>1
    <3>2. ASSUME W[q].file # None  PROVE Whole(D2[W[q].file]) > 0
      <4>1. W[q].file \in File /\ Whole(D[W[q].file]) > 0
        BY <1>1, <3>2
      <4>2. Whole(D2[W[q].file]) >= Whole(D[W[q].file]) /\ Whole(D2[W[q].file]) \in Nat /\ Whole(D[W[q].file]) \in Nat
        <5>1. CASE W[q].file = f
          BY <5>1, PutFacts
        <5>2. CASE W[q].file # f
          <6>1. D2[W[q].file] = D[W[q].file]
            BY <4>1, <5>2, PutFacts
          <6>2. Whole(D[W[q].file]) \in Nat
            BY <4>1, PutFacts
          <6>. QED  BY <6>1, <6>2
        <5>. QED  BY <5>1, <5>2
      <4>. QED  BY <4>1, <4>2
    <3>. QED  BY <2>1, <3>1, <3>2
  <2>2. CASE W2[q] = NoWriter
    BY <1>1, <2>2 DEF NoWriter, None
  <2>3. CASE W2[q].file # None /\ W2[q].last <= c + 1 /\ Whole(D2[W2[q].file]) > 0
    BY <2>3
  <2>. QED  BY <2>1, <2>2, <2>3
<1>. HIDE DEF Writers
<1>. QED  BY <1>2, <1>3, <1>4, <1>5, <1>6, SoundAgain

\* What dangles after a line was put.
LEMMA PutDangling ==
  ASSUME NEW D, NEW W, NEW X, NEW D2, NEW f, NEW t, Put(D, D2, f, t), NEW W2, NEW X2,
         IsMessage(t) => Cited(D, W, X, t.parent),
         NEW id, id \in Dangling(D2, W2, X2),
         id \in X2 \/ (\E q \in Proc : W2[q].last = id) => Cited(D, W, X, id)
  PROVE  id \in Dangling(D, W, X) \/ (D[f].cut /\ id = D[f].lines[Whole(D[f]) + 1].id)
<1>1. id \in Nat /\ id # None /\ Cited(D2, W2, X2, id) /\ ~Shown(D2, id)
  BY DEF Dangling
<1>2. Cited(D, W, X, id)
  <2>1. CASE \E g \in File : \E i \in 1 .. Len(D2[g].lines) :
               IsMessage(D2[g].lines[i]) /\ D2[g].lines[i].parent = id
    BY <2>1, PutCited
  <2>. QED  BY <1>1, <2>1 DEF Cited
<1>3. ~Shown(D, id) \/ (D[f].cut /\ At(D[f], Whole(D[f]) + 1, id))
  BY <1>1, PutShown
<1>. QED  BY <1>1, <1>2, <1>3 DEF Dangling, At

LEMMA PutGone ==
  ASSUME NEW D, NEW A, NEW D2, NEW f, NEW t, Put(D, D2, f, t)
  PROVE  Gone(D2, A) \subseteq Gone(D, A)
BY PutKept DEF Gone

LEMMA PutRaw ==
  ASSUME NEW D, NEW W \in Writers, NEW D2, NEW f, NEW t, Put(D, D2, f, t), NEW W2 \in Writers,
         \A q \in Proc : W2[q].file # f => W2[q].file = W[q].file \/ W2[q].file = None
  PROVE  /\ Raw(D2, W2) \subseteq Raw(D, W) \cup {f}
         /\ ~D2[f].cut => f \notin Raw(D2, W2)
         /\ (\A q \in Proc : W2[q].file # f) => f \notin Raw(D2, W2)
<1>1. ASSUME NEW g \in Raw(D2, W2)  PROVE g \in Raw(D, W) \cup {f}
  <2>1. g \in File /\ D2[g].cut /\ \E q \in Proc : W2[q].file = g
    BY DEF Raw
  <2>2. CASE g # f
    <3>1. D2[g] = D[g]
      BY <2>1, <2>2, PutFacts
    <3>2. PICK q \in Proc : W2[q].file = g
      BY <2>1
    <3>3. W[q].file = g
      BY <2>1, <2>2, <3>2, FileNotNone
    <3>. QED  BY <2>1, <3>1, <3>3 DEF Raw
  <2>. QED  BY <2>2
<1>2. ~D2[f].cut => f \notin Raw(D2, W2)
  BY DEF Raw
<1>3. (\A q \in Proc : W2[q].file # f) => f \notin Raw(D2, W2)
  BY DEF Raw
<1>. QED  BY <1>1, <1>2, <1>3

\* A writer appends r at time c + 1.
Writable(r, w, c) ==
  /\ r \in Line /\ r.kind \in {"message", "event"} /\ Born(r, c + 1)
  /\ IsMessage(r) => r.id = c + 1 /\ r.parent = w.last

LEMMA PutByAppending ==
  ASSUME NEW D \in [File -> Content], NEW f \in File, NEW r \in Line, NEW D2,
         D2 = [D EXCEPT ![f] = Appended(@, <<r>>)]
  PROVE  /\ Put(D, D2, f, IF D[f].cut THEN Malformed ELSE r)
         /\ ~D2[f].cut
<1>1. D[f] \in Content /\ D2[f] = Appended(D[f], <<r>>)
  OBVIOUS
<1>2. /\ D2[f] \in Content /\ ~D2[f].cut
      /\ Len(D2[f].lines) = Whole(D[f]) + 1
      /\ \A i \in 1 .. Whole(D[f]) : D2[f].lines[i] = D[f].lines[i]
      /\ D2[f].lines[Whole(D[f]) + 1] = IF D[f].cut THEN Malformed ELSE r
  BY <1>1, AppendedOne
<1>3. D2 \in [File -> Content] /\ \A g \in File : g # f => D2[g] = D[g]
  BY <1>1, <1>2
<1>. QED  BY <1>2, <1>3 DEF Put

LEMMA PutByTearing ==
  ASSUME NEW D \in [File -> Content], NEW f \in File, NEW r \in Line, NEW d \in Torn(D[f], r),
         d # D[f]
  PROVE  \E t : /\ Put(D, [D EXCEPT ![f] = d], f, t) /\ d.cut
                /\ t \in {Malformed, r} /\ (D[f].cut => t = Malformed)
<1>. DEFINE D2 == [D EXCEPT ![f] = d]
<1>1. D[f] \in Content /\ D2[f] = d
  OBVIOUS
<1>2. /\ d \in Content /\ d.cut
      /\ Len(d.lines) = Whole(D[f]) + 1
      /\ \A i \in 1 .. Whole(D[f]) : d.lines[i] = D[f].lines[i]
      /\ d.lines[Whole(D[f]) + 1] \in {Malformed, r}
      /\ D[f].cut => d.lines[Whole(D[f]) + 1] = Malformed
  BY <1>1, TornOne
<1>3. D2 \in [File -> Content] /\ \A g \in File : g # f => D2[g] = D[g]
  BY <1>1, <1>2
<1>. HIDE DEF D2
<1>4. Put(D, D2, f, d.lines[Whole(D[f]) + 1])
  BY <1>1, <1>2, <1>3 DEF Put
<1>. QED  BY <1>2, <1>4 DEF D2

LEMMA MalformedFits ==
  ASSUME NEW d, NEW c
  PROVE  Fits(d, Malformed, c) /\ ~IsMessage(Malformed)
BY LineFacts DEF Fits, Born, IsMessage

\* The writer p has written r, which its file took for the line t.
Wrote(p, r, W, W2, A, A2, c) ==
  /\ W2 \in Writers /\ \A q \in Proc : W2[q] = W[q] \/ (q = p /\ IsMessage(r))
  /\ IsMessage(r) => W2[p].file = W[p].file /\ W2[p].last = c + 1
  /\ A2 \subseteq A \cup {c + 1} /\ (~IsMessage(r) => A2 \subseteq A)

Takes(d, d2, r, t) == ~d2.cut /\ (d.cut => t = Malformed) /\ (~d.cut => t = r)

\* The writer of f appends r, which becomes the line t.
LEMMA LinePutSound ==
  ASSUME NEW D, NEW W, NEW A, NEW c, NEW e, NEW X, Sound(D, W, A, c, e, X),
         NEW p \in Proc, NEW f \in File, W[p].file = f, NEW r, Writable(r, W[p], c),
         NEW D2, NEW t, Put(D, D2, f, t), Takes(D[f], D2[f], r, t),
         NEW W2, NEW A2, Wrote(p, r, W, W2, A, A2, c)
  PROVE  Sound(D2, W2, A2, c + 1, e, X)
<1>0. /\ ~D2[f].cut /\ (D[f].cut => t = Malformed) /\ (~D[f].cut => t = r)
      /\ W2 \in Writers /\ \A q \in Proc : W2[q] = W[q] \/ (q = p /\ IsMessage(r))
      /\ IsMessage(r) => W2[p].file = f /\ W2[p].last = c + 1
      /\ A2 \subseteq A \cup {c + 1} /\ (~IsMessage(r) => A2 \subseteq A)
  BY DEF Wrote, Takes
<1>1. /\ D \in [File -> Content] /\ W \in Writers /\ c \in Nat /\ e \in Nat /\ Files(D, c)
      /\ Finite(Gone(D, A), Scars(D), Raw(D, W), Dangling(D, W, X))
      /\ Balanced(Gone(D, A), Scars(D), Raw(D, W), Dangling(D, W, X), e)
      /\ Whole(D[f]) > 0
  BY SoundFacts, FileNotNone DEF Writers
<1>2. r \in Line /\ r.kind \in {"message", "event"} /\ Born(r, c + 1)
      /\ (IsMessage(r) => r.id = c + 1 /\ r.parent = W[p].last)
  BY DEF Writable
<1>4. Fits(D[f], t, c)
  <2>1. CASE D[f].cut
    BY <1>0, <2>1, MalformedFits
  <2>2. CASE ~D[f].cut
    BY <1>0, <1>1, <1>2, <2>2 DEF Fits
  <2>. QED  BY <2>1, <2>2
<1>6. Whole(D2[f]) > 0 /\ Whole(D[f]) \in Nat
  BY <1>1, PutFacts
<1>7. ASSUME NEW q \in Proc
      PROVE  \/ W2[q] = W[q] \/ W2[q] = NoWriter
             \/ W2[q].file # None /\ W2[q].last <= c + 1 /\ Whole(D2[W2[q].file]) > 0
  <2>1. CASE q = p /\ IsMessage(r)
    BY <1>0, <1>1, <1>6, <2>1, FileNotNone
  <2>. QED  BY <1>0, <2>1
<1>8. \A q \in Proc : W2[q].file = W[q].file
  BY <1>0
<1>16. Whole(D2[f]) > 0 /\ Whole(D[f]) = 0 => t.kind = "session"
  BY <1>1
<1>9. IsFiniteSet(Scars(D2))
  <2>2. Files(D2, c + 1)
    BY <1>0, <1>1, <1>4, <1>16, PutFiles
  <2>. QED  BY <1>1, <2>2, ScarsFinite
<1>10. /\ Scars(D) \subseteq Scars(D2) /\ <<f, Whole(D[f]) + 1>> \notin Scars(D)
       /\ (D[f].cut => <<f, Whole(D[f]) + 1>> \in Scars(D2))
  BY <1>0, PutScars
<1>11. Raw(D2, W2) \subseteq Raw(D, W) /\ f \notin Raw(D2, W2) /\ (D[f].cut => f \in Raw(D, W))
  <2>1. Raw(D2, W2) \subseteq Raw(D, W) \cup {f} /\ f \notin Raw(D2, W2)
    BY <1>0, <1>1, <1>8, PutRaw
  <2>2. D[f].cut => f \in Raw(D, W)
    BY DEF Raw
  <2>. QED  BY <2>1, <2>2
<1>12. Gone(D2, A2) \subseteq Gone(D, A) \cup {c + 1} /\ (~D[f].cut => Gone(D2, A2) \subseteq Gone(D, A))
  <2>1. \A id : Kept(D, id) => Kept(D2, id)
    BY <1>0, PutKept
  <2>2. IsMessage(r) /\ ~D[f].cut => Kept(D2, c + 1)
    BY <1>0, <1>2, PutKept
  <2>. QED  BY <1>0, <2>1, <2>2 DEF Gone
<1>13. ASSUME NEW id \in Dangling(D2, W2, X)
       PROVE  /\ ~D[f].cut => id \in Dangling(D, W, X)
              /\ id \in Dangling(D, W, X) \cup {c + 1, D[f].lines[Whole(D[f]) + 1].id}
  <2>1. IsMessage(t) => Cited(D, W, X, t.parent)
    BY <1>0, <1>2, MalformedFits DEF Cited
  <2>2. CASE id = c + 1 /\ IsMessage(r)
    <3>1. ~D[f].cut => Shown(D2, id)
      BY <1>0, <1>2, <2>2, PutShown
    <3>. QED  BY <2>2, <3>1 DEF Dangling
  <2>3. CASE ~(id = c + 1 /\ IsMessage(r))
    <3>1. id \in X \/ (\E q \in Proc : W2[q].last = id) => Cited(D, W, X, id)
      <4>1. ASSUME NEW q \in Proc, W2[q].last = id  PROVE W[q].last = id
        BY <1>0, <2>3, <4>1
      <4>. QED  BY <4>1 DEF Cited
    <3>2. id \in Dangling(D, W, X) \/ (D[f].cut /\ id = D[f].lines[Whole(D[f]) + 1].id)
      BY <2>1, <3>1, PutDangling
    <3>. QED  BY <3>2
  <2>. QED  BY <2>2, <2>3
<1>14. Balanced(Gone(D2, A2), Scars(D2), Raw(D2, W2), Dangling(D2, W2, X), e)
  <2>. DEFINE y == D[f].lines[Whole(D[f]) + 1].id
              s == <<f, Whole(D[f]) + 1>>
  <2>1. Dangling(D2, W2, X) \subseteq Dangling(D, W, X) \cup {c + 1, y}
        /\ (~D[f].cut => Dangling(D2, W2, X) \subseteq Dangling(D, W, X))
    BY <1>0, <1>13
  <2>. HIDE DEF y
  <2>2. CASE D[f].cut
    <3>1. s \in Scars(D2) /\ s \notin Scars(D)
      BY <1>0, <1>10, <2>2
    <3>2. f \in Raw(D, W)
      BY <1>11, <2>2
    <3>. HIDE DEF s
    <3>. QED  BY <1>0, <1>1, <1>9, <1>10, <1>11, <1>12, <2>1, <3>1, <3>2, GluePays
  <2>3. CASE ~D[f].cut
    BY <1>0, <1>1, <1>9, <1>10, <1>11, <1>12, <2>1, <2>3, FreeOfCharge
  <2>. QED  BY <2>2, <2>3
<1>. QED  BY <1>0, <1>1, <1>4, <1>7, <1>14, <1>16, PutSound

\* The writer of f appends a line.
LEMMA AppendSound ==
  ASSUME NEW D, NEW W, NEW A, NEW c, NEW e, NEW X, Sound(D, W, A, c, e, X),
         NEW p \in Proc, NEW f \in File, W[p].file = f, NEW r, Writable(r, W[p], c)
  PROVE  Sound([D EXCEPT ![f] = Appended(@, <<r>>)],
               IF IsMessage(r) THEN [W EXCEPT ![p] = [file |-> f, last |-> c + 1]] ELSE W,
               IF IsMessage(r) THEN A \cup {c + 1} ELSE A, c + 1, e, X)
<1>. DEFINE D2 == [D EXCEPT ![f] = Appended(@, <<r>>)]
            W2 == IF IsMessage(r) THEN [W EXCEPT ![p] = [file |-> f, last |-> c + 1]] ELSE W
            t == IF D[f].cut THEN Malformed ELSE r
            A2 == IF IsMessage(r) THEN A \cup {c + 1} ELSE A
<1>1. D \in [File -> Content] /\ W \in Writers /\ c \in Nat
  BY SoundFacts DEF Writers
<1>2. r \in Line
  BY DEF Writable
<1>3. Put(D, D2, f, t) /\ ~D2[f].cut
  BY <1>1, <1>2, PutByAppending
<1>4. W2 \in Writers
  BY <1>1 DEF Writers
<1>5. Wrote(p, r, W, W2, A, A2, c)
  BY <1>1, <1>4 DEF Wrote, Writers
<1>6. Takes(D[f], D2[f], r, t)
  BY <1>3 DEF Takes
<1>. HIDE DEF D2, W2, t, A2
<1>8. Sound(D2, W2, A2, c + 1, e, X)
  BY <1>3, <1>5, <1>6, LinePutSound
<1>. QED  BY <1>8 DEF D2, W2, A2

\* Some writers close; a tail torn under one that stays is counted.
Retired(W, W2) == W2 \in Writers /\ \A q \in Proc : W2[q] = W[q] \/ W2[q] = NoWriter
Charged(W2, f, e, e2) == e2 = IF \E q \in Proc : W2[q].file = f THEN e + 1 ELSE e

\* What a file makes of a line torn in it.
Tears(d, d2, r, t) == d2.cut /\ t \in {Malformed, r} /\ (d.cut => t = Malformed)

\* The line r may be torn in file f.
Tearable(D, W, c, X, f, r) ==
  /\ Fits(D[f], r, c)
  /\ IsMessage(r) => Cited(D, W, X, r.parent)
  /\ D[f].cut => \E q \in Proc : W[q].file = f

LEMMA TornPutSound ==
  ASSUME NEW D, NEW W, NEW A, NEW c, NEW e, NEW X, Sound(D, W, A, c, e, X),
         NEW f, NEW r, Tearable(D, W, c, X, f, r),
         NEW D2, NEW t, Put(D, D2, f, t), Tears(D[f], D2[f], r, t),
         NEW W2, Retired(W, W2), NEW e2, Charged(W2, f, e, e2)
  PROVE  Sound(D2, W2, A, c + 1, e2, X)
<1>1. /\ D \in [File -> Content] /\ W \in Writers /\ c \in Nat /\ e \in Nat /\ Files(D, c)
      /\ Finite(Gone(D, A), Scars(D), Raw(D, W), Dangling(D, W, X))
      /\ Balanced(Gone(D, A), Scars(D), Raw(D, W), Dangling(D, W, X), e)
      /\ f \in File
  BY SoundFacts, PutFacts DEF Writers
<1>2. /\ D2[f].cut /\ t \in {Malformed, r} /\ (D[f].cut => t = Malformed)
      /\ W2 \in Writers /\ \A q \in Proc : W2[q] = W[q] \/ W2[q] = NoWriter
  BY DEF Tears, Retired
<1>3. /\ e2 \in Nat
      /\ (\E q \in Proc : W2[q].file = f) => e2 = e + 1
      /\ (\A q \in Proc : W2[q].file # f) => e2 = e
  BY <1>1 DEF Charged
<1>4. Fits(D[f], t, c)
  BY <1>2, MalformedFits DEF Tearable
<1>5. IsMessage(t) => Cited(D, W, X, t.parent)
  BY <1>2, MalformedFits DEF Tearable
<1>6. ~(Whole(D2[f]) > 0 /\ Whole(D[f]) = 0)
  BY <1>2, PutFacts
<1>7. IsFiniteSet(Scars(D2))
  <2>1. Files(D2, c + 1)
    BY <1>1, <1>4, <1>6, PutFiles
  <2>. QED  BY <1>1, <2>1, ScarsFinite
<1>8. Scars(D) \subseteq Scars(D2)
  BY PutScars
<1>9. Gone(D2, A) \subseteq Gone(D, A)
  BY PutGone
<1>10. NoWriter.file = None /\ NoWriter.last = None
  BY DEF NoWriter
<1>11. /\ Raw(D2, W2) \subseteq Raw(D, W) \cup {f}
       /\ (\A q \in Proc : W2[q].file # f) => f \notin Raw(D2, W2)
  <2>1. \A q \in Proc : W2[q].file # f => W2[q].file = W[q].file \/ W2[q].file = None
    BY <1>2, <1>10
  <2>. QED  BY <1>1, <1>2, <2>1, PutRaw
<1>12. ASSUME NEW id \in Dangling(D2, W2, X)
       PROVE  /\ ~D[f].cut => id \in Dangling(D, W, X)
              /\ id \in Dangling(D, W, X) \cup {D[f].lines[Whole(D[f]) + 1].id}
  <2>1. id \in X \/ (\E q \in Proc : W2[q].last = id) => Cited(D, W, X, id)
    <3>1. id # None
      BY DEF Dangling
    <3>2. ASSUME NEW q \in Proc, W2[q].last = id  PROVE W[q].last = id
      BY <1>2, <1>10, <3>1, <3>2
    <3>. QED  BY <3>2 DEF Cited
  <2>2. id \in Dangling(D, W, X) \/ (D[f].cut /\ id = D[f].lines[Whole(D[f]) + 1].id)
    BY <1>5, <2>1, PutDangling
  <2>. QED  BY <2>2
<1>13. Balanced(Gone(D2, A), Scars(D2), Raw(D2, W2), Dangling(D2, W2, X), e2)
  <2>. DEFINE y == D[f].lines[Whole(D[f]) + 1].id
  <2>1. Dangling(D2, W2, X) \subseteq Dangling(D, W, X) \cup {y}
        /\ (~D[f].cut => Dangling(D2, W2, X) \subseteq Dangling(D, W, X))
    BY <1>12
  <2>. HIDE DEF y
  <2>2. CASE D[f].cut
    <3>1. f \in Raw(D, W)
      BY <1>1, <2>2 DEF Raw, Tearable
    <3>2. Raw(D2, W2) \subseteq Raw(D, W)
      BY <1>11, <3>1
    <3>3. CASE \E q \in Proc : W2[q].file = f
      <4>1. e2 = e + 1
        BY <1>3, <3>3
      <4>2. Balanced(Gone(D2, A), Scars(D2), Raw(D2, W2), Dangling(D2, W2, X), e + 1)
        BY <1>1, <1>7, <1>8, <1>9, <2>1, <3>2, ExposurePays
      <4>. QED  BY <4>1, <4>2
    <3>4. CASE \A q \in Proc : W2[q].file # f
      <4>1. e2 = e
        BY <1>3, <3>4
      <4>2. Balanced(Gone(D2, A), Scars(D2), Raw(D2, W2), Dangling(D2, W2, X), e)
        BY <1>1, <1>7, <1>8, <1>9, <1>11, <2>1, <3>1, <3>2, <3>4, ClosingPays
      <4>. QED  BY <4>1, <4>2
    <3>. QED  BY <3>3, <3>4
  <2>3. CASE ~D[f].cut
    <3>3. CASE \E q \in Proc : W2[q].file = f
      <4>1. e2 = e + 1
        BY <1>3, <3>3
      <4>2. Dangling(D2, W2, X) \subseteq Dangling(D, W, X)
        BY <2>1, <2>3
      <4>3. Balanced(Gone(D2, A), Scars(D2), Raw(D2, W2), Dangling(D2, W2, X), e + 1)
        BY <1>1, <1>7, <1>8, <1>9, <1>11, <4>2, ExposurePays
      <4>. QED  BY <4>1, <4>3
    <3>4. CASE \A q \in Proc : W2[q].file # f
      <4>1. e2 = e
        BY <1>3, <3>4
      <4>2. Raw(D2, W2) \subseteq Raw(D, W) /\ Dangling(D2, W2, X) \subseteq Dangling(D, W, X)
        BY <1>11, <2>1, <2>3, <3>4
      <4>3. Balanced(Gone(D2, A), Scars(D2), Raw(D2, W2), Dangling(D2, W2, X), e)
        BY <1>1, <1>7, <1>8, <1>9, <4>2, FreeOfCharge
      <4>. QED  BY <4>1, <4>3
    <3>. QED  BY <3>3, <3>4
  <2>. QED  BY <2>2, <2>3
<1>14. A \subseteq A \cup {c + 1} /\ X \subseteq X
  OBVIOUS
<1>. QED  BY <1>2, <1>3, <1>4, <1>6, <1>13, <1>14, PutSound

\* Nothing happens to the files: writers close, time and the count go on.
LEMMA CloseSound ==
  ASSUME NEW D, NEW W, NEW A, NEW c, NEW e, NEW X, Sound(D, W, A, c, e, X),
         NEW W2, Retired(W, W2), NEW c2 \in Nat, c <= c2, NEW e2 \in Nat, e <= e2, NEW X2, X2 \subseteq X
  PROVE  Sound(D, W2, A, c2, e2, X2)
<1>1. /\ D \in [File -> Content] /\ W \in Writers /\ A \subseteq 1 .. c /\ c \in Nat /\ e \in Nat
      /\ X \subseteq 0 .. c /\ Files(D, c) /\ IdsApart(D)
      /\ Finite(Gone(D, A), Scars(D), Raw(D, W), Dangling(D, W, X))
      /\ Balanced(Gone(D, A), Scars(D), Raw(D, W), Dangling(D, W, X), e)
  BY SoundFacts DEF Writers
<1>2. \A q \in Proc : /\ W[q].last \in Nat /\ W[q].last <= c /\ W[q].file \in File \cup {None}
                      /\ W[q].file = None => W[q].last = None
                      /\ W[q].file # None => Whole(D[W[q].file]) > 0
  BY SoundFacts
<1>3. W2 \in Writers /\ \A q \in Proc : W2[q] = W[q] \/ W2[q] = NoWriter
  BY DEF Retired
<1>4. NoWriter.file = None /\ NoWriter.last = None /\ None = 0
  BY DEF NoWriter, None
<1>5. Files(D, c2)
  <2>. SUFFICES ASSUME NEW g \in File  PROVE FileOK(D[g], c2)
    BY DEF Files
  <2>1. FileOK(D[g], c) /\ D[g] \in Content /\ Len(D[g].lines) \in Nat
        /\ \A i \in 1 .. Len(D[g].lines) : D[g].lines[i] \in Line
    BY <1>1, ContentFacts DEF Files
  <2>2. \A i \in 1 .. Len(D[g].lines) : Born(D[g].lines[i], c2)
    BY <1>1, <2>1, BornLater DEF FileOK
  <2>3. Len(D[g].lines) <= c2
    BY <1>1, <2>1 DEF FileOK
  <2>. QED  BY <2>1, <2>2, <2>3 DEF FileOK
<1>6. ASSUME NEW q \in Proc
      PROVE  /\ W2[q].last <= c2
             /\ W2[q].file = None => W2[q].last = None
             /\ W2[q].file # None => Whole(D[W2[q].file]) > 0
  <2>1. CASE W2[q] = W[q]
    <3>1. W[q].last <= c2
      BY <1>1, <1>2
    <3>. QED  BY <1>2, <2>1, <3>1
  <2>2. CASE W2[q] = NoWriter
    BY <1>4, <2>2
  <2>. QED  BY <1>3, <2>1, <2>2
<1>7. Raw(D, W2) \subseteq Raw(D, W)
  <2>. SUFFICES ASSUME NEW g \in Raw(D, W2)  PROVE g \in Raw(D, W)
    OBVIOUS
  <2>1. g \in File /\ D[g].cut /\ g # None
    BY FileNotNone DEF Raw
  <2>2. PICK q \in Proc : W2[q].file = g
    BY DEF Raw
  <2>3. W[q].file = g
    BY <1>3, <1>4, <2>1, <2>2
  <2>. QED  BY <2>1, <2>3 DEF Raw
<1>8. Dangling(D, W2, X2) \subseteq Dangling(D, W, X)
  <2>. SUFFICES ASSUME NEW id \in Dangling(D, W2, X2)  PROVE id \in Dangling(D, W, X)
    OBVIOUS
  <2>1. id \in Nat /\ id # None /\ Cited(D, W2, X2, id) /\ ~Shown(D, id)
    BY DEF Dangling
  <2>2. ASSUME NEW q \in Proc, W2[q].last = id  PROVE W[q].last = id
    BY <1>3, <1>4, <2>1, <2>2
  <2>3. Cited(D, W, X, id)
    BY <2>1, <2>2 DEF Cited
  <2>. QED  BY <2>1, <2>3 DEF Dangling
<1>9. IsFiniteSet(Scars(D)) /\ Gone(D, A) \subseteq Gone(D, A) /\ Scars(D) \subseteq Scars(D)
  BY <1>1 DEF Finite
<1>10. Balanced(Gone(D, A), Scars(D), Raw(D, W2), Dangling(D, W2, X2), e2)
  BY <1>1, <1>7, <1>8, <1>9, FreeOfCharge
<1>11. A \subseteq 1 .. c2 /\ X2 \subseteq 0 .. c2
  BY <1>1
<1>. QED  BY <1>1, <1>3, <1>5, <1>6, <1>10, <1>11, SoundAgain

-----------------------------------------------------------------------------
(* Extremes of finite sets.                                                *)

LEMMA LeastNatural ==
  ASSUME NEW S, S \subseteq Nat, S # {}
  PROVE  \E m \in S : \A k \in S : m <= k
<1>1. IsWellFoundedOn(OpToRel(<, Nat), Nat)
  BY NatLessThanWellFounded
<1>2. PICK m \in S : \A k \in S : ~(<<k, m>> \in OpToRel(<, Nat))
  BY <1>1, WFMin
<1>3. \A k \in S : m <= k
  <2>. SUFFICES ASSUME NEW k \in S  PROVE m <= k
    OBVIOUS
  <2>1. ~(k < m)
    BY <1>2 DEF OpToRel
  <2>. QED  BY <2>1
<1>. QED  BY <1>3

LEMMA Highest ==
  ASSUME NEW S, IsFiniteSet(S), S # {}, NEW v, \A x \in S : v[x] \in Int
  PROVE  \E x \in S : \A y \in S : v[x] >= v[y]
<1>. DEFINE Above(x) == {y \in S : v[y] > v[x]}
            N == {Cardinality(Above(x)) : x \in S}
<1>1. \A x \in S : IsFiniteSet(Above(x)) /\ Cardinality(Above(x)) \in Nat
  <2>. SUFFICES ASSUME NEW x \in S  PROVE IsFiniteSet(Above(x)) /\ Cardinality(Above(x)) \in Nat
    OBVIOUS
  <2>1. Above(x) \subseteq S
    OBVIOUS
  <2>. HIDE DEF Above
  <2>. QED  BY <2>1, NoMore
<1>2. N \subseteq Nat /\ N # {}
  <2>. HIDE DEF Above
  <2>. QED  BY <1>1
<1>3. PICK n \in N : \A k \in N : n <= k
  <2>. HIDE DEF N
  <2>. QED  BY <1>2, LeastNatural
<1>4. PICK x \in S : n = Cardinality(Above(x))
  OBVIOUS
<1>5. ASSUME NEW y \in S, ~(v[x] >= v[y])  PROVE FALSE
  <2>1. y \in Above(x) /\ y \notin Above(y) /\ Above(y) \subseteq Above(x)
    BY <1>5
  <2>2. Cardinality(Above(y)) + 1 <= Cardinality(Above(x))
    <3>. HIDE DEF Above
    <3>. QED  BY <1>1, <2>1, OneLess
  <2>3. Cardinality(Above(y)) \in N
    <3>. HIDE DEF Above
    <3>. QED  OBVIOUS
  <2>4. Cardinality(Above(x)) <= Cardinality(Above(y))
    BY <1>3, <1>4, <2>3
  <2>. HIDE DEF Above
  <2>. QED  BY <1>1, <2>2, <2>4
<1>. QED  BY <1>5

LEMMA MaxOf ==
  ASSUME NEW S, IsFiniteSet(S), S # {}, S \subseteq Nat
  PROVE  Max(S) \in S /\ \A y \in S : Max(S) >= y
<1>. DEFINE v == [x \in S |-> x]
<1>1. \A x \in S : v[x] = x /\ v[x] \in Int
  OBVIOUS
<1>. HIDE DEF v
<1>2. \E x \in S : \A y \in S : v[x] >= v[y]
  BY <1>1, Highest
<1>3. \E x \in S : \A y \in S : x >= y
  BY <1>1, <1>2
<1>. QED  BY <1>3 DEF Max

LEMMA MinOf ==
  ASSUME NEW S, S # {}, S \subseteq Nat
  PROVE  Min(S) \in S /\ \A y \in S : Min(S) <= y
BY LeastNatural DEF Min

-----------------------------------------------------------------------------
(* Reading a file back.                                                    *)

LEMMA MessageLinesFacts ==
  ASSUME NEW d \in Content
  PROVE  /\ MessageLines(d) = {i \in 1 .. Len(d.lines) : IsMessage(d.lines[i])}
         /\ IsFiniteSet(MessageLines(d)) /\ MessageLines(d) \subseteq Nat
<1>1. DOMAIN d.lines = 1 .. Len(d.lines) /\ Len(d.lines) \in Nat
  BY ContentFacts
<1>2. IsFiniteSet(1 .. Len(d.lines))
  BY <1>1, FS_Interval
<1>3. MessageLines(d) = {i \in 1 .. Len(d.lines) : IsMessage(d.lines[i])}
  BY <1>1 DEF MessageLines
<1>4. MessageLines(d) \subseteq 1 .. Len(d.lines)
  BY <1>3
<1>. QED  BY <1>2, <1>3, <1>4, FS_Subset

\* The head a file is resumed at is a message of it, or null.
LEMMA HeadIsThere ==
  ASSUME NEW d \in Content
  PROVE  \/ HeadOf(d) = None
         \/ \E i \in 1 .. Len(d.lines) : At(d, i, HeadOf(d))
<1>1. CASE MessageLines(d) # {}
  <2>1. Max(MessageLines(d)) \in MessageLines(d)
    BY <1>1, MessageLinesFacts, MaxOf
  <2>2. Max(MessageLines(d)) \in 1 .. Len(d.lines) /\ IsMessage(d.lines[Max(MessageLines(d))])
    BY <2>1, MessageLinesFacts
  <2>. QED  BY <1>1, <2>2 DEF HeadOf, At
<1>2. CASE MessageLines(d) = {}
  BY <1>2 DEF HeadOf
<1>. QED  BY <1>1, <1>2

\* A file with a whole line reads back, and one that reads back starts with its header.
LEMMA ReadableFacts ==
  ASSUME NEW d, NEW c \in Nat, FileOK(d, c)
  PROVE  /\ Whole(d) > 0 => Readable(d)
         /\ Readable(d) => d.lines # <<>> /\ d.lines[1].kind = "session"
<1>1. d \in Content
  BY DEF FileOK
<1>2. /\ Len(d.lines) \in Nat /\ Whole(d) \in Nat /\ Whole(d) <= Len(d.lines)
      /\ Len(d.lines) <= Whole(d) + 1 /\ DOMAIN d.lines = 1 .. Len(d.lines)
      /\ (d.lines # <<>> <=> Len(d.lines) > 0)
  BY <1>1, ContentFacts
<1>3. ASSUME Whole(d) > 0  PROVE Readable(d)
  <2>1. d.lines[1].kind = "session" /\ 1 \in DOMAIN d.lines
    BY <1>2, <1>3 DEF FileOK
  <2>. QED  BY <2>1 DEF Readable
<1>4. ASSUME Readable(d)  PROVE d.lines # <<>> /\ d.lines[1].kind = "session"
  <2>1. PICK i \in 1 .. Len(d.lines) : d.lines[i].kind = "session"
    BY <1>2, <1>4 DEF Readable
  <2>2. CASE Whole(d) > 0
    BY <1>2, <2>2 DEF FileOK
  <2>3. CASE Whole(d) = 0
    <3>1. i = 1
      BY <1>2, <2>1, <2>3
    <3>. QED  BY <1>2, <2>1, <3>1
  <2>. QED  BY <1>2, <2>2, <2>3
<1>. QED  BY <1>3, <1>4

-----------------------------------------------------------------------------
(* The elementary steps, continued.                                        *)

\* The history variable counts a tail torn under an open writer.
Exposes(d, W2, f, e, e2) ==
  e2 = e + (IF d.cut /\ \E q \in Proc : W2[q].file = f THEN 1 ELSE 0)

\* An append to file f is interrupted.
LEMMA TearSound ==
  ASSUME NEW D, NEW W, NEW A, NEW c, NEW e, NEW X, Sound(D, W, A, c, e, X),
         NEW f \in File, NEW r, Tearable(D, W, c, X, f, r),
         NEW d \in Torn(D[f], r), NEW W2, Retired(W, W2), NEW e2,
         Exposes(d, W2, f, e, e2)
  PROVE  Sound([D EXCEPT ![f] = d], W2, A, c + 1, e2, X)
<1>. DEFINE D2 == [D EXCEPT ![f] = d]
<1>1. D \in [File -> Content] /\ c \in Nat /\ e \in Nat /\ r \in Line /\ D[f] \in Content
  BY SoundFacts DEF Fits, Tearable
<1>2. CASE d = D[f]
  <2>1. D2 = D
    BY <1>1, <1>2
  <2>2. e2 \in Nat /\ e <= e2
    BY <1>1 DEF Exposes
  <2>3. Sound(D, W2, A, c + 1, e2, X)
    <3>1. c + 1 \in Nat /\ c <= c + 1 /\ X \subseteq X
      BY <1>1
    <3>. QED  BY <2>2, <3>1, CloseSound
  <2>. HIDE DEF D2
  <2>4. Sound(D2, W2, A, c + 1, e2, X)
    BY <2>1, <2>3
  <2>. QED  BY <2>4 DEF D2
<1>3. CASE d # D[f]
  <2>1. PICK t : /\ Put(D, D2, f, t) /\ d.cut
                 /\ t \in {Malformed, r} /\ (D[f].cut => t = Malformed)
    BY <1>1, <1>3, PutByTearing
  <2>. D2[f] = d
    BY <1>1
  <2>2. Tears(D[f], D2[f], r, t)
    BY <2>1 DEF Tears
  <2>3. Charged(W2, f, e, e2)
    <3>1. d.cut
      BY <2>1
    <3>2. CASE \E q \in Proc : W2[q].file = f
      BY <3>1, <3>2 DEF Charged, Exposes
    <3>3. CASE ~\E q \in Proc : W2[q].file = f
      <4>1. e2 = e + 0
        BY <3>3 DEF Exposes
      <4>. QED  BY <1>1, <3>3, <4>1 DEF Charged
    <3>. QED  BY <3>2, <3>3
  <2>4. Put(D, D2, f, t)
    BY <2>1
  <2>. HIDE DEF D2
  <2>5. Sound(D2, W2, A, c + 1, e2, X)
    BY <2>2, <2>3, <2>4, TornPutSound
  <2>. QED  BY <2>5 DEF D2
<1>. QED  BY <1>2, <1>3

\* Process p takes a file over.
Takeover(p, f, last, W, W2) ==
  /\ W2 \in Writers /\ \A q \in Proc \ {p} : W2[q] = W[q]
  /\ W2[p].file = f /\ W2[p].last = last

LEMMA HeaderFacts ==
  ASSUME NEW c \in Nat, NEW a \in 0 .. c, NEW h, h = Header(c + 1, a), NEW d, d = NoLines
  PROVE  /\ h \in Line /\ Born(h, c + 1) /\ ~IsMessage(h) /\ h.kind = "session"
         /\ Fits(d, h, c) /\ Whole(d) = 0 /\ ~d.cut
<1>1. /\ h \in Line /\ h.kind = "session" /\ h.id = c + 1 /\ h.parent = a
  BY DEF Header, Line
<1>2. Born(h, c + 1)
  BY <1>1 DEF Born
<1>3. ~d.cut /\ Whole(d) = 0
  BY DEF NoLines, Whole
<1>. QED  BY <1>1, <1>2, <1>3 DEF Fits, IsMessage

\* A session is created in an unused file.
LEMMA CreateSound ==
  ASSUME NEW D, NEW W, NEW A, NEW c, NEW e, NEW X, Sound(D, W, A, c, e, X),
         NEW p \in Proc, NEW f \in File, D[f] = NoLines, NEW a \in 0 .. c,
         NEW last, last \in X \cup {None}, NEW W2, Takeover(p, f, last, W, W2),
         NEW X2, X2 \subseteq X
  PROVE  Sound([D EXCEPT ![f] = Appended(@, <<Header(c + 1, a)>>)], W2, A, c + 1, e, X2)
<1>. DEFINE h == Header(c + 1, a)
            D2 == [D EXCEPT ![f] = Appended(@, <<h>>)]
<1>1. /\ D \in [File -> Content] /\ W \in Writers /\ c \in Nat /\ e \in Nat /\ Files(D, c)
      /\ Finite(Gone(D, A), Scars(D), Raw(D, W), Dangling(D, W, X))
      /\ Balanced(Gone(D, A), Scars(D), Raw(D, W), Dangling(D, W, X), e)
      /\ X \subseteq 0 .. c /\ None = 0
  BY SoundFacts DEF Writers, None
<1>2. /\ h \in Line /\ Born(h, c + 1) /\ ~IsMessage(h) /\ h.kind = "session"
      /\ Fits(D[f], h, c) /\ Whole(D[f]) = 0 /\ ~D[f].cut
  BY <1>1, HeaderFacts
<1>. HIDE DEF h
<1>3. Put(D, D2, f, h) /\ ~D2[f].cut
  BY <1>1, <1>2, PutByAppending
<1>4. /\ W2 \in Writers /\ \A q \in Proc \ {p} : W2[q] = W[q]
      /\ W2[p].file = f /\ W2[p].last = last
  BY DEF Takeover
<1>. HIDE DEF D2
<1>5. Whole(D2[f]) > 0
  BY <1>2, <1>3, PutFacts
<1>6. ASSUME NEW q \in Proc
      PROVE  \/ W2[q] = W[q] \/ W2[q] = NoWriter
             \/ W2[q].file # None /\ W2[q].last <= c + 1 /\ Whole(D2[W2[q].file]) > 0
  <2>1. CASE q = p
    <3>1. last <= c + 1
      BY <1>1
    <3>. QED  BY <1>4, <1>5, <2>1, <3>1, FileNotNone
  <2>2. CASE q # p
    BY <1>4, <2>2
  <2>. QED  BY <2>1, <2>2
<1>7. IsFiniteSet(Scars(D2))
  <2>1. Files(D2, c + 1)
    BY <1>1, <1>2, <1>3, PutFiles
  <2>. QED  BY <1>1, <2>1, ScarsFinite
<1>8. Scars(D) \subseteq Scars(D2)
  BY <1>3, PutScars
<1>9. Gone(D2, A) \subseteq Gone(D, A)
  BY <1>3, PutGone
<1>10. Raw(D2, W2) \subseteq Raw(D, W)
  <2>1. \A q \in Proc : W2[q].file # f => W2[q].file = W[q].file \/ W2[q].file = None
    BY <1>4
  <2>2. Raw(D2, W2) \subseteq Raw(D, W) \cup {f} /\ f \notin Raw(D2, W2)
    BY <1>1, <1>3, <1>4, <2>1, PutRaw
  <2>. QED  BY <2>2
<1>11. Dangling(D2, W2, X2) \subseteq Dangling(D, W, X)
  <2>. SUFFICES ASSUME NEW id \in Dangling(D2, W2, X2)  PROVE id \in Dangling(D, W, X)
    OBVIOUS
  <2>1. id # None
    BY DEF Dangling
  <2>2. id \in X2 \/ (\E q \in Proc : W2[q].last = id) => Cited(D, W, X, id)
    <3>1. ASSUME NEW q \in Proc, W2[q].last = id  PROVE id \in X \/ W[q].last = id
      BY <1>4, <2>1, <3>1
    <3>. QED  BY <3>1 DEF Cited
  <2>3. id \in Dangling(D, W, X) \/ (D[f].cut /\ id = D[f].lines[Whole(D[f]) + 1].id)
    BY <1>2, <1>3, <2>2, PutDangling
  <2>. QED  BY <1>2, <2>3
<1>12. Balanced(Gone(D2, A), Scars(D2), Raw(D2, W2), Dangling(D2, W2, X2), e)
  <2>1. e <= e
    BY <1>1
  <2>. QED  BY <1>1, <1>7, <1>8, <1>9, <1>10, <1>11, <2>1, FreeOfCharge
<1>13. A \subseteq A \cup {c + 1}
  OBVIOUS
<1>14. Sound(D2, W2, A, c + 1, e, X2)
  <2>1. Put(D, D2, f, h) /\ Fits(D[f], h, c)
    BY <1>2, <1>3
  <2>2. h.kind = "session" /\ W2 \in Writers /\ e \in Nat
    BY <1>1, <1>2, <1>4
  <2>3. \A q \in Proc : \/ W2[q] = W[q] \/ W2[q] = NoWriter
                         \/ /\ W2[q].file # None /\ W2[q].last <= c + 1
                            /\ Whole(D2[W2[q].file]) > 0
    BY <1>6
  <2>. QED  BY <1>12, <1>13, <2>1, <2>2, <2>3, PutSound
<1>. QED  BY <1>14 DEF D2, h

\* A file that reads back is opened at its head, its torn tail closed.
LEMMA IsolatedFacts ==
  ASSUME NEW d \in Content, NEW e, e = Isolated(d)
  PROVE  /\ e \in Content /\ e.lines = d.lines /\ ~e.cut
         /\ Whole(e) = Len(d.lines) /\ Whole(d) <= Whole(e)
<1>1. d = [lines |-> d.lines, cut |-> d.cut] /\ d.lines \in Seq(Line)
  BY ContentFacts
<1>2. e = [lines |-> d.lines, cut |-> FALSE]
  BY <1>1 DEF Isolated
<1>3. ~e.cut /\ e.lines = d.lines
  BY <1>2, NotCut
<1>4. e \in Content
  BY <1>1, <1>2, ContentMade
<1>5. Whole(e) = Len(d.lines)
  BY <1>3 DEF Whole
<1>6. Whole(d) <= Len(d.lines)
  BY ContentFacts
<1>. QED  BY <1>3, <1>4, <1>5, <1>6

LEMMA OpenSound ==
  ASSUME NEW D, NEW W, NEW A, NEW c, NEW e, NEW X, Sound(D, W, A, c, e, X),
         NEW p \in Proc, NEW s \in File, Readable(D[s]),
         NEW W2, Takeover(p, s, HeadOf(D[s]), W, W2)
  PROVE  Sound([D EXCEPT ![s] = Isolated(@)], W2, A, c, e, X)
<1>. DEFINE D2 == [D EXCEPT ![s] = Isolated(@)]
<1>1. /\ D \in [File -> Content] /\ W \in Writers /\ c \in Nat /\ e \in Nat /\ Files(D, c)
      /\ Finite(Gone(D, A), Scars(D), Raw(D, W), Dangling(D, W, X))
      /\ Balanced(Gone(D, A), Scars(D), Raw(D, W), Dangling(D, W, X), e)
      /\ X \subseteq 0 .. c /\ A \subseteq 1 .. c /\ IdsApart(D) /\ None = 0
  BY SoundFacts DEF Writers, None
<1>2. \A q \in Proc : /\ W[q].last \in Nat /\ W[q].last <= c /\ W[q].file \in File \cup {None}
                      /\ W[q].file = None => W[q].last = None
                      /\ W[q].file # None => Whole(D[W[q].file]) > 0
  BY SoundFacts
<1>3. D[s] \in Content /\ FileOK(D[s], c)
  BY <1>1 DEF Files
<1>4. /\ W2 \in Writers /\ \A q \in Proc \ {p} : W2[q] = W[q]
      /\ W2[p].file = s /\ W2[p].last = HeadOf(D[s])
  BY DEF Takeover
<1>5. D2[s] = Isolated(D[s]) /\ \A g \in File : g # s => D2[g] = D[g]
  BY <1>1
<1>6. /\ D2[s] \in Content /\ D2[s].lines = D[s].lines /\ ~D2[s].cut
      /\ Whole(D2[s]) = Len(D[s].lines) /\ Whole(D[s]) <= Whole(D2[s])
  BY <1>3, <1>5, IsolatedFacts
<1>7. D2 \in [File -> Content]
  BY <1>1, <1>6
<1>. HIDE DEF D2
<1>8. \A g \in File : /\ D2[g].lines = D[g].lines /\ Whole(D[g]) <= Whole(D2[g])
                      /\ Whole(D[g]) \in Nat /\ Whole(D2[g]) \in Nat /\ Len(D[g].lines) \in Nat
  <2>. SUFFICES ASSUME NEW g \in File
                PROVE /\ D2[g].lines = D[g].lines /\ Whole(D[g]) <= Whole(D2[g])
                      /\ Whole(D[g]) \in Nat /\ Whole(D2[g]) \in Nat /\ Len(D[g].lines) \in Nat
    OBVIOUS
  <2>1. D[g] \in Content /\ D2[g] \in Content
    BY <1>1, <1>7
  <2>2. Whole(D[g]) \in Nat /\ Whole(D2[g]) \in Nat /\ Len(D[g].lines) \in Nat
    BY <2>1, ContentFacts
  <2>3. CASE g = s
    BY <1>6, <2>2, <2>3
  <2>4. CASE g # s
    BY <1>5, <2>2, <2>4
  <2>. QED  BY <2>3, <2>4
<1>9. D[s].lines # <<>> /\ D[s].lines[1].kind = "session" /\ Len(D[s].lines) > 0
  BY <1>1, <1>3, ReadableFacts, ContentFacts
<1>10. Files(D2, c)
  <2>. SUFFICES ASSUME NEW g \in File  PROVE FileOK(D2[g], c)
    BY DEF Files
  <2>1. CASE g = s
    BY <1>3, <1>6, <1>9, <2>1 DEF FileOK
  <2>2. CASE g # s
    BY <1>1, <1>5, <2>2 DEF Files
  <2>. QED  BY <2>1, <2>2
<1>11. IdsApart(D2)
  <2>1. ASSUME NEW g \in File, NEW h \in File
        PROVE  \A i \in 1 .. Len(D2[g].lines), j \in 1 .. Len(D2[h].lines) :
                  /\ IsMessage(D2[g].lines[i]) /\ IsMessage(D2[h].lines[j])
                  /\ D2[g].lines[i].id = D2[h].lines[j].id
                  => g = h /\ i = j
    <3>1. D2[g].lines = D[g].lines /\ D2[h].lines = D[h].lines
      BY <1>8
    <3>. QED  BY <1>1, <3>1 DEF IdsApart
  <2>. QED  BY <2>1 DEF IdsApart
<1>12. \A id : Shown(D2, id) <=> Shown(D, id)
  BY <1>8 DEF Shown, At
<1>13. Gone(D2, A) \subseteq Gone(D, A)
  <2>1. ASSUME NEW id, Kept(D, id)  PROVE Kept(D2, id)
    <3>1. PICK g \in File : \E i \in 1 .. Whole(D[g]) : At(D[g], i, id)
      BY <2>1 DEF Kept
    <3>2. PICK i \in 1 .. Whole(D[g]) : At(D[g], i, id)
      BY <3>1
    <3>3. i \in 1 .. Whole(D2[g])
      BY <1>8
    <3>4. At(D2[g], i, id)
      BY <1>8, <3>2 DEF At
    <3>. QED  BY <3>3, <3>4 DEF Kept
  <2>. QED  BY <2>1 DEF Gone
<1>14. Scars(D) \subseteq Scars(D2)
  <2>. SUFFICES ASSUME NEW x \in Scars(D)  PROVE x \in Scars(D2)
    OBVIOUS
  <2>1. x \in File \X Nat /\ x[2] \in 1 .. Whole(D[x[1]]) /\ D[x[1]].lines[x[2]] = Malformed
    BY DEF Scars
  <2>2. x[1] \in File
    BY <2>1
  <2>3. x[2] \in 1 .. Whole(D2[x[1]]) /\ D2[x[1]].lines[x[2]] = Malformed
    BY <1>8, <2>1, <2>2
  <2>. QED  BY <2>1, <2>3 DEF Scars
<1>15. Raw(D2, W2) \subseteq Raw(D, W)
  <2>. SUFFICES ASSUME NEW g \in Raw(D2, W2)  PROVE g \in Raw(D, W)
    OBVIOUS
  <2>1. g \in File /\ D2[g].cut
    BY DEF Raw
  <2>2. PICK q \in Proc : W2[q].file = g
    BY DEF Raw
  <2>3. g # s
    BY <1>6, <2>1
  <2>4. D2[g] = D[g] /\ W[q].file = g
    BY <1>4, <1>5, <2>1, <2>2, <2>3
  <2>. QED  BY <2>1, <2>4 DEF Raw
<1>16. Dangling(D2, W2, X) \subseteq Dangling(D, W, X)
  <2>. SUFFICES ASSUME NEW id \in Dangling(D2, W2, X)  PROVE id \in Dangling(D, W, X)
    OBVIOUS
  <2>1. id \in Nat /\ id # None /\ Cited(D2, W2, X, id) /\ ~Shown(D, id)
    BY <1>12 DEF Dangling
  <2>2. ASSUME NEW q \in Proc, W2[q].last = id  PROVE W[q].last = id
    <3>1. CASE q = p
      <4>1. id = HeadOf(D[s])
        BY <1>4, <2>2, <3>1
      <4>2. \E i \in 1 .. Len(D[s].lines) : At(D[s], i, id)
        BY <1>3, <2>1, <4>1, HeadIsThere
      <4>3. Shown(D, id)
        BY <4>2 DEF Shown
      <4>. QED  BY <2>1, <4>3
    <3>2. CASE q # p
      BY <1>4, <2>2, <3>2
    <3>. QED  BY <3>1, <3>2
  <2>3. Cited(D, W, X, id)
    <3>1. ASSUME NEW g \in File, NEW i \in 1 .. Len(D2[g].lines),
                 IsMessage(D2[g].lines[i]), D2[g].lines[i].parent = id
          PROVE  Cited(D, W, X, id)
      <4>1. D2[g].lines = D[g].lines
        BY <1>8
      <4>. QED  BY <3>1, <4>1 DEF Cited
    <3>2. CASE id \in X \/ \E q \in Proc : W2[q].last = id
      BY <2>2, <3>2 DEF Cited
    <3>. QED  BY <2>1, <3>1, <3>2 DEF Cited
  <2>. QED  BY <2>1, <2>3 DEF Dangling
<1>17. Balanced(Gone(D2, A), Scars(D2), Raw(D2, W2), Dangling(D2, W2, X), e)
  <2>1. e <= e
    BY <1>1
  <2>2. IsFiniteSet(Scars(D2))
    BY <1>1, <1>10, ScarsFinite
  <2>. QED  BY <1>1, <1>13, <1>14, <1>15, <1>16, <2>1, <2>2, FreeOfCharge
<1>18. ASSUME NEW q \in Proc
       PROVE  /\ W2[q].last <= c
              /\ W2[q].file = None => W2[q].last = None
              /\ W2[q].file # None => Whole(D2[W2[q].file]) > 0
  <2>1. CASE q = p
    <3>1. HeadOf(D[s]) <= c
      <4>1. CASE HeadOf(D[s]) = None
        BY <1>1, <4>1
      <4>2. ASSUME NEW i \in 1 .. Len(D[s].lines), At(D[s], i, HeadOf(D[s]))
            PROVE  HeadOf(D[s]) <= c
        <5>1. Born(D[s].lines[i], c)
          BY <1>3 DEF FileOK
        <5>. QED  BY <1>1, <4>2, <5>1 DEF Born, At, IsMessage
      <4>. QED  BY <1>3, <4>1, <4>2, HeadIsThere
    <3>2. Whole(D2[s]) > 0
      BY <1>6, <1>9
    <3>. QED  BY <1>4, <2>1, <3>1, <3>2, FileNotNone
  <2>2. CASE q # p
    <3>1. W2[q] = W[q]
      BY <1>4, <2>2
    <3>2. ASSUME W[q].file # None  PROVE Whole(D2[W[q].file]) > 0
      <4>1. W[q].file \in File /\ Whole(D[W[q].file]) > 0
        BY <1>2, <3>2
      <4>. QED  BY <1>8, <4>1
    <3>. QED  BY <1>2, <3>1, <3>2
  <2>. QED  BY <2>1, <2>2
<1>19. Sound(D2, W2, A, c, e, X)
  BY <1>1, <1>4, <1>7, <1>10, <1>11, <1>17, <1>18, SoundAgain
<1>. QED  BY <1>19 DEF D2

-----------------------------------------------------------------------------
(* One call of the store: what reaches the file, and what is acknowledged. *)

LEMMA Prefixes ==
  ASSUME NEW a, NEW b
  PROVE  /\ Len(<<a>>) = 1 /\ SubSeq(<<a>>, 1, 0) = <<>> /\ SubSeq(<<a>>, 1, 1) = <<a>>
         /\ Len(<<a, b>>) = 2 /\ SubSeq(<<a, b>>, 1, 0) = <<>> /\ SubSeq(<<a, b>>, 1, 1) = <<a>>
         /\ SubSeq(<<a, b>>, 1, 2) = <<a, b>>
<1>. DEFINE s == <<a>>
            t == <<a, b>>
            S == {a, b}
<1>1. /\ s \in Seq(S) /\ Len(s) = 1 /\ s[1] = a
      /\ t \in Seq(S) /\ Len(t) = 2 /\ t[1] = a /\ t[2] = b
  OBVIOUS
<1>. HIDE DEF s, t
<1>2. SubSeq(s, 1, 0) = <<>> /\ SubSeq(t, 1, 0) = <<>>
  BY SubSeqEmpty
<1>3. SubSeq(s, 1, 1) = s
  BY <1>1, SubSeqFull
<1>4. SubSeq(t, 1, 2) = t
  BY <1>1, SubSeqFull
<1>5. SubSeq(t, 1, 1) = s
  <2>0. \A i \in 1 .. 1 : t[i] \in S
    BY <1>1
  <2>1. /\ SubSeq(t, 1, 1) \in Seq(S) /\ Len(SubSeq(t, 1, 1)) = 1
        /\ SubSeq(t, 1, 1)[1] = t[1]
    <3>. HIDE DEF S
    <3>. QED  BY <2>0, SubSeqProperties
  <2>2. \A i \in 1 .. Len(s) : s[i] = SubSeq(t, 1, 1)[i]
    BY <1>1, <2>1
  <2>. HIDE DEF S
  <2>. QED  BY <1>1, <2>1, <2>2, SeqEqual
<1>6. Len(s) = 1 /\ Len(t) = 2
  BY <1>1
<1>. QED  BY <1>2, <1>3, <1>4, <1>5, <1>6 DEF s, t

LEMMA OutcomesOne ==
  ASSUME NEW x \in Content, NEW a, NEW k \in 0 .. 1, NEW d \in Outcomes(x, <<a>>, k)
  PROVE  (k = 0 /\ d \in Torn(x, a)) \/ (k = 1 /\ d = Appended(x, <<a>>))
<1>. DEFINE s == <<a>>
<1>1. s[1] = a /\ Len(s) = 1 /\ SubSeq(s, 1, 0) = <<>> /\ SubSeq(s, 1, 1) = s
  BY Prefixes
<1>2. d \in Outcomes(x, s, k)
  OBVIOUS
<1>. HIDE DEF s
<1>3. CASE k = 0
  <2>0. SubSeq(s, 1, k) = <<>>
    BY <1>1, <1>3, Zenon
  <2>1. k # Len(s) /\ s[k + 1] = a /\ SubSeq(s, 1, k) = <<>>
    BY <1>1, <1>3, <2>0
  <2>2. Outcomes(x, s, k) = Torn(Appended(x, <<>>), a)
    BY <2>1 DEF Outcomes
  <2>. QED  BY <1>2, <1>3, <2>2, AppendedNone
<1>4. CASE k = 1
  <2>0. SubSeq(s, 1, k) = s
    BY <1>1, <1>4, Zenon
  <2>1. k = Len(s) /\ SubSeq(s, 1, k) = s
    BY <1>1, <1>4, <2>0
  <2>2. Outcomes(x, s, k) = {Appended(x, s)}
    BY <2>1 DEF Outcomes
  <2>. QED  BY <1>2, <1>4, <2>2 DEF s
<1>. QED  BY <1>3, <1>4

LEMMA OutcomesTwo ==
  ASSUME NEW x \in Content, NEW a \in Line, NEW b \in Line, NEW k \in 0 .. 2,
         NEW d \in Outcomes(x, <<a, b>>, k)
  PROVE  \/ k = 0 /\ d \in Torn(x, a)
         \/ k = 1 /\ d \in Torn(Appended(x, <<a>>), b)
         \/ k = 2 /\ d = Appended(Appended(x, <<a>>), <<b>>)
<1>. DEFINE s == <<a, b>>
            t == <<a>>
<1>1. /\ s[1] = a /\ s[2] = b /\ Len(s) = 2 /\ SubSeq(s, 1, 0) = <<>> /\ SubSeq(s, 1, 1) = t
      /\ SubSeq(s, 1, 2) = s
  BY Prefixes
<1>2. d \in Outcomes(x, s, k)
  OBVIOUS
<1>3. Appended(x, s) = Appended(Appended(x, t), <<b>>)
  BY AppendedTwo
<1>. HIDE DEF s, t
<1>4. CASE k = 0
  <2>0. SubSeq(s, 1, k) = <<>>
    BY <1>1, <1>4, Zenon
  <2>1. k # Len(s) /\ s[k + 1] = a /\ SubSeq(s, 1, k) = <<>>
    BY <1>1, <1>4, <2>0
  <2>2. Outcomes(x, s, k) = Torn(Appended(x, <<>>), a)
    BY <2>1 DEF Outcomes
  <2>. QED  BY <1>2, <1>4, <2>2, AppendedNone
<1>5. CASE k = 1
  <2>0. SubSeq(s, 1, k) = t
    BY <1>1, <1>5, Zenon
  <2>1. k # Len(s) /\ s[k + 1] = b /\ SubSeq(s, 1, k) = t
    BY <1>1, <1>5, <2>0
  <2>2. Outcomes(x, s, k) = Torn(Appended(x, t), b)
    BY <2>1 DEF Outcomes
  <2>. QED  BY <1>2, <1>5, <2>2 DEF t
<1>6. CASE k = 2
  <2>0. SubSeq(s, 1, k) = s
    BY <1>1, <1>6, Zenon
  <2>1. k = Len(s) /\ SubSeq(s, 1, k) = s
    BY <1>1, <1>6, <2>0
  <2>2. Outcomes(x, s, k) = {Appended(x, s)}
    BY <2>1 DEF Outcomes
  <2>. QED  BY <1>2, <1>3, <1>6, <2>2 DEF t
<1>. QED  BY <1>4, <1>5, <1>6

LEMMA IdsWritten ==
  ASSUME NEW a, NEW b
  PROVE  /\ IdsOf(<<>>) = {}
         /\ IdsOf(<<a>>) = IF IsMessage(a) THEN {a.id} ELSE {}
         /\ IdsOf(<<a, b>>) = (IF IsMessage(a) THEN {a.id} ELSE {})
                                \cup (IF IsMessage(b) THEN {b.id} ELSE {})
<1>1. IdsOf(<<>>) = {}
  BY DEF IdsOf
<1>2. IdsOf(<<a>>) = IF IsMessage(a) THEN {a.id} ELSE {}
  <2>. DEFINE s == <<a>>
  <2>1. DOMAIN s = {1} /\ s[1] = a
    OBVIOUS
  <2>. HIDE DEF s
  <2>2. IdsOf(s) = IF IsMessage(a) THEN {a.id} ELSE {}
    BY <2>1 DEF IdsOf
  <2>. QED  BY <2>2 DEF s
<1>3. IdsOf(<<a, b>>) = (IF IsMessage(a) THEN {a.id} ELSE {}) \cup (IF IsMessage(b) THEN {b.id} ELSE {})
  <2>. DEFINE s == <<a, b>>
  <2>1. DOMAIN s = {1, 2} /\ s[1] = a /\ s[2] = b
    OBVIOUS
  <2>. HIDE DEF s
  <2>2. IdsOf(s) = (IF IsMessage(a) THEN {a.id} ELSE {}) \cup (IF IsMessage(b) THEN {b.id} ELSE {})
    BY <2>1 DEF IdsOf
  <2>. QED  BY <2>2 DEF s
<1>. QED  BY <1>1, <1>2, <1>3

-----------------------------------------------------------------------------
(* The same steps, as the actions take them.                               *)

Closed(W, p) == [W EXCEPT ![p] = NoWriter]
AtHead(W, p, f, n) == [W EXCEPT ![p] = [file |-> f, last |-> n]]

LEMMA ClosedRetires ==
  ASSUME NEW W \in Writers, NEW p \in Proc
  PROVE  Retired(W, Closed(W, p)) /\ Retired(W, W) /\ Closed(W, p) \in Writers
<1>1. NoWriter \in [file : File \cup {None}, last : Nat]
  BY DEF NoWriter, None
<1>2. Closed(W, p) \in Writers
  BY <1>1 DEF Closed, Writers
<1>3. \A q \in Proc : Closed(W, p)[q] = W[q] \/ Closed(W, p)[q] = NoWriter
  BY DEF Closed, Writers
<1>. QED  BY <1>2, <1>3 DEF Retired

LEMMA HeadTakesOver ==
  ASSUME NEW W \in Writers, NEW p \in Proc, NEW f \in File, NEW n \in Nat
  PROVE  Takeover(p, f, n, W, AtHead(W, p, f, n)) /\ AtHead(W, p, f, n) \in Writers
BY DEF Takeover, AtHead, Writers

LEMMA LineTearable ==
  ASSUME NEW D, NEW W, NEW A, NEW c, NEW e, NEW X, Sound(D, W, A, c, e, X),
         NEW p \in Proc, NEW f \in File, W[p].file = f, NEW r, Writable(r, W[p], c)
  PROVE  Tearable(D, W, c, X, f, r)
<1>1. Whole(D[f]) > 0
  BY SoundFacts, FileNotNone
<1>2. Fits(D[f], r, c)
  BY <1>1 DEF Fits, Writable
<1>3. IsMessage(r) => Cited(D, W, X, r.parent)
  BY DEF Writable, Cited
<1>. QED  BY <1>2, <1>3 DEF Tearable

LEMMA HeaderTearable ==
  ASSUME NEW D, NEW W, NEW c \in Nat, NEW X, NEW f, D[f] = NoLines, NEW a \in 0 .. c
  PROVE  Tearable(D, W, c, X, f, Header(c + 1, a))
BY HeaderFacts DEF Tearable

\* The writer of f dies or gives up while it appends a line.
LEMMA HeldTear ==
  ASSUME NEW D, NEW W, NEW A, NEW c, NEW e, NEW X, Sound(D, W, A, c, e, X),
         NEW p \in Proc, NEW f \in File, W[p].file = f, NEW r, Writable(r, W[p], c),
         NEW d \in Torn(D[f], r), NEW e2,
         e2 = e + (IF d.cut /\ \E q \in Proc \ {p} : W[q].file = f THEN 1 ELSE 0)
  PROVE  Sound([D EXCEPT ![f] = d], Closed(W, p), A, c + 1, e2, X)
<1>1. Tearable(D, W, c, X, f, r)
  BY LineTearable
<1>2. W \in Writers /\ e \in Nat
  BY SoundFacts DEF Writers
<1>3. Retired(W, Closed(W, p))
  BY <1>2, ClosedRetires
<1>4. (\E q \in Proc : Closed(W, p)[q].file = f) <=> \E q \in Proc \ {p} : W[q].file = f
  <2>1. Closed(W, p)[p].file # f
    BY <1>2, FileNotNone DEF Closed, NoWriter, Writers
  <2>2. \A q \in Proc \ {p} : Closed(W, p)[q] = W[q]
    BY <1>2 DEF Closed, Writers
  <2>. QED  BY <2>1, <2>2
<1>5. Exposes(d, Closed(W, p), f, e, e2)
  BY <1>4 DEF Exposes
<1>. QED  BY <1>1, <1>3, <1>5, TearSound

\* The files of the next state are Sound, with nobody's intentions but the writers'.
SoundNow == Sound(disk, writer, acked, clock, exposed, {})

LEMMA SoundNowFacts ==
  ASSUME SoundNow
  PROVE  /\ disk \in [File -> Content] /\ writer \in Writers /\ clock \in Nat /\ exposed \in Nat
         /\ acked \subseteq 1 .. clock
         /\ \A q \in Proc : /\ writer[q].last \in 0 .. clock /\ writer[q].file \in File \cup {None}
                            /\ writer[q].file = None => writer[q].last = None
                            /\ writer[q].file # None => Whole(disk[writer[q].file]) > 0
<1>1. /\ disk \in [File -> Content] /\ writer \in Writers /\ clock \in Nat /\ exposed \in Nat
      /\ acked \subseteq 1 .. clock
      /\ \A q \in Proc : /\ writer[q].last \in Nat /\ writer[q].last <= clock
                         /\ writer[q].file \in File \cup {None}
                         /\ writer[q].file = None => writer[q].last = None
                         /\ writer[q].file # None => Whole(disk[writer[q].file]) > 0
  BY SoundFacts DEF SoundNow, Writers
<1>. QED  BY <1>1

LEMMA AppendedUncut ==
  ASSUME NEW x \in Content, NEW r \in Line
  PROVE  Appended(x, <<r>>) \in Content /\ ~Appended(x, <<r>>).cut
BY AppendedOne

\* A writer appends one line, or is closed by the failure.
LEMMA SaveOne ==
  ASSUME SoundNow, NEW p \in Proc, NEW f \in File, writer[p].file = f,
         NEW r, Writable(r, writer[p], clock), NEW k \in 0 .. 1, Save(f, <<r>>, k, {p}),
         k = 1 => writer' = IF IsMessage(r) THEN AtHead(writer, p, f, clock') ELSE writer,
         k = 0 => writer' = Closed(writer, p)
  PROVE  SoundNow'
<1>1. /\ disk \in [File -> Content] /\ writer \in Writers /\ clock \in Nat /\ exposed \in Nat
      /\ disk[f] \in Content
  BY SoundNowFacts
<1>2. PICK d \in Outcomes(disk[f], <<r>>, k) :
         /\ disk' = [disk EXCEPT ![f] = d]
         /\ clock' = clock + Len(<<>>) + Len(<<r>>)
         /\ acked' = acked \cup IdsOf(<<>>) \cup IdsOf(SubSeq(<<r>>, 1, k))
         /\ exposed' = exposed + (IF d.cut /\ \E q \in Proc \ {p} : writer[q].file = f
                                  THEN 1 ELSE 0)
  BY DEF Save, SaveAfter
<1>3. clock' = clock + 1
  BY <1>1, <1>2
<1>4. r \in Line /\ (IsMessage(r) => r.id = clock + 1)
  BY DEF Writable
<1>5. CASE k = 0
  <2>1. d \in Torn(disk[f], r)
    BY <1>1, <1>2, <1>5, OutcomesOne
  <2>2. acked' = acked
    <3>1. SubSeq(<<r>>, 1, 0) = <<>> /\ IdsOf(<<>>) = {}
      BY Prefixes, IdsWritten
    <3>. QED  BY <1>2, <1>5, <3>1
  <2>3. Sound([disk EXCEPT ![f] = d], Closed(writer, p), acked, clock + 1, exposed', {})
    BY <1>2, <2>1, HeldTear DEF SoundNow
  <2>. QED  BY <1>2, <1>3, <1>5, <2>2, <2>3 DEF SoundNow
<1>6. CASE k = 1
  <2>. DEFINE D2 == [disk EXCEPT ![f] = Appended(@, <<r>>)]
              W2 == IF IsMessage(r) THEN [writer EXCEPT ![p] = [file |-> f, last |-> clock + 1]]
                    ELSE writer
              A2 == IF IsMessage(r) THEN acked \cup {clock + 1} ELSE acked
  <2>1. d = Appended(disk[f], <<r>>)
    BY <1>1, <1>2, <1>6, OutcomesOne
  <2>2. acked' = A2
    <3>1. SubSeq(<<r>>, 1, 1) = <<r>> /\ IdsOf(<<>>) = {}
          /\ IdsOf(<<r>>) = IF IsMessage(r) THEN {r.id} ELSE {}
      BY Prefixes, IdsWritten
    <3>. QED  BY <1>2, <1>4, <1>6, <3>1
  <2>3. ~d.cut
    BY <1>1, <1>4, <2>1, AppendedUncut
  <2>4. exposed' = exposed
    BY <1>1, <1>2, <2>3
  <2>5. writer' = W2
    BY <1>3, <1>6 DEF AtHead
  <2>6. disk' = D2
    BY <1>2, <2>1
  <2>7. Sound(D2, W2, A2, clock + 1, exposed, {})
    BY AppendSound DEF SoundNow
  <2>. HIDE DEF D2, W2, A2
  <2>. QED  BY <1>3, <2>2, <2>4, <2>5, <2>6, <2>7 DEF SoundNow
<1>. QED  BY <1>5, <1>6

LEMMA TwiceAt ==
  ASSUME NEW S, NEW T, NEW D \in [S -> T], NEW x \in S, NEW a, NEW b
  PROVE  /\ [[D EXCEPT ![x] = a] EXCEPT ![x] = b] = [D EXCEPT ![x] = b]
         /\ [D EXCEPT ![x] = a][x] = a
OBVIOUS

LEMMA HeadsTwice ==
  ASSUME NEW W \in Writers, NEW p \in Proc, NEW f \in File, NEW n \in Nat, NEW m \in Nat
  PROVE  /\ AtHead(W, p, f, n)[p].file = f /\ AtHead(W, p, f, n)[p].last = n
         /\ Closed(AtHead(W, p, f, n), p) = Closed(W, p)
         /\ AtHead(AtHead(W, p, f, n), p, f, m) = AtHead(W, p, f, m)
         /\ \A q \in Proc \ {p} : AtHead(W, p, f, n)[q] = W[q]
BY DEF AtHead, Closed, Writers

\* AppendSound, for a message.
LEMMA MessageSound ==
  ASSUME NEW D, NEW W, NEW A, NEW c, NEW e, NEW X, Sound(D, W, A, c, e, X),
         NEW p \in Proc, NEW f \in File, W[p].file = f, NEW r, Writable(r, W[p], c), IsMessage(r)
  PROVE  Sound([D EXCEPT ![f] = Appended(D[f], <<r>>)], AtHead(W, p, f, c + 1), A \cup {c + 1},
               c + 1, e, X)
<1>1. Sound([D EXCEPT ![f] = Appended(@, <<r>>)],
            IF IsMessage(r) THEN [W EXCEPT ![p] = [file |-> f, last |-> c + 1]] ELSE W,
            IF IsMessage(r) THEN A \cup {c + 1} ELSE A, c + 1, e, X)
  BY AppendSound
<1>2. (IF IsMessage(r) THEN [W EXCEPT ![p] = [file |-> f, last |-> c + 1]] ELSE W) = AtHead(W, p, f, c + 1)
  BY DEF AtHead
<1>3. (IF IsMessage(r) THEN A \cup {c + 1} ELSE A) = A \cup {c + 1}
  OBVIOUS
<1>. QED  BY <1>1, <1>2, <1>3

\* A writer appends two messages, or is closed by the failure.
LEMMA SaveTwo ==
  ASSUME SoundNow, NEW p \in Proc, NEW f \in File, writer[p].file = f,
         NEW r, Writable(r, writer[p], clock), IsMessage(r),
         NEW s, Writable(s, [file |-> f, last |-> clock + 1], clock + 1), IsMessage(s),
         NEW k \in 0 .. 2, Save(f, <<r, s>>, k, {p}),
         k = 2 => writer' = AtHead(writer, p, f, clock'),
         k < 2 => writer' = Closed(writer, p)
  PROVE  SoundNow'
<1>. DEFINE D1 == [disk EXCEPT ![f] = Appended(disk[f], <<r>>)]
            W1 == AtHead(writer, p, f, clock + 1)
            A1 == acked \cup {clock + 1}
<1>1. /\ disk \in [File -> Content] /\ writer \in Writers /\ clock \in Nat /\ exposed \in Nat
      /\ disk[f] \in Content
  BY SoundNowFacts
<1>2. PICK d \in Outcomes(disk[f], <<r, s>>, k) :
         /\ disk' = [disk EXCEPT ![f] = d]
         /\ clock' = clock + Len(<<>>) + Len(<<r, s>>)
         /\ acked' = acked \cup IdsOf(<<>>) \cup IdsOf(SubSeq(<<r, s>>, 1, k))
         /\ exposed' = exposed + (IF d.cut /\ \E q \in Proc \ {p} : writer[q].file = f
                                  THEN 1 ELSE 0)
  BY DEF Save, SaveAfter
<1>3. clock' = clock + 2
  BY <1>1, <1>2
<1>4. r \in Line /\ s \in Line /\ r.id = clock + 1 /\ s.id = clock + 2
  <2>1. r \in Line /\ s \in Line /\ r.id = clock + 1 /\ s.id = clock + 1 + 1
    BY DEF Writable
  <2>. QED  BY <1>1, <2>1
<1>5. Sound(D1, W1, A1, clock + 1, exposed, {})
  BY MessageSound DEF SoundNow
<1>6. /\ D1[f] = Appended(disk[f], <<r>>) /\ \A d2 : [D1 EXCEPT ![f] = d2] = [disk EXCEPT ![f] = d2]
  BY <1>1, TwiceAt
<1>7. /\ W1[p].file = f /\ W1[p].last = clock + 1 /\ Closed(W1, p) = Closed(writer, p)
      /\ AtHead(W1, p, f, clock + 1 + 1) = AtHead(writer, p, f, clock + 1 + 1)
      /\ \A q \in Proc \ {p} : W1[q] = writer[q]
  BY <1>1, HeadsTwice
<1>8. Writable(s, W1[p], clock + 1)
  BY <1>7 DEF Writable
<1>8a. \/ k = 0 /\ d \in Torn(disk[f], r)
       \/ k = 1 /\ d \in Torn(Appended(disk[f], <<r>>), s)
       \/ k = 2 /\ d = Appended(Appended(disk[f], <<r>>), <<s>>)
  <2>1. disk[f] \in Content /\ r \in Line /\ s \in Line
    BY <1>1, <1>4
  <2>. QED  BY <2>1, OutcomesTwo
<1>9. CASE k = 0
  <2>1. d \in Torn(disk[f], r)
    BY <1>8a, <1>9
  <2>2. acked' = acked
    <3>1. SubSeq(<<r, s>>, 1, 0) = <<>> /\ IdsOf(<<>>) = {}
      BY Prefixes, IdsWritten
    <3>. QED  BY <1>2, <1>9, <3>1
  <2>3. Sound([disk EXCEPT ![f] = d], Closed(writer, p), acked, clock + 1, exposed', {})
    BY <1>2, <2>1, HeldTear DEF SoundNow
  <2>. DEFINE D2 == [disk EXCEPT ![f] = d]
              W2 == Closed(writer, p)
  <2>4. Retired(W2, W2)
    BY <1>1, ClosedRetires
  <2>5. exposed' \in Nat
    BY <1>1, <1>2
  <2>. HIDE DEF D2, W2
  <2>6. Sound(D2, W2, acked, clock + 2, exposed', {})
    <3>1. Sound(D2, W2, acked, clock + 1, exposed', {})
      BY <2>3 DEF D2, W2
    <3>2. clock + 1 <= clock + 2 /\ clock + 2 \in Nat /\ exposed' <= exposed'
      BY <1>1, <2>5
    <3>. QED  BY <2>4, <2>5, <3>1, <3>2, CloseSound
  <2>7. disk' = D2 /\ writer' = W2
    BY <1>2, <1>9 DEF D2, W2
  <2>. QED  BY <1>3, <2>2, <2>6, <2>7 DEF SoundNow
<1>10. CASE k = 1
  <2>1. d \in Torn(D1[f], s)
    BY <1>6, <1>8a, <1>10
  <2>2. acked' = A1
    <3>1. SubSeq(<<r, s>>, 1, 1) = <<r>> /\ IdsOf(<<>>) = {}
          /\ IdsOf(<<r>>) = IF IsMessage(r) THEN {r.id} ELSE {}
      BY Prefixes, IdsWritten
    <3>. QED  BY <1>2, <1>4, <1>10, <3>1
  <2>3. exposed' = exposed + (IF d.cut /\ \E q \in Proc \ {p} : W1[q].file = f THEN 1 ELSE 0)
    BY <1>2, <1>7
  <2>. HIDE DEF D1, W1, A1
  <2>4. Sound([D1 EXCEPT ![f] = d], Closed(W1, p), A1, clock + 1 + 1, exposed', {})
    BY <1>5, <1>7, <1>8, <2>1, <2>3, HeldTear
  <2>5. disk' = [D1 EXCEPT ![f] = d]
    BY <1>2, <1>6
  <2>6. writer' = Closed(W1, p) /\ clock' = clock + 1 + 1
    BY <1>1, <1>3, <1>7, <1>10
  <2>. QED  BY <2>2, <2>4, <2>5, <2>6 DEF SoundNow
<1>11. CASE k = 2
  <2>1. d = Appended(D1[f], <<s>>)
    BY <1>6, <1>8a, <1>11
  <2>2. acked' = A1 \cup {clock + 1 + 1}
    <3>1. SubSeq(<<r, s>>, 1, 2) = <<r, s>> /\ IdsOf(<<>>) = {}
          /\ IdsOf(<<r, s>>) = (IF IsMessage(r) THEN {r.id} ELSE {})
                                  \cup (IF IsMessage(s) THEN {s.id} ELSE {})
      BY Prefixes, IdsWritten
    <3>2. IdsOf(<<r, s>>) = {clock + 1} \cup {clock + 1 + 1}
      BY <1>1, <1>4, <3>1
    <3>. QED  BY <1>2, <1>11, <3>1, <3>2
  <2>3. exposed' = exposed
    <3>1. D1[f] \in Content
      BY <1>1, <1>4, <1>6, AppendedUncut
    <3>2. ~d.cut
      BY <1>4, <2>1, <3>1, AppendedUncut
    <3>. QED  BY <1>1, <1>2, <3>2
  <2>. HIDE DEF D1, W1, A1
  <2>4. Sound([D1 EXCEPT ![f] = Appended(D1[f], <<s>>)], AtHead(W1, p, f, clock + 1 + 1),
              A1 \cup {clock + 1 + 1}, clock + 1 + 1, exposed, {})
    BY <1>5, <1>7, <1>8, MessageSound
  <2>5. disk' = [D1 EXCEPT ![f] = d]
    BY <1>2, <1>6
  <2>6. clock' = clock + 1 + 1
    BY <1>1, <1>3
  <2>7. writer' = AtHead(W1, p, f, clock + 1 + 1)
    BY <1>7, <1>11, <2>6
  <2>. QED  BY <2>1, <2>2, <2>3, <2>4, <2>5, <2>6, <2>7 DEF SoundNow
<1>. QED  BY <1>9, <1>10, <1>11

LEMMA HeadersHere ==
  ASSUME NEW c \in Nat, NEW a \in 0 .. c
  PROVE  Header(c + 1, a) \in Line /\ ~IsMessage(Header(c + 1, a))
BY HeaderFacts

LEMMA UnusedIsNobodys ==
  ASSUME SoundNow, NEW f \in File, disk[f] = NoLines
  PROVE  \A q \in Proc : writer[q].file # f
<1>1. Whole(disk[f]) = 0
  BY DEF NoLines, Whole
<1>. QED  BY <1>1, SoundNowFacts, FileNotNone

LEMMA NotBusy ==
  ASSUME NEW W \in Writers, NEW p \in Proc, W[p] = NoWriter
  PROVE  Closed(W, p) = W
BY DEF Closed, Writers

\* A process without a writer creates a session and appends to it.
LEMMA SaveFresh ==
  ASSUME SoundNow, NEW p \in Proc, writer[p] = NoWriter, NEW f \in File, disk[f] = NoLines,
         NEW s, Writable(s, NoWriter, clock + 1),
         NEW k \in 0 .. 2, Save(f, <<Header(clock + 1, None), s>>, k, {p}),
         k = 2 => writer' = AtHead(writer, p, f, IF IsMessage(s) THEN clock' ELSE None),
         k < 2 => writer' = Closed(writer, p)
  PROVE  SoundNow'
<1>. DEFINE h == Header(clock + 1, None)
            D1 == [disk EXCEPT ![f] = Appended(disk[f], <<h>>)]
            W1 == AtHead(writer, p, f, None)
<1>0. None \in Nat /\ None = 0
  BY DEF None
<1>1. /\ disk \in [File -> Content] /\ writer \in Writers /\ clock \in Nat /\ exposed \in Nat
      /\ disk[f] \in Content /\ None \in 0 .. clock
  BY <1>0, SoundNowFacts
<1>2. PICK d \in Outcomes(disk[f], <<h, s>>, k) :
         /\ disk' = [disk EXCEPT ![f] = d]
         /\ clock' = clock + Len(<<>>) + Len(<<h, s>>)
         /\ acked' = acked \cup IdsOf(<<>>) \cup IdsOf(SubSeq(<<h, s>>, 1, k))
         /\ exposed' = exposed + (IF d.cut /\ \E q \in Proc \ {p} : writer[q].file = f
                                  THEN 1 ELSE 0)
  BY DEF Save, SaveAfter
<1>3. clock' = clock + 2
  BY <1>1, <1>2
<1>4. h \in Line /\ ~IsMessage(h) /\ s \in Line /\ (IsMessage(s) => s.id = clock + 2)
  <2>1. h \in Line /\ ~IsMessage(h)
    BY <1>1, HeadersHere
  <2>2. s \in Line /\ (IsMessage(s) => s.id = clock + 1 + 1)
    BY DEF Writable
  <2>. QED  BY <1>1, <2>1, <2>2
<1>5. \A q \in Proc : writer[q].file # f
  BY UnusedIsNobodys
<1>6. Closed(writer, p) = writer /\ exposed' = exposed
  <2>1. exposed' = exposed
    BY <1>1, <1>2, <1>5
  <2>. QED  BY <1>1, <2>1, NotBusy
<1>7. /\ D1[f] = Appended(disk[f], <<h>>) /\ \A d2 : [D1 EXCEPT ![f] = d2] = [disk EXCEPT ![f] = d2]
  BY <1>1, TwiceAt
<1>8. /\ W1[p].file = f /\ W1[p].last = None /\ Closed(W1, p) = Closed(writer, p)
      /\ \A n \in Nat : AtHead(W1, p, f, n) = AtHead(writer, p, f, n)
      /\ \A q \in Proc \ {p} : W1[q] = writer[q]
      /\ Takeover(p, f, None, writer, W1)
  BY <1>0, <1>1, HeadsTwice, HeadTakesOver
<1>9. Writable(s, W1[p], clock + 1)
  BY <1>8 DEF Writable, NoWriter
<1>10. Sound(D1, W1, acked, clock + 1, exposed, {})
  <2>1. Sound([disk EXCEPT ![f] = Appended(@, <<Header(clock + 1, None)>>)], W1, acked, clock + 1, exposed, {})
    <3>1. None \in {} \cup {None} /\ {} \subseteq {}
      OBVIOUS
    <3>. HIDE DEF W1
    <3>. QED  BY <1>1, <1>8, <3>1, CreateSound DEF SoundNow
  <2>. QED  BY <2>1
<1>11. \/ k = 0 /\ d \in Torn(disk[f], h)
       \/ k = 1 /\ d \in Torn(Appended(disk[f], <<h>>), s)
       \/ k = 2 /\ d = Appended(Appended(disk[f], <<h>>), <<s>>)
  <2>1. disk[f] \in Content /\ h \in Line /\ s \in Line
    BY <1>1, <1>4
  <2>. HIDE DEF h
  <2>. QED  BY <2>1, OutcomesTwo
<1>12. CASE k = 0
  <2>1. d \in Torn(disk[f], h)
    BY <1>11, <1>12
  <2>2. acked' = acked
    <3>1. SubSeq(<<h, s>>, 1, 0) = <<>> /\ IdsOf(<<>>) = {}
      BY Prefixes, IdsWritten
    <3>. QED  BY <1>2, <1>12, <3>1
  <2>3. Tearable(disk, writer, clock, {}, f, h)
    BY <1>1, HeaderTearable
  <2>4. Retired(writer, writer)
    BY <1>1, ClosedRetires
  <2>5. Exposes(d, writer, f, exposed, exposed)
    <3>1. exposed = exposed + (IF d.cut /\ \E q \in Proc : writer[q].file = f THEN 1 ELSE 0)
      BY <1>1, <1>5
    <3>. QED  BY <3>1 DEF Exposes
  <2>. DEFINE D2 == [disk EXCEPT ![f] = d]
  <2>6. Sound(D2, writer, acked, clock + 1, exposed, {})
    BY <2>1, <2>3, <2>4, <2>5, TearSound DEF SoundNow
  <2>. HIDE DEF D2
  <2>7. Sound(D2, writer, acked, clock + 2, exposed, {})
    <3>2. clock + 1 <= clock + 2 /\ clock + 2 \in Nat /\ exposed <= exposed
      BY <1>1
    <3>. QED  BY <1>1, <2>4, <2>6, <3>2, CloseSound
  <2>8. disk' = D2 /\ writer' = writer
    BY <1>2, <1>6, <1>12 DEF D2
  <2>. QED  BY <1>3, <1>6, <2>2, <2>7, <2>8 DEF SoundNow
<1>13. CASE k = 1
  <2>1. d \in Torn(D1[f], s)
    BY <1>7, <1>11, <1>13
  <2>2. acked' = acked
    <3>1. SubSeq(<<h, s>>, 1, 1) = <<h>> /\ IdsOf(<<>>) = {}
          /\ IdsOf(<<h>>) = IF IsMessage(h) THEN {h.id} ELSE {}
      BY Prefixes, IdsWritten
    <3>. QED  BY <1>2, <1>4, <1>13, <3>1
  <2>3. exposed' = exposed + (IF d.cut /\ \E q \in Proc \ {p} : W1[q].file = f THEN 1 ELSE 0)
    BY <1>2, <1>8
  <2>. HIDE DEF D1, W1, h
  <2>4. Sound([D1 EXCEPT ![f] = d], Closed(W1, p), acked, clock + 1 + 1, exposed', {})
    BY <1>8, <1>9, <1>10, <2>1, <2>3, HeldTear
  <2>5. disk' = [D1 EXCEPT ![f] = d]
    BY <1>2, <1>7
  <2>6. writer' = Closed(W1, p) /\ clock' = clock + 1 + 1
    BY <1>1, <1>3, <1>8, <1>13
  <2>. QED  BY <2>2, <2>4, <2>5, <2>6 DEF SoundNow
<1>14. CASE k = 2
  <2>. DEFINE D2 == [D1 EXCEPT ![f] = Appended(@, <<s>>)]
              W2 == IF IsMessage(s) THEN [W1 EXCEPT ![p] = [file |-> f, last |-> clock + 1 + 1]]
                    ELSE W1
              A2 == IF IsMessage(s) THEN acked \cup {clock + 1 + 1} ELSE acked
  <2>1. d = Appended(D1[f], <<s>>)
    BY <1>7, <1>11, <1>14
  <2>2. acked' = A2
    <3>1. SubSeq(<<h, s>>, 1, 2) = <<h, s>> /\ IdsOf(<<>>) = {}
          /\ IdsOf(<<h, s>>) = (IF IsMessage(h) THEN {h.id} ELSE {})
                                  \cup (IF IsMessage(s) THEN {s.id} ELSE {})
      BY Prefixes, IdsWritten
    <3>2. IdsOf(<<h, s>>) = IF IsMessage(s) THEN {clock + 1 + 1} ELSE {}
      <4>1. IdsOf(<<h, s>>) = IF IsMessage(s) THEN {s.id} ELSE {}
        BY <1>4, <3>1
      <4>2. IsMessage(s) => s.id = clock + 1 + 1
        BY <1>1, <1>4
      <4>. QED  BY <4>1, <4>2
    <3>. QED  BY <1>2, <1>14, <3>1, <3>2
  <2>. HIDE DEF D1, W1, h, A2
  <2>3. Sound(D2, W2, A2, clock + 1 + 1, exposed, {})
    BY <1>8, <1>9, <1>10, AppendSound DEF A2
  <2>4. disk' = D2
    <3>1. [D1 EXCEPT ![f] = d] = D2
      BY <2>1
    <3>. QED  BY <1>2, <1>7, <3>1
  <2>5. clock' = clock + 1 + 1
    BY <1>1, <1>3
  <2>6. writer' = W2
    <3>1. CASE IsMessage(s)
      <4>1. W2 = AtHead(W1, p, f, clock + 1 + 1) /\ clock + 1 + 1 \in Nat
        BY <1>1, <3>1 DEF AtHead
      <4>2. W2 = AtHead(writer, p, f, clock + 1 + 1)
        BY <1>8, <4>1
      <4>. QED  BY <1>14, <2>5, <3>1, <4>2
    <3>2. CASE ~IsMessage(s)
      BY <1>14, <3>2 DEF W1
    <3>. QED  BY <3>1, <3>2
  <2>. HIDE DEF D2, W2
  <2>. QED  BY <1>6, <2>2, <2>3, <2>4, <2>5, <2>6 DEF SoundNow
<1>. QED  BY <1>11, <1>12, <1>13, <1>14

-----------------------------------------------------------------------------
(* The records of one call.                                                *)

LEMMA PairUp ==
  ASSUME NEW a, NEW b
  PROVE  /\ <<a>> \o <<b>> = <<a, b>>
         /\ <<>> \o <<a>> = <<a>> /\ <<a>> \o <<>> = <<a>>
         /\ <<>> \o <<a, b>> = <<a, b>>
<1>. DEFINE x == <<a>>
            y == <<b>>
            z == <<a, b>>
            S == {a, b}
<1>1. /\ x \in Seq(S) /\ y \in Seq(S) /\ z \in Seq(S)
      /\ Len(x) = 1 /\ Len(y) = 1 /\ Len(z) = 2
      /\ x[1] = a /\ y[1] = b /\ z[1] = a /\ z[2] = b
  OBVIOUS
<1>. HIDE DEF x, y, z, S
<1>2. /\ x \o y \in Seq(S) /\ Len(x \o y) = 2
      /\ \A i \in 1 .. 2 : (x \o y)[i] = IF i <= 1 THEN x[i] ELSE y[i - 1]
  BY <1>1, ConcatProperties
<1>3. \A i \in 1 .. Len(z) : z[i] = (x \o y)[i]
  BY <1>1, <1>2
<1>4. z = x \o y
  BY <1>1, <1>2, <1>3, SeqEqual
<1>5. <<>> \o x = x /\ x \o <<>> = x /\ <<>> \o z = z
  BY <1>1, ConcatEmptySeq
<1>. QED  BY <1>4, <1>5 DEF x, y, z

Said(b) == b.role \in {"user", "assistant", "tool"} /\ b.runs \in SUBSET Run

LEMMA ChainNone == ASSUME NEW last, NEW from PROVE Chain(last, <<>>, from) = <<>>
BY DEF Chain

LEMMA ChainOne ==
  ASSUME clock \in Nat, NEW last, NEW b, NEW from \in Nat
  PROVE  Chain(last, <<b>>, from) = <<Message(clock + from, Time(from), last, b.role, b.runs)>>
<1>. DEFINE body == <<b>>
            M(i) == Message(clock + from + i - 1, Time(from + i - 1),
                            IF i = 1 THEN last ELSE clock + from + i - 2, body[i].role, body[i].runs)
            ch == [i \in 1 .. 1 |-> M(i)]
<1>1. Len(body) = 1 /\ body[1] = b
  OBVIOUS
<1>. HIDE DEF body
<1>2. Chain(last, body, from) = ch
  BY <1>1 DEF Chain
<1>3. M(1) = Message(clock + from, Time(from), last, b.role, b.runs)
  <2>1. clock + from + 1 - 1 = clock + from /\ from + 1 - 1 = from
    OBVIOUS
  <2>. QED  BY <1>1, <2>1
<1>. HIDE DEF M
<1>4. ch = <<M(1)>>
  OBVIOUS
<1>. QED  BY <1>2, <1>3, <1>4 DEF body

LEMMA ChainTwo ==
  ASSUME clock \in Nat, NEW last, NEW a, NEW b
  PROVE  Chain(last, <<a, b>>, 1) =
           <<Message(clock + 1, Time(1), last, a.role, a.runs),
             Message(clock + 2, Time(2), clock + 1, b.role, b.runs)>>
<1>. DEFINE body == <<a, b>>
            M(i) == Message(clock + 1 + i - 1, Time(1 + i - 1),
                            IF i = 1 THEN last ELSE clock + 1 + i - 2, body[i].role, body[i].runs)
            ch == [i \in 1 .. 2 |-> M(i)]
<1>1. Len(body) = 2 /\ body[1] = a /\ body[2] = b
  OBVIOUS
<1>. HIDE DEF body
<1>2. Chain(last, body, 1) = ch
  BY <1>1 DEF Chain
<1>3. M(1) = Message(clock + 1, Time(1), last, a.role, a.runs)
  <2>1. clock + 1 + 1 - 1 = clock + 1 /\ 1 + 1 - 1 = 1
    OBVIOUS
  <2>. QED  BY <1>1, <2>1
<1>4. M(2) = Message(clock + 2, Time(2), clock + 1, b.role, b.runs)
  <2>1. clock + 1 + 2 - 1 = clock + 2 /\ 1 + 2 - 1 = 2 /\ clock + 1 + 2 - 2 = clock + 1
    OBVIOUS
  <2>. QED  BY <1>1, <2>1
<1>. HIDE DEF M
<1>5. ch = <<M(1), M(2)>>
  OBVIOUS
<1>. QED  BY <1>2, <1>3, <1>4, <1>5 DEF body

LEMMA MessageWritable ==
  ASSUME clock \in Nat, NEW b, Said(b)
  PROVE  /\ \A w : w.last \in 0 .. clock =>
              /\ Writable(Message(clock + 1, Time(1), w.last, b.role, b.runs), w, clock)
              /\ IsMessage(Message(clock + 1, Time(1), w.last, b.role, b.runs))
         /\ \A w : w.last \in 0 .. clock + 1 =>
              /\ Writable(Message(clock + 2, Time(2), w.last, b.role, b.runs), w, clock + 1)
              /\ IsMessage(Message(clock + 2, Time(2), w.last, b.role, b.runs))
<1>0. /\ Time(1) = clock + 1 /\ Time(2) \in Nat /\ (~SharedTick => Time(2) = clock + 2)
      /\ b.role \in {"user", "assistant", "tool"} /\ b.runs \in SUBSET Run
  BY DEF Time, Said
<1>1. ASSUME NEW w, w.last \in 0 .. clock
      PROVE  LET m == Message(clock + 1, Time(1), w.last, b.role, b.runs)
             IN  Writable(m, w, clock) /\ IsMessage(m)
  <2>. DEFINE m == Message(clock + 1, Time(1), w.last, b.role, b.runs)
  <2>1. /\ m.kind = "message" /\ m.id = clock + 1 /\ m.ts = clock + 1 /\ m.parent = w.last
        /\ m \in Line
    BY <1>0, <1>1 DEF Message, Line
  <2>. HIDE DEF m
  <2>2. Born(m, clock + 1)
    BY <1>1, <2>1 DEF Born
  <2>3. Writable(m, w, clock) /\ IsMessage(m)
    BY <2>1, <2>2 DEF Writable, IsMessage
  <2>. QED  BY <2>3 DEF m
<1>2. ASSUME NEW w, w.last \in 0 .. clock + 1
      PROVE  LET m == Message(clock + 2, Time(2), w.last, b.role, b.runs)
             IN  Writable(m, w, clock + 1) /\ IsMessage(m)
  <2>. DEFINE m == Message(clock + 2, Time(2), w.last, b.role, b.runs)
  <2>1. /\ m.kind = "message" /\ m.id = clock + 2 /\ m.ts = Time(2) /\ m.parent = w.last
        /\ m \in Line
    BY <1>0, <1>2 DEF Message, Line
  <2>. HIDE DEF m
  <2>2. Born(m, clock + 1 + 1)
    BY <1>0, <1>2, <2>1 DEF Born
  <2>3. Writable(m, w, clock + 1) /\ IsMessage(m)
    BY <2>1, <2>2 DEF Writable, IsMessage
  <2>. QED  BY <2>3 DEF m
<1>. QED  BY <1>1, <1>2

LEMMA FlushFacts ==
  ASSUME pending \in [Proc -> SUBSET Run], NEW p \in Proc
  PROVE  \/ Flush(p) = <<>>
         \/ /\ writer[p] # NoWriter
            /\ \E b : Said(b) /\ Flush(p) = <<b>>
<1>1. CASE writer[p] = NoWriter \/ pending[p] = {}
  BY <1>1 DEF Flush
<1>2. CASE ~(writer[p] = NoWriter \/ pending[p] = {})
  <2>. DEFINE b == [role |-> "assistant", runs |-> pending[p]]
  <2>1. Flush(p) = <<b>>
    BY <1>2 DEF Flush
  <2>2. Said(b)
    BY DEF Said
  <2>. QED  BY <1>2, <2>1, <2>2
<1>. QED  BY <1>1, <1>2

LEMMA EventWritable ==
  ASSUME NEW c \in Nat, NEW w
  PROVE  Writable(StateEvent(c + 1), w, c) /\ ~IsMessage(StateEvent(c + 1))
<1>1. StateEvent(c + 1) \in Line /\ StateEvent(c + 1).kind = "event"
  BY DEF StateEvent, Line
<1>. QED  BY <1>1 DEF Writable, Born, IsMessage

LEMMA NextFileIsUnused ==
  ASSUME Unused # {}
  PROVE  NextFile \in File /\ disk[NextFile] = NoLines
<1>1. Unused \subseteq File /\ File \subseteq Nat
  BY FilesAssumption DEF Unused, File
<1>2. Min(Unused) \in Unused
  BY <1>1, MinOf
<1>. QED  BY <1>1, <1>2 DEF NextFile, Unused

\* A writer is active exactly if it has a file.
LEMMA ActiveWriter ==
  ASSUME SoundNow, NEW p \in Proc
  PROVE  /\ writer[p] # NoWriter => writer[p].file \in File
         /\ writer[p] = NoWriter => writer[p].last = None /\ writer[p].file = None
         /\ writer[p].last \in 0 .. clock
<1>1. /\ writer \in Writers /\ writer[p].last \in 0 .. clock
      /\ writer[p].file = None => writer[p].last = None
  BY SoundNowFacts
<1>2. writer[p] \in [file : File \cup {None}, last : Nat]
  BY <1>1 DEF Writers
<1>3. writer[p] # NoWriter => writer[p].file \in File
  BY <1>1, <1>2 DEF NoWriter
<1>. QED  BY <1>1, <1>3 DEF NoWriter

\* A call that fails is counted as a fault.
LEMMA SavedMeans ==
  ASSUME faults \in Nat, NEW base, NEW before, NEW f, NEW records, NEW k, NEW gone,
         NEW n \in Nat, Len(records) = n, k \in 0 .. n,
         SaveAfter(base, before, f, records, k, gone)
  PROVE  (k < n <=> ~Saved) /\ faults' \in Nat
<1>1. faults' = faults + (IF k < n THEN 1 ELSE 0)
  BY DEF SaveAfter
<1>. QED  BY <1>1 DEF Saved

Noted(p) == faults' \in Nat /\ (Saved => pending' = [pending EXCEPT ![p] = {}])

\* Whatever becomes of a call of #recordMessages, the files stay sound.
LEMMA RecordSound ==
  ASSUME SoundNow, pending \in [Proc -> SUBSET Run], faults \in Nat, NEW p \in Proc,
         NEW body, (body = <<>> /\ Flush(p) # <<>>) \/ (\E b : Said(b) /\ body = <<b>>),
         NEW k, Record(p, body, k), ~Saved => writer' = Closed(writer, p)
  PROVE  SoundNow' /\ Noted(p)
<1>. DEFINE fresh == writer[p] = NoWriter
            file == IF fresh THEN NextFile ELSE writer[p].file
            head == IF fresh THEN <<Header(clock + 1, None)>> ELSE <<>>
            all == Flush(p) \o body
            records == head \o Chain(writer[p].last, all, Len(head) + 1)
            W2 == [writer EXCEPT ![p] = [file |-> file, last |-> clock']]
<1>1. /\ fresh => Unused # {}
      /\ k \in 0 .. Len(records)
      /\ Save(file, records, k, {p})
      /\ k = Len(records) => writer' = W2 /\ pending' = [pending EXCEPT ![p] = {}]
  BY DEF Record
<1>2. /\ clock \in Nat /\ writer \in Writers /\ disk \in [File -> Content]
      /\ None = 0 /\ \A q \in Proc : writer[q].last \in 0 .. clock
  BY SoundNowFacts DEF None
<1>3. ASSUME NEW n \in Nat, Len(records) = n
      PROVE  /\ Noted(p) /\ k \in 0 .. n
             /\ k < n => writer' = Closed(writer, p)
             /\ k = n => writer' = W2
  <2>1. k \in 0 .. n /\ SaveAfter(disk, <<>>, file, records, k, {p})
    BY <1>1, <1>3 DEF Save
  <2>. HIDE DEF records, file
  <2>2. (k < n <=> ~Saved) /\ faults' \in Nat
    BY <1>3, <2>1, SavedMeans
  <2>. QED  BY <1>1, <1>3, <2>1, <2>2 DEF Noted
<1>4. CASE fresh
  <2>1. Flush(p) = <<>>
    BY <1>4 DEF Flush
  <2>2. PICK b : Said(b) /\ body = <<b>>
    BY <2>1
  <2>. DEFINE h == Header(clock + 1, None)
              s == Message(clock + 2, Time(2), NoWriter.last, b.role, b.runs)
  <2>3. writer[p].last = NoWriter.last
    BY <1>4
  <2>4. all = <<b>>
    BY <2>1, <2>2, PairUp
  <2>5. head = <<h>> /\ Len(head) + 1 = 2
    BY <1>4
  <2>6. Chain(writer[p].last, all, Len(head) + 1) = <<s>>
    BY <1>2, <2>3, <2>4, <2>5, ChainOne
  <2>7. records = <<h, s>> /\ Len(records) = 2
    <3>1. records = <<h>> \o <<s>>
      BY <2>5, <2>6
    <3>2. records = <<h, s>>
      <4>. HIDE DEF records, h, s
      <4>. QED  BY <3>1, PairUp
    <3>. QED  BY <3>2
  <2>8. file = NextFile /\ NextFile \in File /\ disk[NextFile] = NoLines
    BY <1>1, <1>4, NextFileIsUnused
  <2>9. Writable(s, NoWriter, clock + 1) /\ IsMessage(s)
    <3>1. NoWriter.last \in 0 .. clock + 1
      BY <1>2 DEF NoWriter
    <3>. QED  BY <1>2, <2>2, <3>1, MessageWritable
  <2>10. Save(NextFile, <<h, s>>, k, {p})
    BY <1>1, <2>7, <2>8
  <2>11. W2 = AtHead(writer, p, NextFile, clock')
    BY <2>8 DEF AtHead
  <2>12. k \in 0 .. 2 /\ Noted(p)
         /\ (k = 2 => writer' = AtHead(writer, p, NextFile, clock'))
         /\ (k < 2 => writer' = Closed(writer, p))
    BY <1>3, <2>7, <2>11
  <2>13. k = 2 => writer' = AtHead(writer, p, NextFile, IF IsMessage(s) THEN clock' ELSE None)
    BY <2>9, <2>12
  <2>. HIDE DEF s
  <2>. QED  BY <1>4, <2>8, <2>9, <2>10, <2>12, <2>13, SaveFresh
<1>5. CASE ~fresh
  <2>1. file = writer[p].file /\ writer[p].file \in File /\ head = <<>> /\ Len(head) + 1 = 1
    BY <1>5, ActiveWriter
  <2>2. W2 = AtHead(writer, p, file, clock')
    BY DEF AtHead
  <2>3. Chain(writer[p].last, all, Len(head) + 1) = Chain(writer[p].last, all, 1)
    BY <2>1
  <2>4. ASSUME NEW b, Said(b), all = <<b>>
        PROVE  SoundNow' /\ Noted(p)
    <3>. DEFINE s == Message(clock + 1, Time(1), writer[p].last, b.role, b.runs)
    <3>1. records = <<s>> /\ Len(records) = 1
      <4>1. Chain(writer[p].last, all, 1) = <<s>>
        BY <1>2, <2>4, ChainOne
      <4>2. records = <<>> \o <<s>>
        BY <2>1, <2>3, <4>1
      <4>3. records = <<s>>
        <5>. HIDE DEF records, s
        <5>. QED  BY <4>2, PairUp
      <4>. QED  BY <4>3
    <3>2. Writable(s, writer[p], clock) /\ IsMessage(s)
      BY <1>2, <2>4, MessageWritable
    <3>3. Save(file, <<s>>, k, {p})
      BY <1>1, <3>1
    <3>4. k \in 0 .. 1 /\ Noted(p)
          /\ (k = 1 => writer' = AtHead(writer, p, file, clock'))
          /\ (k = 0 => writer' = Closed(writer, p))
      BY <1>3, <2>2, <3>1
    <3>5. k = 1 => writer' = IF IsMessage(s) THEN AtHead(writer, p, file, clock') ELSE writer
      BY <3>2, <3>4
    <3>6. writer[p].file = file /\ file \in File
      BY <2>1
    <3>. HIDE DEF s, file
    <3>. QED  BY <3>2, <3>3, <3>4, <3>5, <3>6, SaveOne
  <2>5. ASSUME NEW a, Said(a), NEW b, Said(b), all = <<a, b>>
        PROVE  SoundNow' /\ Noted(p)
    <3>. DEFINE r == Message(clock + 1, Time(1), writer[p].last, a.role, a.runs)
                s == Message(clock + 2, Time(2), clock + 1, b.role, b.runs)
                w == [file |-> file, last |-> clock + 1]
    <3>1. records = <<r, s>> /\ Len(records) = 2
      <4>1. Chain(writer[p].last, all, 1) = <<r, s>>
        BY <1>2, <2>5, ChainTwo
      <4>2. records = <<>> \o <<r, s>>
        BY <2>1, <2>3, <4>1
      <4>3. records = <<r, s>>
        <5>. HIDE DEF records, r, s
        <5>. QED  BY <4>2, PairUp
      <4>. QED  BY <4>3
    <3>2. Writable(r, writer[p], clock) /\ IsMessage(r)
      BY <1>2, <2>5, MessageWritable
    <3>3. Writable(s, w, clock + 1) /\ IsMessage(s)
      <4>1. w.last = clock + 1 /\ w.last \in 0 .. clock + 1
        BY <1>2
      <4>. HIDE DEF w
      <4>2. s = Message(clock + 2, Time(2), w.last, b.role, b.runs)
        BY <4>1
      <4>. QED  BY <1>2, <2>5, <4>1, <4>2, MessageWritable
    <3>4. Save(file, <<r, s>>, k, {p})
      BY <1>1, <3>1
    <3>5. k \in 0 .. 2 /\ Noted(p)
          /\ (k = 2 => writer' = AtHead(writer, p, file, clock'))
          /\ (k < 2 => writer' = Closed(writer, p))
      BY <1>3, <2>2, <3>1
    <3>6. writer[p].file = file /\ file \in File
      BY <2>1
    <3>. HIDE DEF r, s, file
    <3>. QED  BY <3>2, <3>3, <3>4, <3>5, <3>6, SaveTwo
  <2>6. (Flush(p) = <<>>) \/ (\E a : Said(a) /\ Flush(p) = <<a>>)
    BY FlushFacts
  <2>7. CASE Flush(p) = <<>>
    <3>1. PICK b : Said(b) /\ body = <<b>>
      BY <2>7
    <3>2. all = <<b>>
      BY <2>7, <3>1, PairUp
    <3>. QED  BY <2>4, <3>1, <3>2
  <2>8. CASE \E a : Said(a) /\ Flush(p) = <<a>>
    <3>1. PICK a : Said(a) /\ Flush(p) = <<a>>
      BY <2>8
    <3>2. CASE body = <<>>
      <4>1. all = <<a>>
        BY <3>1, <3>2, PairUp
      <4>. QED  BY <2>4, <3>1, <4>1
    <3>3. CASE \E b : Said(b) /\ body = <<b>>
      <4>1. PICK b : Said(b) /\ body = <<b>>
        BY <3>3
      <4>2. all = <<a, b>>
        BY <3>1, <4>1, PairUp
      <4>. QED  BY <2>5, <3>1, <4>1, <4>2
    <3>. QED  BY <3>2, <3>3
  <2>. QED  BY <2>6, <2>7, <2>8
<1>. QED  BY <1>4, <1>5

-----------------------------------------------------------------------------
(* The actions that write through a writer.                                *)

SessionInv ==
  /\ SoundNow
  /\ runs \in Nat /\ faults \in Nat
  /\ pending \in [Proc -> SUBSET Run]

\* Nothing happens to the files, and at most the writer of p closes.
LEMMA StaysSound ==
  ASSUME SoundNow, NEW p \in Proc, UNCHANGED <<disk, clock, acked, exposed>>,
         writer' = Closed(writer, p) \/ writer' = writer
  PROVE  SoundNow'
<1>1. writer \in Writers /\ clock \in Nat /\ exposed \in Nat
  BY SoundNowFacts
<1>2. Retired(writer, writer')
  BY <1>1, ClosedRetires
<1>3. clock <= clock /\ exposed <= exposed /\ {} \subseteq {}
  BY <1>1
<1>4. Sound(disk, writer', acked, clock, exposed, {})
  BY <1>1, <1>2, <1>3, CloseSound DEF SoundNow
<1>. QED  BY <1>4 DEF SoundNow

\* The turn of p is no longer pending.
Emptied(p) == pending' = [pending EXCEPT ![p] = {}]

LEMMA SubmitKeeps ==
  ASSUME SessionInv, NEW p \in Proc, Submit(p)
  PROVE  SessionInv' /\ Emptied(p)
<1>. DEFINE b == [role |-> "user", runs |-> {runs'}]
<1>1. /\ runs < MaxRuns /\ runs' = runs + 1
      /\ SoundNow /\ runs \in Nat /\ faults \in Nat /\ pending \in [Proc -> SUBSET Run]
  BY DEF Submit, SessionInv
<1>2. PICK k \in 0 .. 3 : Record(p, <<b>>, k)
  BY DEF Submit
<1>3. Said(b)
  BY <1>1, BridgeAssumption DEF Said, Run
<1>4. ~Saved => /\ writer' = Closed(writer, p) /\ pending' = [pending EXCEPT ![p] = {}]
  BY DEF Submit, Dead, Closed
<1>. HIDE DEF b
<1>5. SoundNow' /\ Noted(p)
  BY <1>1, <1>2, <1>3, <1>4, RecordSound
<1>6. pending' = [pending EXCEPT ![p] = {}]
  BY <1>4, <1>5 DEF Noted
<1>. QED  BY <1>1, <1>5, <1>6 DEF SessionInv, Noted, Emptied

LEMMA ResultKeeps ==
  ASSUME SessionInv, NEW p \in Proc, NEW r \in Run, Result(p, r)
  PROVE  SessionInv' /\ Emptied(p)
<1>. DEFINE b == [role |-> "tool", runs |-> {r}]
<1>1. /\ runs' = runs
      /\ SoundNow /\ runs \in Nat /\ faults \in Nat /\ pending \in [Proc -> SUBSET Run]
  BY DEF Result, SessionInv
<1>2. PICK k \in 0 .. 3 : Record(p, <<b>>, k)
  BY DEF Result
<1>3. Said(b)
  BY DEF Said
<1>4. ~Saved => /\ writer' = Closed(writer, p) /\ pending' = [pending EXCEPT ![p] = {}]
  BY DEF Result, Dead, Abandoned, Closed
<1>. HIDE DEF b
<1>5. SoundNow' /\ Noted(p)
  BY <1>1, <1>2, <1>3, <1>4, RecordSound
<1>6. pending' = [pending EXCEPT ![p] = {}]
  BY <1>4, <1>5 DEF Noted
<1>. QED  BY <1>1, <1>5, <1>6 DEF SessionInv, Noted, Emptied

LEMMA EndedKeeps ==
  ASSUME SessionInv, NEW p \in Proc, NEW r \in Run, Ended(p, r)
  PROVE  SessionInv' /\ Emptied(p)
<1>1. /\ runs' = runs
      /\ SoundNow /\ runs \in Nat /\ faults \in Nat /\ pending \in [Proc -> SUBSET Run]
  BY DEF Ended, SessionInv
<1>2. ~Saved => /\ writer' = Closed(writer, p) /\ pending' = [pending EXCEPT ![p] = {}]
  BY DEF Ended, Dead, Closed
<1>3. CASE UNCHANGED <<disk, clock, writer, acked, faults, exposed>> /\ pending' = [pending EXCEPT ![p] = {}]
  <2>1. SoundNow'
    BY <1>1, <1>3, StaysSound
  <2>. QED  BY <1>1, <1>3, <2>1 DEF SessionInv, Emptied
<1>4. CASE ~(disabled[p] \/ Flush(p) = <<>>) /\ \E k \in 0 .. 1 : Record(p, <<>>, k)
  <2>1. PICK k \in 0 .. 1 : Record(p, <<>>, k)
    BY <1>4
  <2>2. Flush(p) # <<>>
    BY <1>4
  <2>3. SoundNow' /\ Noted(p)
    BY <1>1, <1>2, <2>1, <2>2, RecordSound
  <2>4. pending' = [pending EXCEPT ![p] = {}]
    BY <1>2, <2>3 DEF Noted
  <2>. QED  BY <1>1, <2>3, <2>4 DEF SessionInv, Noted, Emptied
<1>. QED  BY <1>3, <1>4 DEF Ended

LEMMA StateChangeKeeps ==
  ASSUME SessionInv, NEW p \in Proc, StateChange(p)
  PROVE  SessionInv'
<1>. DEFINE fresh == writer[p] = NoWriter
            file == IF fresh THEN NextFile ELSE writer[p].file
            records == IF fresh THEN <<Header(clock + 1, None), StateEvent(clock + 2)>>
                       ELSE <<StateEvent(clock + 1)>>
<1>1. /\ runs' = runs
      /\ SoundNow /\ runs \in Nat /\ faults \in Nat /\ pending \in [Proc -> SUBSET Run]
  BY DEF StateChange, SessionInv
<1>2. /\ fresh => Unused # {}
      /\ \E k \in 0 .. Len(records) : Save(file, records, k, {p})
      /\ \/ Saved /\ writer' = [writer EXCEPT ![p].file = file] /\ pending' = pending
         \/ ~Saved /\ writer' = Closed(writer, p) /\ pending' = [pending EXCEPT ![p] = {}]
  BY DEF StateChange, Abandoned, Dead, Closed
<1>3. PICK k \in 0 .. Len(records) : Save(file, records, k, {p})
  BY <1>2
<1>4. /\ clock \in Nat /\ writer \in Writers
  BY <1>1, SoundNowFacts
<1>5. ASSUME NEW n \in Nat, Len(records) = n
      PROVE  /\ faults' \in Nat /\ k \in 0 .. n
             /\ k < n => writer' = Closed(writer, p)
             /\ k = n => writer' = [writer EXCEPT ![p].file = file]
  <2>1. k \in 0 .. n /\ SaveAfter(disk, <<>>, file, records, k, {p})
    BY <1>3, <1>5 DEF Save
  <2>. HIDE DEF records, file
  <2>2. (k < n <=> ~Saved) /\ faults' \in Nat
    BY <1>1, <1>5, <2>1, SavedMeans
  <2>. QED  BY <1>2, <2>1, <2>2
<1>6. pending' \in [Proc -> SUBSET Run]
  BY <1>1, <1>2
<1>7. CASE fresh
  <2>. DEFINE s == StateEvent(clock + 1 + 1)
  <2>1. records = <<Header(clock + 1, None), s>> /\ Len(records) = 2
    <3>1. clock + 2 = clock + 1 + 1
      BY <1>4
    <3>. QED  BY <1>7, <3>1
  <2>2. file = NextFile /\ NextFile \in File /\ disk[NextFile] = NoLines
    BY <1>2, <1>7, NextFileIsUnused
  <2>3. Writable(s, NoWriter, clock + 1) /\ ~IsMessage(s)
    <3>1. clock + 1 \in Nat
      BY <1>4
    <3>. QED  BY <3>1, EventWritable
  <2>4. Save(NextFile, <<Header(clock + 1, None), s>>, k, {p})
    BY <1>3, <2>1, <2>2
  <2>5. [writer EXCEPT ![p].file = file] = AtHead(writer, p, NextFile, None)
    <3>1. writer[p] = [file |-> None, last |-> None]
      BY <1>7 DEF NoWriter
    <3>2. [writer[p] EXCEPT !.file = NextFile] = [file |-> NextFile, last |-> None]
      BY <3>1
    <3>. QED  BY <2>2, <3>2 DEF AtHead
  <2>6. k \in 0 .. 2 /\ faults' \in Nat
        /\ (k = 2 => writer' = AtHead(writer, p, NextFile, None))
        /\ (k < 2 => writer' = Closed(writer, p))
    BY <1>5, <2>1, <2>5
  <2>7. k = 2 => writer' = AtHead(writer, p, NextFile, IF IsMessage(s) THEN clock' ELSE None)
    BY <2>3, <2>6
  <2>. HIDE DEF s
  <2>8. SoundNow'
    BY <1>1, <1>7, <2>2, <2>3, <2>4, <2>6, <2>7, SaveFresh
  <2>. QED  BY <1>1, <1>6, <2>6, <2>8 DEF SessionInv
<1>8. CASE ~fresh
  <2>. DEFINE s == StateEvent(clock + 1)
  <2>1. records = <<s>> /\ Len(records) = 1 /\ file = writer[p].file
    BY <1>8
  <2>2. file \in File
    BY <1>1, <1>8, <2>1, ActiveWriter
  <2>3. Writable(s, writer[p], clock) /\ ~IsMessage(s)
    BY <1>4, EventWritable
  <2>4. Save(file, <<s>>, k, {p})
    BY <1>3, <2>1
  <2>5. [writer EXCEPT ![p].file = file] = writer
    BY <1>4, <2>1 DEF Writers
  <2>6. k \in 0 .. 1 /\ faults' \in Nat
        /\ (k = 1 => writer' = writer)
        /\ (k = 0 => writer' = Closed(writer, p))
    BY <1>5, <2>1, <2>5
  <2>7. k = 1 => writer' = IF IsMessage(s) THEN AtHead(writer, p, file, clock') ELSE writer
    BY <2>3, <2>6
  <2>8. writer[p].file = file
    BY <2>1
  <2>. HIDE DEF s, file
  <2>9. SoundNow'
    BY <1>1, <2>2, <2>3, <2>4, <2>6, <2>7, <2>8, SaveOne
  <2>. QED  BY <1>1, <1>6, <2>6, <2>9 DEF SessionInv
<1>. QED  BY <1>7, <1>8

LEMMA HeardKeeps ==
  ASSUME SessionInv, NEW p \in Proc, NEW r \in Run, Heard(p, r)
  PROVE  SessionInv'
<1>1. /\ UNCHANGED <<disk, clock, runs, writer, acked, faults, exposed>>
      /\ pending' = [pending EXCEPT ![p] = @ \cup {r}]
  BY DEF Heard
<1>2. SoundNow'
  BY <1>1, StaysSound DEF SessionInv
<1>. QED  BY <1>1, <1>2 DEF SessionInv

LEMMA CrashKeeps ==
  ASSUME SessionInv, NEW p \in Proc, Crash(p)
  PROVE  SessionInv'
<1>1. /\ UNCHANGED <<disk, clock, runs, acked, exposed>>
      /\ pending' = [pending EXCEPT ![p] = {}] /\ writer' = Closed(writer, p) /\ faults' = faults + 1
  BY DEF Crash, Dead, Closed
<1>2. SoundNow'
  BY <1>1, StaysSound DEF SessionInv
<1>. QED  BY <1>1, <1>2 DEF SessionInv

-----------------------------------------------------------------------------
(* The commands that open another file.                                    *)

Turn(p) == Chain(writer[p].last, Flush(p), 1)

\* The pending turn is nothing, or one message of an active writer.
LEMMA TurnFacts ==
  ASSUME SoundNow, pending \in [Proc -> SUBSET Run], NEW p \in Proc
  PROVE  \/ Flush(p) = <<>> /\ Turn(p) = <<>>
         \/ /\ Flush(p) # <<>> /\ writer[p].file \in File
            /\ \E m : Turn(p) = <<m>> /\ Writable(m, writer[p], clock) /\ IsMessage(m)
<1>1. clock \in Nat /\ writer[p].last \in 0 .. clock
  BY SoundNowFacts
<1>2. CASE Flush(p) = <<>>
  <2>1. Turn(p) = <<>>
    BY <1>2, ChainNone DEF Turn
  <2>. QED  BY <1>2, <2>1
<1>3. CASE writer[p] # NoWriter /\ \E b : Said(b) /\ Flush(p) = <<b>>
  <2>1. PICK b : Said(b) /\ Flush(p) = <<b>>
    BY <1>3
  <2>. DEFINE m == Message(clock + 1, Time(1), writer[p].last, b.role, b.runs)
  <2>2. Turn(p) = <<m>>
    BY <1>1, <2>1, ChainOne DEF Turn
  <2>3. Writable(m, writer[p], clock) /\ IsMessage(m)
    BY <1>1, <2>1, MessageWritable
  <2>4. writer[p].file \in File
    BY <1>3, ActiveWriter
  <2>5. Flush(p) # <<>>
    BY <2>1
  <2>. HIDE DEF m
  <2>. QED  BY <2>2, <2>3, <2>4, <2>5
<1>. QED  BY <1>2, <1>3, FlushFacts

\* The files and the writer once the pending turn was flushed.
FlushedWriter(p) == IF Turn(p) = <<>> THEN writer ELSE AtHead(writer, p, writer[p].file, clock + 1)
FlushedClock(p) == clock + Len(Turn(p))
FlushedAcks(p) == acked \cup IdsOf(Turn(p))

LEMMA FlushedSound ==
  ASSUME SoundNow, pending \in [Proc -> SUBSET Run], NEW p \in Proc,
         NEW X, Sound(disk, writer, acked, clock, exposed, X)
  PROVE  Sound(Flushed(p), FlushedWriter(p), FlushedAcks(p), FlushedClock(p), exposed, X)
<1>1. clock \in Nat /\ disk \in [File -> Content]
  BY SoundNowFacts
<1>2. CASE Turn(p) = <<>>
  <2>1. Flushed(p) = disk
    BY <1>2 DEF Flushed, Turn
  <2>2. FlushedWriter(p) = writer
    BY <1>2 DEF FlushedWriter
  <2>3. FlushedClock(p) = clock
    BY <1>1, <1>2 DEF FlushedClock
  <2>4. FlushedAcks(p) = acked
    BY <1>2, IdsWritten DEF FlushedAcks
  <2>. QED  BY <2>1, <2>2, <2>3, <2>4
<1>3. ASSUME NEW m, Turn(p) = <<m>>, Writable(m, writer[p], clock), IsMessage(m),
             writer[p].file \in File
      PROVE  Sound(Flushed(p), FlushedWriter(p), FlushedAcks(p), FlushedClock(p), exposed, X)
  <2>. DEFINE f == writer[p].file
  <2>1. Turn(p) # <<>>
    BY <1>3
  <2>2. Flushed(p) = [disk EXCEPT ![f] = Appended(disk[f], <<m>>)]
    <3>1. Flushed(p) = [disk EXCEPT ![f] = Appended(@, Turn(p))]
      BY <2>1 DEF Flushed, Turn
    <3>. QED  BY <1>3, <3>1
  <2>3. FlushedWriter(p) = AtHead(writer, p, f, clock + 1)
    BY <2>1 DEF FlushedWriter
  <2>4. FlushedClock(p) = clock + 1
    BY <1>3 DEF FlushedClock
  <2>5. FlushedAcks(p) = acked \cup {clock + 1}
    BY <1>3, IdsWritten DEF FlushedAcks, Writable
  <2>6. Sound([disk EXCEPT ![f] = Appended(disk[f], <<m>>)], AtHead(writer, p, f, clock + 1),
              acked \cup {clock + 1}, clock + 1, exposed, X)
    BY <1>3, MessageSound
  <2>. QED  BY <2>2, <2>3, <2>4, <2>5, <2>6
<1>. QED  BY <1>2, <1>3, TurnFacts

\* A flush leaves other files alone, and the writers where they are.
LEMMA FlushedFacts ==
  ASSUME SoundNow, pending \in [Proc -> SUBSET Run], NEW p \in Proc
  PROVE  /\ \A q \in Proc : FlushedWriter(p)[q].file = writer[q].file
         /\ \A q \in Proc \ {p} : FlushedWriter(p)[q] = writer[q]
         /\ \A g \in File : (\A q \in Proc : writer[q].file # g) \/ Turn(p) = <<>>
                               => Flushed(p)[g] = disk[g]
         /\ FlushedClock(p) \in Nat /\ clock <= FlushedClock(p)
<1>1. clock \in Nat /\ disk \in [File -> Content] /\ writer \in Writers
  BY SoundNowFacts
<1>2. CASE Turn(p) = <<>>
  <2>1. Flushed(p) = disk
    BY <1>2 DEF Flushed, Turn
  <2>. QED  BY <1>1, <1>2, <2>1 DEF FlushedWriter, FlushedClock
<1>3. ASSUME NEW m, Turn(p) = <<m>>, writer[p].file \in File
      PROVE  /\ \A q \in Proc : FlushedWriter(p)[q].file = writer[q].file
             /\ \A q \in Proc \ {p} : FlushedWriter(p)[q] = writer[q]
             /\ \A g \in File : (\A q \in Proc : writer[q].file # g) => Flushed(p)[g] = disk[g]
             /\ FlushedClock(p) \in Nat /\ clock <= FlushedClock(p)
  <2>1. Turn(p) # <<>> /\ Len(Turn(p)) = 1
    BY <1>3
  <2>2. Flushed(p) = [disk EXCEPT ![writer[p].file] = Appended(@, Turn(p))]
    BY <2>1 DEF Flushed, Turn
  <2>3. FlushedWriter(p) = AtHead(writer, p, writer[p].file, clock + 1)
    BY <2>1 DEF FlushedWriter
  <2>4. /\ \A q \in Proc : FlushedWriter(p)[q].file = writer[q].file
        /\ \A q \in Proc \ {p} : FlushedWriter(p)[q] = writer[q]
    BY <1>1, <2>3 DEF AtHead, Writers
  <2>5. \A g \in File : (\A q \in Proc : writer[q].file # g) => Flushed(p)[g] = disk[g]
    BY <1>1, <2>2
  <2>6. FlushedClock(p) \in Nat /\ clock <= FlushedClock(p)
    BY <1>1, <2>1 DEF FlushedClock
  <2>. QED  BY <2>4, <2>5, <2>6
<1>4. Turn(p) = <<>> \/ (writer[p].file \in File /\ \E m : Turn(p) = <<m>>)
  BY TurnFacts
<1>. QED
  <2>1. CASE writer[p].file \in File /\ \E m : Turn(p) = <<m>>
    <3>1. PICK m : Turn(p) = <<m>>
      BY <2>1
    <3>2. Turn(p) # <<>>
      BY <3>1
    <3>. QED  BY <1>3, <2>1, <3>1, <3>2
  <2>. QED  BY <1>2, <1>4, <2>1

LEMMA QuitKeeps ==
  ASSUME SessionInv, NEW p \in Proc, Quit(p)
  PROVE  SessionInv'
<1>1. /\ SoundNow /\ runs \in Nat /\ faults \in Nat /\ pending \in [Proc -> SUBSET Run]
      /\ runs' = runs /\ writer' = Closed(writer, p) /\ pending' = [pending EXCEPT ![p] = {}]
  BY DEF Quit, Dead, Closed, SessionInv
<1>2. pending' \in [Proc -> SUBSET Run]
  BY <1>1
<1>3. CASE Flush(p) = <<>>
  <2>1. UNCHANGED <<disk, clock, acked, faults, exposed>>
    BY <1>3 DEF Quit
  <2>2. SoundNow'
    BY <1>1, <2>1, StaysSound
  <2>. QED  BY <1>1, <1>2, <2>1, <2>2 DEF SessionInv
<1>4. CASE Flush(p) # <<>>
  <2>. DEFINE f == writer[p].file
  <2>1. PICK m : Turn(p) = <<m>> /\ Writable(m, writer[p], clock) /\ IsMessage(m)
    BY <1>1, <1>4, TurnFacts
  <2>2. f \in File
    BY <1>1, <1>4, TurnFacts
  <2>3. PICK k \in 0 .. 1 : Save(f, <<m>>, k, {p})
    <3>1. \E k \in 0 .. 1 : Save(f, Turn(p), k, {p})
      BY <1>4 DEF Quit, Turn
    <3>. QED  BY <2>1, <3>1
  <2>4. faults' \in Nat
    BY <1>1, <2>3 DEF Save, SaveAfter
  <2>5. CASE k = 0
    <3>1. SoundNow'
      <4>1. ~(k = 1)
        BY <2>5
      <4>2. writer[p].file = f
        OBVIOUS
      <4>. HIDE DEF f
      <4>. QED  BY <1>1, <2>1, <2>2, <2>3, <2>5, <4>1, <4>2, SaveOne
    <3>. QED  BY <1>1, <1>2, <2>4, <3>1 DEF SessionInv
  <2>6. CASE k = 1
    <3>. DEFINE D1 == [disk EXCEPT ![f] = Appended(disk[f], <<m>>)]
                W1 == AtHead(writer, p, f, clock + 1)
    <3>1. /\ disk \in [File -> Content] /\ writer \in Writers /\ clock \in Nat /\ exposed \in Nat
          /\ disk[f] \in Content /\ m \in Line /\ m.id = clock + 1
      BY <1>1, <2>1, <2>2, SoundNowFacts DEF Writable
    <3>2. PICK d \in Outcomes(disk[f], <<m>>, k) :
             /\ disk' = [disk EXCEPT ![f] = d]
             /\ clock' = clock + Len(<<>>) + Len(<<m>>)
             /\ acked' = acked \cup IdsOf(<<>>) \cup IdsOf(SubSeq(<<m>>, 1, k))
             /\ exposed' = exposed + (IF d.cut /\ \E q \in Proc \ {p} : writer[q].file = f
                                      THEN 1 ELSE 0)
      BY <2>3 DEF Save, SaveAfter
    <3>3. d = Appended(disk[f], <<m>>)
      BY <2>6, <3>1, <3>2, OutcomesOne
    <3>4. ~d.cut
      BY <3>1, <3>3, AppendedUncut
    <3>5. exposed' = exposed
      BY <3>1, <3>2, <3>4
    <3>6. acked' = acked \cup {clock + 1}
      <4>1. SubSeq(<<m>>, 1, 1) = <<m>> /\ IdsOf(<<>>) = {} /\ IdsOf(<<m>>) = {m.id}
        BY <2>1, Prefixes, IdsWritten
      <4>. QED  BY <2>6, <3>1, <3>2, <4>1
    <3>7. clock' = clock + 1
      BY <3>1, <3>2
    <3>8. Sound(D1, W1, acked \cup {clock + 1}, clock + 1, exposed, {})
      BY <1>1, <2>1, <2>2, MessageSound DEF SoundNow
    <3>9. W1 \in Writers /\ Closed(W1, p) = Closed(writer, p)
      BY <2>2, <3>1, HeadsTwice, HeadTakesOver
    <3>10. disk' = D1
      BY <3>2, <3>3
    <3>. HIDE DEF D1, W1
    <3>11. Sound(D1, Closed(W1, p), acked \cup {clock + 1}, clock + 1, exposed, {})
      <4>1. Retired(W1, Closed(W1, p))
        BY <3>9, ClosedRetires
      <4>2. clock + 1 \in Nat /\ clock + 1 <= clock + 1 /\ exposed <= exposed /\ {} \subseteq {}
        BY <3>1
      <4>. QED  BY <3>1, <3>8, <4>1, <4>2, CloseSound
    <3>12. SoundNow'
      BY <1>1, <3>5, <3>6, <3>7, <3>9, <3>10, <3>11 DEF SoundNow
    <3>. QED  BY <1>1, <1>2, <2>4, <3>12 DEF SessionInv
  <2>. QED  BY <2>5, <2>6
<1>. QED  BY <1>3, <1>4

LEMMA FlushFailsKeeps ==
  ASSUME SessionInv, NEW p \in Proc, FlushFails(p)
  PROVE  SessionInv'
<1>. DEFINE f == writer[p].file
<1>1. /\ SoundNow /\ runs \in Nat /\ faults \in Nat /\ pending \in [Proc -> SUBSET Run]
      /\ runs' = runs /\ writer' = writer /\ pending' = pending /\ Flush(p) # <<>>
      /\ Save(f, Turn(p), 0, {})
  BY DEF FlushFails, SessionInv, local, Turn
<1>2. PICK m : Turn(p) = <<m>> /\ Writable(m, writer[p], clock) /\ IsMessage(m)
  BY <1>1, TurnFacts
<1>3. f \in File
  BY <1>1, TurnFacts
<1>4. /\ disk \in [File -> Content] /\ writer \in Writers /\ clock \in Nat /\ exposed \in Nat
      /\ disk[f] \in Content
  BY <1>1, <1>3, SoundNowFacts
<1>5. PICK d \in Outcomes(disk[f], <<m>>, 0) :
         /\ disk' = [disk EXCEPT ![f] = d]
         /\ clock' = clock + Len(<<>>) + Len(<<m>>)
         /\ acked' = acked \cup IdsOf(<<>>) \cup IdsOf(SubSeq(<<m>>, 1, 0))
         /\ exposed' = exposed + (IF d.cut /\ \E q \in Proc \ {} : writer[q].file = f
                                  THEN 1 ELSE 0)
  BY <1>1, <1>2 DEF Save, SaveAfter
<1>6. faults' \in Nat
  BY <1>1 DEF Save, SaveAfter
<1>7. d \in Torn(disk[f], m)
  BY <1>4, <1>5, OutcomesOne
<1>8. acked' = acked /\ clock' = clock + 1
  <2>1. SubSeq(<<m>>, 1, 0) = <<>> /\ IdsOf(<<>>) = {}
    BY Prefixes, IdsWritten
  <2>2. acked' = acked
    BY <1>5, <2>1
  <2>3. clock' = clock + 1
    BY <1>4, <1>5
  <2>. QED  BY <2>2, <2>3
<1>9. Tearable(disk, writer, clock, {}, f, m)
  BY <1>1, <1>2, <1>3, LineTearable DEF SoundNow
<1>10. Retired(writer, writer)
  BY <1>4, ClosedRetires
<1>11. Exposes(d, writer, f, exposed, exposed')
  BY <1>5 DEF Exposes
<1>12. Sound([disk EXCEPT ![f] = d], writer, acked, clock + 1, exposed', {})
  <2>. HIDE DEF f
  <2>. QED  BY <1>1, <1>3, <1>7, <1>9, <1>10, <1>11, TearSound DEF SoundNow
<1>13. SoundNow'
  BY <1>1, <1>5, <1>8, <1>12 DEF SoundNow
<1>. QED  BY <1>1, <1>6, <1>13 DEF SessionInv

\* What may be listed has a header and a time; the newest of them is listed.
LEMMA UpdatedAtIsANumber ==
  ASSUME NEW d, NEW c \in Nat, FileOK(d, c), Readable(d)
  PROVE  UpdatedAt(d) \in Int
<1>1. d \in Content
  BY DEF FileOK
<1>2. DOMAIN d.lines = 1 .. Len(d.lines) /\ \A i \in 1 .. Len(d.lines) : d.lines[i] \in Line
  BY <1>1, ContentFacts
<1>3. CASE MessageLines(d) = {}
  <2>. DEFINE H == {i \in DOMAIN d.lines : d.lines[i].kind = "session"}
  <2>1. H \subseteq Nat /\ H # {}
    BY <1>2 DEF Readable
  <2>2. Min(H) \in H
    <3>. HIDE DEF H
    <3>. QED  BY <2>1, MinOf
  <2>3. HeaderOf(d) \in Line /\ HeaderOf(d).kind = "session"
    BY <1>2, <2>2 DEF HeaderOf
  <2>4. HeaderOf(d).ts \in Nat
    BY <2>3, LineFacts
  <2>. QED  BY <1>3, <2>4 DEF UpdatedAt
<1>4. CASE MessageLines(d) # {}
  <2>1. Max(MessageLines(d)) \in MessageLines(d)
    BY <1>1, <1>4, MessageLinesFacts, MaxOf
  <2>2. Max(MessageLines(d)) \in 1 .. Len(d.lines) /\ IsMessage(d.lines[Max(MessageLines(d))])
    BY <1>1, <2>1, MessageLinesFacts
  <2>3. d.lines[Max(MessageLines(d))].ts \in Nat
    BY <1>2, <2>2, LineFacts
  <2>. QED  BY <1>4, <2>3 DEF UpdatedAt
<1>. QED  BY <1>3, <1>4

LEMMA LatestIsListed ==
  ASSUME NEW D, NEW c \in Nat, Files(D, c), Listed(D) # {}
  PROVE  Latest(D) \in File /\ Readable(D[Latest(D)])
<1>. DEFINE L == Listed(D)
            v == [f \in L |-> UpdatedAt(D[f])]
<1>1. L \subseteq File /\ \A f \in L : Readable(D[f])
  BY DEF Listed
<1>2. IsFiniteSet(L)
  BY <1>1, FileFinite, FS_Subset
<1>3. \A f \in L : v[f] = UpdatedAt(D[f])
  OBVIOUS
<1>4. \A f \in L : v[f] \in Int
  BY <1>1, <1>3, UpdatedAtIsANumber DEF Files
<1>. HIDE DEF v
<1>5. \E f \in L : \A g \in L : v[f] >= v[g]
  BY <1>2, <1>4, Highest
<1>6. \E f \in L : \A g \in L : UpdatedAt(D[f]) >= UpdatedAt(D[g])
  BY <1>3, <1>5
<1>7. Latest(D) \in L
  BY <1>6 DEF Latest
<1>. QED  BY <1>1, <1>7

LEMMA MountKeeps ==
  ASSUME SessionInv, NEW p \in Proc, Mount(p)
  PROVE  SessionInv'
<1>1. /\ SoundNow /\ runs \in Nat /\ faults \in Nat /\ pending \in [Proc -> SUBSET Run]
      /\ UNCHANGED <<clock, runs, pending, acked, faults, exposed>>
  BY DEF Mount, SessionInv
<1>2. /\ disk \in [File -> Content] /\ writer \in Writers /\ clock \in Nat /\ Files(disk, clock)
  BY <1>1, SoundNowFacts, SoundFacts DEF SoundNow
<1>3. CASE Latest(disk) = None
  <2>1. disk' = disk /\ writer' = writer
    BY <1>3 DEF Mount
  <2>2. SoundNow'
    BY <1>1, <2>1, StaysSound
  <2>. QED  BY <1>1, <2>2 DEF SessionInv
<1>4. CASE Latest(disk) # None
  <2>. DEFINE f == Latest(disk)
  <2>1. /\ disk' = [disk EXCEPT ![f] = Isolated(@)]
        /\ writer' = AtHead(writer, p, f, HeadOf(disk[f]))
    BY <1>4 DEF Mount, AtHead
  <2>2. Listed(disk) # {}
    BY <1>4 DEF Latest
  <2>3. f \in File /\ Readable(disk[f])
    BY <1>2, <2>2, LatestIsListed
  <2>. HIDE DEF f
  <2>4. HeadOf(disk[f]) \in Nat
    <3>1. disk[f] \in Content /\ \A i \in 1 .. Len(disk[f].lines) : disk[f].lines[i] \in Line
      BY <1>2, <2>3, ContentFacts
    <3>2. \A i \in 1 .. Len(disk[f].lines) :
             At(disk[f], i, HeadOf(disk[f])) => HeadOf(disk[f]) \in Nat
      BY <3>1, LineFacts DEF At
    <3>. QED  BY <3>1, <3>2, HeadIsThere DEF None
  <2>5. Takeover(p, f, HeadOf(disk[f]), writer, writer')
    BY <1>2, <2>1, <2>3, <2>4, HeadTakesOver
  <2>6. Sound([disk EXCEPT ![f] = Isolated(@)], writer', acked, clock, exposed, {})
    BY <1>1, <2>3, <2>5, OpenSound DEF SoundNow
  <2>7. SoundNow'
    BY <1>1, <2>1, <2>6 DEF SoundNow
  <2>. QED  BY <1>1, <2>7 DEF SessionInv
<1>. QED  BY <1>3, <1>4

\* What read back still does once the turn was flushed.
LEMMA FlushedReadable ==
  ASSUME SoundNow, pending \in [Proc -> SUBSET Run], NEW p \in Proc, NEW s \in File,
         Readable(disk[s])
  PROVE  Readable(Flushed(p)[s])
<1>1. Sound(Flushed(p), FlushedWriter(p), FlushedAcks(p), FlushedClock(p), exposed, {})
  BY FlushedSound DEF SoundNow
<1>2. /\ Files(Flushed(p), FlushedClock(p)) /\ FlushedClock(p) \in Nat
      /\ \A q \in Proc : FlushedWriter(p)[q].file # None
                            => Whole(Flushed(p)[FlushedWriter(p)[q].file]) > 0
  BY <1>1, SoundFacts
<1>3. CASE \E q \in Proc : writer[q].file = s
  <2>1. PICK q \in Proc : writer[q].file = s
    BY <1>3
  <2>2. FlushedWriter(p)[q].file = s
    BY <2>1, FlushedFacts
  <2>3. Whole(Flushed(p)[s]) > 0
    BY <1>2, <2>2, FileNotNone
  <2>4. FileOK(Flushed(p)[s], FlushedClock(p))
    BY <1>2 DEF Files
  <2>. QED  BY <1>2, <2>3, <2>4, ReadableFacts
<1>4. CASE \A q \in Proc : writer[q].file # s
  <2>1. Flushed(p)[s] = disk[s]
    BY <1>4, FlushedFacts
  <2>. QED  BY <2>1
<1>. QED  BY <1>3, <1>4

LEMMA NothingWritten ==
  ASSUME NEW x \in Content, NEW d \in Outcomes(x, <<>>, 0)
  PROVE  d = x
<1>1. SubSeq(<<>>, 1, 0) = <<>>
  BY SubSeqEmpty
<1>2. Len(<<>>) = 0
  OBVIOUS
<1>3. Outcomes(x, <<>>, 0) = {Appended(x, <<>>)}
  BY <1>1, <1>2 DEF Outcomes
<1>. QED  BY <1>3, AppendedNone

LEMMA ResumeKeeps ==
  ASSUME SessionInv, NEW p \in Proc, NEW s \in File, Resume(p, s)
  PROVE  SessionInv'
<1>. DEFINE D1 == Flushed(p)
            W1 == FlushedWriter(p)
            base == [D1 EXCEPT ![s] = Isolated(@)]
<1>1. /\ SoundNow /\ runs \in Nat /\ faults \in Nat /\ pending \in [Proc -> SUBSET Run]
      /\ runs' = runs /\ pending' = [pending EXCEPT ![p] = {}]
      /\ writer' = AtHead(writer, p, s, HeadOf(D1[s]))
      /\ Readable(disk[s])
      /\ SaveAfter(base, Turn(p), s, <<>>, 0, {})
  BY DEF Resume, SessionInv, CanOpen, AtHead, Turn
<1>2. Sound(D1, W1, FlushedAcks(p), FlushedClock(p), exposed, {})
  BY <1>1, FlushedSound DEF SoundNow
<1>3. /\ D1 \in [File -> Content] /\ W1 \in Writers /\ exposed \in Nat /\ clock \in Nat
      /\ writer \in Writers
  BY <1>1, <1>2, SoundFacts, SoundNowFacts DEF Writers
<1>4. Readable(D1[s])
  BY <1>1, FlushedReadable
<1>5. PICK d \in Outcomes(base[s], <<>>, 0) :
         /\ disk' = [base EXCEPT ![s] = d]
         /\ clock' = clock + Len(Turn(p)) + Len(<<>>)
         /\ acked' = acked \cup IdsOf(Turn(p)) \cup IdsOf(SubSeq(<<>>, 1, 0))
         /\ faults' = faults + (IF 0 < Len(<<>>) THEN 1 ELSE 0)
         /\ exposed' = exposed + (IF d.cut /\ \E q \in Proc \ {} : writer[q].file = s
                                  THEN 1 ELSE 0)
  BY <1>1 DEF SaveAfter
<1>6. base \in [File -> Content] /\ base[s] \in Content /\ ~base[s].cut
  <2>1. D1[s] \in Content
    BY <1>3
  <2>2. Isolated(D1[s]) \in Content /\ ~Isolated(D1[s]).cut
    BY <2>1, IsolatedFacts
  <2>3. base[s] = Isolated(D1[s])
    BY <1>3
  <2>. QED  BY <1>3, <2>2, <2>3
<1>. HIDE DEF base
<1>7. d = base[s]
  BY <1>5, <1>6, NothingWritten
<1>8. disk' = base
  BY <1>5, <1>6, <1>7
<1>9. exposed' = exposed
  BY <1>3, <1>5, <1>6, <1>7
<1>10. faults' = faults
  BY <1>1, <1>5
<1>11. acked' = FlushedAcks(p)
  <2>1. SubSeq(<<>>, 1, 0) = <<>>
    BY SubSeqEmpty
  <2>2. IdsOf(<<>>) = {}
    BY IdsWritten
  <2>. QED  BY <1>5, <2>1, <2>2 DEF FlushedAcks
<1>12. clock' = FlushedClock(p)
  <2>1. FlushedClock(p) \in Nat /\ Len(<<>>) = 0
    BY <1>1, FlushedFacts
  <2>. QED  BY <1>5, <2>1 DEF FlushedClock
<1>. HIDE DEF D1, W1
<1>13. HeadOf(D1[s]) \in Nat
  <2>1. D1[s] \in Content /\ \A i \in 1 .. Len(D1[s].lines) : D1[s].lines[i] \in Line
    BY <1>3, ContentFacts
  <2>2. \A i \in 1 .. Len(D1[s].lines) : At(D1[s], i, HeadOf(D1[s])) => HeadOf(D1[s]) \in Nat
    BY <2>1, LineFacts DEF At
  <2>. QED  BY <2>1, <2>2, HeadIsThere DEF None
<1>14. Takeover(p, s, HeadOf(D1[s]), W1, writer')
  <2>1. Takeover(p, s, HeadOf(D1[s]), writer, writer')
    BY <1>1, <1>3, <1>13, HeadTakesOver
  <2>2. \A q \in Proc \ {p} : W1[q] = writer[q]
    BY <1>1, FlushedFacts DEF W1
  <2>. QED  BY <2>1, <2>2 DEF Takeover
<1>15. Sound([D1 EXCEPT ![s] = Isolated(@)], writer', FlushedAcks(p), FlushedClock(p), exposed, {})
  BY <1>2, <1>4, <1>14, OpenSound
<1>16. SoundNow'
  BY <1>8, <1>9, <1>11, <1>12, <1>15 DEF SoundNow, base
<1>. QED  BY <1>1, <1>10, <1>16 DEF SessionInv

\* Somebody may be about to continue from a message that reads back.
LEMMA AboutToCite ==
  ASSUME NEW D, NEW W, NEW A, NEW c, NEW e, Sound(D, W, A, c, e, {}),
         NEW x, x \in 0 .. c, Shown(D, x)
  PROVE  Sound(D, W, A, c, e, {x})
<1>1. \A id : id \in Dangling(D, W, {x}) => id \in Dangling(D, W, {})
  BY DEF Dangling, Cited
<1>2. \A id : id \in Dangling(D, W, {}) => id \in Dangling(D, W, {x})
  BY DEF Dangling, Cited
<1>3. Dangling(D, W, {x}) = Dangling(D, W, {})
  BY <1>1, <1>2
<1>. QED  BY <1>3 DEF Sound, Typed, Paid

LEMMA BranchKeeps ==
  ASSUME SessionInv, NEW p \in Proc, NEW s \in File, NEW m \in Messages(disk[s]), Branch(p, s, m)
  PROVE  SessionInv'
<1>. DEFINE D1 == Flushed(p)
            W1 == FlushedWriter(p)
            A1 == FlushedAcks(p)
            c1 == FlushedClock(p)
            f == NextFile
            h == Header(c1 + 1, m.id)
<1>1. /\ SoundNow /\ runs \in Nat /\ faults \in Nat /\ pending \in [Proc -> SUBSET Run]
      /\ runs' = runs /\ pending' = [pending EXCEPT ![p] = {}] /\ Unused # {}
      /\ writer' = [writer EXCEPT ![p] =
                       IF Saved THEN [file |-> f, last |-> m.id]
                       ELSE IF Turn(p) = <<>> THEN @ ELSE [@ EXCEPT !.last = clock + 1]]
  BY DEF Branch, SessionInv, Turn
<1>2. PICK k \in 0 .. 1 : SaveAfter(D1, Turn(p), f, <<h>>, k, {})
  BY DEF Branch, Turn, FlushedClock
<1>3. /\ clock \in Nat /\ writer \in Writers /\ disk \in [File -> Content] /\ Files(disk, clock)
      /\ \A q \in Proc : writer[q].file # None => Whole(disk[writer[q].file]) > 0
  BY <1>1, SoundNowFacts, SoundFacts DEF SoundNow
<1>4. Shown(disk, m.id) /\ m.id \in 0 .. clock /\ m.id \in Nat
  <2>1. disk[s] \in Content /\ FileOK(disk[s], clock)
    BY <1>3 DEF Files
  <2>2. PICK i \in 1 .. Len(disk[s].lines) : IsMessage(disk[s].lines[i]) /\ m = disk[s].lines[i]
    BY <2>1, MessageLinesFacts DEF Messages
  <2>3. Born(m, clock)
    BY <2>1, <2>2 DEF FileOK
  <2>4. m.id \in 0 .. clock /\ m.id \in Nat
    BY <1>3, <2>2, <2>3 DEF Born, IsMessage
  <2>. QED  BY <2>2, <2>4 DEF Shown, At
<1>5. Sound(disk, writer, acked, clock, exposed, {m.id})
  BY <1>1, <1>4, AboutToCite DEF SoundNow
<1>6. Sound(D1, W1, A1, c1, exposed, {m.id})
  BY <1>1, <1>5, FlushedSound
<1>7. /\ \A q \in Proc : W1[q].file = writer[q].file
      /\ \A q \in Proc \ {p} : W1[q] = writer[q]
      /\ c1 \in Nat /\ clock <= c1
  BY <1>1, FlushedFacts
<1>8. f \in File /\ disk[f] = NoLines
  BY <1>1, NextFileIsUnused
<1>9. \A q \in Proc : writer[q].file # f
  <2>1. Whole(NoLines) = 0
    BY DEF NoLines, Whole
  <2>. QED  BY <1>3, <1>8, <2>1, FileNotNone
<1>10. D1[f] = NoLines
  BY <1>1, <1>8, <1>9, FlushedFacts
<1>11. /\ D1 \in [File -> Content] /\ W1 \in Writers /\ exposed \in Nat
       /\ D1[f] \in Content
  BY <1>6, <1>8, SoundFacts DEF Writers
<1>12. m.id \in 0 .. c1
  BY <1>3, <1>4, <1>7
<1>13. PICK d \in Outcomes(D1[f], <<h>>, k) :
         /\ disk' = [D1 EXCEPT ![f] = d]
         /\ clock' = clock + Len(Turn(p)) + Len(<<h>>)
         /\ acked' = acked \cup IdsOf(Turn(p)) \cup IdsOf(SubSeq(<<h>>, 1, k))
         /\ exposed' = exposed + (IF d.cut /\ \E q \in Proc \ {} : writer[q].file = f
                                  THEN 1 ELSE 0)
  BY <1>2 DEF SaveAfter
<1>14. clock' = c1 + 1
  <2>1. clock' = c1 + Len(<<h>>) /\ Len(<<h>>) = 1
    BY <1>13 DEF FlushedClock
  <2>. QED  BY <2>1
<1>15. ~IsMessage(h) /\ h \in Line
  BY <1>7, <1>12, HeaderFacts
<1>16. (k < 1 <=> ~Saved) /\ faults' \in Nat
  <2>1. Len(<<h>>) = 1 /\ k \in 0 .. 1 /\ 1 \in Nat
    OBVIOUS
  <2>. HIDE DEF D1, f, h
  <2>. QED  BY <1>1, <1>2, <2>1, SavedMeans
<1>17. acked' = A1
  <2>1. SubSeq(<<h>>, 1, 0) = <<>> /\ SubSeq(<<h>>, 1, 1) = <<h>>
        /\ IdsOf(<<>>) = {} /\ IdsOf(<<h>>) = {}
    <3>. HIDE DEF h
    <3>. QED  BY <1>15, Prefixes, IdsWritten
  <2>2. k = 0 \/ k = 1
    OBVIOUS
  <2>3. IdsOf(SubSeq(<<h>>, 1, k)) = {}
    <3>. HIDE DEF h
    <3>. QED  BY <2>1, <2>2
  <2>4. acked' = acked \cup IdsOf(Turn(p))
    BY <1>13, <2>3
  <2>. QED  BY <2>4 DEF FlushedAcks
<1>18. (k = 0 /\ d \in Torn(D1[f], h)) \/ (k = 1 /\ d = Appended(D1[f], <<h>>))
  <2>. HIDE DEF D1, f, h
  <2>. QED  BY <1>11, <1>13, OutcomesOne
<1>19. exposed' = exposed
  BY <1>9, <1>11, <1>13
<1>20. W1 = IF Turn(p) = <<>> THEN writer ELSE AtHead(writer, p, writer[p].file, clock + 1)
  BY DEF FlushedWriter
<1>21. SoundNow'
  <2>1. CASE k = 1
    <3>1. writer' = AtHead(writer, p, f, m.id)
      BY <1>1, <1>16, <2>1 DEF AtHead
    <3>2. Takeover(p, f, m.id, W1, writer')
      <4>1. Takeover(p, f, m.id, writer, writer')
        BY <1>3, <1>4, <1>8, <3>1, HeadTakesOver
      <4>. QED  BY <1>7, <4>1 DEF Takeover
    <3>3. disk' = [D1 EXCEPT ![f] = Appended(@, <<h>>)]
      BY <1>13, <1>18, <2>1
    <3>. HIDE DEF D1, W1, A1, c1, f
    <3>4. Sound([D1 EXCEPT ![f] = Appended(@, <<h>>)], writer', A1, c1 + 1, exposed, {})
      <4>1. m.id \in {m.id} \cup {None} /\ {} \subseteq {m.id}
        OBVIOUS
      <4>. QED  BY <1>6, <1>8, <1>10, <1>12, <3>2, <4>1, CreateSound
    <3>. QED  BY <1>14, <1>17, <1>19, <3>3, <3>4 DEF SoundNow
  <2>2. CASE k = 0
    <3>1. writer' = W1
      <4>1. writer' = [writer EXCEPT ![p] = IF Turn(p) = <<>> THEN @ ELSE [@ EXCEPT !.last = clock + 1]]
        BY <1>1, <1>16, <2>2
      <4>2. CASE Turn(p) = <<>>
        BY <1>3, <1>20, <4>1, <4>2 DEF Writers
      <4>3. CASE Turn(p) # <<>>
        <5>1. writer[p] \in [file : File \cup {None}, last : Nat]
          BY <1>3 DEF Writers
        <5>2. [writer[p] EXCEPT !.last = clock + 1] = [file |-> writer[p].file, last |-> clock + 1]
          BY <5>1
        <5>3. writer' = [writer EXCEPT ![p] = [writer[p] EXCEPT !.last = clock + 1]]
          BY <4>1, <4>3
        <5>. QED  BY <1>20, <4>3, <5>2, <5>3 DEF AtHead
      <4>. QED  BY <4>2, <4>3
    <3>2. d \in Torn(D1[f], h)
      BY <1>18, <2>2
    <3>3. disk' = [D1 EXCEPT ![f] = d]
      BY <1>13
    <3>4. Tearable(D1, W1, c1, {m.id}, f, h)
      BY <1>7, <1>10, <1>12, HeaderTearable
    <3>5. Retired(W1, W1)
      BY <1>11, ClosedRetires
    <3>6. Exposes(d, W1, f, exposed, exposed)
      <4>1. ~\E q \in Proc : W1[q].file = f
        BY <1>7, <1>9
      <4>. QED  BY <1>11, <4>1 DEF Exposes
    <3>. HIDE DEF D1, W1, A1, c1, f, h
    <3>. DEFINE D2 == [D1 EXCEPT ![f] = d]
    <3>7. Sound(D2, W1, A1, c1 + 1, exposed, {m.id})
      BY <1>6, <1>8, <3>2, <3>4, <3>5, <3>6, TearSound
    <3>. HIDE DEF D2
    <3>8. Sound(D2, W1, A1, c1 + 1, exposed, {})
      <4>1. c1 + 1 \in Nat /\ c1 + 1 <= c1 + 1 /\ exposed <= exposed /\ {} \subseteq {m.id}
        BY <1>7, <1>11
      <4>. QED  BY <1>11, <3>5, <3>7, <4>1, CloseSound
    <3>9. disk' = D2
      BY <3>3 DEF D2
    <3>. QED  BY <1>14, <1>17, <1>19, <3>1, <3>8, <3>9 DEF SoundNow
  <2>3. k = 0 \/ k = 1
    OBVIOUS
  <2>. QED  BY <2>1, <2>2, <2>3
<1>. QED  BY <1>1, <1>16, <1>21 DEF SessionInv

-----------------------------------------------------------------------------
(* The theorems.                                                           *)

LEMMA SessionStarts == SessionInit => SessionInv
<1>. SUFFICES ASSUME SessionInit  PROVE SessionInv
  OBVIOUS
<1>1. /\ disk = [f \in File |-> NoLines] /\ clock = 0 /\ runs = 0 /\ faults = 0 /\ exposed = 0
      /\ acked = {} /\ writer = [p \in Proc |-> NoWriter] /\ pending = [p \in Proc |-> {}]
  BY DEF SessionInit
<1>2. /\ NoLines \in Content /\ Whole(NoLines) = 0 /\ Len(NoLines.lines) = 0 /\ ~NoLines.cut
      /\ NoLines.lines = <<>>
  BY DEF NoLines, Content, Whole
<1>3. disk \in [File -> Content] /\ \A f \in File : disk[f] = NoLines
  BY <1>1, <1>2
<1>4. NoWriter \in [file : File \cup {None}, last : Nat] /\ NoWriter.file = None /\ NoWriter.last = None
  BY DEF NoWriter, None
<1>5. writer \in Writers /\ \A q \in Proc : writer[q] = NoWriter
  BY <1>1, <1>4 DEF Writers
<1>6. Files(disk, clock)
  BY <1>1, <1>2, <1>3 DEF Files, FileOK, HeaderFirst
<1>7. IdsApart(disk)
  BY <1>2, <1>3 DEF IdsApart
<1>8. \A q \in Proc : /\ writer[q].last <= clock
                      /\ writer[q].file = None => writer[q].last = None
                      /\ writer[q].file # None => Whole(disk[writer[q].file]) > 0
  BY <1>1, <1>4, <1>5 DEF None
<1>9. /\ Gone(disk, acked) = {} /\ Raw(disk, writer) = {} /\ Scars(disk) = {}
      /\ Dangling(disk, writer, {}) = {}
  <2>1. Gone(disk, acked) = {}
    BY <1>1 DEF Gone
  <2>2. Raw(disk, writer) = {}
    BY <1>2, <1>3 DEF Raw
  <2>3. Scars(disk) = {}
    <3>. SUFFICES ASSUME NEW x \in Scars(disk)  PROVE FALSE
      OBVIOUS
    <3>1. x \in File \X Nat /\ x[2] \in 1 .. Whole(disk[x[1]])
      BY DEF Scars
    <3>. QED  BY <1>2, <1>3, <3>1
  <2>4. Dangling(disk, writer, {}) = {}
    BY <1>2, <1>3, <1>4, <1>5 DEF Dangling, Cited
  <2>. QED  BY <2>1, <2>2, <2>3, <2>4
<1>10. Balanced(Gone(disk, acked), Scars(disk), Raw(disk, writer), Dangling(disk, writer, {}), exposed)
  BY <1>1, <1>9, FS_EmptySet DEF Balanced
<1>11. clock \in Nat /\ exposed \in Nat /\ acked \subseteq 1 .. clock /\ {} \subseteq 0 .. clock
  BY <1>1
<1>12. SoundNow
  BY <1>3, <1>5, <1>6, <1>7, <1>8, <1>10, <1>11, SoundAgain DEF SoundNow
<1>. QED  BY <1>1, <1>12 DEF SessionInv

LEMMA SessionSteps == SessionInv /\ [SessionNext]_sessionVars => SessionInv'
<1>. SUFFICES ASSUME SessionInv, [SessionNext]_sessionVars  PROVE SessionInv'
  OBVIOUS
<1>1. CASE UNCHANGED sessionVars
  <2>1. UNCHANGED <<disk, clock, runs, writer, pending, acked, faults, exposed>>
    BY <1>1 DEF sessionVars, local
  <2>. QED  BY <2>1 DEF SessionInv, SoundNow
<1>2. CASE SessionNext
  <2>1. PICK p \in Proc :
          \/ Mount(p) \/ Submit(p) \/ StateChange(p)
          \/ \E r \in Run : Heard(p, r) \/ Result(p, r) \/ Ended(p, r)
          \/ \E s \in File : Resume(p, s) \/ \E m \in Messages(disk[s]) : Branch(p, s, m)
          \/ FlushFails(p)
          \/ Quit(p) \/ Crash(p)
    BY <1>2 DEF SessionNext
  <2>. QED
    BY <2>1, MountKeeps, SubmitKeeps, StateChangeKeeps, HeardKeeps, ResultKeeps, EndedKeeps,
       ResumeKeeps, BranchKeeps, FlushFailsKeeps, QuitKeeps, CrashKeeps
<1>. QED  BY <1>1, <1>2

\* The files, the writers and the acknowledged ids fit together in every
\* reachable state: no message is there twice, every writer stands in a file that
\* reads back, and what was lost is accounted for by scars and by the tails torn
\* under an open writer.
THEOREM SessionsSound == SessionSpec => []SessionInv
BY SessionStarts, SessionSteps, PTL DEF SessionSpec

\* What the listing shows is what is in the files.
LEMMA LoadedIsShown ==
  ASSUME NEW D, NEW c \in Nat, Files(D, c)
  PROVE  /\ \A f \in File, i \in Nat : i \in 1 .. Len(D[f].lines) /\ IsMessage(D[f].lines[i])
                => f \in Listed(D) /\ D[f].lines[i] \in Loaded(D)
         /\ \A m \in Loaded(D) : \E f \in File : \E i \in 1 .. Len(D[f].lines) :
                IsMessage(D[f].lines[i]) /\ m = D[f].lines[i]
<1>1. ASSUME NEW f \in File, NEW i \in 1 .. Len(D[f].lines), IsMessage(D[f].lines[i])
      PROVE  f \in Listed(D) /\ D[f].lines[i] \in Loaded(D)
  <2>1. FileOK(D[f], c) /\ D[f] \in Content
    BY DEF Files, FileOK
  <2>2. /\ Whole(D[f]) \in Nat /\ Len(D[f].lines) \in Nat /\ Len(D[f].lines) <= Whole(D[f]) + 1
        /\ (D[f].lines # <<>> <=> Len(D[f].lines) > 0)
    BY <2>1, ContentFacts
  <2>3. Whole(D[f]) > 0
    <3>1. D[f].lines[1].kind \in {"session", "malformed"}
      BY <2>1, <2>2 DEF FileOK
    <3>2. i # 1
      BY <1>1, <3>1 DEF IsMessage
    <3>. QED  BY <2>2, <3>2
  <2>4. f \in Listed(D)
    BY <2>1, <2>3, ReadableFacts DEF Listed
  <2>5. D[f].lines[i] \in Messages(D[f])
    BY <1>1, <2>1, MessageLinesFacts DEF Messages
  <2>. QED  BY <2>4, <2>5 DEF Loaded
<1>2. ASSUME NEW m \in Loaded(D)
      PROVE  \E f \in File : \E i \in 1 .. Len(D[f].lines) :
                IsMessage(D[f].lines[i]) /\ m = D[f].lines[i]
  <2>1. PICK f \in File : m \in Messages(D[f])
    BY DEF Loaded, Listed
  <2>2. D[f] \in Content
    BY DEF Files, FileOK
  <2>3. \E i \in 1 .. Len(D[f].lines) : IsMessage(D[f].lines[i]) /\ m = D[f].lines[i]
    BY <2>1, <2>2, MessageLinesFacts DEF Messages
  <2>. QED  BY <2>3
<1>. QED  BY <1>1, <1>2

LEMMA InvBoundsLoss == SessionInv => LossIsBounded
<1>. SUFFICES ASSUME SessionInv  PROVE LossIsBounded
  OBVIOUS
<1>1. /\ Files(disk, clock) /\ clock \in Nat /\ disk \in [File -> Content] /\ exposed \in Nat
      /\ Finite(Gone(disk, acked), Scars(disk), Raw(disk, writer), Dangling(disk, writer, {}))
      /\ Balanced(Gone(disk, acked), Scars(disk), Raw(disk, writer), Dangling(disk, writer, {}), exposed)
  BY SoundFacts DEF SessionInv, SoundNow
<1>2. Lost \subseteq Gone(disk, acked)
  <2>. SUFFICES ASSUME NEW id \in acked, id \notin LoadedIds  PROVE id \in Gone(disk, acked)
    BY DEF Lost
  <2>1. ASSUME Kept(disk, id)  PROVE FALSE
    <3>1. PICK f \in File : \E i \in 1 .. Whole(disk[f]) : At(disk[f], i, id)
      BY <2>1 DEF Kept
    <3>2. PICK i \in 1 .. Whole(disk[f]) : At(disk[f], i, id)
      BY <3>1
    <3>3. i \in 1 .. Len(disk[f].lines)
      <4>1. disk[f] \in Content
        BY <1>1
      <4>2. Whole(disk[f]) \in Nat /\ Len(disk[f].lines) \in Nat /\ Whole(disk[f]) <= Len(disk[f].lines)
        BY <4>1, ContentFacts
      <4>. QED  BY <4>2
    <3>4. disk[f].lines[i] \in Loaded(disk)
      BY <1>1, <3>2, <3>3, LoadedIsShown DEF At
    <3>5. disk[f].lines[i].id = id
      BY <3>2 DEF At
    <3>. QED  BY <3>4, <3>5 DEF LoadedIds
  <2>. QED  BY <2>1 DEF Gone
<1>3. Scars(disk) \subseteq Diagnostics(disk)
  <2>. SUFFICES ASSUME NEW x \in Scars(disk)  PROVE x \in Diagnostics(disk)
    OBVIOUS
  <2>1. /\ x = <<x[1], x[2]>> /\ x[1] \in File /\ x[2] \in 1 .. Whole(disk[x[1]])
        /\ disk[x[1]].lines[x[2]] = Malformed
    BY DEF Scars
  <2>2. FileOK(disk[x[1]], clock) /\ disk[x[1]] \in Content
    BY <1>1, <2>1 DEF Files
  <2>3. /\ Whole(disk[x[1]]) \in Nat /\ Whole(disk[x[1]]) > 0 /\ x[2] \in DOMAIN disk[x[1]].lines
    BY <2>1, <2>2, ContentFacts
  <2>4. x[1] \in Listed(disk)
    BY <1>1, <2>1, <2>2, <2>3, ReadableFacts DEF Listed
  <2>. QED  BY <2>1, <2>3, <2>4 DEF Diagnostics
<1>4. IsFiniteSet(Diagnostics(disk))
  <2>1. Diagnostics(disk) \subseteq File \X (1 .. clock)
    <3>. SUFFICES ASSUME NEW x \in Diagnostics(disk)  PROVE x \in File \X (1 .. clock)
      OBVIOUS
    <3>1. PICK f \in File : x \in {<<f, i>> : i \in {j \in DOMAIN disk[f].lines : disk[f].lines[j] = Malformed}}
      BY DEF Diagnostics, Listed
    <3>2. PICK i \in DOMAIN disk[f].lines : x = <<f, i>>
      BY <3>1
    <3>3. FileOK(disk[f], clock) /\ disk[f] \in Content
      BY <1>1 DEF Files
    <3>4. i \in 1 .. clock
      BY <1>1, <3>2, <3>3, ContentFacts DEF FileOK
    <3>. QED  BY <3>2, <3>4
  <2>2. IsFiniteSet(1 .. clock)
    BY <1>1, FS_Interval
  <2>3. IsFiniteSet(File \X (1 .. clock))
    BY <2>2, FileFinite, FS_Product
  <2>. QED  BY <2>1, <2>3, FS_Subset
<1>5. Cardinality(Lost) <= Cardinality(Gone(disk, acked)) /\ Cardinality(Lost) \in Nat
      /\ Cardinality(Gone(disk, acked)) \in Nat
  BY <1>1, <1>2, NoMore DEF Finite
<1>6. Cardinality(Scars(disk)) <= Cardinality(Diagnostics(disk)) /\ Cardinality(Scars(disk)) \in Nat
      /\ Cardinality(Diagnostics(disk)) \in Nat
  BY <1>3, <1>4, NoMore
<1>7. Cardinality(Raw(disk, writer)) \in Nat
  BY <1>1, FS_CardinalityType DEF Finite
<1>8. /\ Cardinality(Gone(disk, acked)) <= Cardinality(Scars(disk))
      /\ Cardinality(Gone(disk, acked)) + Cardinality(Raw(disk, writer)) <= exposed
  BY <1>1 DEF Balanced
<1>9. Cardinality(Lost) <= exposed
  BY <1>1, <1>5, <1>7, <1>8
<1>10. Cardinality(Lost) <= Cardinality(Diagnostics(disk))
  BY <1>5, <1>6, <1>8
<1>. QED  BY <1>9, <1>10 DEF LossIsBounded

LEMMA InvHoldsChains == SessionInv => ChainUnbroken
<1>. SUFFICES ASSUME SessionInv  PROVE ChainUnbroken
  OBVIOUS
<1>. DEFINE known == {m.id : m \in Loaded(disk)} \cup {None}
            broken == {m.parent : m \in Loaded(disk)} \ known
<1>1. /\ Files(disk, clock) /\ clock \in Nat /\ disk \in [File -> Content] /\ exposed \in Nat
      /\ Finite(Gone(disk, acked), Scars(disk), Raw(disk, writer), Dangling(disk, writer, {}))
      /\ Balanced(Gone(disk, acked), Scars(disk), Raw(disk, writer), Dangling(disk, writer, {}), exposed)
  BY SoundFacts DEF SessionInv, SoundNow
<1>2. broken \subseteq Dangling(disk, writer, {})
  <2>. SUFFICES ASSUME NEW m \in Loaded(disk), m.parent \notin known
                PROVE  m.parent \in Dangling(disk, writer, {})
    OBVIOUS
  <2>1. PICK f \in File : \E i \in 1 .. Len(disk[f].lines) :
           IsMessage(disk[f].lines[i]) /\ m = disk[f].lines[i]
    BY <1>1, LoadedIsShown
  <2>2. PICK i \in 1 .. Len(disk[f].lines) : IsMessage(disk[f].lines[i]) /\ m = disk[f].lines[i]
    BY <2>1
  <2>3. m.parent \in Nat
    <3>1. disk[f].lines[i] \in Line
      BY <1>1, ContentFacts
    <3>. QED  BY <2>2, <3>1, LineFacts
  <2>4. Cited(disk, writer, {}, m.parent)
    BY <2>2 DEF Cited
  <2>5. ASSUME Shown(disk, m.parent)  PROVE FALSE
    <3>1. PICK g \in File : \E j \in 1 .. Len(disk[g].lines) : At(disk[g], j, m.parent)
      BY <2>5 DEF Shown
    <3>2. PICK j \in 1 .. Len(disk[g].lines) : At(disk[g], j, m.parent)
      BY <3>1
    <3>3. disk[g].lines[j] \in Loaded(disk)
      BY <1>1, <3>2, LoadedIsShown DEF At
    <3>. QED  BY <3>2, <3>3 DEF At
  <2>. QED  BY <2>3, <2>4, <2>5 DEF Dangling
<1>. HIDE DEF broken
<1>3. /\ Cardinality(broken) <= Cardinality(Dangling(disk, writer, {})) /\ Cardinality(broken) \in Nat
      /\ Cardinality(Dangling(disk, writer, {})) \in Nat
  BY <1>1, <1>2, NoMore DEF Finite
<1>4. Cardinality(Raw(disk, writer)) \in Nat
  BY <1>1, FS_CardinalityType DEF Finite
<1>5. Cardinality(Dangling(disk, writer, {})) + 2 * Cardinality(Raw(disk, writer)) <= 2 * exposed
  BY <1>1 DEF Balanced
<1>6. Cardinality(broken) <= 2 * exposed
  BY <1>1, <1>3, <1>4, <1>5
<1>. QED  BY <1>6 DEF ChainUnbroken, broken

\* Whatever crashes, restarts and concurrent writers did: an append that returned
\* is lost only where it was glued to a tail torn under an open writer, so that
\* the losses are no more than those tails, nor than the malformed lines the
\* listing warns of.
THEOREM LossBounded == SessionSpec => []LossIsBounded
BY SessionsSound, InvBoundsLoss, PTL

\* A message continues from one that does not read back only where a tail torn
\* under an open writer broke the link, and one such tail breaks two at most:
\* the link to the torn record, if a session was branched from it while it could
\* still be read, and the link to the record that was glued to it.
THEOREM ChainsHold == SessionSpec => []ChainUnbroken
BY SessionsSound, InvHoldsChains, PTL

(***************************************************************************)
(* The tree.  Messages with their own ids for timestamps and parents older *)
(* than themselves are drawn one by one, newest first.                     *)
(***************************************************************************)

Conversation(M) ==
  /\ IsFiniteSet(M)
  /\ \A m \in M : /\ m.id \in Nat /\ m.id > 0 /\ m.ts = m.id /\ m.session \in Nat
                  /\ m.parent \in Nat /\ m.parent < m.id
  /\ \A a, b \in M : a.id = b.id => a = b

Above(M, m) == {x \in M : Newer(x, m)}

LEMMA AboveFacts ==
  ASSUME NEW M, Conversation(M)
  PROVE  /\ \A a, b \in M : Newer(a, b) <=> a.id > b.id
         /\ \A a \in M : IsFiniteSet(Above(M, a)) /\ Cardinality(Above(M, a)) \in Nat
                         /\ Cardinality(Above(M, a)) + 1 <= Cardinality(M)
         /\ \A a, b \in M : a.id > b.id => Cardinality(Above(M, a)) < Cardinality(Above(M, b))
         /\ Cardinality(M) \in Nat
<1>1. ASSUME NEW a \in M, NEW b \in M  PROVE Newer(a, b) <=> a.id > b.id
  <2>1. /\ a.id \in Nat /\ a.ts = a.id /\ b.id \in Nat /\ b.ts = b.id
        /\ a.session \in Nat /\ b.session \in Nat /\ (a.id = b.id => a = b)
    BY DEF Conversation
  <2>. QED  BY <2>1 DEF Newer
<1>2. \A a \in M : Above(M, a) = {x \in M : x.id > a.id}
  BY <1>1 DEF Above
<1>3. \A a \in M : a.id \in Nat
  BY DEF Conversation
<1>4. IsFiniteSet(M) /\ Cardinality(M) \in Nat
  BY FS_CardinalityType DEF Conversation
<1>5. ASSUME NEW a \in M
      PROVE  /\ IsFiniteSet(Above(M, a)) /\ Cardinality(Above(M, a)) \in Nat
             /\ Cardinality(Above(M, a)) + 1 <= Cardinality(M)
  <2>1. Above(M, a) \subseteq M /\ a \notin Above(M, a)
    BY <1>2, <1>3
  <2>. QED  BY <1>4, <2>1, OneLess
<1>6. ASSUME NEW a \in M, NEW b \in M, a.id > b.id
      PROVE  Cardinality(Above(M, a)) < Cardinality(Above(M, b))
  <2>1. Above(M, a) \subseteq Above(M, b) /\ a \in Above(M, b) /\ a \notin Above(M, a)
    BY <1>2, <1>3, <1>6
  <2>2. IsFiniteSet(Above(M, b))
    BY <1>5
  <2>3. Cardinality(Above(M, a)) + 1 <= Cardinality(Above(M, b))
    BY <2>1, <2>2, OneLess
  <2>. QED  BY <1>5, <2>3
<1>. QED  BY <1>1, <1>4, <1>5, <1>6

\* Every row number is the rank of one message.
LEMMA EveryRank ==
  ASSUME NEW M, Conversation(M), NEW k \in 1 .. Cardinality(M)
  PROVE  \E m \in M : Cardinality(Above(M, m)) = k - 1
<1>. DEFINE n == Cardinality(M)
            rank == [m \in M |-> Cardinality(Above(M, m)) + 1]
<1>1. n \in Nat
  BY AboveFacts
<1>2. rank \in [M -> 1 .. n] /\ \A m \in M : rank[m] = Cardinality(Above(M, m)) + 1
  BY <1>1, AboveFacts
<1>3. ASSUME NEW a \in M, NEW b \in M, rank[a] = rank[b]  PROVE a = b
  <2>1. Cardinality(Above(M, a)) = Cardinality(Above(M, b))
    <3>1. Cardinality(Above(M, a)) \in Nat /\ Cardinality(Above(M, b)) \in Nat
      BY AboveFacts
    <3>. QED  BY <1>3, <3>1
  <2>2. ~(a.id > b.id) /\ ~(b.id > a.id)
    <3>1. Cardinality(Above(M, a)) \in Nat
      BY AboveFacts
    <3>. QED  BY <2>1, <3>1, AboveFacts
  <2>3. a.id \in Nat /\ b.id \in Nat /\ (a.id = b.id => a = b)
    BY DEF Conversation
  <2>. QED  BY <2>2, <2>3
<1>. HIDE DEF rank
<1>4. rank \in Injection(M, 1 .. n)
  BY <1>2, <1>3 DEF Injection, IsInjective
<1>5. IsFiniteSet(1 .. n) /\ Cardinality(1 .. n) = n
  BY <1>1, FS_Interval
<1>6. rank \in Surjection(M, 1 .. n)
  BY <1>4, <1>5, FS_Injection
<1>7. PICK m \in M : rank[m] = k
  BY <1>6 DEF Surjection
<1>8. Cardinality(Above(M, m)) \in Nat
  BY AboveFacts
<1>. QED  BY <1>2, <1>7, <1>8

LEMMA OrderedFacts ==
  ASSUME NEW M, Conversation(M), NEW n, n = Cardinality(M), NEW o, o = Ordered(M)
  PROVE  /\ n \in Nat /\ o \in [1 .. n -> M] /\ Len(o) = n
         /\ \A i, j \in 1 .. n : i < j => o[i].id > o[j].id
         /\ \A m \in M : \E i \in 1 .. n : o[i] = m
<1>1. n \in Nat
  BY AboveFacts
<1>2. o = [k \in 1 .. n |-> CHOOSE m \in M : Cardinality(Above(M, m)) = k - 1]
  BY DEF Ordered, Above
<1>3. ASSUME NEW k \in 1 .. n  PROVE o[k] \in M /\ Cardinality(Above(M, o[k])) = k - 1
  <2>1. \E m \in M : Cardinality(Above(M, m)) = k - 1
    BY EveryRank
  <2>. QED  BY <1>2, <2>1
<1>4. o \in [1 .. n -> M] /\ Len(o) = n
  BY <1>1, <1>2, <1>3
<1>5. ASSUME NEW i \in 1 .. n, NEW j \in 1 .. n, i < j  PROVE o[i].id > o[j].id
  <2>1. /\ o[i] \in M /\ o[j] \in M
        /\ Cardinality(Above(M, o[i])) = i - 1 /\ Cardinality(Above(M, o[j])) = j - 1
    BY <1>3
  <2>2. o[i].id # o[j].id /\ o[i].id \in Nat /\ o[j].id \in Nat
    <3>1. i - 1 # j - 1
      BY <1>5
    <3>. QED  BY <2>1, <3>1 DEF Conversation
  <2>3. ~(o[j].id > o[i].id)
    <3>1. ~(j - 1 < i - 1)
      BY <1>5
    <3>. QED  BY <2>1, <3>1, AboveFacts
  <2>. QED  BY <2>2, <2>3
<1>6. ASSUME NEW m \in M  PROVE \E i \in 1 .. n : o[i] = m
  <2>. DEFINE i == Cardinality(Above(M, m)) + 1
  <2>1. i \in 1 .. n /\ Cardinality(Above(M, m)) = i - 1
    BY <1>1, AboveFacts
  <2>2. o[i] \in M /\ Cardinality(Above(M, o[i])) = i - 1
    BY <1>3, <2>1
  <2>. HIDE DEF i
  <2>3. ~(m.id > o[i].id) /\ ~(o[i].id > m.id)
    <3>1. ~(i - 1 < i - 1)
      BY <2>1
    <3>. QED  BY <2>1, <2>2, <3>1, AboveFacts
  <2>4. o[i] = m
    BY <2>2, <2>3 DEF Conversation
  <2>. QED  BY <2>1, <2>4
<1>. QED  BY <1>1, <1>4, <1>5, <1>6

-----------------------------------------------------------------------------
(* One row.                                                                *)

Row == [id : Nat, parent : Nat, lane : Nat, folds : SUBSET Nat]
Drawing == [lanes : Seq(Nat), rows : Seq(Row)]

LEMMA TrimmedFacts ==
  ASSUME NEW s \in Seq(Nat), NEW t, t = Trimmed(s)
  PROVE  /\ t \in Seq(Nat) /\ Len(t) <= Len(s)
         /\ \A i \in 1 .. Len(t) : t[i] = s[i]
         /\ \A i \in 1 .. Len(s) : s[i] # Free => i \in 1 .. Len(t)
<1>. DEFINE used == {i \in DOMAIN s : s[i] # Free}
<1>1. Len(s) \in Nat /\ DOMAIN s = 1 .. Len(s) /\ \A i \in 1 .. Len(s) : s[i] \in Nat
  OBVIOUS
<1>2. CASE used = {}
  <2>1. t = <<>>
    BY <1>2 DEF Trimmed
  <2>. QED  BY <1>1, <1>2, <2>1
<1>3. CASE used # {}
  <2>. DEFINE k == Max(used)
  <2>1. t = SubSeq(s, 1, k)
    BY <1>3 DEF Trimmed
  <2>2. IsFiniteSet(1 .. Len(s)) /\ used \subseteq 1 .. Len(s) /\ used \subseteq Nat
    BY <1>1, FS_Interval
  <2>3. IsFiniteSet(used)
    <3>. HIDE DEF used
    <3>. QED  BY <2>2, FS_Subset
  <2>4. k \in used /\ \A i \in used : k >= i
    <3>. HIDE DEF used
    <3>. QED  BY <1>3, <2>2, <2>3, MaxOf
  <2>5. k \in 1 .. Len(s)
    BY <2>2, <2>4
  <2>6. \A i \in 1 .. Len(s) : s[i] # Free => i <= k
    BY <1>1, <2>4
  <2>. HIDE DEF k, used
  <2>7. /\ t \in Seq(Nat) /\ Len(t) = k /\ \A i \in 1 .. k : t[i] = s[i]
    <3>1. \A i \in 1 .. k : s[i] \in Nat
      BY <1>1, <2>5
    <3>2. /\ SubSeq(s, 1, k) \in Seq(Nat) /\ Len(SubSeq(s, 1, k)) = k
          /\ \A i \in 1 .. k : SubSeq(s, 1, k)[i] = s[i]
      BY <1>1, <2>5
    <3>. QED  BY <2>1, <3>2
  <2>. QED  BY <1>1, <2>5, <2>6, <2>7
<1>. QED  BY <1>2, <1>3

\* The lane of a message waited for it, was free, or is new.
LEMMA LaneFacts ==
  ASSUME NEW s \in Seq(Nat), NEW id
  PROVE  /\ LaneFor(s, id) \in 1 .. Len(s) + 1
         /\ LaneFor(s, id) \in 1 .. Len(s) => s[LaneFor(s, id)] \in {id, Free}
<1>1. Len(s) \in Nat /\ \A x : Waiting(s, x) = {i \in 1 .. Len(s) : s[i] = x}
  BY DEF Waiting
<1>2. \A x : Waiting(s, x) # {} => Min(Waiting(s, x)) \in Waiting(s, x)
  <2>. SUFFICES ASSUME NEW x, Waiting(s, x) # {}  PROVE Min(Waiting(s, x)) \in Waiting(s, x)
    OBVIOUS
  <2>1. Waiting(s, x) \subseteq Nat
    BY <1>1
  <2>. QED  BY <2>1, MinOf
<1>3. CASE Waiting(s, id) # {}
  BY <1>1, <1>2, <1>3 DEF LaneFor
<1>4. CASE Waiting(s, id) = {} /\ Waiting(s, Free) # {}
  BY <1>1, <1>2, <1>4 DEF LaneFor
<1>5. CASE Waiting(s, id) = {} /\ Waiting(s, Free) = {}
  BY <1>1, <1>5 DEF LaneFor
<1>. QED  BY <1>3, <1>4, <1>5

\* What one step of the layout does to the lanes and the rows.
Advance(L, m, L2, lane) ==
  /\ L2 \in Drawing
  /\ Len(L2.rows) = Len(L.rows) + 1
  /\ \A i \in 1 .. Len(L.rows) : L2.rows[i] = L.rows[i]
  /\ L2.rows[Len(L.rows) + 1] =
       [id |-> m.id, parent |-> m.parent, lane |-> lane, folds |-> Waiting(L.lanes, m.id)]
  /\ \A i \in 1 .. Len(L2.lanes) :
       \/ L2.lanes[i] \in {Free, m.parent}
       \/ i \in 1 .. Len(L.lanes) /\ L2.lanes[i] = L.lanes[i] /\ L.lanes[i] # m.id
  /\ m.parent # Free => lane \in 1 .. Len(L2.lanes) /\ L2.lanes[lane] = m.parent
  /\ \A i \in 1 .. Len(L.lanes) :
       L.lanes[i] # Free /\ L.lanes[i] # m.id
       => i \in 1 .. Len(L2.lanes) /\ L2.lanes[i] = L.lanes[i]

LEMMA DrawnAdvances ==
  ASSUME NEW L \in Drawing, NEW m, m.id \in Nat, m.parent \in Nat,
         NEW L2, L2 = Drawn(L, m), NEW lane, lane = LaneFor(L.lanes, m.id)
  PROVE  Advance(L, m, L2, lane)
<1>. DEFINE s == L.lanes
            waiting == Waiting(s, m.id)
            top == Max({lane, Len(s)})
            advanced == [i \in 1 .. top |-> IF i = lane THEN m.parent
                                            ELSE IF i \in waiting THEN Free ELSE s[i]]
            drawn == [id |-> m.id, parent |-> m.parent, lane |-> lane, folds |-> waiting]
<1>1. s \in Seq(Nat) /\ L.rows \in Seq(Row)
  BY DEF Drawing
<1>2. Len(s) \in Nat /\ DOMAIN s = 1 .. Len(s) /\ \A i \in 1 .. Len(s) : s[i] \in Nat
  BY <1>1
<1>3. waiting = {i \in 1 .. Len(s) : s[i] = m.id}
  BY <1>2 DEF Waiting
<1>4. lane \in 1 .. Len(s) + 1 /\ (lane \in 1 .. Len(s) => s[lane] \in {m.id, Free})
  BY <1>1, LaneFacts
<1>5. top \in Nat /\ top >= lane /\ top >= Len(s) /\ (top = lane \/ top = Len(s))
  <2>1. CASE lane >= Len(s)
    <3>1. lane \in {lane, Len(s)} /\ \A y \in {lane, Len(s)} : lane >= y
      BY <1>2, <1>4, <2>1
    <3>2. top \in {lane, Len(s)} /\ \A y \in {lane, Len(s)} : top >= y
      BY <3>1 DEF Max
    <3>. QED  BY <1>2, <1>4, <3>2
  <2>2. CASE Len(s) >= lane
    <3>1. Len(s) \in {lane, Len(s)} /\ \A y \in {lane, Len(s)} : Len(s) >= y
      BY <1>2, <1>4, <2>2
    <3>2. top \in {lane, Len(s)} /\ \A y \in {lane, Len(s)} : top >= y
      BY <3>1 DEF Max
    <3>. QED  BY <1>2, <1>4, <3>2
  <2>. QED  BY <1>2, <1>4, <2>1, <2>2
<1>6. \A i \in 1 .. top : i # lane => i \in 1 .. Len(s)
  BY <1>2, <1>4, <1>5
<1>7. L2 = [lanes |-> Trimmed(advanced), rows |-> Append(L.rows, drawn)]
  BY DEF Drawn
<1>. HIDE DEF top
<1>8. /\ advanced \in Seq(Nat) /\ Len(advanced) = top
      /\ \A i \in 1 .. top : advanced[i] = IF i = lane THEN m.parent
                                           ELSE IF i \in waiting THEN Free ELSE s[i]
  <2>1. \A i \in 1 .. top : (IF i = lane THEN m.parent
                             ELSE IF i \in waiting THEN Free ELSE s[i]) \in Nat
    <3>. HIDE DEF waiting, s
    <3>. QED  BY <1>2, <1>6 DEF Free
  <2>2. advanced \in [1 .. top -> Nat]
    BY <2>1
  <2>. QED  BY <1>5, <2>2
<1>9. drawn \in Row
  <2>1. waiting \subseteq Nat
    BY <1>3
  <2>2. lane \in Nat
    BY <1>2, <1>4
  <2>. HIDE DEF waiting
  <2>. QED  BY <2>1, <2>2 DEF Row
<1>. HIDE DEF advanced, drawn, waiting
<1>. DEFINE t == Trimmed(advanced)
<1>10. /\ t \in Seq(Nat) /\ Len(t) <= top
       /\ \A i \in 1 .. Len(t) : t[i] = advanced[i]
       /\ \A i \in 1 .. top : advanced[i] # Free => i \in 1 .. Len(t)
  BY <1>8, TrimmedFacts
<1>11. Len(t) \in Nat
  BY <1>10
<1>. HIDE DEF t
<1>12. L2.lanes = t /\ L2.rows = Append(L.rows, drawn)
  BY <1>7 DEF t
<1>13. /\ Append(L.rows, drawn) \in Seq(Row) /\ Len(Append(L.rows, drawn)) = Len(L.rows) + 1
       /\ \A i \in 1 .. Len(L.rows) : Append(L.rows, drawn)[i] = L.rows[i]
       /\ Append(L.rows, drawn)[Len(L.rows) + 1] = drawn
  BY <1>1, <1>9, AppendProperties
<1>14. L2 \in Drawing
  BY <1>7, <1>10, <1>13 DEF Drawing, t
<1>15. ASSUME NEW i \in 1 .. Len(t)
       PROVE  \/ t[i] \in {Free, m.parent}
              \/ i \in 1 .. Len(s) /\ t[i] = s[i] /\ s[i] # m.id
  <2>1. i \in 1 .. top /\ t[i] = advanced[i]
    BY <1>5, <1>10, <1>11
  <2>. QED  BY <1>3, <1>6, <1>8, <2>1
<1>16. ASSUME m.parent # Free  PROVE lane \in 1 .. Len(t) /\ t[lane] = m.parent
  <2>1. lane \in 1 .. top
    BY <1>2, <1>4, <1>5
  <2>2. advanced[lane] = m.parent
    BY <1>8, <2>1
  <2>. QED  BY <1>10, <1>16, <2>1, <2>2
<1>17. ASSUME NEW i \in 1 .. Len(s), s[i] # Free, s[i] # m.id
       PROVE  i \in 1 .. Len(t) /\ t[i] = s[i]
  <2>1. i \in 1 .. top /\ i # lane /\ i \notin waiting
    BY <1>2, <1>3, <1>4, <1>5, <1>17
  <2>2. advanced[i] = s[i]
    BY <1>8, <2>1
  <2>. QED  BY <1>10, <1>17, <2>1, <2>2
<1>. HIDE DEF s
<1>18. L2.rows[Len(L.rows) + 1] =
         [id |-> m.id, parent |-> m.parent, lane |-> lane, folds |-> Waiting(L.lanes, m.id)]
  BY <1>12, <1>13 DEF drawn, waiting, s
<1>19. Len(L2.rows) = Len(L.rows) + 1 /\ \A i \in 1 .. Len(L.rows) : L2.rows[i] = L.rows[i]
  BY <1>12, <1>13
<1>. QED  BY <1>12, <1>14, <1>15, <1>16, <1>17, <1>18, <1>19 DEF s, Advance

-----------------------------------------------------------------------------
(* All rows.                                                               *)

Blank == [lanes |-> <<>>, rows |-> <<>>]

\* The drawings of the first k messages of o, one after the other.
Drawings(f, k, o) == f = [i \in 0 .. k |-> IF i = 0 THEN Blank ELSE Drawn(f[i - 1], o[i])]

\* Induction, over the numbers of a set.
LEMMA AllUpTo ==
  ASSUME NEW n \in Nat, NEW S, 0 \in S, \A i \in 1 .. n : i - 1 \in S => i \in S
  PROVE  \A i \in 0 .. n : i \in S
<1>. DEFINE Outside == {i \in 0 .. n : i \notin S}
<1>. SUFFICES ASSUME Outside # {}  PROVE FALSE
  OBVIOUS
<1>1. PICK k \in Outside : \A j \in Outside : k <= j
  <2>1. Outside \subseteq Nat
    OBVIOUS
  <2>. HIDE DEF Outside
  <2>. QED  BY <2>1, LeastNatural
<1>2. k \in 1 .. n /\ k - 1 \in 0 .. n /\ k - 1 \notin Outside
  BY <1>1
<1>. QED  BY <1>1, <1>2

LEMMA DrawingsExist ==
  ASSUME NEW n \in Nat, NEW o
  PROVE  \E f : Drawings(f, n, o)
<1>. DEFINE Reached == {k \in 0 .. n : \E f : Drawings(f, k, o)}
<1>1. 0 \in Reached
  <2>. DEFINE f == [i \in 0 .. 0 |-> Blank]
  <2>1. f = [i \in 0 .. 0 |-> IF i = 0 THEN Blank ELSE Drawn(f[i - 1], o[i])]
    OBVIOUS
  <2>. HIDE DEF f
  <2>. QED  BY <2>1 DEF Drawings
<1>2. ASSUME NEW k \in 1 .. n, k - 1 \in Reached  PROVE k \in Reached
  <2>1. PICK g : g = [i \in 0 .. (k - 1) |-> IF i = 0 THEN Blank ELSE Drawn(g[i - 1], o[i])]
    BY <1>2 DEF Drawings
  <2>. DEFINE f == [i \in 0 .. k |-> IF i = k THEN Drawn(g[k - 1], o[k]) ELSE g[i]]
  <2>2. ASSUME NEW i \in 0 .. k
        PROVE  f[i] = IF i = 0 THEN Blank ELSE Drawn(f[i - 1], o[i])
    <3>1. CASE i = k
      <4>1. i # 0 /\ i - 1 \in 0 .. k /\ i - 1 # k
        BY <3>1
      <4>2. f[i - 1] = g[i - 1]
        BY <4>1
      <4>3. f[i] = Drawn(g[k - 1], o[k])
        BY <3>1
      <4>. QED  BY <3>1, <4>1, <4>2, <4>3
    <3>2. CASE i # k
      <4>1. i \in 0 .. (k - 1) /\ f[i] = g[i]
        BY <3>2
      <4>2. i # 0 => i - 1 \in 0 .. k /\ i - 1 # k
        BY <3>2
      <4>3. i # 0 => f[i - 1] = g[i - 1]
        BY <4>2
      <4>4. g[i] = IF i = 0 THEN Blank ELSE Drawn(g[i - 1], o[i])
        BY <2>1, <4>1
      <4>. QED  BY <4>1, <4>3, <4>4
    <3>. QED  BY <3>1, <3>2
  <2>3. f = [i \in 0 .. k |-> f[i]]
    OBVIOUS
  <2>. HIDE DEF f
  <2>4. f = [i \in 0 .. k |-> IF i = 0 THEN Blank ELSE Drawn(f[i - 1], o[i])]
    BY <2>2, <2>3
  <2>. QED  BY <2>4 DEF Drawings
<1>3. \A k \in 0 .. n : k \in Reached
  <2>. HIDE DEF Reached
  <2>. QED  BY <1>1, <1>2, AllUpTo
<1>4. n \in 0 .. n
  OBVIOUS
<1>. QED  BY <1>3, <1>4

LEMMA LayoutIsDrawn ==
  ASSUME NEW M, NEW n \in Nat, Len(Ordered(M)) = n
  PROVE  \E f : /\ f[0] = Blank /\ Layout(M) = f[n]
                /\ \A k \in 1 .. n : f[k] = Drawn(f[k - 1], Ordered(M)[k])
<1>. DEFINE o == Ordered(M)
            IsUpto(f) == f = [k \in 0 .. Len(o) |->
                                IF k = 0 THEN [lanes |-> <<>>, rows |-> <<>>] ELSE Drawn(f[k - 1], o[k])]
            g == CHOOSE f : IsUpto(f)
<1>1. Layout(M) = g[n]
  BY DEF Layout
<1>2. \A f : Drawings(f, n, o) <=> IsUpto(f)
  BY DEF Drawings, Blank
<1>. HIDE DEF o, IsUpto
<1>3. IsUpto(g)
  BY <1>2, DrawingsExist
<1>. HIDE DEF g
<1>4. g = [k \in 0 .. n |-> IF k = 0 THEN Blank ELSE Drawn(g[k - 1], o[k])]
  BY <1>2, <1>3 DEF Drawings
<1>5. g[0] = Blank
  <2>1. 0 \in 0 .. n
    OBVIOUS
  <2>. QED  BY <1>4, <2>1
<1>6. ASSUME NEW k \in 1 .. n  PROVE g[k] = Drawn(g[k - 1], o[k])
  <2>1. k \in 0 .. n /\ k # 0
    OBVIOUS
  <2>. QED  BY <1>4, <2>1
<1>. QED  BY <1>1, <1>5, <1>6 DEF o

\* A drawing of the first k messages: a message that is drawn and whose parent is
\* not drawn yet has its lane waiting for the parent, one whose parent is drawn
\* was folded into it, and no lane waits for what is drawn already.
Joined(L, k, o) ==
  /\ L \in Drawing /\ Len(L.rows) = k
  /\ \A i \in 1 .. k : L.rows[i].id = o[i].id /\ L.rows[i].parent = o[i].parent
  /\ \A i \in 1 .. k :
       L.rows[i].parent # Free /\ (\A j \in 1 .. k : o[j].id # L.rows[i].parent)
       => /\ L.rows[i].lane \in 1 .. Len(L.lanes)
          /\ L.lanes[L.rows[i].lane] = L.rows[i].parent
  /\ \A i, j \in 1 .. k : L.rows[i].parent = o[j].id => L.rows[i].lane \in L.rows[j].folds
  /\ \A l \in 1 .. Len(L.lanes), j \in 1 .. k : L.lanes[l] # o[j].id

\* o lists messages from the newest to the oldest.
Newest(o, n) ==
  /\ \A i \in 1 .. n : /\ o[i].id \in Nat /\ o[i].id > 0
                       /\ o[i].parent \in Nat /\ o[i].parent < o[i].id
  /\ \A i, j \in 1 .. n : i < j => o[i].id > o[j].id

LEMMA DrawnJoins ==
  ASSUME NEW n \in Nat, NEW o, Newest(o, n), NEW k \in 1 .. n, NEW L, Joined(L, k - 1, o)
  PROVE  Joined(Drawn(L, o[k]), k, o)
<1>. DEFINE m == o[k]
            L2 == Drawn(L, m)
            lane == LaneFor(L.lanes, m.id)
            drawn == [id |-> m.id, parent |-> m.parent, lane |-> lane, folds |-> Waiting(L.lanes, m.id)]
            h == k - 1
<1>1. h \in Nat /\ h + 1 = k /\ h \in 0 .. n
  OBVIOUS
<1>2. /\ L \in Drawing /\ Len(L.rows) = h
      /\ \A i \in 1 .. h : L.rows[i].id = o[i].id /\ L.rows[i].parent = o[i].parent
      /\ \A i \in 1 .. h :
           L.rows[i].parent # Free /\ (\A j \in 1 .. h : o[j].id # L.rows[i].parent)
           => /\ L.rows[i].lane \in 1 .. Len(L.lanes)
              /\ L.lanes[L.rows[i].lane] = L.rows[i].parent
      /\ \A i, j \in 1 .. h : L.rows[i].parent = o[j].id => L.rows[i].lane \in L.rows[j].folds
      /\ \A l \in 1 .. Len(L.lanes), j \in 1 .. h : L.lanes[l] # o[j].id
  BY DEF Joined
<1>3. /\ m.id \in Nat /\ m.parent \in Nat /\ m.id > 0 /\ m.parent < m.id
      /\ \A i \in 1 .. k : /\ o[i].id \in Nat /\ o[i].id >= m.id /\ o[i].parent \in Nat
                           /\ o[i].parent < o[i].id
      /\ \A i \in 1 .. h : o[i].id > m.id
  BY <1>1 DEF Newest
<1>. HIDE DEF m
<1>4. /\ L2 \in Drawing /\ Len(L2.rows) = h + 1
      /\ \A i \in 1 .. h : L2.rows[i] = L.rows[i]
      /\ L2.rows[h + 1] = drawn
      /\ \A i \in 1 .. Len(L2.lanes) :
           \/ L2.lanes[i] \in {Free, m.parent}
           \/ i \in 1 .. Len(L.lanes) /\ L2.lanes[i] = L.lanes[i] /\ L.lanes[i] # m.id
      /\ m.parent # Free => lane \in 1 .. Len(L2.lanes) /\ L2.lanes[lane] = m.parent
      /\ \A i \in 1 .. Len(L.lanes) :
           L.lanes[i] # Free /\ L.lanes[i] # m.id
           => i \in 1 .. Len(L2.lanes) /\ L2.lanes[i] = L.lanes[i]
  <2>1. L \in Drawing /\ Len(L.rows) = h
    BY <1>2
  <2>2. m.id \in Nat /\ m.parent \in Nat
    BY <1>3
  <2>3. lane = LaneFor(L.lanes, m.id) /\ L2 = Drawn(L, m)
    OBVIOUS
  <2>. HIDE DEF L2, lane, h, drawn
  <2>4. Advance(L, m, L2, lane)
    BY <2>1, <2>2, <2>3, DrawnAdvances
  <2>. QED  BY <2>1, <2>4 DEF Advance, drawn
<1>. HIDE DEF L2, h
<1>5. drawn.id = m.id /\ drawn.parent = m.parent /\ drawn.lane = lane /\ drawn.folds = Waiting(L.lanes, m.id)
  OBVIOUS
<1>. HIDE DEF drawn, lane
<1>6. \A i \in 1 .. k : i = k \/ i \in 1 .. h
  BY <1>1
<1>6a. \A i \in 1 .. h : i \in 1 .. k
  BY <1>1
<1>7. \A i \in 1 .. k : L2.rows[i].id = o[i].id /\ L2.rows[i].parent = o[i].parent
  BY <1>1, <1>2, <1>4, <1>5, <1>6 DEF m
<1>8. ASSUME NEW i \in 1 .. k, L2.rows[i].parent # Free,
             \A j \in 1 .. k : o[j].id # L2.rows[i].parent
      PROVE  /\ L2.rows[i].lane \in 1 .. Len(L2.lanes)
             /\ L2.lanes[L2.rows[i].lane] = L2.rows[i].parent
  <2>1. CASE i = k
    BY <1>1, <1>4, <1>5, <1>8, <2>1
  <2>2. CASE i \in 1 .. h
    <3>1. L2.rows[i] = L.rows[i]
      BY <1>4, <2>2
    <3>2. /\ L.rows[i].lane \in 1 .. Len(L.lanes)
          /\ L.lanes[L.rows[i].lane] = L.rows[i].parent
      BY <1>2, <1>6a, <1>8, <2>2, <3>1
    <3>3. L.rows[i].parent # m.id
      BY <1>8, <3>1 DEF m
    <3>. QED  BY <1>4, <1>8, <3>1, <3>2, <3>3
  <2>. QED  BY <1>6, <2>1, <2>2
<1>9. ASSUME NEW i \in 1 .. k, NEW j \in 1 .. k, L2.rows[i].parent = o[j].id
      PROVE  L2.rows[i].lane \in L2.rows[j].folds
  <2>0. o[i].parent = o[j].id
    BY <1>7, <1>9
  <2>1. CASE i = k
    <3>1. m.parent = o[j].id
      BY <2>0, <2>1 DEF m
    <3>. QED  BY <1>3, <3>1
  <2>2. CASE i \in 1 .. h /\ j \in 1 .. h
    BY <1>2, <1>4, <1>9, <2>2
  <2>3. CASE i \in 1 .. h /\ j = k
    <3>1. L2.rows[i] = L.rows[i] /\ L2.rows[j] = drawn
      BY <1>1, <1>4, <2>3
    <3>2. L.rows[i].parent = m.id
      BY <1>9, <2>3, <3>1 DEF m
    <3>3. L.rows[i].parent # Free
      BY <1>3, <3>2 DEF Free
    <3>4. \A g \in 1 .. h : o[g].id # L.rows[i].parent
      BY <1>3, <1>6a, <3>2
    <3>5. L.rows[i].lane \in 1 .. Len(L.lanes) /\ L.lanes[L.rows[i].lane] = m.id
      BY <1>2, <2>3, <3>2, <3>3, <3>4
    <3>6. DOMAIN L.lanes = 1 .. Len(L.lanes)
      BY <1>2 DEF Drawing
    <3>7. L.rows[i].lane \in Waiting(L.lanes, m.id)
      BY <3>5, <3>6 DEF Waiting
    <3>. QED  BY <1>5, <3>1, <3>7
  <2>. QED  BY <1>6, <2>1, <2>2, <2>3
<1>10. ASSUME NEW l \in 1 .. Len(L2.lanes), NEW j \in 1 .. k
       PROVE  L2.lanes[l] # o[j].id
  <2>1. CASE L2.lanes[l] \in {Free, m.parent}
    BY <1>3, <2>1 DEF Free
  <2>2. CASE l \in 1 .. Len(L.lanes) /\ L2.lanes[l] = L.lanes[l] /\ L.lanes[l] # m.id
    <3>1. CASE j = k
      BY <2>2, <3>1 DEF m
    <3>2. CASE j \in 1 .. h
      BY <1>2, <2>2, <3>2
    <3>. QED  BY <1>6, <3>1, <3>2
  <2>. QED  BY <1>4, <2>1, <2>2
<1>11. Len(L2.rows) = k
  BY <1>1, <1>4
<1>12. Joined(L2, k, o)
  BY <1>4, <1>7, <1>8, <1>9, <1>10, <1>11 DEF Joined
<1>. QED  BY <1>12 DEF L2, m

\* The layout of a conversation shows it.
LEMMA LayoutShows ==
  ASSUME NEW M, Conversation(M)
  PROVE  Shows(Layout(M), M)
<1>. DEFINE n == Cardinality(M)
            o == Ordered(M)
            ids == {m.id : m \in M}
<1>1. /\ n \in Nat /\ o \in [1 .. n -> M] /\ Len(o) = n
      /\ \A i, j \in 1 .. n : i < j => o[i].id > o[j].id
      /\ \A m \in M : \E i \in 1 .. n : o[i] = m
  BY OrderedFacts
<1>2. PICK f : /\ f[0] = Blank /\ Layout(M) = f[n]
               /\ \A k \in 1 .. n : f[k] = Drawn(f[k - 1], o[k])
  BY <1>1, LayoutIsDrawn
<1>. HIDE DEF o, n
<1>3. Newest(o, n)
  <2>1. \A i \in 1 .. n : o[i] \in M
    BY <1>1
  <2>. QED  BY <1>1, <2>1 DEF Newest, Conversation
<1>4. Joined(f[n], n, o)
  <2>. DEFINE S == {k \in 0 .. n : Joined(f[k], k, o)}
  <2>1. 0 \in S
    <3>1. Blank \in Drawing /\ Len(Blank.rows) = 0 /\ Len(Blank.lanes) = 0
      BY DEF Blank, Drawing
    <3>2. Joined(Blank, 0, o)
      BY <3>1 DEF Joined
    <3>. QED  BY <1>1, <1>2, <3>2
  <2>2. ASSUME NEW k \in 1 .. n, k - 1 \in S  PROVE k \in S
    <3>1. k \in 0 .. n /\ Joined(f[k - 1], k - 1, o)
      BY <1>1, <2>2
    <3>2. Joined(Drawn(f[k - 1], o[k]), k, o)
      BY <1>1, <1>3, <3>1, DrawnJoins
    <3>. QED  BY <1>2, <3>1, <3>2
  <2>3. \A k \in 0 .. n : k \in S
    <3>. HIDE DEF S
    <3>. QED  BY <1>1, <2>1, <2>2, AllUpTo
  <2>4. n \in 0 .. n
    BY <1>1
  <2>. QED  BY <2>3, <2>4
<1>. DEFINE L == Layout(M)
<1>5. /\ L \in Drawing /\ Len(L.rows) = n
      /\ \A i \in 1 .. n : L.rows[i].id = o[i].id
      /\ \A i, j \in 1 .. n : L.rows[i].parent = o[j].id => L.rows[i].lane \in L.rows[j].folds
      /\ \A l \in 1 .. Len(L.lanes), j \in 1 .. n : L.lanes[l] # o[j].id
  BY <1>2, <1>4 DEF Joined
<1>. HIDE DEF L
<1>6. DOMAIN L.rows = 1 .. n /\ DOMAIN L.lanes = 1 .. Len(L.lanes)
  BY <1>5 DEF Drawing
<1>7. Cardinality(ids) = n
  <2>. DEFINE v == [m \in M |-> m.id]
  <2>1. v \in [M -> ids] /\ \A m \in M : v[m] = m.id
    OBVIOUS
  <2>2. \A t \in ids : \E m \in M : v[m] = t
    BY <2>1
  <2>. HIDE DEF v, ids
  <2>3. v \in Surjection(M, ids)
    BY <2>1, <2>2 DEF Surjection
  <2>4. \A a, b \in M : v[a] = v[b] => a = b
    BY <2>1 DEF Conversation
  <2>5. v \in Injection(M, ids)
    BY <2>1, <2>4 DEF Injection, IsInjective
  <2>6. IsFiniteSet(M)
    BY DEF Conversation
  <2>. QED  BY <2>3, <2>5, <2>6, FS_Surjection DEF n
<1>8. {L.rows[i].id : i \in DOMAIN L.rows} = ids
  <2>1. \A i \in 1 .. n : o[i] \in M
    BY <1>1
  <2>2. \A i \in DOMAIN L.rows : L.rows[i].id \in ids
    BY <1>5, <1>6, <2>1
  <2>3. ASSUME NEW m \in M  PROVE \E i \in DOMAIN L.rows : L.rows[i].id = m.id
    BY <1>1, <1>5, <1>6
  <2>. QED  BY <2>2, <2>3
<1>9. ASSUME NEW i \in DOMAIN L.rows, NEW j \in DOMAIN L.rows, L.rows[i].parent = L.rows[j].id
      PROVE  L.rows[i].lane \in L.rows[j].folds
  BY <1>5, <1>6, <1>9
<1>10. ASSUME NEW l \in DOMAIN L.lanes  PROVE L.lanes[l] \notin ids
  <2>1. ASSUME NEW m \in M  PROVE L.lanes[l] # m.id
    BY <1>1, <1>5, <1>6
  <2>. QED  BY <2>1
<1>11. Shows(L, M)
  BY <1>5, <1>7, <1>8, <1>9, <1>10 DEF Shows
<1>. QED  BY <1>11 DEF L

-----------------------------------------------------------------------------
(* The messages of the files are such a conversation.                      *)

LEMMA HeaderIsFirst ==
  ASSUME NEW d, NEW c \in Nat, FileOK(d, c), Readable(d)
  PROVE  /\ HeaderOf(d) = d.lines[1] /\ d.lines[1].kind = "session" /\ Len(d.lines) > 0
         /\ HeaderOf(d).parent \in Nat /\ HeaderOf(d).id \in Nat
         /\ HeaderOf(d).parent < HeaderOf(d).id
         /\ \A i \in 1 .. Len(d.lines) : IsMessage(d.lines[i]) => HeaderOf(d).id < d.lines[i].id
<1>. DEFINE H == {i \in DOMAIN d.lines : d.lines[i].kind = "session"}
<1>1. d \in Content
  BY DEF FileOK
<1>2. DOMAIN d.lines = 1 .. Len(d.lines) /\ Len(d.lines) \in Nat
      /\ (d.lines # <<>> <=> Len(d.lines) > 0) /\ \A i \in 1 .. Len(d.lines) : d.lines[i] \in Line
  BY <1>1, ContentFacts
<1>3. d.lines[1].kind = "session" /\ Len(d.lines) > 0
  BY <1>2, ReadableFacts
<1>4. 1 \in H /\ H \subseteq 1 .. Len(d.lines)
  BY <1>2, <1>3
<1>5. HeaderOf(d) = d.lines[Min(H)]
  BY DEF HeaderOf
<1>. HIDE DEF H
<1>6. Min(H) = 1
  <2>1. Min(H) \in H /\ \A y \in H : Min(H) <= y
    <3>1. H # {} /\ H \subseteq Nat
      BY <1>2, <1>4
    <3>. QED  BY <3>1, MinOf
  <2>2. Min(H) <= 1 /\ Min(H) \in 1 .. Len(d.lines)
    BY <1>4, <2>1
  <2>. QED  BY <1>2, <2>2
<1>7. Born(d.lines[1], c) /\ d.lines[1] \in Line
  BY <1>2, <1>3 DEF FileOK
<1>8. d.lines[1].parent \in Nat /\ d.lines[1].id \in Nat /\ d.lines[1].parent < d.lines[1].id
  BY <1>3, <1>7 DEF Born
<1>9. ASSUME NEW i \in 1 .. Len(d.lines), IsMessage(d.lines[i])
      PROVE  d.lines[1].id < d.lines[i].id
  <2>1. i # 1
    BY <1>3, <1>9 DEF IsMessage
  <2>2. i \in 2 .. Len(d.lines)
    BY <1>2, <2>1
  <2>. QED  BY <1>3, <1>9, <2>2 DEF FileOK, HeaderFirst
<1>. QED  BY <1>3, <1>5, <1>6, <1>8, <1>9

\* The i-th line of file f, as it is drawn.
Placed(f, i) ==
  LET r == disk[f].lines[i]
  IN  [id |-> r.id, ts |-> r.ts, session |-> f,
       parent |-> IF First(f) = r.id /\ r.parent = Free THEN Anchor(f) ELSE r.parent]

DrawnMessages ==
  LET listed == Listed(disk)
  IN  Rewired(UNION {Annotated(f) : f \in listed},
              [f \in listed |-> First(f)], [f \in listed |-> Anchor(f)])

LEMMA DrawnArePlaced ==
  ASSUME disk \in [File -> Content]
  PROVE  \A m \in DrawnMessages : \E f \in Listed(disk) : \E i \in 1 .. Len(disk[f].lines) :
            IsMessage(disk[f].lines[i]) /\ m = Placed(f, i)
<1>. DEFINE listed == Listed(disk)
            first == [f \in listed |-> First(f)]
            anchor == [f \in listed |-> Anchor(f)]
<1>. SUFFICES ASSUME NEW m \in DrawnMessages
              PROVE  \E f \in Listed(disk) : \E i \in 1 .. Len(disk[f].lines) :
                        IsMessage(disk[f].lines[i]) /\ m = Placed(f, i)
  OBVIOUS
<1>1. PICK x \in UNION {Annotated(f) : f \in listed} :
        m = IF first[x.session] = x.id /\ x.parent = Free
            THEN [x EXCEPT !.parent = anchor[x.session]] ELSE x
  BY DEF DrawnMessages, Rewired
<1>2. PICK f \in listed : x \in Annotated(f)
  OBVIOUS
<1>3. PICK r \in Messages(disk[f]) :
        x = [id |-> r.id, ts |-> r.ts, parent |-> r.parent, session |-> f]
  BY <1>2 DEF Annotated
<1>4. f \in File /\ disk[f] \in Content
  BY DEF Listed
<1>5. PICK i \in 1 .. Len(disk[f].lines) : IsMessage(disk[f].lines[i]) /\ r = disk[f].lines[i]
  BY <1>4, MessageLinesFacts DEF Messages
<1>6. first[x.session] = First(f) /\ anchor[x.session] = Anchor(f)
  BY <1>3
<1>. HIDE DEF first, anchor
<1>7. m = IF First(f) = r.id /\ r.parent = Free
          THEN [id |-> r.id, ts |-> r.ts, parent |-> Anchor(f), session |-> f]
          ELSE [id |-> r.id, ts |-> r.ts, parent |-> r.parent, session |-> f]
  BY <1>1, <1>3, <1>6
<1>8. m = Placed(f, i)
  <2>1. CASE First(f) = r.id /\ r.parent = Free
    BY <1>5, <1>7, <2>1 DEF Placed
  <2>2. CASE ~(First(f) = r.id /\ r.parent = Free)
    BY <1>5, <1>7, <2>2 DEF Placed
  <2>. QED  BY <2>1, <2>2
<1>. QED  BY <1>5, <1>8

LEMMA DrawnConverse ==
  ASSUME ~SharedTick, SessionInv
  PROVE  Conversation(DrawnMessages)
<1>1. /\ disk \in [File -> Content] /\ clock \in Nat /\ Files(disk, clock) /\ IdsApart(disk)
  BY SoundFacts DEF SessionInv, SoundNow
<1>2. \A m \in DrawnMessages : \E f \in Listed(disk) : \E i \in 1 .. Len(disk[f].lines) :
         IsMessage(disk[f].lines[i]) /\ m = Placed(f, i)
  BY <1>1, DrawnArePlaced
<1>3. ASSUME NEW f \in Listed(disk), NEW i \in 1 .. Len(disk[f].lines), IsMessage(disk[f].lines[i])
      PROVE  LET m == Placed(f, i)
             IN  /\ m.id = disk[f].lines[i].id /\ m.id \in 1 .. clock /\ m.ts = m.id
                 /\ m.session \in Nat /\ m.parent \in Nat /\ m.parent < m.id
  <2>. DEFINE r == disk[f].lines[i]
              m == Placed(f, i)
  <2>1. f \in File /\ FileOK(disk[f], clock) /\ Readable(disk[f]) /\ disk[f] \in Content
    BY <1>1 DEF Listed, Files
  <2>2. Born(r, clock) /\ r.kind = "message" /\ r \in Line
    BY <1>3, <2>1, ContentFacts DEF FileOK, IsMessage
  <2>3. r.id \in 1 .. clock /\ r.ts = r.id /\ r.parent \in Nat /\ r.parent < r.id
    BY <1>1, <2>2 DEF Born
  <2>4. Anchor(f) \in Nat /\ Anchor(f) < r.id
    <3>1. HeaderOf(disk[f]).parent \in Nat /\ HeaderOf(disk[f]).id \in Nat
          /\ HeaderOf(disk[f]).parent < HeaderOf(disk[f]).id /\ HeaderOf(disk[f]).id < r.id
      BY <1>1, <1>3, <2>1, HeaderIsFirst
    <3>2. Anchor(f) = HeaderOf(disk[f]).parent
      BY DEF Anchor
    <3>. HIDE DEF r
    <3>. QED  BY <1>1, <2>3, <3>1, <3>2
  <2>5. f \in Nat
    BY <2>1, FilesAssumption DEF File
  <2>6. /\ m.id = r.id /\ m.ts = r.ts /\ m.session = f
        /\ m.parent = IF First(f) = r.id /\ r.parent = Free THEN Anchor(f) ELSE r.parent
    BY DEF Placed
  <2>. HIDE DEF r, m
  <2>7. /\ m.id = r.id /\ m.id \in 1 .. clock /\ m.ts = m.id
        /\ m.session \in Nat /\ m.parent \in Nat /\ m.parent < m.id
    BY <2>3, <2>4, <2>5, <2>6
  <2>. QED  BY <2>7 DEF r, m
<1>4. ASSUME NEW a \in DrawnMessages
      PROVE  /\ a.id \in 1 .. clock /\ a.ts = a.id /\ a.session \in Nat
             /\ a.parent \in Nat /\ a.parent < a.id
  BY <1>2, <1>3
<1>5. ASSUME NEW a \in DrawnMessages, NEW b \in DrawnMessages, a.id = b.id  PROVE a = b
  <2>1. PICK f \in Listed(disk) : \E i \in 1 .. Len(disk[f].lines) :
           IsMessage(disk[f].lines[i]) /\ a = Placed(f, i)
    BY <1>2
  <2>2. PICK i \in 1 .. Len(disk[f].lines) : IsMessage(disk[f].lines[i]) /\ a = Placed(f, i)
    BY <2>1
  <2>3. PICK g \in Listed(disk) : \E j \in 1 .. Len(disk[g].lines) :
           IsMessage(disk[g].lines[j]) /\ b = Placed(g, j)
    BY <1>2
  <2>4. PICK j \in 1 .. Len(disk[g].lines) : IsMessage(disk[g].lines[j]) /\ b = Placed(g, j)
    BY <2>3
  <2>5. disk[f].lines[i].id = disk[g].lines[j].id
    BY <1>3, <1>5, <2>2, <2>4
  <2>6. f \in File /\ g \in File
    BY DEF Listed
  <2>7. f = g /\ i = j
    BY <1>1, <2>2, <2>4, <2>5, <2>6 DEF IdsApart
  <2>. QED  BY <2>2, <2>4, <2>7
<1>6. IsFiniteSet(DrawnMessages)
  <2>. DEFINE M == DrawnMessages
              v == [m \in M |-> m.id]
  <2>1. v \in [M -> 1 .. clock] /\ \A m \in M : v[m] = m.id
    BY <1>4
  <2>. HIDE DEF v
  <2>2. \A a, b \in M : v[a] = v[b] => a = b
    BY <1>5, <2>1
  <2>3. v \in Injection(M, 1 .. clock)
    BY <2>1, <2>2 DEF Injection, IsInjective
  <2>4. IsFiniteSet(1 .. clock)
    BY <1>1, FS_Interval
  <2>. QED  BY <2>3, <2>4, FS_Injection
<1>7. \A m \in DrawnMessages : /\ m.id \in Nat /\ m.id > 0 /\ m.ts = m.id /\ m.session \in Nat
                               /\ m.parent \in Nat /\ m.parent < m.id
  BY <1>1, <1>4
<1>. QED  BY <1>5, <1>6, <1>7 DEF Conversation

LEMMA InvDrawsTree ==
  ASSUME ~SharedTick
  PROVE  SessionInv => TreeShowsConversation
<1>. SUFFICES ASSUME SessionInv  PROVE TreeShowsConversation
  OBVIOUS
<1>1. Conversation(DrawnMessages)
  BY DrawnConverse
<1>2. Shows(Layout(DrawnMessages), DrawnMessages)
  BY <1>1, LayoutShows
<1>. QED  BY <1>2 DEF TreeShowsConversation, DrawnMessages

\* When no two records bear the same timestamp, /tree draws every message that
\* reads back once, joined to its parent, whatever happened to the files.
THEOREM TreeIsDrawn ==
  ASSUME ~SharedTick
  PROVE  SessionSpec => []TreeShowsConversation
BY SessionsSound, InvDrawsTree, PTL

-----------------------------------------------------------------------------
(* Types and bounds.                                                       *)

LEMMA SavesAreBounded ==
  ASSUME NEW base, NEW before, NEW f, NEW records, NEW k, NEW gone,
         SaveAfter(base, before, f, records, k, gone)
  PROVE  clock' <= MaxClock /\ faults' <= MaxFaults
BY DEF SaveAfter

LEMMA StepsAreBounded ==
  ASSUME SessionTypeOK, SessionNext
  PROVE  clock' <= MaxClock /\ faults' <= MaxFaults /\ runs' <= MaxRuns
<1>1. /\ clock \in 0 .. MaxClock /\ runs \in 0 .. MaxRuns /\ faults \in 0 .. MaxFaults
  BY DEF SessionTypeOK
<1>2. PICK p \in Proc :
        \/ Mount(p) \/ Submit(p) \/ StateChange(p)
        \/ \E r \in Run : Heard(p, r) \/ Result(p, r) \/ Ended(p, r)
        \/ \E s \in File : Resume(p, s) \/ \E m \in Messages(disk[s]) : Branch(p, s, m)
        \/ FlushFails(p)
        \/ Quit(p) \/ Crash(p)
  BY DEF SessionNext
<1>3. ASSUME NEW body, NEW k, Record(p, body, k)
      PROVE  clock' <= MaxClock /\ faults' <= MaxFaults
  BY <1>3, SavesAreBounded DEF Record, Save
<1>4. CASE Mount(p)
  BY <1>1, <1>4 DEF Mount
<1>5. CASE Submit(p)
  <2>1. runs < MaxRuns /\ runs' = runs + 1 /\ \E k, body : Record(p, body, k)
    BY <1>5 DEF Submit
  <2>. QED  BY <1>1, <1>3, <2>1, BridgeAssumption
<1>6. CASE StateChange(p)
  <2>1. runs' = runs /\ \E f, records, k : Save(f, records, k, {p})
    BY <1>6 DEF StateChange
  <2>. QED  BY <1>1, <2>1, SavesAreBounded DEF Save
<1>7. ASSUME NEW r \in Run, Heard(p, r)  PROVE clock' <= MaxClock /\ faults' <= MaxFaults /\ runs' <= MaxRuns
  BY <1>1, <1>7 DEF Heard
<1>8. ASSUME NEW r \in Run, Result(p, r)  PROVE clock' <= MaxClock /\ faults' <= MaxFaults /\ runs' <= MaxRuns
  <2>1. runs' = runs /\ \E k, body : Record(p, body, k)
    BY <1>8 DEF Result
  <2>. QED  BY <1>1, <1>3, <2>1
<1>9. ASSUME NEW r \in Run, Ended(p, r)  PROVE clock' <= MaxClock /\ faults' <= MaxFaults /\ runs' <= MaxRuns
  <2>1. /\ runs' = runs
        /\ (\E k, body : Record(p, body, k)) \/ (clock' = clock /\ faults' = faults)
    BY <1>9 DEF Ended
  <2>. QED  BY <1>1, <1>3, <2>1
<1>10. ASSUME NEW s \in File, Resume(p, s)  PROVE clock' <= MaxClock /\ faults' <= MaxFaults /\ runs' <= MaxRuns
  BY <1>1, <1>10, SavesAreBounded DEF Resume
<1>11. ASSUME NEW s \in File, NEW m \in Messages(disk[s]), Branch(p, s, m)
       PROVE  clock' <= MaxClock /\ faults' <= MaxFaults /\ runs' <= MaxRuns
  BY <1>1, <1>11, SavesAreBounded DEF Branch
<1>12. CASE FlushFails(p)
  BY <1>1, <1>12, SavesAreBounded DEF FlushFails, Save
<1>13. CASE Quit(p)
  <2>1. /\ runs' = runs
        /\ (\E f, records, k : Save(f, records, k, {p})) \/ (clock' = clock /\ faults' = faults)
    BY <1>13 DEF Quit
  <2>. QED  BY <1>1, <2>1, SavesAreBounded DEF Save
<1>14. CASE Crash(p)
  BY <1>1, <1>14, BridgeAssumption DEF Crash
<1>. QED
  BY <1>2, <1>4, <1>5, <1>6, <1>7, <1>8, <1>9, <1>10, <1>11, <1>12, <1>13, <1>14

\* What a terminal knows of its runs.
Terminals ==
  /\ live \in [Proc -> SUBSET Run] /\ late \in [Proc -> SUBSET Run]
  /\ disabled \in [Proc -> BOOLEAN] /\ up \in [Proc -> BOOLEAN] /\ busy \in [Proc -> BOOLEAN]
  /\ pending \in [Proc -> SUBSET Run]
  /\ \A p \in Proc : ~up[p] => pending[p] = {} /\ live[p] = {}

LEMMA DeadTerminals ==
  ASSUME Terminals, NEW p \in Proc, Dead(p)
  PROVE  Terminals'
<1>1. /\ pending' = [pending EXCEPT ![p] = {}] /\ disabled' = [disabled EXCEPT ![p] = FALSE]
      /\ up' = [up EXCEPT ![p] = FALSE] /\ busy' = [busy EXCEPT ![p] = FALSE]
      /\ live' = [live EXCEPT ![p] = {}] /\ late' = [late EXCEPT ![p] = {}]
  BY DEF Dead
<1>2. /\ live' \in [Proc -> SUBSET Run] /\ late' \in [Proc -> SUBSET Run]
      /\ pending' \in [Proc -> SUBSET Run]
  BY <1>1 DEF Terminals
<1>3. disabled' \in [Proc -> BOOLEAN] /\ up' \in [Proc -> BOOLEAN] /\ busy' \in [Proc -> BOOLEAN]
  BY <1>1 DEF Terminals
<1>4. \A q \in Proc : ~up'[q] => pending'[q] = {} /\ live'[q] = {}
  <2>. SUFFICES ASSUME NEW q \in Proc, ~up'[q]  PROVE pending'[q] = {} /\ live'[q] = {}
    OBVIOUS
  <2>1. CASE q = p
    BY <1>1, <2>1 DEF Terminals
  <2>2. CASE q # p
    BY <1>1, <2>2 DEF Terminals
  <2>. QED  BY <2>1, <2>2
<1>. QED  BY <1>2, <1>3, <1>4 DEF Terminals

\* A step of a terminal that is up and stays so.
LEMMA UpTerminals ==
  ASSUME Terminals, NEW p \in Proc, up'[p],
         up' \in [Proc -> BOOLEAN], \A q \in Proc \ {p} : up'[q] = up[q],
         live' \in [Proc -> SUBSET Run], \A q \in Proc \ {p} : live'[q] = live[q],
         pending' \in [Proc -> SUBSET Run], \A q \in Proc \ {p} : pending'[q] = pending[q],
         late' \in [Proc -> SUBSET Run], disabled' \in [Proc -> BOOLEAN], busy' \in [Proc -> BOOLEAN]
  PROVE  Terminals'
<1>1. ASSUME NEW q \in Proc, ~up'[q]  PROVE pending'[q] = {} /\ live'[q] = {}
  <2>1. q \in Proc \ {p}
    BY <1>1
  <2>2. ~up[q] /\ pending'[q] = pending[q] /\ live'[q] = live[q]
    BY <1>1, <2>1
  <2>. QED  BY <2>2 DEF Terminals
<1>. QED  BY <1>1 DEF Terminals

LEMMA TerminalsKeep ==
  ASSUME SessionInv, Terminals, SessionNext, runs' \in Nat, runs' <= MaxRuns
  PROVE  Terminals'
<1>0. /\ live \in [Proc -> SUBSET Run] /\ late \in [Proc -> SUBSET Run]
      /\ disabled \in [Proc -> BOOLEAN] /\ up \in [Proc -> BOOLEAN] /\ busy \in [Proc -> BOOLEAN]
      /\ pending \in [Proc -> SUBSET Run]
      /\ \A p \in Proc : ~up[p] => pending[p] = {} /\ live[p] = {}
  BY DEF Terminals
<1>2. PICK p \in Proc :
        \/ Mount(p) \/ Submit(p) \/ StateChange(p)
        \/ \E r \in Run : Heard(p, r) \/ Result(p, r) \/ Ended(p, r)
        \/ \E s \in File : Resume(p, s) \/ \E m \in Messages(disk[s]) : Branch(p, s, m)
        \/ FlushFails(p)
        \/ Quit(p) \/ Crash(p)
  BY DEF SessionNext
<1>3. [pending EXCEPT ![p] = {}] \in [Proc -> SUBSET Run]
      /\ \A q \in Proc \ {p} : [pending EXCEPT ![p] = {}][q] = pending[q]
  BY <1>0
<1>4. CASE Mount(p)
  <2>1. up' = [up EXCEPT ![p] = TRUE] /\ UNCHANGED <<pending, disabled, busy, live, late>>
    BY <1>4 DEF Mount
  <2>2. up' \in [Proc -> BOOLEAN] /\ up'[p] /\ \A q \in Proc \ {p} : up'[q] = up[q]
    BY <1>0, <2>1
  <2>. QED  BY <1>0, <2>1, <2>2, UpTerminals
<1>5. CASE Submit(p)
  <2>1. Emptied(p) /\ up[p] /\ runs' = runs + 1 /\ runs \in Nat
    BY <1>5, SubmitKeeps DEF Submit, PromptEnabled, SessionInv
  <2>2. runs' \in Run
    BY <2>1, BridgeAssumption DEF Run
  <2>3. CASE ~Saved /\ Dead(p)
    BY <2>3, DeadTerminals
  <2>4. ASSUME NEW started \in BOOLEAN,
               disabled' = [disabled EXCEPT ![p] = FALSE] \/ disabled' = [disabled EXCEPT ![p] = started],
               busy' = [busy EXCEPT ![p] = started],
               live' = [live EXCEPT ![p] = IF started THEN @ \cup {runs'} ELSE @],
               UNCHANGED <<up, late>>
        PROVE  Terminals'
    <3>1. disabled' \in [Proc -> BOOLEAN] /\ busy' \in [Proc -> BOOLEAN]
      BY <1>0, <2>4
    <3>2. live' \in [Proc -> SUBSET Run] /\ \A q \in Proc \ {p} : live'[q] = live[q]
      <4>1. (IF started THEN live[p] \cup {runs'} ELSE live[p]) \in SUBSET Run
        BY <1>0, <2>2
      <4>. QED  BY <1>0, <2>4, <4>1
    <3>3. pending' \in [Proc -> SUBSET Run] /\ \A q \in Proc \ {p} : pending'[q] = pending[q]
      BY <1>3, <2>1 DEF Emptied
    <3>. QED  BY <1>0, <2>1, <2>4, <3>1, <3>2, <3>3, UpTerminals
  <2>5. (~Saved /\ Dead(p)) \/ \E started \in BOOLEAN :
          /\ disabled' = [disabled EXCEPT ![p] = FALSE] \/ disabled' = [disabled EXCEPT ![p] = started]
          /\ busy' = [busy EXCEPT ![p] = started]
          /\ live' = [live EXCEPT ![p] = IF started THEN @ \cup {runs'} ELSE @]
          /\ UNCHANGED <<up, late>>
    BY <1>5 DEF Submit
  <2>. QED  BY <2>3, <2>4, <2>5
<1>6. CASE StateChange(p)
  <2>1. up[p] /\ \/ UNCHANGED <<pending, disabled, up, busy, live, late>>
                 \/ /\ pending' = [pending EXCEPT ![p] = {}] /\ disabled' = [disabled EXCEPT ![p] = TRUE]
                    /\ UNCHANGED <<up, busy, live, late>>
                 \/ Dead(p)
    BY <1>6 DEF StateChange, PromptEnabled, Abandoned
  <2>2. CASE UNCHANGED <<pending, disabled, up, busy, live, late>>
    BY <2>2 DEF Terminals
  <2>3. CASE /\ pending' = [pending EXCEPT ![p] = {}] /\ disabled' = [disabled EXCEPT ![p] = TRUE]
             /\ UNCHANGED <<up, busy, live, late>>
    <3>1. disabled' \in [Proc -> BOOLEAN]
      BY <1>0, <2>3
    <3>. QED  BY <1>0, <1>3, <2>1, <2>3, <3>1, UpTerminals
  <2>. QED  BY <2>1, <2>2, <2>3, DeadTerminals
<1>7. ASSUME NEW r \in Run, Heard(p, r)  PROVE Terminals'
  <2>1. /\ pending' = [pending EXCEPT ![p] = @ \cup {r}] /\ r \in live[p]
        /\ UNCHANGED <<disabled, up, busy, live, late>>
    BY <1>7 DEF Heard
  <2>2. pending' \in [Proc -> SUBSET Run] /\ \A q \in Proc \ {p} : pending'[q] = pending[q]
    BY <1>0, <2>1
  <2>3. up[p]
    BY <1>0, <2>1
  <2>. QED  BY <1>0, <2>1, <2>2, <2>3, UpTerminals
<1>8. ASSUME NEW r \in Run, Result(p, r)  PROVE Terminals'
  <2>1. Emptied(p) /\ r \in live[p]
    BY <1>8, ResultKeeps DEF Result
  <2>2. up[p]
    BY <1>0, <2>1
  <2>3. \/ UNCHANGED <<disabled, up, busy, live, late>>
        \/ disabled' = [disabled EXCEPT ![p] = TRUE] /\ UNCHANGED <<up, busy, live, late>>
        \/ Dead(p)
    BY <1>8 DEF Result, Abandoned
  <2>4. CASE (UNCHANGED disabled \/ disabled' = [disabled EXCEPT ![p] = TRUE])
             /\ UNCHANGED <<up, busy, live, late>>
    <3>1. disabled' \in [Proc -> BOOLEAN]
      BY <1>0, <2>4
    <3>. QED  BY <1>0, <1>3, <2>1, <2>2, <2>4, <3>1, UpTerminals DEF Emptied
  <2>. QED  BY <2>3, <2>4, DeadTerminals
<1>9. ASSUME NEW r \in Run, Ended(p, r)  PROVE Terminals'
  <2>1. Emptied(p) /\ r \in live[p]
    BY <1>9, EndedKeeps DEF Ended
  <2>2. up[p]
    BY <1>0, <2>1
  <2>3. \/ /\ late' = [late EXCEPT ![p] = @ \cup {r}] /\ disabled' = [disabled EXCEPT ![p] = FALSE]
           /\ busy' = [busy EXCEPT ![p] = FALSE] /\ UNCHANGED <<up, live>>
        \/ Dead(p)
    BY <1>9 DEF Ended
  <2>4. CASE /\ late' = [late EXCEPT ![p] = @ \cup {r}] /\ disabled' = [disabled EXCEPT ![p] = FALSE]
             /\ busy' = [busy EXCEPT ![p] = FALSE] /\ UNCHANGED <<up, live>>
    <3>1. disabled' \in [Proc -> BOOLEAN] /\ busy' \in [Proc -> BOOLEAN]
      BY <1>0, <2>4
    <3>2. late' \in [Proc -> SUBSET Run]
      BY <1>0, <2>4
    <3>. QED  BY <1>0, <1>3, <2>1, <2>2, <2>4, <3>1, <3>2, UpTerminals DEF Emptied
  <2>. QED  BY <2>3, <2>4, DeadTerminals
<1>10. ASSUME \/ \E s \in File : Resume(p, s)
              \/ \E s \in File : \E m \in Messages(disk[s]) : Branch(p, s, m)
       PROVE  Terminals'
  <2>1. /\ pending' = [pending EXCEPT ![p] = {}] /\ up[p]
        /\ UNCHANGED <<disabled, up, busy, live, late>>
    BY <1>10 DEF Resume, Branch, PromptEnabled
  <2>. QED  BY <1>0, <1>3, <2>1, UpTerminals
<1>11. CASE FlushFails(p)
  BY <1>11 DEF FlushFails, local, Terminals
<1>12. CASE Quit(p) \/ Crash(p)
  BY <1>12, DeadTerminals DEF Quit, Crash
<1>. QED  BY <1>2, <1>4, <1>5, <1>6, <1>7, <1>8, <1>9, <1>10, <1>11, <1>12

LEMMA TypesFollow ==
  ASSUME SessionInv, Terminals, clock <= MaxClock, runs <= MaxRuns, faults <= MaxFaults
  PROVE  SessionTypeOK
<1>1. /\ clock \in Nat /\ runs \in Nat /\ faults \in Nat /\ writer \in Writers
      /\ \A q \in Proc : writer[q].last \in 0 .. clock /\ writer[q].file \in File \cup {None}
  BY SoundNowFacts DEF SessionInv
<1>2. clock \in 0 .. MaxClock /\ runs \in 0 .. MaxRuns /\ faults \in 0 .. MaxFaults
  BY <1>1, FilesAssumption, BridgeAssumption
<1>3. writer \in [Proc -> [file : File \cup {None}, last : 0 .. MaxClock]]
  <2>1. ASSUME NEW q \in Proc  PROVE writer[q] \in [file : File \cup {None}, last : 0 .. MaxClock]
    <3>1. writer[q] \in [file : File \cup {None}, last : Nat]
      BY <1>1 DEF Writers
    <3>2. writer[q].last \in 0 .. MaxClock
      BY <1>1, FilesAssumption
    <3>. QED  BY <3>1, <3>2
  <2>2. writer = [q \in Proc |-> writer[q]]
    BY <1>1 DEF Writers
  <2>. QED  BY <2>1, <2>2
<1>. QED  BY <1>2, <1>3 DEF SessionTypeOK, Terminals

Bounded == Terminals /\ clock <= MaxClock /\ runs <= MaxRuns /\ faults <= MaxFaults

\* Every variable keeps its type and its bound, and a terminal that is closed
\* has nothing pending and no run.
THEOREM SessionTypes == SessionSpec => []SessionTypeOK
<1>1. SessionInit => Bounded
  BY FilesAssumption, BridgeAssumption DEF SessionInit, Bounded, Terminals
<1>2. SessionInv /\ Bounded => SessionTypeOK
  BY TypesFollow DEF Bounded
<1>3. SessionInv /\ Bounded /\ [SessionNext]_sessionVars => Bounded'
  <2>. SUFFICES ASSUME SessionInv, Bounded, [SessionNext]_sessionVars
                PROVE  Bounded'
    OBVIOUS
  <2>1. CASE UNCHANGED sessionVars
    BY <2>1 DEF sessionVars, local, Bounded, Terminals
  <2>2. CASE SessionNext
    <3>1. clock' <= MaxClock /\ faults' <= MaxFaults /\ runs' <= MaxRuns
      BY <1>2, <2>2, StepsAreBounded
    <3>2. runs' \in Nat
      BY <2>2, SessionSteps DEF SessionInv
    <3>3. Terminals'
      BY <2>2, <3>1, <3>2, TerminalsKeep DEF Bounded
    <3>. QED  BY <3>1, <3>3 DEF Bounded
  <2>. QED  BY <2>1, <2>2
<1>. QED  BY <1>1, <1>2, <1>3, SessionsSound, PTL DEF SessionSpec
=============================================================================
