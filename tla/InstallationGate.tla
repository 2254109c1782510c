-------------------------- MODULE InstallationGate --------------------------
(***************************************************************************)
(* The Docker gate of the desktop application: the main-process gate       *)
(* (apps/desktop/src/main/installation-gate.ts) with the probes it awaits  *)
(* (packages/core/sandbox/src/docker-detect.ts), the file that keeps the   *)
(* user's choice, and the renderer's mirror of it (useInstallationGate.ts, *)
(* DockerInstallModal.tsx).  A probe takes two commands, probes overlap,   *)
(* Docker changes under them, a write of the file can fail or be cut short *)
(* by a crash.  Main and renderer talk over one ordered pipe each way.     *)
(***************************************************************************)
EXTENDS Naturals, Sequences, FiniteSets

CONSTANTS MaxPolls,     \* polls of startDocker before its deadline
          MaxChanges,   \* bound: changes of Docker outside the application
          MaxRequests,  \* bound: calls the renderer makes
          MaxFaults,    \* bound: failed writes and crashes
          MaxPipe       \* bound: messages in flight to the renderer

ASSUME PollAssumption == MaxPolls \in Nat \ {0}

Engine == {"absent", "stopped", "up"}    \* no CLI, CLI without daemon, usable
Gate == [skipped : BOOLEAN, shown : BOOLEAN]    \* userSkipped, firstRunCompleted
NewGate == [skipped |-> FALSE, shown |-> FALSE]
None == "none"           \* no answer yet
Unreadable == {}         \* the state file when there is none or it does not parse
Slot == {"boot", "user", "poll"}       \* who awaits a probe
Call == {"status", "recheck", "skip", "resume", "mark", "start"}
Status == [docker : Engine, gate : Gate, degraded : BOOLEAN]

VARIABLES
    engine,    \* what Docker is
    docker,    \* this.docker: what the last probe to land saw
    gate,      \* this.gate
    file,      \* the state file: the set of the gate it holds
    probe,     \* per slot: the probe in flight
    start,     \* startDocker: its phase (this.starting unless idle) and polls made
    requests,  \* calls on their way to main
    pipe,      \* answers and broadcasts on their way to the renderer
    mirror,    \* the renderer: status, loading, subscribed and the flags of its buttons
    believed,  \* history: the choice the user has reason to rely on
    lost,      \* history: the last write of the file failed
    count      \* requests, changes and faults so far

vars == <<engine, docker, gate, file, probe, start, requests, pipe, mirror,
          believed, lost, count>>

StatusOf(d, g) == [docker |-> d, gate |-> g, degraded |-> d # "up" /\ g.skipped]

Unmounted == [status |-> StatusOf("absent", NewGate), loading |-> TRUE,
              mounted |-> FALSE, busy |-> {}]
Idle == [stage |-> "off", saw |-> None]
Probing == [stage |-> "version", saw |-> None]
NotStarting == [phase |-> "idle", polls |-> 0]

\* loadFromDisk: defaults when there is no file or it does not parse.
Loaded(f) == IF f = Unreadable THEN NewGate ELSE CHOOSE g \in f : TRUE

Init ==
    /\ engine \in Engine /\ docker = "absent"
    /\ gate = NewGate /\ file = Unreadable
    /\ probe = [s \in Slot |-> IF s = "boot" THEN Probing ELSE Idle]
    /\ start = NotStarting
    /\ requests = <<>> /\ pipe = <<>> /\ mirror = Unmounted
    /\ believed = FALSE /\ lost = FALSE
    /\ count = [requests |-> 0, changes |-> 0, faults |-> 0]

Event(d, g) == [kind |-> "event", to |-> None, status |-> StatusOf(d, g)]
Reply(c, d, g) == [kind |-> "reply", to |-> c, status |-> StatusOf(d, g)]
Send(msgs) == /\ pipe' = pipe \o msgs
              /\ Len(pipe') <= MaxPipe
Sent == UNCHANGED pipe

-----------------------------------------------------------------------------
(* The environment and the probes.                                         *)

EngineChanges ==
    /\ count.changes < MaxChanges
    /\ count' = [count EXCEPT !.changes = @ + 1]
    /\ \E e \in Engine \ {engine} : engine' = e
    /\ UNCHANGED <<docker, gate, file, probe, start, requests, pipe, mirror, believed, lost>>

\* The version command: failing or timing out counts as not installed.
VersionAnswers(s) ==
    /\ probe[s].stage = "version"
    /\ \E timeout \in BOOLEAN :
         probe' = [probe EXCEPT ![s] =
             IF engine = "absent" \/ timeout
             THEN [stage |-> "landing", saw |-> "absent"]
             ELSE [@ EXCEPT !.stage = "info"]]
    /\ UNCHANGED <<engine, docker, gate, file, start, requests, pipe, mirror, believed, lost, count>>

InfoAnswers(s) ==
    /\ probe[s].stage = "info"
    /\ \E timeout \in BOOLEAN :
         probe' = [probe EXCEPT ![s] =
             [stage |-> "landing",
              saw |-> IF engine = "up" /\ ~timeout THEN "up" ELSE "stopped"]]
    /\ UNCHANGED <<engine, docker, gate, file, start, requests, pipe, mirror, believed, lost, count>>

\* A recheck that broadcasts before it stores what it saw.
RecheckEarly(s, msgs) ==
    /\ probe[s].stage = "landing"
    /\ docker' = probe[s].saw
    /\ Send(<<Event(docker, gate')>> \o msgs)

\* recheck() resumes: the status is stored, broadcast and returned in one go.
Recheck(s, msgs) ==
    /\ probe[s].stage = "landing"
    /\ docker' = probe[s].saw
    /\ Send(<<Event(docker', gate')>> \o msgs)

ProbeLands(s) ==
    /\ s # "poll"
    /\ gate' = gate
    /\ Recheck(s, IF s = "user" THEN <<Reply("recheck", docker', gate)>> ELSE <<>>)
    /\ probe' = [probe EXCEPT ![s] = Idle]
    /\ UNCHANGED <<engine, file, start, requests, mirror, believed, lost, count>>

-----------------------------------------------------------------------------
(* The state file.  persist() swallows a failed write, which leaves the old  *)
(* file (it could not be opened) or a truncated one (the disk is full).      *)

Fault == /\ count.faults < MaxFaults
         /\ count' = [count EXCEPT !.faults = @ + 1]

Persist(g) ==
    \/ file' = {g} /\ lost' = FALSE /\ UNCHANGED count
    \/ Fault /\ file' \in {file, Unreadable} /\ lost' = TRUE

NoWrite == UNCHANGED <<file, lost, count>>

-----------------------------------------------------------------------------
(* The handlers of the main process, in the order the calls arrive.        *)

Handle(c) == /\ requests # <<>> /\ Head(requests) = c
             /\ requests' = Tail(requests)

HandleStatus ==
    /\ Handle("status")
    /\ Send(<<Reply("status", docker, gate)>>)
    /\ NoWrite /\ UNCHANGED <<engine, docker, gate, probe, start, mirror, believed>>

HandleRecheck ==
    /\ Handle("recheck") /\ probe["user"] = Idle
    /\ probe' = [probe EXCEPT !["user"] = Probing]
    /\ Sent /\ NoWrite
    /\ UNCHANGED <<engine, docker, gate, start, mirror, believed>>

HandleChoice(c, skip) ==
    /\ Handle(c)
    /\ gate' = IF skip THEN [skipped |-> TRUE, shown |-> TRUE]
                       ELSE [gate EXCEPT !.skipped = FALSE]
    /\ believed' = skip
    /\ Persist(gate')
    /\ Send(<<Event(docker, gate'), Reply(c, docker, gate')>>)
    /\ UNCHANGED <<engine, docker, probe, start, mirror>>

HandleSkip == HandleChoice("skip", TRUE)
HandleResume == HandleChoice("resume", FALSE)

\* No broadcast: the answer alone carries the change.
HandleMark ==
    /\ Handle("mark")
    /\ gate' = [gate EXCEPT !.shown = TRUE]
    /\ IF gate.shown THEN NoWrite ELSE Persist(gate')
    /\ Send(<<Reply("mark", docker, gate')>>)
    /\ UNCHANGED <<engine, docker, probe, start, mirror, believed>>

HandleStart ==
    /\ Handle("start")
    /\ IF start.phase = "idle" /\ docker = "stopped"
       THEN start' = [phase |-> "launching", polls |-> 0] /\ Sent
       ELSE Send(<<Reply("start", docker, gate)>>) /\ UNCHANGED start
    /\ NoWrite /\ UNCHANGED <<engine, docker, gate, probe, mirror, believed>>

-----------------------------------------------------------------------------
(* startDocker between its awaits.                                         *)

\* A failed launch that returns without clearing the flag.
EndStartHeld(msgs) == start' = [start EXCEPT !.phase = "ended"] /\ Send(msgs)

EndStart(msgs) == start' = NotStarting /\ Send(msgs)

Launched ==
    /\ start.phase = "launching"
    /\ \/ EndStart(<<Reply("start", docker, gate)>>)           \* the launch failed
       \/ start' = [start EXCEPT !.phase = "sleeping"] /\ Sent
    /\ NoWrite
    /\ UNCHANGED <<engine, docker, gate, probe, requests, mirror, believed>>

Poll ==
    /\ start.phase = "sleeping"
    /\ start' = [start EXCEPT !.phase = "probing"]
    /\ probe' = [probe EXCEPT !["poll"] = Probing]
    /\ Sent /\ NoWrite
    /\ UNCHANGED <<engine, docker, gate, requests, mirror, believed>>

\* A gate written back from the defaults.
StartedGateFresh == [NewGate EXCEPT !.shown = TRUE]

\* The gate startDocker writes back: the current one, marked as shown.
StartedGate == [gate EXCEPT !.shown = TRUE]

PollLands ==
    /\ start.phase = "probing"
    /\ probe' = [probe EXCEPT !["poll"] = Idle]
    /\ LET up == probe["poll"].saw = "up"
           last == start.polls + 1 = MaxPolls
       IN /\ gate' = IF up THEN StartedGate ELSE gate
          /\ IF gate' # gate THEN Persist(gate') ELSE NoWrite
          /\ start' = IF up \/ last THEN NotStarting
                      ELSE [phase |-> "sleeping", polls |-> start.polls + 1]
          /\ probe["poll"].stage = "landing"
          /\ docker' = probe["poll"].saw
          /\ Send(<<Event(docker', gate)>>
                  \o (IF gate' # gate THEN <<Event(docker', gate')>> ELSE <<>>)
                  \o (IF up \/ last THEN <<Reply("start", docker', gate')>> ELSE <<>>))
    /\ UNCHANGED <<engine, requests, mirror, believed>>

-----------------------------------------------------------------------------
(* The renderer.                                                           *)

Ask(c) ==
    /\ count.requests < MaxRequests
    /\ count' = [count EXCEPT !.requests = @ + 1]
    /\ requests' = Append(requests, c)
    /\ UNCHANGED <<engine, docker, gate, file, probe, start, pipe, believed, lost>>

\* The two effects of the first commit: the read is sent, then the listener is
\* attached, in one task of the renderer.
Mount ==
    /\ ~mirror.mounted
    /\ mirror' = [mirror EXCEPT !.mounted = TRUE]
    /\ requests' = Append(requests, "status")
    /\ UNCHANGED <<engine, docker, gate, file, probe, start, pipe, believed, lost, count>>

\* What the modal and the hook let a user ask for.
Offered(c) ==
    /\ mirror.mounted /\ c # "status"
    /\ c \notin mirror.busy
    /\ c \in {"recheck", "skip"} => "start" \notin mirror.busy
    /\ c = "mark" => ~mirror.status.gate.shown
    /\ c = "start" => mirror.status.docker = "stopped"

Click(c) ==
    /\ Offered(c)
    /\ Ask(c)
    /\ mirror' = [mirror EXCEPT !.busy =
                    IF c \in {"recheck", "start"} THEN @ \cup {c} ELSE @]

Receive ==
    /\ pipe # <<>>
    /\ pipe' = Tail(pipe)
    /\ LET msg == Head(pipe) IN
         mirror' = IF ~mirror.mounted THEN mirror       \* nobody listens yet
                   ELSE [mirror EXCEPT !.status = msg.status,
                                       !.loading = @ /\ msg.to # "status",
                                       !.busy = @ \ {msg.to}]
    /\ UNCHANGED <<engine, docker, gate, file, probe, start, requests, believed, lost, count>>

-----------------------------------------------------------------------------
(* A crash, or a quit, and the next start of the application.              *)

Restart(f) ==
    /\ Fault
    /\ file' = f /\ gate' = Loaded(f) /\ docker' = "absent"
    /\ probe' = [s \in Slot |-> IF s = "boot" THEN Probing ELSE Idle]
    /\ start' = NotStarting
    /\ requests' = <<>> /\ pipe' = <<>> /\ mirror' = Unmounted
    /\ lost' = FALSE
    /\ believed' = IF lost \/ f # file THEN gate'.skipped ELSE believed
    /\ UNCHANGED engine

Crash == Restart(file)
CrashWriting == /\ requests # <<>> /\ Head(requests) \in {"skip", "resume", "mark"}
                /\ Restart(Unreadable)

-----------------------------------------------------------------------------
Next ==
    \/ EngineChanges \/ Mount \/ Receive \/ Crash \/ CrashWriting
    \/ \E s \in Slot : VersionAnswers(s) \/ InfoAnswers(s) \/ ProbeLands(s)
    \/ HandleStatus \/ HandleRecheck \/ HandleSkip \/ HandleResume
    \/ HandleMark \/ HandleStart
    \/ Launched \/ Poll \/ PollLands
    \/ \E c \in Call : Click(c)

\* Awaited commands end (each has a timeout), timers fire, messages arrive and
\* main serves the calls it is sent.
Fairness ==
    /\ \A s \in Slot : WF_vars(VersionAnswers(s)) /\ WF_vars(InfoAnswers(s))
                       /\ WF_vars(ProbeLands(s))
    /\ WF_vars(Launched) /\ WF_vars(Poll) /\ WF_vars(PollLands)
    /\ WF_vars(Receive)

Spec == Init /\ [][Next]_vars /\ Fairness

-----------------------------------------------------------------------------
(* Properties.                                                             *)

TypeOK ==
    /\ engine \in Engine /\ docker \in Engine /\ gate \in Gate
    /\ file \in {Unreadable} \cup {{g} : g \in Gate}
    /\ probe \in [Slot -> [stage : {"off", "version", "info", "landing"},
                           saw : Engine \cup {None}]]
    /\ start \in [phase : {"idle", "launching", "sleeping", "probing"},
                  polls : 0 .. MaxPolls]
    /\ requests \in Seq(Call)
    /\ mirror \in [status : Status, loading : BOOLEAN, mounted : BOOLEAN,
                   busy : SUBSET Call]
    /\ believed \in BOOLEAN /\ lost \in BOOLEAN

\* Once the first read is answered and nothing is in flight, the renderer shows
\* the gate main would answer with: no broadcast is missed around the mount, and
\* the change of a call without a broadcast (mark) is not lost behind another.
MirrorCatchesUp ==
    pipe = <<>> /\ mirror.mounted /\ ~mirror.loading
        => mirror.status = StatusOf(docker, gate)

\* The gate keeps the user's last choice through the long startDocker, the other
\* calls and restarts, unless the write of that choice failed or was cut short
\* (persist(), loadFromDisk(): the degradation the code accepts).
ChoiceIsKept == gate.skipped = believed

\* A start of Docker ends, by success, failure or deadline, so that the button
\* works again (the finally of startDocker).
StartSettles == start.phase # "idle" ~> start.phase = "idle"
=============================================================================
