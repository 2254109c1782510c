--------------------------- MODULE Desktop_proofs ---------------------------
(***************************************************************************)
(* What TLAPS proves about the two conversations of the desktop's renderer *)
(* with the main process.  InstallationGate, for any number of polls,      *)
(* calls, changes of Docker, faults and messages in flight: the types, the *)
(* mirror of the gate, and the user's choice.  RunView, for any number of  *)
(* steps, patches, requests and messages in flight: the live text and the  *)
(* list of runs.  The two share no variable, and each theorem is about the *)
(* specification of one.                                                   *)
(***************************************************************************)
EXTENDS InstallationGate, RunView, TLAPS

Answer == [kind : {"event", "reply"}, to : Call \cup {None}, status : Status]

(***************************************************************************)
(* Types.  A probe that is about to land saw something, and a start that   *)
(* is under way has polls left; both are needed to keep TypeOK.            *)
(***************************************************************************)

\* One part for the probes, startDocker, the gate with its file, and the two pipes.
ProbesTyped ==
  /\ probe \in [Slot -> [stage : {"off", "version", "info", "landing"}, saw : Engine \cup {None}]]
  /\ \A s \in Slot : probe[s].stage = "landing" => probe[s].saw \in Engine

StartTyped ==
  /\ start \in [phase : {"idle", "launching", "sleeping", "probing"}, polls : 0 .. MaxPolls]
  /\ start.polls < MaxPolls

GateTyped ==
  /\ engine \in Engine /\ docker \in Engine /\ gate \in Gate
  /\ file \in {Unreadable} \cup {{g} : g \in Gate}
  /\ believed \in BOOLEAN /\ lost \in BOOLEAN

PipesTyped ==
  /\ requests \in Seq(Call) /\ pipe \in Seq(Answer)
  /\ mirror \in [status : Status, loading : BOOLEAN, mounted : BOOLEAN, busy : SUBSET Call]

Typed == ProbesTyped /\ StartTyped /\ GateTyped /\ PipesTyped

LEMMA TypedIs == Typed => TypeOK
BY DEF Typed, ProbesTyped, StartTyped, GateTyped, PipesTyped, TypeOK

LEMMA StatusIs ==
  ASSUME NEW d \in Engine, NEW g \in Gate
  PROVE  StatusOf(d, g) \in Status
BY DEF StatusOf, Status, Engine, Gate

LEMMA AnswerIs ==
  ASSUME NEW d \in Engine, NEW g \in Gate
  PROVE  /\ Event(d, g) \in Answer /\ Event(d, g).status = StatusOf(d, g)
         /\ \A c \in Call : Reply(c, d, g) \in Answer /\ Reply(c, d, g).status = StatusOf(d, g)
BY StatusIs DEF Event, Reply, Answer

LEMMA LoadedIs ==
  ASSUME NEW f \in {Unreadable} \cup {{g} : g \in Gate}
  PROVE  Loaded(f) \in Gate /\ \A g : f = {g} => Loaded(f) = g
<1>1. CASE f = Unreadable
  BY <1>1 DEF Loaded, Unreadable, NewGate, Gate
<1>2. CASE \E g \in Gate : f = {g}
  BY <1>2 DEF Loaded, Unreadable
<1>. QED  BY <1>1, <1>2

\* Messages that are put at the end of the pipe.
LEMMA SendIs ==
  ASSUME pipe \in Seq(Answer), NEW msgs \in Seq(Answer), msgs # <<>>, Send(msgs)
  PROVE  /\ pipe' \in Seq(Answer) /\ pipe' # <<>>
         /\ pipe'[Len(pipe')] = msgs[Len(msgs)]
BY DEF Send

LEMMA PersistType ==
  ASSUME NEW g \in Gate, file \in {Unreadable} \cup {{h} : h \in Gate}, lost \in BOOLEAN,
         Persist(g) \/ NoWrite
  PROVE  file' \in {Unreadable} \cup {{h} : h \in Gate} /\ lost' \in BOOLEAN
BY DEF Persist, NoWrite

LEMMA InitTyped == Init => Typed
<1>. SUFFICES ASSUME Init PROVE Typed
  OBVIOUS
<1>1. probe \in [Slot -> [stage : {"off", "version", "info", "landing"}, saw : Engine \cup {None}]]
  BY DEF Init, Probing, Idle, Slot, Engine, None
<1>2. \A s \in Slot : probe[s].stage # "landing"
  BY DEF Init, Probing, Idle, Slot
<1>3. start \in [phase : {"idle", "launching", "sleeping", "probing"}, polls : 0 .. MaxPolls]
      /\ start.polls < MaxPolls
  BY PollAssumption DEF Init, NotStarting
<1>4. mirror \in [status : Status, loading : BOOLEAN, mounted : BOOLEAN, busy : SUBSET Call]
  BY StatusIs DEF Init, Unmounted, NewGate, Gate, Engine
<1>5. gate \in Gate /\ engine \in Engine /\ docker \in Engine /\ requests \in Seq(Call)
      /\ pipe \in Seq(Answer) /\ believed \in BOOLEAN /\ lost \in BOOLEAN
  <2>1. requests \in Seq(Call) /\ pipe \in Seq(Answer)
    BY DEF Init
  <2>. QED  BY <2>1 DEF Init, NewGate, Gate, Engine
<1>6. file \in {Unreadable} \cup {{g} : g \in Gate}
  BY DEF Init
<1>. QED  BY <1>1, <1>2, <1>3, <1>4, <1>5, <1>6
          DEF Typed, ProbesTyped, StartTyped, GateTyped, PipesTyped

LEMMA ProbeMoves ==
  ASSUME ProbesTyped, NEW s \in Slot,
         NEW p \in [stage : {"off", "version", "info", "landing"}, saw : Engine \cup {None}],
         p.stage = "landing" => p.saw \in Engine,
         probe' = [probe EXCEPT ![s] = p]
  PROVE  ProbesTyped'
BY DEF ProbesTyped

LEMMA ProbeRecords ==
  /\ Idle \in [stage : {"off", "version", "info", "landing"}, saw : Engine \cup {None}]
  /\ Probing \in [stage : {"off", "version", "info", "landing"}, saw : Engine \cup {None}]
  /\ Idle.stage # "landing" /\ Probing.stage # "landing"
  /\ NotStarting \in [phase : {"idle", "launching", "sleeping", "probing"}, polls : 0 .. MaxPolls]
  /\ NotStarting.polls < MaxPolls
BY PollAssumption DEF Idle, Probing, NotStarting, Engine, None

(***************************************************************************)
(* The mirror.  Whatever changes what main would answer puts the new       *)
(* answer at the end of the pipe in the same step: the last message in     *)
(* flight, or else the mirror, is up to date.                              *)
(***************************************************************************)

Newest == pipe # <<>> => pipe[Len(pipe)].status = StatusOf(docker, gate)

MirrorInv ==
  /\ Newest
  /\ MirrorCatchesUp
  /\ ~mirror.mounted => mirror.loading

\* A step that sends ends with the answer of the state it leaves behind.
Tells(msgs) ==
  /\ msgs \in Seq(Answer) /\ msgs # <<>>
  /\ msgs[Len(msgs)].status = StatusOf(docker', gate')
  /\ Send(msgs)

LEMMA TellingStep ==
  ASSUME Typed, MirrorInv, NEW msgs, Tells(msgs), UNCHANGED mirror, requests' \in Seq(Call)
  PROVE  MirrorInv' /\ PipesTyped'
<1>1. pipe' \in Seq(Answer) /\ pipe' # <<>> /\ pipe'[Len(pipe')] = msgs[Len(msgs)]
  BY SendIs DEF Tells, Typed, PipesTyped
<1>. QED  BY <1>1 DEF Typed, Tells, MirrorInv, Newest,
          MirrorCatchesUp, PipesTyped

LEMMA SilentStep ==
  ASSUME MirrorInv, UNCHANGED <<docker, gate, pipe>>, mirror'.status = mirror.status,
         mirror'.loading = mirror.loading, mirror'.mounted = mirror.mounted
  PROVE  MirrorInv'
BY DEF MirrorInv, Newest, MirrorCatchesUp, StatusOf

LEMMA HandledIs ==
  ASSUME Typed, NEW c, Handle(c)
  PROVE  requests' \in Seq(Call)
BY DEF Typed, PipesTyped, Handle

\* A probe lands: what it saw is stored and told, and more may follow.
LEMMA RecheckTells ==
  ASSUME Typed, NEW s \in Slot, NEW msgs \in Seq(Answer), gate' \in Gate,
         msgs # <<>> => msgs[Len(msgs)].status = StatusOf(docker', gate'),
         Recheck(s, msgs)
  PROVE  docker' \in Engine /\ Tells(<<Event(docker', gate')>> \o msgs)
<1>1. docker' \in Engine
  BY DEF Recheck, Typed, ProbesTyped
<1>2. Event(docker', gate') \in Answer /\ Event(docker', gate').status = StatusOf(docker', gate')
  BY <1>1, AnswerIs
<1>. DEFINE all == <<Event(docker', gate')>> \o msgs
<1>3. all \in Seq(Answer) /\ all # <<>> /\ Send(all)
  BY <1>2 DEF Recheck
<1>4. all[Len(all)].status = StatusOf(docker', gate')
  BY <1>2
<1>. QED  BY <1>1, <1>3, <1>4 DEF Tells

LEMMA HandlerStep ==
  ASSUME Typed, MirrorInv,
         \/ HandleStatus \/ HandleRecheck \/ HandleSkip \/ HandleResume \/ HandleMark \/ HandleStart
  PROVE  Typed' /\ MirrorInv'
<1>0. ProbesTyped /\ StartTyped /\ GateTyped /\ PipesTyped
  BY DEF Typed
<1>a. ASSUME NEW c \in Call, NEW d \in Engine, NEW g \in Gate, d = docker', g = gate',
             Send(<<Reply(c, d, g)>>)
      PROVE  Tells(<<Reply(c, d, g)>>)
  BY <1>a, AnswerIs DEF Tells
<1>b. ASSUME NoWrite, UNCHANGED <<engine, docker, gate, believed>> PROVE GateTyped'
  BY <1>0, <1>b DEF NoWrite, GateTyped
<1>1. CASE HandleStatus
  <2>1. Tells(<<Reply("status", docker, gate)>>) /\ requests' \in Seq(Call)
    BY <1>0, <1>1, <1>a, HandledIs DEF HandleStatus, GateTyped, Call
  <2>2. MirrorInv' /\ PipesTyped'
    BY <1>1, <2>1, TellingStep DEF HandleStatus
  <2>3. ProbesTyped' /\ StartTyped'
    BY <1>0, <1>1 DEF HandleStatus, ProbesTyped, StartTyped
  <2>. QED  BY <1>1, <1>b, <2>2, <2>3 DEF Typed, HandleStatus
<1>2. CASE HandleRecheck
  <2>1. ProbesTyped'
    BY <1>0, <1>2, ProbeRecords DEF HandleRecheck, ProbesTyped
  <2>2. MirrorInv'
    BY <1>2, SilentStep DEF HandleRecheck, Sent
  <2>3. PipesTyped' /\ StartTyped'
    BY <1>0, <1>2, HandledIs DEF HandleRecheck, Sent, PipesTyped, StartTyped
  <2>. QED  BY <1>2, <1>b, <2>1, <2>2, <2>3 DEF Typed, HandleRecheck
<1>3. ASSUME NEW c \in Call, NEW skip \in BOOLEAN, HandleChoice(c, skip)
      PROVE  Typed' /\ MirrorInv'
  <2>1. gate' \in Gate
    BY <1>0, <1>3 DEF HandleChoice, GateTyped, Gate
  <2>2. GateTyped'
    BY <1>0, <1>3, <2>1, PersistType DEF HandleChoice, GateTyped
  <2>. DEFINE msgs == <<Event(docker, gate'), Reply(c, docker, gate')>>
  <2>3. Tells(msgs)
    <3>1. docker \in Engine /\ docker' = docker /\ Send(msgs)
      BY <1>0, <1>3 DEF HandleChoice, GateTyped
    <3>. QED  BY <2>1, <3>1, AnswerIs DEF Tells
  <2>4. MirrorInv' /\ PipesTyped'
    BY <1>3, <2>3, TellingStep, HandledIs DEF HandleChoice
  <2>5. ProbesTyped' /\ StartTyped'
    BY <1>0, <1>3 DEF HandleChoice, ProbesTyped, StartTyped
  <2>. QED  BY <2>2, <2>4, <2>5 DEF Typed
<1>4. CASE HandleMark
  <2>1. gate' \in Gate
    BY <1>0, <1>4 DEF HandleMark, GateTyped, Gate
  <2>2. GateTyped'
    BY <1>0, <1>4, <2>1, PersistType DEF HandleMark, GateTyped
  <2>3. Tells(<<Reply("mark", docker, gate')>>)
    BY <1>0, <1>4, <1>a, <2>1 DEF HandleMark, GateTyped, Call
  <2>4. MirrorInv' /\ PipesTyped'
    BY <1>4, <2>3, TellingStep, HandledIs DEF HandleMark
  <2>5. ProbesTyped' /\ StartTyped'
    BY <1>0, <1>4 DEF HandleMark, ProbesTyped, StartTyped
  <2>. QED  BY <2>2, <2>4, <2>5 DEF Typed
<1>5. CASE HandleStart
  <2>1. GateTyped' /\ ProbesTyped' /\ requests' \in Seq(Call) /\ mirror' = mirror
    BY <1>0, <1>5, <1>b, HandledIs DEF HandleStart, ProbesTyped
  <2>2. CASE start' = [phase |-> "launching", polls |-> 0] /\ Sent
    <3>1. StartTyped'
      BY <2>2, PollAssumption DEF StartTyped
    <3>2. PipesTyped'
      BY <1>0, <2>1, <2>2 DEF Sent, PipesTyped
    <3>3. MirrorInv'
      BY <1>5, <2>2, SilentStep DEF HandleStart, Sent
    <3>. QED  BY <2>1, <3>1, <3>2, <3>3 DEF Typed
  <2>3. CASE Send(<<Reply("start", docker, gate)>>) /\ UNCHANGED start
    <3>1. Tells(<<Reply("start", docker, gate)>>)
      BY <1>0, <1>5, <1>a, <2>3 DEF HandleStart, GateTyped, Call
    <3>2. MirrorInv' /\ PipesTyped'
      BY <2>1, <3>1, TellingStep
    <3>3. StartTyped'
      BY <1>0, <2>3 DEF StartTyped
    <3>. QED  BY <2>1, <3>2, <3>3 DEF Typed
  <2>. QED  BY <1>5, <2>2, <2>3 DEF HandleStart
<1>. QED  BY <1>1, <1>2, <1>3, <1>4, <1>5 DEF HandleSkip, HandleResume, Call

LEMMA ProbeStep ==
  ASSUME Typed, MirrorInv, NEW s \in Slot, VersionAnswers(s) \/ InfoAnswers(s) \/ ProbeLands(s)
  PROVE  Typed' /\ MirrorInv'
<1>0. ProbesTyped /\ StartTyped /\ GateTyped /\ PipesTyped
  BY DEF Typed
<1>1. ASSUME VersionAnswers(s) \/ InfoAnswers(s) PROVE Typed' /\ MirrorInv'
  <2>1. PICK p : /\ probe' = [probe EXCEPT ![s] = p]
                 /\ \/ p = [stage |-> "landing", saw |-> "absent"]
                    \/ p = [probe[s] EXCEPT !.stage = "info"]
                    \/ p = [stage |-> "landing", saw |-> "up"]
                    \/ p = [stage |-> "landing", saw |-> "stopped"]
    BY <1>1 DEF VersionAnswers, InfoAnswers
  <2>2. /\ p \in [stage : {"off", "version", "info", "landing"}, saw : Engine \cup {None}]
        /\ p.stage = "landing" => p.saw \in Engine
    BY <1>0, <2>1 DEF ProbesTyped, Engine
  <2>3. ProbesTyped'
    BY <1>0, <2>1, <2>2, ProbeMoves
  <2>4. UNCHANGED <<engine, docker, gate, file, start, requests, pipe, mirror, believed, lost>>
    BY <1>1 DEF VersionAnswers, InfoAnswers
  <2>5. StartTyped' /\ GateTyped' /\ PipesTyped'
    BY <1>0, <2>4 DEF StartTyped, GateTyped, PipesTyped
  <2>6. MirrorInv'
    BY <2>4, SilentStep
  <2>. QED  BY <2>3, <2>5, <2>6 DEF Typed
<1>2. ASSUME ProbeLands(s) PROVE Typed' /\ MirrorInv'
  <2>. DEFINE msgs == IF s = "user" THEN <<Reply("recheck", docker', gate)>> ELSE <<>>
  <2>1. gate' = gate /\ gate \in Gate /\ Recheck(s, msgs)
    BY <1>0, <1>2 DEF ProbeLands, GateTyped
  <2>2. docker' \in Engine
    BY <2>1 DEF Recheck, Typed, ProbesTyped
  <2>3. /\ msgs \in Seq(Answer)
        /\ msgs # <<>> => msgs[Len(msgs)].status = StatusOf(docker', gate')
    BY <2>1, <2>2, AnswerIs DEF Call
  <2>4. Tells(<<Event(docker', gate')>> \o msgs)
    BY <2>1, <2>3, RecheckTells
  <2>5. MirrorInv' /\ PipesTyped'
    BY <1>0, <1>2, <2>4, TellingStep DEF ProbeLands, PipesTyped
  <2>6. ProbesTyped'
    BY <1>0, <1>2, ProbeMoves, ProbeRecords DEF ProbeLands
  <2>7. StartTyped' /\ GateTyped'
    BY <1>0, <1>2, <2>1, <2>2 DEF ProbeLands, StartTyped, GateTyped
  <2>. QED  BY <2>5, <2>6, <2>7 DEF Typed
<1>. QED  BY <1>1, <1>2

LEMMA StartStep ==
  ASSUME Typed, MirrorInv, Launched \/ Poll \/ PollLands
  PROVE  Typed' /\ MirrorInv'
<1>0. ProbesTyped /\ StartTyped /\ GateTyped /\ PipesTyped
  BY DEF Typed
<1>1. CASE Launched
  <2>1. GateTyped' /\ ProbesTyped' /\ requests' \in Seq(Call)
    BY <1>0, <1>1 DEF Launched, NoWrite, GateTyped, ProbesTyped, PipesTyped
  <2>2. CASE EndStart(<<Reply("start", docker, gate)>>)
    <3>1. Tells(<<Reply("start", docker, gate)>>)
      BY <1>0, <1>1, <2>2, AnswerIs DEF Launched, EndStart, Tells, GateTyped, Call
    <3>2. MirrorInv' /\ PipesTyped'
      BY <1>1, <2>1, <3>1, TellingStep DEF Launched
    <3>3. StartTyped'
      BY <2>2, ProbeRecords DEF EndStart, StartTyped
    <3>. QED  BY <2>1, <3>2, <3>3 DEF Typed
  <2>3. CASE start' = [start EXCEPT !.phase = "sleeping"] /\ Sent
    <3>1. StartTyped' /\ PipesTyped'
      BY <1>0, <1>1, <2>3 DEF Launched, Sent, StartTyped, PipesTyped
    <3>2. MirrorInv'
      BY <1>1, <2>3, SilentStep DEF Launched, Sent
    <3>. QED  BY <2>1, <3>1, <3>2 DEF Typed
  <2>. QED  BY <1>1, <2>2, <2>3 DEF Launched
<1>2. CASE Poll
  <2>1. ProbesTyped'
    BY <1>0, <1>2, ProbeMoves, ProbeRecords DEF Poll, Slot
  <2>2. StartTyped' /\ GateTyped' /\ PipesTyped'
    BY <1>0, <1>2 DEF Poll, Sent, NoWrite, StartTyped, GateTyped, PipesTyped
  <2>3. MirrorInv'
    BY <1>2, SilentStep DEF Poll, Sent
  <2>. QED  BY <2>1, <2>2, <2>3 DEF Typed
<1>3. CASE PollLands
  <2>. DEFINE changed == IF gate' # gate THEN <<Event(docker', gate')>> ELSE <<>>
              replied == IF probe["poll"].saw = "up" \/ start.polls + 1 = MaxPolls
                         THEN <<Reply("start", docker', gate')>> ELSE <<>>
              all == <<Event(docker', gate)>> \o changed \o replied
  <2>1. gate \in Gate /\ gate' \in Gate
    BY <1>0, <1>3 DEF PollLands, StartedGate, GateTyped, Gate
  <2>2. docker' \in Engine
    BY <1>0, <1>3 DEF PollLands, ProbesTyped, Slot
  <2>3. Send(all)
    BY <1>3 DEF PollLands
  <2>4. /\ Event(docker', gate) \in Answer /\ Event(docker', gate').status = StatusOf(docker', gate')
        /\ Event(docker', gate') \in Answer /\ Reply("start", docker', gate') \in Answer
        /\ Reply("start", docker', gate').status = StatusOf(docker', gate')
    BY <2>1, <2>2, AnswerIs DEF Call
  <2>5. Tells(all)
    <3>1. CASE replied = <<Reply("start", docker', gate')>>
      BY SMTT(30), <2>3, <2>4, <3>1 DEF Tells
    <3>2. CASE replied = <<>> /\ gate' # gate
      BY SMTT(30), <2>3, <2>4, <3>2 DEF Tells
    <3>3. CASE replied = <<>> /\ gate' = gate
      <4>1. changed = <<>>
        BY <3>3
      <4>2. PICK event \in Answer : /\ event = Event(docker', gate)
                                   /\ event.status = StatusOf(docker', gate')
        BY <2>1, <2>2, <3>3, AnswerIs
      <4>3. all = <<event>>
        <5>1. all = (<<event>> \o <<>>) \o <<>>
          BY <3>3, <4>1, <4>2
        <5>2. (<<event>> \o <<>>) \o <<>> = <<event>>
          BY <4>2
        <5>. QED  BY <5>1, <5>2
      <4>4. /\ <<event>> \in Seq(Answer) /\ <<event>> # <<>>
            /\ <<event>>[Len(<<event>>)] = event
        BY <4>2
      <4>. HIDE DEF all, changed, replied
      <4>. QED  BY <2>3, <4>2, <4>3, <4>4 DEF Tells
    <3>4. replied = <<Reply("start", docker', gate')>> \/ replied = <<>>
      OBVIOUS
    <3>. HIDE DEF all, changed, replied
    <3>. QED  BY <3>1, <3>2, <3>3, <3>4
  <2>6. MirrorInv' /\ PipesTyped'
    BY <1>0, <1>3, <2>5, TellingStep DEF PollLands, PipesTyped
  <2>7. ProbesTyped'
    BY <1>0, <1>3, ProbeMoves, ProbeRecords DEF PollLands, Slot
  <2>8. StartTyped'
    <3>1. CASE start' = NotStarting
      BY <3>1, ProbeRecords DEF StartTyped
    <3>2. CASE /\ start.polls + 1 # MaxPolls
               /\ start' = [phase |-> "sleeping", polls |-> start.polls + 1]
      BY <1>0, <3>2, PollAssumption DEF StartTyped
    <3>. QED  BY <1>3, <3>1, <3>2 DEF PollLands
  <2>9. GateTyped'
    <3>1. file' \in {Unreadable} \cup {{h} : h \in Gate} /\ lost' \in BOOLEAN
      BY <1>0, <1>3, <2>1, PersistType DEF PollLands, GateTyped
    <3>. QED  BY <1>0, <1>3, <2>1, <2>2, <3>1 DEF PollLands, GateTyped
  <2>. QED  BY <2>6, <2>7, <2>8, <2>9 DEF Typed
<1>. QED  BY <1>1, <1>2, <1>3

\* A message reaches the renderer: the mirror is as new as the message, and the
\* messages behind it end as before.
LEMMA ReceiveStep ==
  ASSUME Typed, MirrorInv, Receive
  PROVE  Typed' /\ MirrorInv'
<1>0. ProbesTyped /\ StartTyped /\ GateTyped /\ PipesTyped
  BY DEF Typed
<1>. DEFINE msg == Head(pipe)
<1>1. msg \in Answer /\ pipe' \in Seq(Answer) /\ pipe' = Tail(pipe)
  BY <1>0 DEF Receive, PipesTyped
<1>2. CASE ~mirror.mounted
  <2>1. mirror' = mirror
    BY <1>2 DEF Receive
  <2>2. Newest'
    BY <1>0, <1>1 DEF Receive, MirrorInv, Newest, PipesTyped
  <2>. QED  BY <1>0, <1>1, <1>2, <2>1, <2>2
            DEF Receive, Typed, ProbesTyped, StartTyped, GateTyped, PipesTyped, MirrorInv,
                MirrorCatchesUp
<1>3. CASE mirror.mounted
  <2>1. mirror' = [mirror EXCEPT !.status = msg.status, !.loading = @ /\ msg.to # "status",
                                 !.busy = @ \ {msg.to}]
    BY <1>3 DEF Receive
  <2>2. /\ mirror' \in [status : Status, loading : BOOLEAN, mounted : BOOLEAN, busy : SUBSET Call]
        /\ mirror'.status = msg.status /\ mirror'.mounted
    BY <1>0, <1>1, <1>3, <2>1 DEF PipesTyped, Answer
  <2>3. Newest'
    BY <1>0, <1>1 DEF Receive, MirrorInv, Newest, PipesTyped
  <2>4. MirrorCatchesUp'
    <3>1. SUFFICES ASSUME pipe' = <<>> PROVE msg.status = StatusOf(docker, gate)
      BY <2>2 DEF Receive, MirrorCatchesUp
    <3>2. pipe \in Seq(Answer) /\ pipe # <<>>
      BY <1>0 DEF Receive, PipesTyped
    <3>3. Len(Tail(pipe)) = Len(pipe) - 1 /\ Len(pipe) \in Nat /\ Len(pipe) # 0
      BY <3>2
    <3>4. Tail(pipe) = <<>>
      BY <1>1, <3>1
    <3>5. Len(pipe) = 1
      BY <3>3, <3>4
    <3>6. pipe[Len(pipe)] = msg
      BY <3>2, <3>5
    <3>. QED  BY <3>2, <3>6 DEF MirrorInv, Newest
  <2>. QED  BY <1>0, <1>1, <2>2, <2>3, <2>4
            DEF Receive, Typed, ProbesTyped, StartTyped, GateTyped, PipesTyped, MirrorInv
<1>. QED  BY <1>0, <1>2, <1>3 DEF PipesTyped

LEMMA OutsideStep ==
  ASSUME Typed, MirrorInv,
         \/ EngineChanges \/ Mount \/ Crash \/ CrashWriting
         \/ \E c \in Call : Click(c)
  PROVE  Typed' /\ MirrorInv'
<1>0. ProbesTyped /\ StartTyped /\ GateTyped /\ PipesTyped
  BY DEF Typed
<1>1. CASE EngineChanges
  <2>1. MirrorInv'
    BY <1>1, SilentStep DEF EngineChanges
  <2>. QED  BY <1>0, <1>1, <2>1
            DEF EngineChanges, Typed, ProbesTyped, StartTyped, GateTyped, PipesTyped
<1>2. CASE Mount
  <2>1. mirror.loading
    BY <1>2 DEF Mount, MirrorInv
  <2>2. mirror' \in [status : Status, loading : BOOLEAN, mounted : BOOLEAN, busy : SUBSET Call]
        /\ mirror'.loading
    BY <1>0, <1>2, <2>1 DEF Mount, PipesTyped
  <2>3. requests' \in Seq(Call)
    BY <1>0, <1>2 DEF Mount, PipesTyped, Call
  <2>. QED  BY <1>0, <1>2, <2>2, <2>3
            DEF Mount, Typed, ProbesTyped, StartTyped, GateTyped, PipesTyped, MirrorInv, Newest,
                MirrorCatchesUp
<1>3. ASSUME NEW f \in {Unreadable} \cup {{g} : g \in Gate}, Restart(f)
      PROVE  Typed' /\ MirrorInv'
  <2>1. gate' \in Gate /\ docker' = "absent" /\ file' = f
    BY <1>3, LoadedIs DEF Restart
  <2>2. GateTyped'
    BY <1>0, <1>3, <2>1 DEF Restart, GateTyped, Gate, Engine
  <2>3. ProbesTyped'
    <3>1. probe' = [s \in Slot |-> IF s = "boot" THEN Probing ELSE Idle]
      BY <1>3 DEF Restart
    <3>. QED  BY <3>1, ProbeRecords DEF ProbesTyped
  <2>4. StartTyped'
    BY <1>3, ProbeRecords DEF Restart, StartTyped
  <2>5. Unmounted \in [status : Status, loading : BOOLEAN, mounted : BOOLEAN, busy : SUBSET Call]
    BY StatusIs DEF Unmounted, NewGate, Gate, Engine
  <2>6. requests' = <<>> /\ pipe' = <<>> /\ mirror' = Unmounted
    BY <1>3 DEF Restart
  <2>7. PipesTyped'
    BY <2>5, <2>6 DEF PipesTyped
  <2>8. MirrorInv'
    BY <2>6 DEF MirrorInv, Newest, MirrorCatchesUp, Unmounted
  <2>. QED  BY <2>2, <2>3, <2>4, <2>7, <2>8 DEF Typed
<1>4. CASE Crash \/ CrashWriting
  BY <1>0, <1>3, <1>4 DEF Crash, CrashWriting, GateTyped
<1>5. ASSUME NEW c \in Call, Click(c) PROVE Typed' /\ MirrorInv'
  <2>1. mirror' \in [status : Status, loading : BOOLEAN, mounted : BOOLEAN, busy : SUBSET Call]
        /\ mirror'.status = mirror.status /\ mirror'.loading = mirror.loading
        /\ mirror'.mounted = mirror.mounted
    BY <1>0, <1>5 DEF Click, PipesTyped
  <2>2. MirrorInv'
    BY <1>5, <2>1, SilentStep DEF Click, Ask
  <2>3. requests' \in Seq(Call)
    BY <1>0, <1>5 DEF Click, Ask, PipesTyped
  <2>. QED  BY <1>0, <1>5, <2>1, <2>2, <2>3
            DEF Click, Ask, Typed, ProbesTyped, StartTyped, GateTyped, PipesTyped
<1>. QED  BY <1>1, <1>2, <1>4, <1>5

LEMMA GateInvariant == Spec => [](Typed /\ MirrorInv)
<1>1. Init => Typed /\ MirrorInv
  <2>1. Init => MirrorInv
    BY DEF Init, MirrorInv, Newest, MirrorCatchesUp, Unmounted
  <2>. QED  BY <2>1, InitTyped
<1>2. Typed /\ MirrorInv /\ [Next]_vars => (Typed /\ MirrorInv)'
  <2>1. ASSUME Typed, MirrorInv, UNCHANGED vars PROVE (Typed /\ MirrorInv)'
    BY <2>1 DEF vars, Typed, ProbesTyped, StartTyped, GateTyped, PipesTyped, MirrorInv, Newest,
                MirrorCatchesUp
  <2>. QED  BY <2>1, HandlerStep, ProbeStep, StartStep, ReceiveStep, OutsideStep DEF Next
<1>. QED  BY <1>1, <1>2, PTL DEF Spec

\* Every reachable state of the gate, its probes, its file and the renderer's
\* mirror is well typed; the polls of a start never pass its deadline.
THEOREM TypeCorrect == Spec => []TypeOK
BY GateInvariant, TypedIs, PTL

\* The renderer's mirror (useInstallationGate.ts) shows what the gate of the main
\* process would answer as soon as nothing is in flight and the first read is
\* answered: every change is told in the step that makes it.
THEOREM MirrorIsCurrent == Spec => []MirrorCatchesUp
<1>1. MirrorInv => MirrorCatchesUp
  BY DEF MirrorInv
<1>. QED  BY <1>1, GateInvariant, PTL

(***************************************************************************)
(* The choice.  The file holds it unless its last write failed.            *)
(***************************************************************************)

ChoiceInv ==
  /\ ChoiceIsKept
  /\ ~lost => Loaded(file).skipped = believed

LEMMA PersistKeepsChoice ==
  ASSUME NEW g \in Gate, file \in {Unreadable} \cup {{h} : h \in Gate}, Persist(g)
  PROVE  ~lost' => Loaded(file').skipped = g.skipped
<1>1. CASE file' = {g}
  BY <1>1, LoadedIs
<1>2. CASE lost' = TRUE
  BY <1>2
<1>. QED  BY <1>1, <1>2 DEF Persist

LEMMA RestartKeepsChoice ==
  ASSUME ChoiceInv, NEW f, Restart(f)
  PROVE  ChoiceInv'
BY DEF ChoiceInv, ChoiceIsKept, Restart

LEMMA ChoiceStep ==
  ASSUME Typed, ChoiceInv, Next
  PROVE  ChoiceInv'
<1>0. GateTyped
  BY DEF Typed
<1>1. ASSUME UNCHANGED <<gate, file, believed, lost>> PROVE ChoiceInv'
  BY <1>1 DEF ChoiceInv, ChoiceIsKept
<1>2. ASSUME NEW c \in Call, NEW skip \in BOOLEAN, HandleChoice(c, skip) PROVE ChoiceInv'
  <2>1. gate' \in Gate /\ gate'.skipped = skip /\ believed' = skip /\ Persist(gate')
    BY <1>0, <1>2 DEF HandleChoice, GateTyped, Gate
  <2>. QED  BY <1>0, <2>1, PersistKeepsChoice DEF ChoiceInv, ChoiceIsKept, GateTyped
<1>3. ASSUME gate' \in {gate, [gate EXCEPT !.shown = TRUE]}, believed' = believed,
             Persist(gate') \/ (NoWrite /\ gate'.skipped = gate.skipped)
      PROVE  ChoiceInv'
  <2>1. gate' \in Gate /\ gate'.skipped = gate.skipped
    BY <1>0, <1>3 DEF GateTyped, Gate
  <2>2. ~lost' => Loaded(file').skipped = believed'
    BY <1>0, <1>3, <2>1, PersistKeepsChoice DEF ChoiceInv, ChoiceIsKept, GateTyped, NoWrite
  <2>. QED  BY <1>3, <2>1, <2>2 DEF ChoiceInv, ChoiceIsKept
<1>4. CASE HandleMark \/ PollLands
  <2>1. [gate EXCEPT !.shown = TRUE].skipped = gate.skipped
    BY <1>0 DEF GateTyped, Gate
  <2>. QED  BY <1>3, <1>4, <2>1 DEF HandleMark, PollLands, StartedGate
<1>5. CASE Crash \/ CrashWriting
  BY <1>5, RestartKeepsChoice DEF Crash, CrashWriting
<1>6. CASE HandleSkip \/ HandleResume
  BY <1>2, <1>6 DEF HandleSkip, HandleResume, Call
<1>7. CASE \/ EngineChanges \/ Mount \/ Receive
           \/ \E s \in Slot : VersionAnswers(s) \/ InfoAnswers(s) \/ ProbeLands(s)
           \/ HandleStatus \/ HandleRecheck \/ HandleStart
           \/ Launched \/ Poll
           \/ \E c \in Call : Click(c)
  BY <1>1, <1>7 DEF EngineChanges, Mount, Receive, VersionAnswers, InfoAnswers, ProbeLands,
                    HandleStatus, HandleRecheck, HandleStart, Launched, Poll, Click, Ask, NoWrite
<1>. QED  BY <1>4, <1>5, <1>6, <1>7 DEF Next

\* The gate keeps the last choice the user made, through every probe, start of
\* Docker, call, crash and restart, for as long as the write of the choice itself
\* neither failed nor was cut short (persist and loadFromDisk of the gate).
THEOREM ChoicesAreKept == Spec => []ChoiceIsKept
<1>1. Init => ChoiceInv
  <2>1. Loaded(Unreadable) = NewGate
    BY DEF Loaded
  <2>2. NewGate.skipped = FALSE
    BY DEF NewGate
  <2>. QED  BY <2>1, <2>2 DEF Init, ChoiceInv, ChoiceIsKept
<1>2. Typed /\ ChoiceInv /\ [Next]_vars => ChoiceInv'
  <2>1. ASSUME ChoiceInv, UNCHANGED vars PROVE ChoiceInv'
    BY <2>1 DEF vars, ChoiceInv, ChoiceIsKept
  <2>. QED  BY <2>1, ChoiceStep DEF Next
<1>3. ChoiceInv => ChoiceIsKept
  BY DEF ChoiceInv
<1>. QED  BY <1>1, <1>2, <1>3, GateInvariant, PTL DEF Spec


-----------------------------------------------------------------------------
(***************************************************************************)
(* The run view.                                                           *)
(***************************************************************************)

Row == [status : Listed, steps : Nat, made : Nat, pending : BOOLEAN, parked : BOOLEAN,
        doomed : BOOLEAN, text : Nat, launching : BOOLEAN]
RunDetail == [run : Runs, status : Listed, steps : Nat, patch : Nat]
Verb == {"get", "task", "continue", "apply", "reject", "stop"}
Order == [verb : Verb \ {"task"}, run : Runs] \cup {[verb |-> "task", run |-> NoRun]}
Parcel == [kind : {"delta", "message", "step"}, run : Runs]
          \cup [kind : {"patch"}, run : Runs, patch : Nat]
          \cup [kind : {"run"}, run : Runs, status : Listed]
          \cup [kind : {"reply"}, run : Runs, to : Verb, detail : RunDetail]
          \cup [kind : {"refusal"}, run : Runs, to : Verb]

\* Main: only a loop at work has uncommitted text, and only one that waits and was
\* not stopped can be answered.
MainTyped ==
  /\ run \in [Runs -> Row]
  /\ \A r \in Runs : /\ run[r].text # 0 => run[r].status = "busy"
                     /\ run[r].parked => run[r].status = "waiting" /\ ~run[r].doomed

ChannelsTyped == up \in Seq(Order) /\ down \in Seq(Parcel)

ScreenTyped ==
  /\ active \in Runs \cup {NoRun} /\ detail \in RunDetail \cup {NoDetail}
  /\ list \in [Runs -> Listed] /\ live \in [Runs -> Nat]

ViewTyped == MainTyped /\ ChannelsTyped /\ ScreenTyped

LEMMA ParcelsAre ==
  ASSUME NEW r \in Runs
  PROVE  /\ Delta(r) \in Parcel /\ Message(r) \in Parcel /\ Step(r) \in Parcel
         /\ \A p \in Nat : PatchReady(r, p) \in Parcel
         /\ \A s \in Listed : RunUpdated(r, s) \in Parcel
         /\ \A v \in Verb : Refusal(v, r) \in Parcel
         /\ \A v \in Verb : \A row \in Row :
               ReplyTo(v, r, row) \in Parcel /\ Detail(r, row) \in RunDetail
<1>1. \A row \in Row : Detail(r, row) \in RunDetail
  BY DEF Detail, Row, RunDetail, NoPatch
<1>2. \A v \in Verb : \A row \in Row : ReplyTo(v, r, row) \in Parcel
  BY <1>1 DEF ReplyTo, Parcel
<1>3. Delta(r) \in Parcel /\ Message(r) \in Parcel /\ Step(r) \in Parcel
  BY DEF Delta, Message, Step, Parcel
<1>4. \A p \in Nat : PatchReady(r, p) \in Parcel
  BY DEF PatchReady, Parcel
<1>5. \A s \in Listed : RunUpdated(r, s) \in Parcel
  BY DEF RunUpdated, Parcel
<1>6. \A v \in Verb : Refusal(v, r) \in Parcel
  BY DEF Refusal, Parcel
<1>. QED  BY <1>1, <1>2, <1>3, <1>4, <1>5, <1>6

(***************************************************************************)
(* What the messages in flight will make of one run's line in the list and *)
(* its live text.  Will(r, s, now, then): of a renderer that shows now,    *)
(* the messages s make one that shows then.                                *)
(***************************************************************************)

Line == [live : Nat, shown : Listed]

Received(r, line, msg) ==
  [live  |-> IF msg.kind \in {"reply", "refusal"} \/ msg.run # r THEN line.live
             ELSE IF msg.kind = "delta" THEN line.live + 1
             ELSE IF Supersedes(msg) THEN 0 ELSE line.live,
   shown |-> IF msg.kind = "run" /\ msg.run = r THEN msg.status
             ELSE IF msg.kind = "reply" /\ msg.to \in {"task", "continue"} /\ msg.detail.run = r
             THEN msg.detail.status ELSE line.shown]

Will(r, s, now, then) ==
  \E line \in [1 .. Len(s) + 1 -> Line] :
     /\ line[1] = now /\ line[Len(s) + 1] = then
     /\ \A i \in 1 .. Len(s) : line[i + 1] = Received(r, line[i], s[i])

LEMMA ReceivedIsLine ==
  ASSUME NEW r \in Runs, NEW line \in Line, NEW msg \in Parcel
  PROVE  Received(r, line, msg) \in Line
BY DEF Received, Line, Parcel, RunDetail

LEMMA NothingOnItsWay ==
  ASSUME NEW r, NEW now, NEW then, Will(r, <<>>, now, then)
  PROVE  now = then
BY DEF Will

LEMMA OneMore ==
  ASSUME NEW r \in Runs, NEW s \in Seq(Parcel), NEW now, NEW then \in Line, NEW msg \in Parcel,
         Will(r, s, now, then)
  PROVE  Will(r, Append(s, msg), now, Received(r, then, msg))
<1>. DEFINE n == Len(s)
<1>1. n \in Nat /\ Len(Append(s, msg)) = n + 1
  OBVIOUS
<1>2. (\A i \in 1 .. n : Append(s, msg)[i] = s[i]) /\ Append(s, msg)[n + 1] = msg
  OBVIOUS
<1>3. PICK line \in [1 .. n + 1 -> Line] :
        /\ line[1] = now /\ line[n + 1] = then
        /\ \A i \in 1 .. n : line[i + 1] = Received(r, line[i], s[i])
  BY DEF Will
<1>. DEFINE more == [i \in 1 .. n + 2 |-> IF i = n + 2 THEN Received(r, then, msg) ELSE line[i]]
<1>4. more \in [1 .. (n + 1) + 1 -> Line]
  BY <1>1, <1>3, ReceivedIsLine
<1>5. more[1] = now /\ more[n + 1] = then /\ more[(n + 1) + 1] = Received(r, then, msg)
  BY <1>1, <1>3
<1>6. ASSUME NEW i \in 1 .. n + 1
      PROVE  more[i + 1] = Received(r, more[i], Append(s, msg)[i])
  <2>1. CASE i = n + 1
    BY <1>1, <1>2, <1>5, <2>1
  <2>2. CASE i # n + 1
    <3>1. i \in 1 .. n /\ more[i] = line[i] /\ more[i + 1] = line[i + 1]
      BY <1>1, <2>2
    <3>. QED  BY <1>2, <1>3, <3>1
  <2>. QED  BY <2>1, <2>2
<1>. HIDE DEF more
<1>. QED  BY <1>1, <1>4, <1>5, <1>6 DEF Will

LEMMA FirstArrives ==
  ASSUME NEW r, NEW s \in Seq(Parcel), s # <<>>, NEW now, NEW then, Will(r, s, now, then)
  PROVE  Will(r, Tail(s), Received(r, now, Head(s)), then)
<1>. DEFINE n == Len(Tail(s))
<1>1. n \in Nat /\ Len(s) = n + 1 /\ Head(s) = s[1]
  OBVIOUS
<1>2. \A i \in 1 .. n : Tail(s)[i] = s[i + 1]
  OBVIOUS
<1>. HIDE DEF n
<1>3. PICK line \in [1 .. (n + 1) + 1 -> Line] :
        /\ line[1] = now /\ line[(n + 1) + 1] = then
        /\ \A i \in 1 .. n + 1 : line[i + 1] = Received(r, line[i], s[i])
  BY <1>1 DEF Will
<1>. DEFINE rest == [i \in 1 .. n + 1 |-> line[i + 1]]
<1>4. rest \in [1 .. n + 1 -> Line]
  BY <1>1, <1>3
<1>5. rest[1] = Received(r, now, Head(s)) /\ rest[n + 1] = then
  <2>1. line[1 + 1] = Received(r, line[1], s[1])
    BY <1>1, <1>3
  <2>. QED  BY <1>1, <1>3, <2>1
<1>6. ASSUME NEW i \in 1 .. n
      PROVE  rest[i + 1] = Received(r, rest[i], Tail(s)[i])
  <2>1. i + 1 \in 1 .. n + 1
    BY <1>1
  <2>2. line[(i + 1) + 1] = Received(r, line[i + 1], s[i + 1])
    BY <1>3, <2>1
  <2>. QED  BY <1>1, <1>2, <2>1, <2>2
<1>. HIDE DEF rest
<1>. QED  BY <1>4, <1>5, <1>6 DEF Will, n

LEMMA SeveralMore ==
  ASSUME NEW r \in Runs, NEW s \in Seq(Parcel), NEW now, NEW then \in Line, Will(r, s, now, then),
         NEW a \in Parcel, NEW b \in Parcel, NEW c \in Parcel, NEW d \in Parcel
  PROVE  LET la == Received(r, then, a)
             lb == Received(r, la, b)
             lc == Received(r, lb, c)
             ld == Received(r, lc, d)
         IN  /\ Will(r, s \o <<a>>, now, la)
             /\ Will(r, s \o <<a, b>>, now, lb)
             /\ Will(r, s \o <<a, b, c>>, now, lc)
             /\ Will(r, s \o <<a, b, c, d>>, now, ld)
<1>. DEFINE la == Received(r, then, a)
            lb == Received(r, la, b)
            lc == Received(r, lb, c)
            ld == Received(r, lc, d)
            sa == Append(s, a)
            sb == Append(sa, b)
            sc == Append(sb, c)
            sd == Append(sc, d)
<1>1. la \in Line /\ sa \in Seq(Parcel) /\ Will(r, sa, now, la)
  BY ReceivedIsLine, OneMore
<1>2. sa = s \o <<a>> /\ sb = s \o <<a, b>>
  OBVIOUS
<1>3. sc = s \o <<a, b, c>>
  OBVIOUS
<1>4. sd = s \o <<a, b, c, d>>
  OBVIOUS
<1>. HIDE DEF la, sa
<1>5. lb \in Line /\ sb \in Seq(Parcel) /\ Will(r, sb, now, lb)
  BY <1>1, ReceivedIsLine, OneMore
<1>. HIDE DEF lb, sb
<1>6. lc \in Line /\ sc \in Seq(Parcel) /\ Will(r, sc, now, lc)
  BY <1>5, ReceivedIsLine, OneMore
<1>. HIDE DEF lc, sc
<1>7. Will(r, sd, now, ld)
  BY <1>6, OneMore
<1>. QED  BY <1>1, <1>2, <1>3, <1>4, <1>5, <1>6, <1>7 DEF la, lb, lc

\* What each kind of message does to the line of run r.
LEMMA ReceivedIs ==
  ASSUME NEW r \in Runs, NEW q \in Runs, NEW line \in Line
  PROVE  /\ Received(r, line, Delta(q)) = IF q = r THEN [live |-> line.live + 1, shown |-> line.shown] ELSE line
         /\ Received(r, line, Message(q)) = IF q = r THEN [live |-> 0, shown |-> line.shown] ELSE line
         /\ Received(r, line, Step(q)) = line
         /\ \A p : Received(r, line, PatchReady(q, p)) = line
         /\ \A s : Received(r, line, RunUpdated(q, s)) =
                     IF q # r THEN line
                     ELSE [live |-> IF s = "ended" THEN 0 ELSE line.live, shown |-> s]
         /\ \A v : Received(r, line, Refusal(v, q)) = line
         /\ \A v, row : Received(r, line, ReplyTo(v, q, row)) =
                     IF v \in {"task", "continue"} /\ q = r
                     THEN [live |-> line.live, shown |-> row.status] ELSE line
<1>1. line = [live |-> line.live, shown |-> line.shown]
  BY DEF Line
<1>2. Received(r, line, Delta(q)) = IF q = r THEN [live |-> line.live + 1, shown |-> line.shown] ELSE line
  BY <1>1 DEF Received, Delta
<1>3. Received(r, line, Message(q)) = IF q = r THEN [live |-> 0, shown |-> line.shown] ELSE line
  BY <1>1 DEF Received, Message, Supersedes
<1>4. Received(r, line, Step(q)) = line
  BY <1>1 DEF Received, Step, Supersedes
<1>5. \A p : Received(r, line, PatchReady(q, p)) = line
  BY <1>1 DEF Received, PatchReady, Supersedes
<1>6. \A s : Received(r, line, RunUpdated(q, s)) =
               IF q # r THEN line
               ELSE [live |-> IF s = "ended" THEN 0 ELSE line.live, shown |-> s]
  BY <1>1 DEF Received, RunUpdated, Supersedes
<1>7. \A v : Received(r, line, Refusal(v, q)) = line
  BY <1>1 DEF Received, Refusal
<1>8. \A v, row : Received(r, line, ReplyTo(v, q, row)) =
               IF v \in {"task", "continue"} /\ q = r
               THEN [live |-> line.live, shown |-> row.status] ELSE line
  BY <1>1 DEF Received, ReplyTo, Detail
<1>. QED  BY <1>2, <1>3, <1>4, <1>5, <1>6, <1>7, <1>8

(***************************************************************************)
(* In every state the messages in flight turn what the list and the live   *)
(* text show of a run into what is true of it in main.                     *)
(***************************************************************************)

Displayed(r) == [live |-> live[r], shown |-> list[r]]
True(r) == [live |-> run[r].text, shown |-> run[r].status]

LineInv == \A r \in Runs : Will(r, down, Displayed(r), True(r))

LEMMA LinesAre ==
  ASSUME ViewTyped, NEW r \in Runs
  PROVE  Displayed(r) \in Line /\ True(r) \in Line
BY DEF ViewTyped, MainTyped, ScreenTyped, Displayed, True, Line, Row

LEMMA LinesNext ==
  ASSUME \A r \in Runs : Will(r, down', Displayed(r)', True(r)')
  PROVE  LineInv'
BY DEF LineInv, Will

\* Main has told what it did: up to four messages, and the line they make.
LEMMA Told ==
  ASSUME ViewTyped, LineInv, NEW r \in Runs, UNCHANGED <<list, live>>,
         NEW a \in Parcel, NEW b \in Parcel, NEW c \in Parcel, NEW d \in Parcel,
         LET la == Received(r, True(r), a)
             lb == Received(r, la, b)
             lc == Received(r, lb, c)
             ld == Received(r, lc, d)
         IN  \/ down' = down \o <<a>> /\ True(r)' = la
             \/ down' = down \o <<a, b>> /\ True(r)' = lb
             \/ down' = down \o <<a, b, c>> /\ True(r)' = lc
             \/ down' = down \o <<a, b, c, d>> /\ True(r)' = ld
  PROVE  Will(r, down', Displayed(r)', True(r)')
<1>1. True(r) \in Line /\ down \in Seq(Parcel) /\ Will(r, down, Displayed(r), True(r))
  BY LinesAre DEF LineInv, ViewTyped, ChannelsTyped
<1>2. Displayed(r)' = Displayed(r)
  BY DEF Displayed
<1>. DEFINE la == Received(r, True(r), a)
            lb == Received(r, la, b)
            lc == Received(r, lb, c)
            ld == Received(r, lc, d)
<1>3. /\ Will(r, down \o <<a>>, Displayed(r), la)
      /\ Will(r, down \o <<a, b>>, Displayed(r), lb)
      /\ Will(r, down \o <<a, b, c>>, Displayed(r), lc)
      /\ Will(r, down \o <<a, b, c, d>>, Displayed(r), ld)
  BY <1>1, SeveralMore
<1>4. \/ down' = down \o <<a>> /\ True(r)' = la
      \/ down' = down \o <<a, b>> /\ True(r)' = lb
      \/ down' = down \o <<a, b, c>> /\ True(r)' = lc
      \/ down' = down \o <<a, b, c, d>> /\ True(r)' = ld
  OBVIOUS
<1>. HIDE DEF la, lb, lc, ld
<1>. QED  BY <1>2, <1>3, <1>4

LEMMA NothingToTell ==
  ASSUME ViewTyped, LineInv, UNCHANGED <<list, live, down>>,
         \A r \in Runs : run[r]'.text = run[r].text /\ run[r]'.status = run[r].status
  PROVE  LineInv'
BY DEF LineInv, Displayed, True

\* A message about run q says nothing of the others.
About(q, msg) ==
  msg \in Parcel /\ \A r \in Runs \ {q}, line \in Line : Received(r, line, msg) = line

LEMMA AllAreAbout ==
  ASSUME NEW q \in Runs
  PROVE  /\ About(q, Delta(q)) /\ About(q, Message(q)) /\ About(q, Step(q))
         /\ \A p \in Nat : About(q, PatchReady(q, p))
         /\ \A s \in Listed : About(q, RunUpdated(q, s))
         /\ \A v \in Verb : About(q, Refusal(v, q))
         /\ \A v \in Verb : \A row \in Row : About(q, ReplyTo(v, q, row))
BY ParcelsAre, ReceivedIs DEF About

LEMMA ToldOfOne ==
  ASSUME ViewTyped, LineInv, NEW q \in Runs, UNCHANGED <<list, live>>,
         \A r \in Runs \ {q} : True(r)' = True(r),
         NEW a, NEW b, NEW c, NEW d, About(q, a), About(q, b), About(q, c), About(q, d),
         LET la == Received(q, True(q), a)
             lb == Received(q, la, b)
             lc == Received(q, lb, c)
             ld == Received(q, lc, d)
         IN  \/ down' = down \o <<a>> /\ True(q)' = la
             \/ down' = down \o <<a, b>> /\ True(q)' = lb
             \/ down' = down \o <<a, b, c>> /\ True(q)' = lc
             \/ down' = down \o <<a, b, c, d>> /\ True(q)' = ld
  PROVE  LineInv'
<1>1. a \in Parcel /\ b \in Parcel /\ c \in Parcel /\ d \in Parcel
  BY DEF About
<1>2. Will(q, down', Displayed(q)', True(q)')
  BY <1>1, Told
<1>3. ASSUME NEW r \in Runs \ {q}
      PROVE  Will(r, down', Displayed(r)', True(r)')
  <2>1. True(r) \in Line /\ True(r)' = True(r)
    BY LinesAre
  <2>2. /\ Received(r, True(r), a) = True(r) /\ Received(r, True(r), b) = True(r)
        /\ Received(r, True(r), c) = True(r) /\ Received(r, True(r), d) = True(r)
    BY <2>1 DEF About
  <2>3. down' \in {down \o <<a>>, down \o <<a, b>>, down \o <<a, b, c>>, down \o <<a, b, c, d>>}
    OBVIOUS
  <2>. DEFINE la == Received(r, True(r), a)
              lb == Received(r, la, b)
              lc == Received(r, lb, c)
              ld == Received(r, lc, d)
  <2>4. la = True(r) /\ lb = True(r) /\ lc = True(r) /\ ld = True(r)
    BY <2>2
  <2>5. \/ down' = down \o <<a>> /\ True(r)' = la
        \/ down' = down \o <<a, b>> /\ True(r)' = lb
        \/ down' = down \o <<a, b, c>> /\ True(r)' = lc
        \/ down' = down \o <<a, b, c, d>> /\ True(r)' = ld
    BY <2>1, <2>3, <2>4
  <2>. QED  BY <1>1, <2>5, Told
<1>. QED  BY <1>2, <1>3, LinesNext

(***************************************************************************)
(* The steps of main.                                                      *)
(***************************************************************************)

LEMMA EmitIsTyped ==
  ASSUME down \in Seq(Parcel), NEW msgs \in Seq(Parcel), Emit(msgs)
  PROVE  down' \in Seq(Parcel) /\ down' = down \o msgs
BY DEF Emit

\* A step that changes one row and the messages it sends.
LEMMA RowChanges ==
  ASSUME ViewTyped, UNCHANGED <<active, detail, list, live>>,
         up' \in Seq(Order), down' \in Seq(Parcel),
         NEW q \in Runs, NEW row \in Row, run' = [run EXCEPT ![q] = row],
         row.text # 0 => row.status = "busy",
         row.parked => row.status = "waiting" /\ ~row.doomed
  PROVE  /\ ViewTyped'
         /\ True(q) = [live |-> run[q].text, shown |-> run[q].status]
         /\ True(q)' = [live |-> row.text, shown |-> row.status]
         /\ \A r \in Runs \ {q} : True(r)' = True(r)
<1>1. run \in [Runs -> Row] /\ run' \in [Runs -> Row] /\ run'[q] = row
  BY DEF ViewTyped, MainTyped
<1>2. \A r \in Runs \ {q} : run'[r] = run[r]
  BY <1>1
<1>3. MainTyped'
  BY <1>1, <1>2 DEF ViewTyped, MainTyped
<1>4. ViewTyped'
  BY <1>3 DEF ViewTyped, ChannelsTyped, ScreenTyped
<1>. QED  BY <1>1, <1>2, <1>4 DEF True

LEMMA RowIs ==
  ASSUME ViewTyped, NEW q \in Runs
  PROVE  /\ run[q] \in Row /\ run[q].text \in Nat /\ run[q].steps \in Nat /\ run[q].made \in Nat
         /\ run[q].status \in Listed
         /\ run[q].text # 0 => run[q].status = "busy"
         /\ run[q].parked => run[q].status = "waiting" /\ ~run[q].doomed
         /\ up \in Seq(Order) /\ down \in Seq(Parcel)
BY DEF ViewTyped, MainTyped, ChannelsTyped, Row

LEMMA StreamTells ==
  ASSUME ViewTyped, LineInv, NEW q \in Runs, Stream(q)
  PROVE  ViewTyped' /\ LineInv'
<1>. DEFINE row == [run[q] EXCEPT !.text = 1]
<1>1. /\ run' = [run EXCEPT ![q] = row] /\ run[q].text = 0 /\ run[q].status = "busy"
      /\ down' = down \o <<Delta(q)>> /\ UNCHANGED <<up, active, detail, list, live>>
  BY DEF Stream, LoopStep, Running, Looping, Emit
<1>2. row \in Row /\ row.text = 1 /\ row.status = "busy" /\ ~row.parked
  BY <1>1, RowIs DEF Row
<1>. HIDE DEF row
<1>3. up' \in Seq(Order) /\ down' \in Seq(Parcel)
  BY <1>1, ParcelsAre, RowIs
<1>4. /\ ViewTyped' /\ \A r \in Runs \ {q} : True(r)' = True(r)
      /\ True(q) = [live |-> 0, shown |-> "busy"] /\ True(q)' = [live |-> 1, shown |-> "busy"]
  BY <1>1, <1>2, <1>3, RowChanges
<1>5. True(q)' = Received(q, True(q), Delta(q))
  BY <1>4, LinesAre, ReceivedIs
<1>. QED  BY <1>1, <1>4, <1>5, AllAreAbout, ToldOfOne

LEMMA CommitTells ==
  ASSUME ViewTyped, LineInv, NEW q \in Runs, Commit(q)
  PROVE  ViewTyped' /\ LineInv'
<1>. DEFINE row == [run[q] EXCEPT !.text = 0, !.steps = @ + 1]
<1>1. /\ run' = [run EXCEPT ![q] = row] /\ run[q].status = "busy"
      /\ down' = down \o <<Message(q), RunUpdated(q, "busy")>>
      /\ UNCHANGED <<up, active, detail, list, live>>
  BY DEF Commit, LoopStep, Looping, Emit
<1>2. row \in Row /\ row.text = 0 /\ row.status = "busy" /\ ~row.parked
  <2>1. run[q] \in Row /\ run[q].steps + 1 \in Nat /\ ~run[q].parked
    BY <1>1, RowIs
  <2>. QED  BY <1>1, <2>1 DEF Row
<1>. HIDE DEF row
<1>3. up' \in Seq(Order) /\ down' \in Seq(Parcel)
  BY <1>1, ParcelsAre, RowIs DEF Listed
<1>4. /\ ViewTyped' /\ \A r \in Runs \ {q} : True(r)' = True(r)
      /\ True(q) = [live |-> run[q].text, shown |-> "busy"] /\ True(q)' = [live |-> 0, shown |-> "busy"]
  BY <1>1, <1>2, <1>3, RowChanges
<1>5. True(q)' = Received(q, Received(q, True(q), Message(q)), RunUpdated(q, "busy"))
  <2>1. Received(q, True(q), Message(q)) = [live |-> 0, shown |-> "busy"]
    BY <1>4, LinesAre, ReceivedIs
  <2>2. [live |-> 0, shown |-> "busy"] \in Line
    BY DEF Line, Listed
  <2>. QED  BY <1>4, <2>1, <2>2, ReceivedIs
<1>. QED  BY <1>1, <1>4, <1>5, AllAreAbout, ToldOfOne DEF Listed

LEMMA CommitNothingTells ==
  ASSUME ViewTyped, LineInv, NEW q \in Runs, CommitNothing(q)
  PROVE  ViewTyped' /\ LineInv'
<1>. DEFINE row == run[q]
<1>1. /\ run' = run /\ run[q].status = "busy" /\ run[q].text = 0
      /\ down' = down \o <<RunUpdated(q, "busy")>>
      /\ UNCHANGED <<up, active, detail, list, live>>
  BY DEF CommitNothing, LoopStep, Looping, Emit
<1>2. run' = [run EXCEPT ![q] = row]
  BY <1>1 DEF ViewTyped, MainTyped
<1>3. row \in Row /\ row.text = 0 /\ row.status = "busy" /\ ~row.parked
  BY <1>1, RowIs
<1>. HIDE DEF row
<1>4. up' \in Seq(Order) /\ down' \in Seq(Parcel) /\ About(q, RunUpdated(q, "busy"))
  BY <1>1, ParcelsAre, AllAreAbout, RowIs DEF Listed
<1>5. /\ ViewTyped' /\ \A r \in Runs \ {q} : True(r)' = True(r)
      /\ True(q) = [live |-> 0, shown |-> "busy"] /\ True(q)' = [live |-> 0, shown |-> "busy"]
  BY <1>1, <1>2, <1>3, <1>4, RowChanges
<1>6. True(q)' = Received(q, True(q), RunUpdated(q, "busy"))
  BY <1>5, LinesAre, ReceivedIs
<1>. QED  BY <1>1, <1>4, <1>5, <1>6, ToldOfOne

LEMMA WorkTells ==
  ASSUME ViewTyped, LineInv, NEW q \in Runs, Work(q)
  PROVE  ViewTyped' /\ LineInv'
<1>. DEFINE row == [run[q] EXCEPT !.steps = @ + 1]
<1>1. /\ run' = [run EXCEPT ![q] = row] /\ run[q].status = "busy" /\ run[q].text = 0
      /\ down' = down \o <<Step(q)>> /\ UNCHANGED <<up, active, detail, list, live>>
  BY DEF Work, LoopStep, Looping, Emit
<1>2. row \in Row /\ row.text = 0 /\ row.status = "busy" /\ ~row.parked
  <2>1. run[q] \in Row /\ run[q].steps + 1 \in Nat /\ ~run[q].parked
    BY <1>1, RowIs
  <2>. QED  BY <1>1, <2>1 DEF Row
<1>. HIDE DEF row
<1>3. up' \in Seq(Order) /\ down' \in Seq(Parcel)
  BY <1>1, ParcelsAre, RowIs
<1>4. /\ ViewTyped' /\ \A r \in Runs \ {q} : True(r)' = True(r)
      /\ True(q) = [live |-> 0, shown |-> "busy"] /\ True(q)' = [live |-> 0, shown |-> "busy"]
  BY <1>1, <1>2, <1>3, RowChanges
<1>5. True(q)' = Received(q, True(q), Step(q))
  BY <1>4, LinesAre, ReceivedIs
<1>. QED  BY <1>1, <1>4, <1>5, AllAreAbout, ToldOfOne

LEMMA ParkTells ==
  ASSUME ViewTyped, LineInv, NEW q \in Runs, Park(q)
  PROVE  ViewTyped' /\ LineInv'
<1>. DEFINE row == [run[q] EXCEPT !.status = "waiting", !.steps = @ + 1, !.made = @ + 1,
                                  !.pending = TRUE, !.parked = TRUE]
            patch == PatchReady(q, run[q].made + 1)
<1>1. /\ run' = [run EXCEPT ![q] = row]
      /\ run[q].status = "busy" /\ run[q].text = 0 /\ ~run[q].doomed
      /\ down' = down \o <<Step(q), patch, RunUpdated(q, "waiting")>>
      /\ UNCHANGED <<up, active, detail, list, live>>
  BY DEF Park, LoopStep, Looping, Running, Emit
<1>2. row \in Row /\ row.text = 0 /\ row.status = "waiting" /\ ~row.doomed
  <2>1. run[q] \in Row /\ run[q].steps + 1 \in Nat /\ run[q].made + 1 \in Nat
    BY <1>1, RowIs
  <2>. QED  BY <1>1, <2>1 DEF Row, Listed
<1>. HIDE DEF row
<1>3. /\ up' \in Seq(Order) /\ down' \in Seq(Parcel)
      /\ About(q, Step(q)) /\ About(q, patch) /\ About(q, RunUpdated(q, "waiting"))
  BY <1>1, ParcelsAre, AllAreAbout, RowIs DEF Listed
<1>4. /\ ViewTyped' /\ \A r \in Runs \ {q} : True(r)' = True(r)
      /\ True(q) = [live |-> 0, shown |-> "busy"]
      /\ True(q)' = [live |-> 0, shown |-> "waiting"]
  BY <1>1, <1>2, <1>3, RowChanges
<1>5. True(q)' = Received(q, Received(q, Received(q, True(q), Step(q)), patch),
                          RunUpdated(q, "waiting"))
  <2>1. True(q) = Received(q, Received(q, True(q), Step(q)), patch)
    BY <1>1, RowIs, LinesAre, ReceivedIs
  <2>2. Received(q, True(q), RunUpdated(q, "waiting")) = [live |-> 0, shown |-> "waiting"]
    BY <1>4, LinesAre, ReceivedIs
  <2>. QED  BY <1>4, <2>1, <2>2
<1>. HIDE DEF patch
<1>. QED  BY <1>1, <1>3, <1>4, <1>5, ToldOfOne

LEMMA EndTells ==
  ASSUME ViewTyped, LineInv, NEW q \in Runs, End(q)
  PROVE  ViewTyped' /\ LineInv'
<1>. DEFINE row == [run[q] EXCEPT !.status = "ended", !.pending = FALSE, !.doomed = FALSE,
                                  !.text = 0]
<1>1. /\ run' = [run EXCEPT ![q] = row]
      /\ run[q].status = "busy" \/ (run[q].status = "waiting" /\ run[q].doomed)
      /\ down' = down \o <<RunUpdated(q, "ended")>>
      /\ UNCHANGED <<up, active, detail, list, live>>
  BY DEF End, LoopStep, Emit
<1>2. row \in Row /\ row.text = 0 /\ row.status = "ended" /\ ~row.parked
  <2>1. run[q] \in Row /\ ~run[q].parked
    BY <1>1, RowIs
  <2>. QED  BY <2>1 DEF Row, Listed
<1>. HIDE DEF row
<1>3. /\ up' \in Seq(Order) /\ down' \in Seq(Parcel) /\ About(q, RunUpdated(q, "ended"))
  BY <1>1, ParcelsAre, AllAreAbout, RowIs DEF Listed
<1>4. /\ ViewTyped' /\ \A r \in Runs \ {q} : True(r)' = True(r)
      /\ True(q)' = [live |-> 0, shown |-> "ended"]
  BY <1>1, <1>2, <1>3, RowChanges
<1>5. True(q)' = Received(q, True(q), RunUpdated(q, "ended"))
  BY <1>4, LinesAre, ReceivedIs
<1>. QED  BY <1>1, <1>3, <1>4, <1>5, ToldOfOne

\* A reply that tells no more than is true.
LEMMA ReplyIsTrue ==
  ASSUME ViewTyped, NEW q \in Runs, NEW v \in Verb, NEW row \in Row, NEW line \in Line,
         row.status = line.shown
  PROVE  Received(q, line, ReplyTo(v, q, row)) = line
BY ReceivedIs DEF Line

LEMMA LoopReachedTells ==
  ASSUME ViewTyped, LineInv, NEW q \in Runs, LoopReached(q)
  PROVE  ViewTyped' /\ LineInv'
<1>. DEFINE row == [run[q] EXCEPT !.launching = FALSE]
            reply == ReplyTo("task", q, run[q])
<1>1. /\ run' = [run EXCEPT ![q] = row] /\ down' = down \o <<reply>>
      /\ UNCHANGED <<up, active, detail, list, live>>
  BY DEF LoopReached, LoopStep, Emit
<1>2. /\ row \in Row /\ row.text = run[q].text /\ row.status = run[q].status
      /\ row.parked = run[q].parked /\ row.doomed = run[q].doomed
  BY RowIs DEF Row
<1>. HIDE DEF row
<1>3. /\ up' \in Seq(Order) /\ down' \in Seq(Parcel) /\ About(q, reply)
  BY <1>1, ParcelsAre, AllAreAbout, RowIs DEF Verb
<1>4. /\ ViewTyped' /\ \A r \in Runs \ {q} : True(r)' = True(r)
      /\ True(q)' = True(q) /\ True(q).shown = run[q].status
  <2>1. /\ ViewTyped' /\ \A r \in Runs \ {q} : True(r)' = True(r)
        /\ True(q) = [live |-> run[q].text, shown |-> run[q].status]
        /\ True(q)' = [live |-> row.text, shown |-> row.status]
    BY <1>1, <1>2, <1>3, RowIs, RowChanges
  <2>. QED  BY <1>2, <2>1
<1>5. True(q)' = Received(q, True(q), reply)
  BY <1>4, LinesAre, RowIs, ReplyIsTrue DEF Verb
<1>. HIDE DEF reply
<1>. QED  BY <1>1, <1>3, <1>4, <1>5, ToldOfOne

(***************************************************************************)
(* The handlers of main.                                                   *)
(***************************************************************************)

\* A request names a run, but for the one that asks for a new one.
LEMMA TakenIs ==
  ASSUME ViewTyped, NEW v \in Verb, Takes(v)
  PROVE  up' \in Seq(Order) /\ (v # "task" => Asked \in Runs)
<1>1. up \in Seq(Order) /\ up # <<>> /\ up' = Tail(up) /\ Head(up).verb = v
  BY DEF ViewTyped, ChannelsTyped, Takes
<1>2. Head(up) \in Order /\ up' \in Seq(Order)
  BY <1>1
<1>. QED  BY <1>1, <1>2 DEF Asked, Order

\* A handler that answers and changes nothing that is shown.
LEMMA AnswerTells ==
  ASSUME ViewTyped, LineInv, NEW q \in Runs, NEW row \in Row, NEW msg,
         run' = [run EXCEPT ![q] = row], down' = down \o <<msg>>, up' \in Seq(Order),
         UNCHANGED <<active, detail, list, live>>,
         row.text = run[q].text, row.status = run[q].status,
         row.parked => run[q].parked /\ ~row.doomed,
         \/ \E v \in Verb, said \in Row : msg = ReplyTo(v, q, said) /\ said.status = run[q].status
         \/ \E v \in Verb : msg = Refusal(v, q)
  PROVE  ViewTyped' /\ LineInv'
<1>1. About(q, msg)
  BY AllAreAbout
<1>2. down' \in Seq(Parcel)
  BY <1>1, RowIs DEF About
<1>3. /\ ViewTyped' /\ \A r \in Runs \ {q} : True(r)' = True(r)
      /\ True(q) = [live |-> run[q].text, shown |-> run[q].status]
      /\ True(q)' = [live |-> row.text, shown |-> row.status]
  BY <1>2, RowIs, RowChanges
<1>4. True(q)' = True(q) /\ True(q).shown = run[q].status
  BY <1>3
<1>5. True(q)' = Received(q, True(q), msg)
  BY <1>4, LinesAre, ReplyIsTrue, ReceivedIs
<1>. HIDE DEF True
<1>. QED  BY <1>1, <1>3, <1>4, <1>5, ToldOfOne

LEMMA SameRow ==
  ASSUME ViewTyped, NEW q \in Runs
  PROVE  run = [run EXCEPT ![q] = run[q]]
BY DEF ViewTyped, MainTyped

LEMMA GetTells ==
  ASSUME ViewTyped, LineInv, HandleGet
  PROVE  ViewTyped' /\ LineInv'
<1>1. up' \in Seq(Order) /\ Asked \in Runs
  BY TakenIs DEF HandleGet, Verb
<1>2. /\ run' = run /\ down' = down \o <<ReplyTo("get", Asked, run[Asked])>>
      /\ UNCHANGED <<active, detail, list, live>>
  BY DEF HandleGet, Emit, Untouched
<1>3. run[Asked] \in Row /\ (run[Asked].parked => ~run[Asked].doomed) /\ "get" \in Verb
  BY <1>1, RowIs DEF Verb
<1>. HIDE DEF Asked
<1>. QED  BY <1>1, <1>2, <1>3, SameRow, AnswerTells

LEMMA StopTells ==
  ASSUME ViewTyped, LineInv, HandleStop
  PROVE  ViewTyped' /\ LineInv'
<1>. DEFINE row == [run[Asked] EXCEPT !.parked = FALSE,
                                      !.doomed = @ \/ run[Asked].status # "ended"]
<1>1. up' \in Seq(Order) /\ Asked \in Runs
  BY TakenIs DEF HandleStop, Verb
<1>2. /\ run' = [run EXCEPT ![Asked] = row]
      /\ down' = down \o <<ReplyTo("stop", Asked, run[Asked])>>
      /\ UNCHANGED <<active, detail, list, live>>
  BY DEF HandleStop, Emit, Untouched
<1>3. run[Asked] \in Row /\ "stop" \in Verb
  BY <1>1, RowIs DEF Verb
<1>4. /\ row \in Row /\ row.text = run[Asked].text /\ row.status = run[Asked].status
      /\ ~row.parked
  BY <1>3 DEF Row
<1>. HIDE DEF Asked, row
<1>. QED  BY <1>1, <1>2, <1>3, <1>4, AnswerTells

LEMMA TaskTells ==
  ASSUME ViewTyped, LineInv, HandleTask
  PROVE  ViewTyped' /\ LineInv'
<1>1. up' \in Seq(Order) /\ UNCHANGED <<active, detail, list, live>>
  BY TakenIs DEF HandleTask, Verb, Untouched
<1>2. PICK q \in Runs :
        /\ run[q].status = "absent"
        /\ run' = [run EXCEPT ![q].status = "busy", ![q].steps = 1, ![q].launching = TRUE]
        /\ down' = down \o <<Message(q), RunUpdated(q, "busy")>>
  BY DEF HandleTask, Emit
<1>. DEFINE row == [run[q] EXCEPT !.status = "busy", !.steps = 1, !.launching = TRUE]
<1>3. run' = [run EXCEPT ![q] = row]
  BY <1>2
<1>4. row \in Row /\ row.text = 0 /\ row.status = "busy" /\ ~row.parked
  <2>1. run[q] \in Row /\ ~run[q].parked /\ run[q].text = 0
    BY <1>2, RowIs
  <2>. QED  BY <2>1 DEF Row, Listed
<1>. HIDE DEF row
<1>5. /\ down' \in Seq(Parcel)
      /\ About(q, Message(q)) /\ About(q, RunUpdated(q, "busy"))
  BY <1>2, ParcelsAre, AllAreAbout, RowIs DEF Listed
<1>6. /\ ViewTyped' /\ \A r \in Runs \ {q} : True(r)' = True(r)
      /\ True(q) = [live |-> 0, shown |-> "absent"]
      /\ True(q)' = [live |-> 0, shown |-> "busy"]
  <2>1. run[q].text = 0
    BY <1>2, RowIs
  <2>2. /\ ViewTyped' /\ \A r \in Runs \ {q} : True(r)' = True(r)
        /\ True(q) = [live |-> run[q].text, shown |-> run[q].status]
        /\ True(q)' = [live |-> row.text, shown |-> row.status]
    BY <1>1, <1>3, <1>4, <1>5, RowChanges
  <2>. QED  BY <1>2, <1>4, <2>1, <2>2
<1>7. True(q)' = Received(q, Received(q, True(q), Message(q)), RunUpdated(q, "busy"))
  <2>1. Received(q, True(q), Message(q)) = True(q)
    BY <1>6, LinesAre, ReceivedIs
  <2>2. Received(q, True(q), RunUpdated(q, "busy")) = True(q)'
    BY <1>6, LinesAre, ReceivedIs
  <2>. QED  BY <2>1, <2>2
<1>. QED  BY <1>1, <1>2, <1>5, <1>6, <1>7, ToldOfOne

LEMMA ContinueTells ==
  ASSUME ViewTyped, LineInv, HandleContinue
  PROVE  ViewTyped' /\ LineInv'
<1>0. PICK q \in Runs : q = Asked
  BY TakenIs DEF HandleContinue, Verb
<1>. DEFINE row == [run[q] EXCEPT !.status = "busy", !.steps = @ + 1]
            reply == ReplyTo("continue", q, row)
<1>1. /\ up' \in Seq(Order) /\ UNCHANGED <<active, detail, list, live>>
      /\ q \in Runs /\ run[q] \in Row
  BY <1>0, TakenIs, RowIs DEF HandleContinue, Verb, Untouched
<1>2. ASSUME run[q].status # "ended"
      PROVE  ViewTyped' /\ LineInv'
  <2>1. run' = run /\ down' = down \o <<Refusal("continue", q)>> /\ "continue" \in Verb
    BY <1>0, <1>2 DEF HandleContinue, Emit, Verb
  <2>2. run[q].parked => ~run[q].doomed
    BY <1>1, RowIs
  <2>. QED  BY <1>1, <2>1, <2>2, SameRow, AnswerTells
<1>3. ASSUME run[q].status = "ended"
      PROVE  ViewTyped' /\ LineInv'
  <2>1. run' = [run EXCEPT ![q] = row] /\ run'[q] = row
    BY <1>0, <1>1, <1>3 DEF HandleContinue, ViewTyped, MainTyped
  <2>2. down' = down \o <<RunUpdated(q, "busy"), Message(q), reply>>
    BY <1>0, <1>3, <2>1 DEF HandleContinue, Emit
  <2>3. row \in Row /\ row.text = 0 /\ row.status = "busy" /\ ~row.parked
    <3>1. run[q].steps + 1 \in Nat /\ ~run[q].parked /\ run[q].text = 0
      BY <1>1, <1>3, RowIs
    <3>. QED  BY <1>1, <3>1 DEF Row, Listed
  <2>. HIDE DEF row
  <2>4. About(q, Message(q)) /\ About(q, RunUpdated(q, "busy")) /\ About(q, reply)
    BY <1>1, <2>3, AllAreAbout DEF Listed, Verb
  <2>5. down' \in Seq(Parcel)
    BY <1>1, <2>2, <2>4, RowIs DEF About
  <2>6. /\ ViewTyped' /\ \A r \in Runs \ {q} : True(r)' = True(r)
        /\ True(q) = [live |-> 0, shown |-> "ended"]
        /\ True(q)' = [live |-> 0, shown |-> "busy"]
    <3>1. run[q].text = 0
      BY <1>1, <1>3, RowIs
    <3>2. /\ ViewTyped' /\ \A r \in Runs \ {q} : True(r)' = True(r)
          /\ True(q) = [live |-> run[q].text, shown |-> run[q].status]
          /\ True(q)' = [live |-> row.text, shown |-> row.status]
      BY <1>1, <2>1, <2>3, <2>5, RowChanges
    <3>. QED  BY <1>3, <2>3, <3>1, <3>2
  <2>7. Received(q, True(q), RunUpdated(q, "busy")) = True(q)'
    BY <1>1, <2>6, LinesAre, ReceivedIs
  <2>8. True(q)' \in Line
    BY <2>6 DEF Line, Listed
  <2>9. Received(q, True(q)', Message(q)) = True(q)'
    BY <1>1, <2>6, <2>8, ReceivedIs
  <2>10. Received(q, True(q)', reply) = True(q)'
    <3>1. row.status = True(q)'.shown
      BY <2>3, <2>6
    <3>. QED  BY <1>1, <2>3, <2>8, <3>1, ReplyIsTrue DEF Verb
  <2>11. True(q)' = Received(q, Received(q, Received(q, True(q), RunUpdated(q, "busy")),
                                         Message(q)), reply)
    BY <2>7, <2>9, <2>10
  <2>. HIDE DEF reply
  <2>. QED  BY <1>1, <2>2, <2>4, <2>6, <2>11, ToldOfOne
<1>. QED  BY <1>2, <1>3

LEMMA ApplyTells ==
  ASSUME ViewTyped, LineInv, HandleApply
  PROVE  ViewTyped' /\ LineInv'
<1>0. PICK q \in Runs : q = Asked
  BY TakenIs DEF HandleApply, Verb
<1>. DEFINE done == Approved(run[q])
            more == [done EXCEPT !.steps = @ + 1]
            reply == ReplyTo("apply", q, done)
<1>1. /\ up' \in Seq(Order) /\ UNCHANGED <<active, detail, list, live>>
      /\ q \in Runs /\ run[q] \in Row
  BY <1>0, TakenIs, RowIs DEF HandleApply, Verb, Untouched
<1>2. ASSUME ~run[q].parked
      PROVE  ViewTyped' /\ LineInv'
  <2>1. /\ run' = run
        /\ \/ down' = down \o <<ReplyTo("apply", q, run[q])>>
           \/ down' = down \o <<Refusal("apply", q)>>
    BY <1>0, <1>2 DEF HandleApply, Emit
  <2>. QED  BY <1>1, <1>2, <2>1, SameRow, AnswerTells DEF Verb
<1>3. ASSUME run[q].parked
      PROVE  ViewTyped' /\ LineInv'
  <2>1. \/ /\ run' = [run EXCEPT ![q] = done]
           /\ down' = down \o <<Message(q), RunUpdated(q, "busy"), reply>>
        \/ /\ run' = [run EXCEPT ![q] = more]
           /\ down' = down \o <<Message(q), RunUpdated(q, "busy"), Step(q), reply>>
    BY <1>0, <1>3 DEF HandleApply, Emit
  <2>2. run[q].text = 0 /\ run[q].status = "waiting" /\ run[q].steps + 1 \in Nat
    BY <1>3, RowIs
  <2>3. done \in Row /\ done.text = 0 /\ done.status = "busy" /\ ~done.parked
    BY <1>1, <2>2 DEF Approved, Row, Listed
  <2>. HIDE DEF done
  <2>4. more \in Row /\ more.text = 0 /\ more.status = "busy" /\ ~more.parked
    BY <2>3 DEF Row
  <2>. HIDE DEF more
  <2>5. /\ About(q, Message(q)) /\ About(q, RunUpdated(q, "busy")) /\ About(q, Step(q))
        /\ About(q, reply)
    BY <2>3, AllAreAbout DEF Listed, Verb
  <2>. DEFINE short == down \o <<Message(q), RunUpdated(q, "busy"), reply>>
              long == down \o <<Message(q), RunUpdated(q, "busy"), Step(q), reply>>
  <2>6. down' = short \/ down' = long
    BY <2>1
  <2>7. down' \in Seq(Parcel)
    <3>1. short \in Seq(Parcel)
      BY <2>5, RowIs DEF About
    <3>2. long \in Seq(Parcel)
      BY <2>5, RowIs DEF About
    <3>. QED  BY <2>6, <3>1, <3>2
  <2>8. PICK row \in {done, more} : run' = [run EXCEPT ![q] = row]
    BY <2>1
  <2>9. /\ ViewTyped' /\ \A r \in Runs \ {q} : True(r)' = True(r)
        /\ True(q) = [live |-> run[q].text, shown |-> run[q].status]
        /\ True(q)' = [live |-> row.text, shown |-> row.status]
    BY <1>1, <2>3, <2>4, <2>7, <2>8, RowChanges
  <2>10. /\ True(q) = [live |-> 0, shown |-> "waiting"]
         /\ True(q)' = [live |-> 0, shown |-> "busy"]
    BY <2>2, <2>3, <2>4, <2>9
  <2>11. Received(q, True(q), Message(q)) = True(q)
    BY <2>10, LinesAre, ReceivedIs
  <2>12. Received(q, True(q), RunUpdated(q, "busy")) = True(q)'
    BY <2>10, LinesAre, ReceivedIs
  <2>13. True(q)' \in Line
    BY <2>10 DEF Line, Listed
  <2>14. Received(q, True(q)', Step(q)) = True(q)'
    BY <2>13, ReceivedIs
  <2>15. Received(q, True(q)', reply) = True(q)'
    <3>1. done.status = True(q)'.shown
      BY <2>3, <2>10
    <3>. QED  BY <1>1, <2>3, <2>13, <3>1, ReplyIsTrue DEF Verb
  <2>. DEFINE after == Received(q, Received(q, True(q), Message(q)), RunUpdated(q, "busy"))
  <2>16. /\ True(q)' = Received(q, after, reply)
         /\ True(q)' = Received(q, Received(q, after, Step(q)), reply)
    BY <2>11, <2>12, <2>14, <2>15
  <2>. HIDE DEF reply
  <2>. QED  BY <1>1, <2>5, <2>6, <2>9, <2>16, ToldOfOne
<1>. QED  BY <1>2, <1>3

LEMMA RejectTells ==
  ASSUME ViewTyped, LineInv, HandleReject
  PROVE  ViewTyped' /\ LineInv'
<1>0. PICK q \in Runs : q = Asked
  BY TakenIs DEF HandleReject, Verb
<1>. DEFINE parked == [run[q] EXCEPT !.steps = @ + 1, !.pending = FALSE,
                                     !.parked = FALSE, !.doomed = TRUE]
            unheard == [run[q] EXCEPT !.pending = FALSE]
            quiet == [run[q] EXCEPT !.steps = @ + 1, !.pending = FALSE, !.status = "ended"]
<1>1. /\ up' \in Seq(Order) /\ UNCHANGED <<active, detail, list, live>>
      /\ q \in Runs /\ run[q] \in Row /\ run[q].steps + 1 \in Nat
  BY <1>0, TakenIs, RowIs DEF HandleReject, Verb, Untouched
<1>2. ASSUME run[q].parked
      PROVE  ViewTyped' /\ LineInv'
  <2>. DEFINE reply == ReplyTo("reject", q, parked)
  <2>1. run[q].text = 0 /\ run[q].status = "waiting"
    BY <1>2, RowIs
  <2>2. run' = [run EXCEPT ![q] = parked] /\ down' = down \o <<Message(q), reply>>
    BY <1>0, <1>2, <2>1 DEF HandleReject, Emit
  <2>3. parked \in Row /\ parked.text = 0 /\ parked.status = "waiting" /\ ~parked.parked
    BY <1>1, <2>1 DEF Row
  <2>. HIDE DEF parked
  <2>4. About(q, Message(q)) /\ About(q, reply)
    BY <2>3, AllAreAbout DEF Verb
  <2>5. down' \in Seq(Parcel)
    BY <1>1, <2>2, <2>4, RowIs DEF About
  <2>6. /\ ViewTyped' /\ \A r \in Runs \ {q} : True(r)' = True(r)
        /\ True(q) = [live |-> run[q].text, shown |-> run[q].status]
        /\ True(q)' = [live |-> parked.text, shown |-> parked.status]
    BY <1>1, <2>2, <2>3, <2>5, RowChanges
  <2>7. True(q) = [live |-> 0, shown |-> "waiting"] /\ True(q)' = True(q)
    BY <2>1, <2>3, <2>6
  <2>8. Received(q, True(q), Message(q)) = True(q)
    BY <2>7, LinesAre, ReceivedIs
  <2>9. Received(q, True(q), reply) = True(q)
    <3>1. parked.status = True(q).shown
      BY <2>3, <2>7
    <3>. QED  BY <2>3, <3>1, LinesAre, ReplyIsTrue DEF Verb
  <2>10. True(q)' = Received(q, Received(q, True(q), Message(q)), reply)
    BY <2>7, <2>8, <2>9
  <2>. HIDE DEF reply
  <2>. QED  BY <1>1, <2>2, <2>4, <2>6, <2>10, ToldOfOne
<1>3. ASSUME ~run[q].parked, run[q].status = "busy"
      PROVE  ViewTyped' /\ LineInv'
  <2>1. run' = [run EXCEPT ![q] = unheard]
    BY <1>0, <1>3 DEF HandleReject
  <2>2. run'[q] = unheard /\ down' = down \o <<ReplyTo("reject", q, run'[q])>>
    BY <1>0, <1>3, <2>1 DEF HandleReject, Emit, ViewTyped, MainTyped
  <2>3. /\ unheard \in Row /\ unheard.text = run[q].text /\ unheard.status = run[q].status
        /\ ~unheard.parked
    BY <1>1, <1>3 DEF Row
  <2>. HIDE DEF unheard
  <2>. QED  BY <1>1, <2>1, <2>2, <2>3, AnswerTells DEF Verb
<1>4. ASSUME ~run[q].parked, run[q].status # "busy"
      PROVE  ViewTyped' /\ LineInv'
  <2>. DEFINE reply == ReplyTo("reject", q, quiet)
  <2>1. /\ run' = [run EXCEPT ![q] = quiet]
        /\ down' = down \o <<Message(q), RunUpdated(q, "ended"), reply>>
    BY <1>0, <1>4 DEF HandleReject, Emit
  <2>2. run[q].text = 0
    BY <1>4, RowIs
  <2>3. quiet \in Row /\ quiet.text = 0 /\ quiet.status = "ended" /\ ~quiet.parked
    BY <1>1, <1>4, <2>2 DEF Row, Listed
  <2>. HIDE DEF quiet
  <2>4. About(q, Message(q)) /\ About(q, RunUpdated(q, "ended")) /\ About(q, reply)
    BY <2>3, AllAreAbout DEF Verb, Listed
  <2>5. down' \in Seq(Parcel)
    BY <1>1, <2>1, <2>4, RowIs DEF About
  <2>6. /\ ViewTyped' /\ \A r \in Runs \ {q} : True(r)' = True(r)
        /\ True(q) = [live |-> run[q].text, shown |-> run[q].status]
        /\ True(q)' = [live |-> quiet.text, shown |-> quiet.status]
    BY <1>1, <2>1, <2>3, <2>5, RowChanges
  <2>7. True(q)' = [live |-> 0, shown |-> "ended"] /\ True(q) = [live |-> 0, shown |-> run[q].status]
    BY <2>2, <2>3, <2>6
  <2>8. Received(q, True(q), Message(q)) = True(q)
    BY <2>7, LinesAre, ReceivedIs
  <2>9. Received(q, True(q), RunUpdated(q, "ended")) = True(q)'
    BY <2>7, LinesAre, ReceivedIs
  <2>10. Received(q, True(q)', reply) = True(q)'
    <3>1. quiet.status = True(q)'.shown /\ True(q)' \in Line
      BY <2>3, <2>7 DEF Line, Listed
    <3>. QED  BY <1>1, <2>3, <3>1, ReplyIsTrue DEF Verb
  <2>11. True(q)' = Received(q, Received(q, Received(q, True(q), Message(q)),
                                         RunUpdated(q, "ended")), reply)
    BY <2>8, <2>9, <2>10
  <2>. HIDE DEF reply
  <2>. QED  BY <1>1, <2>1, <2>4, <2>6, <2>11, ToldOfOne
<1>. QED  BY <1>2, <1>3, <1>4

(***************************************************************************)
(* What the user does, and what the renderer does with a message.          *)
(***************************************************************************)

LEMMA Unmoved ==
  ASSUME ViewTyped, LineInv, UNCHANGED <<run, down, list, live>>, up' \in Seq(Order),
         active' \in Runs \cup {NoRun}, detail' \in RunDetail \cup {NoDetail}
  PROVE  ViewTyped' /\ LineInv'
<1>1. ViewTyped'
  BY DEF ViewTyped, MainTyped, ChannelsTyped, ScreenTyped
<1>2. LineInv'
  BY NothingToTell
<1>. QED  BY <1>1, <1>2

LEMMA RequestIs ==
  ASSUME ViewTyped, NEW v, NEW r, Request(v, r), [verb |-> v, run |-> r] \in Order
  PROVE  up' \in Seq(Order) /\ UNCHANGED <<run, down, list, live>>
BY DEF ViewTyped, ChannelsTyped, Request

LEMMA UserTells ==
  ASSUME ViewTyped, LineInv,
         \/ \E r \in Runs : SelectRun(r)
         \/ NewRun \/ Submit \/ Apply \/ Reject \/ Stop \/ ToggleSheet
  PROVE  ViewTyped' /\ LineInv'
<1>1. /\ up \in Seq(Order) /\ active \in Runs \cup {NoRun}
      /\ detail \in RunDetail \cup {NoDetail}
  BY DEF ViewTyped, ChannelsTyped, ScreenTyped
<1>2. ASSUME NEW r \in Runs, SelectRun(r)
      PROVE  ViewTyped' /\ LineInv'
  <2>1. Request("get", r) /\ active' = r /\ detail' = detail
    BY <1>2 DEF SelectRun
  <2>2. [verb |-> "get", run |-> r] \in Order
    BY DEF Order, Verb
  <2>. QED  BY <1>1, <2>1, <2>2, RequestIs, Unmoved
<1>3. ASSUME NewRun
      PROVE  ViewTyped' /\ LineInv'
  BY <1>1, <1>3, Unmoved DEF NewRun
<1>4. ASSUME Submit
      PROVE  ViewTyped' /\ LineInv'
  <2>1. UNCHANGED <<active, detail>>
    BY <1>4 DEF Submit
  <2>2. CASE Request("continue", detail.run) /\ detail # NoDetail
    <3>1. [verb |-> "continue", run |-> detail.run] \in Order
      BY <1>1, <2>2 DEF Order, Verb, RunDetail
    <3>. QED  BY <1>1, <2>1, <2>2, <3>1, RequestIs, Unmoved
  <2>3. CASE Request("task", NoRun)
    <3>1. [verb |-> "task", run |-> NoRun] \in Order
      BY DEF Order
    <3>. QED  BY <1>1, <2>1, <2>3, <3>1, RequestIs, Unmoved
  <2>. QED  BY <1>4, <2>2, <2>3 DEF Submit
<1>5. ASSUME NEW v \in Verb \ {"task"}, Act(v)
      PROVE  ViewTyped' /\ LineInv'
  <2>1. Request(v, active) /\ active \in Runs /\ UNCHANGED <<active, detail>>
    BY <1>1, <1>5 DEF Act
  <2>2. [verb |-> v, run |-> active] \in Order
    BY <2>1 DEF Order
  <2>. QED  BY <1>1, <2>1, <2>2, RequestIs, Unmoved
<1>6. ASSUME ToggleSheet
      PROVE  ViewTyped' /\ LineInv'
  BY <1>1, <1>6, Unmoved DEF ToggleSheet
<1>. QED  BY <1>2, <1>3, <1>4, <1>5, <1>6 DEF Apply, Reject, Stop, Verb

\* A message that is applied as Received says.
LEMMA Arrives ==
  ASSUME ViewTyped, LineInv, down # <<>>, down' = Tail(down), UNCHANGED run,
         \A r \in Runs : Displayed(r)' = Received(r, Displayed(r), Head(down))
  PROVE  LineInv'
<1>1. down \in Seq(Parcel)
  BY DEF ViewTyped, ChannelsTyped
<1>2. ASSUME NEW r \in Runs
      PROVE  Will(r, down', Displayed(r)', True(r)')
  <2>1. Will(r, down, Displayed(r), True(r)) /\ True(r)' = True(r)
    BY DEF LineInv, True
  <2>. HIDE DEF Displayed, True
  <2>. QED  BY <1>1, <2>1, FirstArrives
<1>. QED  BY <1>2, LinesNext

LEMMA ReducedIs ==
  ASSUME NEW d \in RunDetail \cup {NoDetail}, NEW msg \in Parcel, msg.kind \notin {"reply", "refusal"}
  PROVE  Reduce(d, msg) \in RunDetail \cup {NoDetail}
<1>1. CASE msg.kind = "run"
  <2>1. msg.run \in Runs /\ msg.status \in Listed
    BY <1>1 DEF Parcel
  <2>2. \/ Reduce(d, msg) = [NoDetail EXCEPT !.run = msg.run, !.status = msg.status]
        \/ Reduce(d, msg) = [d EXCEPT !.status = msg.status] /\ d.run = msg.run
        \/ Reduce(d, msg) = d
    BY <1>1 DEF Reduce
  <2>3. [NoDetail EXCEPT !.run = msg.run, !.status = msg.status] \in RunDetail
    BY <2>1 DEF NoDetail, NoPatch, RunDetail
  <2>4. d.run = msg.run => d \in RunDetail
    BY <2>1 DEF NoDetail, NoRun, Runs
  <2>5. d \in RunDetail => [d EXCEPT !.status = msg.status] \in RunDetail
    BY <2>1 DEF RunDetail
  <2>. QED  BY <2>2, <2>3, <2>4, <2>5
<1>2. CASE msg.kind = "patch"
  <2>1. msg.run \in Runs /\ msg.patch \in Nat
    BY <1>2 DEF Parcel
  <2>. QED  BY <1>2, <2>1 DEF Reduce, RunDetail, NoDetail, NoRun, Runs
<1>3. CASE msg.kind \in {"step", "message", "delta"}
  <2>1. msg.run \in Runs
    BY <1>3 DEF Parcel
  <2>. QED  BY <1>3, <2>1 DEF Reduce, RunDetail, NoDetail, NoRun, Runs
<1>. QED  BY <1>1, <1>2, <1>3 DEF Parcel

LEMMA HeadIs ==
  ASSUME ViewTyped, down # <<>>
  PROVE  Head(down) \in Parcel /\ Tail(down) \in Seq(Parcel)
<1>1. down \in Seq(Parcel)
  BY DEF ViewTyped, ChannelsTyped
<1>. QED  BY <1>1

LEMMA EventArrives ==
  ASSUME ViewTyped, LineInv, OnEvent
  PROVE  ViewTyped' /\ LineInv'
<1>0. PICK msg \in Parcel : msg = Head(down)
  BY HeadIs DEF OnEvent
<1>1. /\ down # <<>> /\ down' = Tail(down) /\ UNCHANGED <<run, up, active>>
      /\ msg.kind \notin {"reply", "refusal"}
      /\ live' = CASE msg.kind = "delta" -> [live EXCEPT ![msg.run] = @ + 1]
                   [] Supersedes(msg) -> [live EXCEPT ![msg.run] = 0]
                   [] OTHER -> live
      /\ detail' \in {detail, Reduce(detail, msg)}
      /\ list' = IF Relists(msg) THEN [list EXCEPT ![msg.run] = msg.status] ELSE list
  BY <1>0 DEF OnEvent, Show
<1>2. msg.run \in Runs /\ (msg.kind = "run" => msg.status \in Listed)
  BY DEF Parcel
<1>3. /\ live \in [Runs -> Nat] /\ list \in [Runs -> Listed]
      /\ detail \in RunDetail \cup {NoDetail} /\ active \in Runs \cup {NoRun}
  BY DEF ViewTyped, ScreenTyped
<1>4. live' \in [Runs -> Nat] /\ list' \in [Runs -> Listed]
  BY <1>1, <1>2, <1>3 DEF Relists, Supersedes
<1>5. ViewTyped'
  <2>1. detail' \in RunDetail \cup {NoDetail}
    BY <1>1, <1>3, ReducedIs
  <2>. QED  BY <1>1, <1>3, <1>4, <2>1, HeadIs DEF ViewTyped, MainTyped, ChannelsTyped, ScreenTyped
<1>6. ASSUME NEW r \in Runs
      PROVE  Displayed(r)' = Received(r, Displayed(r), msg)
  <2>1. live'[r] = IF msg.run # r THEN live[r]
                   ELSE IF msg.kind = "delta" THEN live[r] + 1
                   ELSE IF Supersedes(msg) THEN 0 ELSE live[r]
    BY <1>1, <1>2, <1>3 DEF Supersedes
  <2>2. list'[r] = IF msg.kind = "run" /\ msg.run = r THEN msg.status ELSE list[r]
    BY <1>1, <1>2, <1>3 DEF Relists
  <2>3. Received(r, Displayed(r), msg).live = live'[r]
    BY <1>1, <2>1 DEF Displayed, Received
  <2>4. Received(r, Displayed(r), msg).shown = list'[r]
    BY <1>1, <2>2 DEF Displayed, Received
  <2>5. Displayed(r)' = [live |-> live'[r], shown |-> list'[r]]
    BY DEF Displayed
  <2>. QED  BY <2>3, <2>4, <2>5 DEF Received
<1>7. LineInv'
  BY <1>0, <1>1, <1>6, Arrives
<1>. QED  BY <1>5, <1>7

LEMMA AnswerArrives ==
  ASSUME ViewTyped, LineInv, OnStarted \/ OnDetail \/ OnRefusal
  PROVE  ViewTyped' /\ LineInv'
<1>0. PICK msg \in Parcel : msg = Head(down)
  BY HeadIs DEF OnStarted, OnDetail, OnRefusal
<1>1. /\ down # <<>> /\ down' = Tail(down) /\ UNCHANGED <<run, up, live>>
      /\ msg.kind \in {"reply", "refusal"}
  BY <1>0 DEF OnStarted, OnDetail, OnRefusal
<1>2. /\ live \in [Runs -> Nat] /\ list \in [Runs -> Listed]
      /\ detail \in RunDetail \cup {NoDetail} /\ active \in Runs \cup {NoRun}
  BY DEF ViewTyped, ScreenTyped
<1>3. msg.kind = "reply" =>
        /\ msg.detail \in RunDetail /\ msg.detail.run \in Runs /\ msg.detail.status \in Listed
  BY DEF Parcel, RunDetail
<1>4. CASE OnStarted
  <2>1. /\ msg.kind = "reply" /\ msg.to \in {"task", "continue"}
        /\ active' = msg.detail.run /\ detail' = msg.detail
        /\ list' = [list EXCEPT ![msg.detail.run] = msg.detail.status]
    BY <1>0, <1>4 DEF OnStarted, Show
  <2>2. ViewTyped'
    BY <1>1, <1>2, <1>3, <2>1, HeadIs DEF ViewTyped, MainTyped, ChannelsTyped, ScreenTyped
  <2>3. \A r \in Runs : Displayed(r)' = Received(r, Displayed(r), msg)
    BY <1>1, <1>2, <2>1 DEF Displayed, Received
  <2>. QED  BY <1>0, <1>1, <2>2, <2>3, Arrives
<1>5. CASE OnDetail
  <2>1. /\ msg.kind = "reply" /\ msg.to \notin {"task", "continue"}
        /\ detail' = msg.detail /\ UNCHANGED <<active, list>>
    BY <1>0, <1>5 DEF OnDetail
  <2>2. ViewTyped'
    BY <1>1, <1>2, <1>3, <2>1, HeadIs DEF ViewTyped, MainTyped, ChannelsTyped, ScreenTyped
  <2>3. \A r \in Runs : Displayed(r)' = Received(r, Displayed(r), msg)
    BY <1>1, <2>1 DEF Displayed, Received
  <2>. QED  BY <1>0, <1>1, <2>2, <2>3, Arrives
<1>6. CASE OnRefusal
  <2>1. msg.kind = "refusal" /\ UNCHANGED <<active, detail, list>>
    BY <1>0, <1>6 DEF OnRefusal
  <2>2. ViewTyped'
    BY <1>1, <1>2, <2>1, HeadIs DEF ViewTyped, MainTyped, ChannelsTyped, ScreenTyped
  <2>3. \A r \in Runs : Displayed(r)' = Received(r, Displayed(r), msg)
    BY <1>1, <2>1 DEF Displayed, Received
  <2>. QED  BY <1>0, <1>1, <2>2, <2>3, Arrives
<1>. QED  BY <1>4, <1>5, <1>6

-----------------------------------------------------------------------------
LEMMA ViewStarts == ViewInit => ViewTyped /\ LineInv
<1>. SUFFICES ASSUME ViewInit  PROVE ViewTyped /\ LineInv
  OBVIOUS
<1>1. /\ run \in [Runs -> Row]
      /\ \A r \in Runs : run[r].text = 0 /\ ~run[r].parked /\ run[r].status \in Listed
  BY DEF ViewInit, Absent, Row, Listed
<1>2. ViewTyped
  BY <1>1 DEF ViewInit, ViewTyped, MainTyped, ChannelsTyped, ScreenTyped
<1>3. ASSUME NEW r \in Runs
      PROVE  Will(r, down, Displayed(r), True(r))
  <2>1. down = <<>> /\ Displayed(r) = True(r) /\ True(r) \in Line
    BY <1>1 DEF ViewInit, Displayed, True, Line
  <2>. DEFINE line == [i \in 1 .. Len(down) + 1 |-> True(r)]
  <2>2. line \in [1 .. Len(down) + 1 -> Line] /\ line[1] = True(r) /\ Len(down) = 0
    BY <2>1
  <2>. HIDE DEF line
  <2>. QED  BY <2>1, <2>2 DEF Will
<1>. QED  BY <1>2, <1>3 DEF LineInv

LEMMA ViewSteps == ViewTyped /\ LineInv /\ [ViewNext]_viewVars => ViewTyped' /\ LineInv'
<1>. SUFFICES ASSUME ViewTyped, LineInv, [ViewNext]_viewVars
              PROVE  ViewTyped' /\ LineInv'
  OBVIOUS
<1>1. CASE UNCHANGED viewVars
  <2>1. /\ UNCHANGED <<run, down, list, live, up, active, detail>>
        /\ up \in Seq(Order) /\ active \in Runs \cup {NoRun} /\ detail \in RunDetail \cup {NoDetail}
    BY <1>1 DEF viewVars, ViewTyped, ChannelsTyped, ScreenTyped
  <2>. QED  BY <2>1, Unmoved
<1>. QED  BY <1>1, StreamTells, CommitTells, CommitNothingTells, WorkTells, ParkTells, EndTells,
            LoopReachedTells, GetTells, TaskTells, ContinueTells, ApplyTells, RejectTells, StopTells, UserTells,
            EventArrives, AnswerArrives DEF ViewNext

LEMMA ViewInvariant == ViewSpec => [](ViewTyped /\ LineInv)
BY ViewStarts, ViewSteps, PTL DEF ViewSpec

\* Once nothing is on its way, the text shown of each run as being streamed is
\* exactly what the run has said since its last committed message, and nothing
\* once it has ended (the event handlers of App.tsx).
THEOREM LiveTextIsRight == ViewSpec => []LiveTextIsUncommitted
<1>1. ViewTyped /\ LineInv => LiveTextIsUncommitted
  BY NothingOnItsWay DEF LineInv, LiveTextIsUncommitted, Quiet, Displayed, True
<1>. QED  BY <1>1, ViewInvariant, PTL

\* Once nothing is on its way, the list of App.tsx shows every run with the status
\* it has in main, whatever was told and requested while it changed.
THEOREM ListIsRight == ViewSpec => []ListIsCurrent
<1>1. ViewTyped /\ LineInv => ListIsCurrent
  BY NothingOnItsWay DEF LineInv, ListIsCurrent, Quiet, Displayed, True
<1>. QED  BY <1>1, ViewInvariant, PTL

(***************************************************************************)
(* The detail shown.  Trail(q, s, p, d, e): read from position p on, the   *)
(* messages s turn the detail d of run q into e.  A detail leads to a row  *)
(* if what it is turned into matches the row.                              *)
(***************************************************************************)

Evolved(q, d, msg) ==
  IF msg.run # q THEN d
  ELSE CASE msg.kind = "run" -> [d EXCEPT !.status = msg.status]
         [] msg.kind \in {"step", "message"} -> [d EXCEPT !.steps = @ + 1]
         [] msg.kind = "patch" -> [d EXCEPT !.patch = msg.patch]
         [] OTHER -> d

Trail(q, s, p, d, e) ==
  \E at \in [1 .. Len(s) + 1 -> RunDetail] :
     /\ at[p] = d /\ at[Len(s) + 1] = e
     /\ \A i \in p .. Len(s) : at[i + 1] = Evolved(q, at[i], s[i])

Matches(d, row) ==
  /\ d.status = row.status /\ d.steps = row.steps
  /\ row.status = "waiting" => d.patch = row.made

Leads(q, s, p, d, row) ==
  /\ d \in RunDetail /\ d.run = q
  /\ \E e \in RunDetail : Trail(q, s, p, d, e) /\ Matches(e, row)

LEMMA EvolvedIsDetail ==
  ASSUME NEW q \in Runs, NEW d \in RunDetail, NEW msg \in Parcel
  PROVE  Evolved(q, d, msg) \in RunDetail /\ Evolved(q, d, msg).run = d.run
<1>1. CASE msg.kind = "run"
  <2>1. msg.status \in Listed
    BY <1>1 DEF Parcel
  <2>. QED  BY <1>1, <2>1 DEF Evolved, RunDetail
<1>2. CASE msg.kind = "patch"
  <2>1. msg.patch \in Nat
    BY <1>2 DEF Parcel
  <2>. QED  BY <1>2, <2>1 DEF Evolved, RunDetail
<1>3. CASE msg.kind \notin {"run", "patch"}
  BY <1>3 DEF Evolved, RunDetail
<1>. QED  BY <1>1, <1>2, <1>3

LEMMA TrailEnds ==
  ASSUME NEW q, NEW s \in Seq(Parcel), NEW d \in RunDetail
  PROVE  Trail(q, s, Len(s) + 1, d, d)
<1>. DEFINE at == [i \in 1 .. Len(s) + 1 |-> d]
<1>1. Len(s) \in Nat
  OBVIOUS
<1>2. at \in [1 .. Len(s) + 1 -> RunDetail] /\ at[Len(s) + 1] = d
  BY <1>1
<1>. HIDE DEF at
<1>3. (Len(s) + 1) .. Len(s) = {}
  BY <1>1
<1>. QED  BY <1>2, <1>3 DEF Trail

LEMMA TrailIsSilent ==
  ASSUME NEW q, NEW s \in Seq(Parcel), NEW d \in RunDetail, \A i \in 1 .. Len(s) : s[i].run # q
  PROVE  Trail(q, s, 1, d, d)
<1>. DEFINE at == [i \in 1 .. Len(s) + 1 |-> d]
<1>1. Len(s) \in Nat
  OBVIOUS
<1>2. at \in [1 .. Len(s) + 1 -> RunDetail] /\ at[Len(s) + 1] = d /\ at[1] = d
  BY <1>1
<1>3. \A i \in 1 .. Len(s) : at[i + 1] = Evolved(q, at[i], s[i])
  BY <1>1 DEF Evolved
<1>. HIDE DEF at
<1>. QED  BY <1>2, <1>3 DEF Trail

LEMMA TrailsJoin ==
  ASSUME NEW q, NEW s \in Seq(Parcel), NEW t \in Seq(Parcel), NEW p \in 1 .. Len(s) + 1,
         NEW d, NEW e, NEW f, Trail(q, s, p, d, e), Trail(q, t, 1, e, f)
  PROVE  Trail(q, s \o t, p, d, f)
<1>. DEFINE n == Len(s)
            m == Len(t)
            u == s \o t
<1>1. n \in Nat /\ m \in Nat /\ Len(u) = n + m /\ p \in 1 .. n + 1
  OBVIOUS
<1>2. (\A i \in 1 .. n : u[i] = s[i]) /\ \A i \in 1 .. m : u[n + i] = t[i]
  OBVIOUS
<1>3. PICK at \in [1 .. n + 1 -> RunDetail] :
        /\ at[p] = d /\ at[n + 1] = e
        /\ \A i \in p .. n : at[i + 1] = Evolved(q, at[i], s[i])
  BY DEF Trail
<1>4. PICK on \in [1 .. m + 1 -> RunDetail] :
        /\ on[1] = e /\ on[m + 1] = f
        /\ \A i \in 1 .. m : on[i + 1] = Evolved(q, on[i], t[i])
  BY DEF Trail
<1>. DEFINE all == [i \in 1 .. (n + m) + 1 |-> IF i <= n + 1 THEN at[i] ELSE on[i - n]]
<1>. HIDE DEF n, m, u
<1>5. all \in [1 .. (n + m) + 1 -> RunDetail]
  BY <1>1, <1>3, <1>4
<1>6. all[p] = d
  BY <1>1, <1>3
<1>7. \A i \in 1 .. m + 1 : all[n + i] = on[i]
  BY <1>1, <1>3, <1>4
<1>. HIDE DEF all
<1>8. all[(n + m) + 1] = f
  <2>1. m + 1 \in 1 .. m + 1 /\ n + (m + 1) = (n + m) + 1
    BY <1>1
  <2>2. all[n + (m + 1)] = on[m + 1]
    BY <1>7, <2>1
  <2>. QED  BY <1>4, <2>1, <2>2
<1>9. ASSUME NEW i \in p .. n + m
      PROVE  all[i + 1] = Evolved(q, all[i], u[i])
  <2>1. CASE i <= n
    <3>1. i \in 1 .. n /\ i \in p .. n /\ all[i] = at[i] /\ all[i + 1] = at[i + 1]
      BY <1>1, <2>1 DEF all
    <3>. QED  BY <1>2, <1>3, <3>1
  <2>2. CASE i > n
    <3>1. PICK j \in 1 .. m : i = n + j
      <4>1. i - n \in 1 .. m /\ i = n + (i - n)
        BY <1>1, <2>2
      <4>. QED  BY <4>1
    <3>2. j + 1 \in 1 .. m + 1 /\ j \in 1 .. m + 1 /\ i + 1 = n + (j + 1)
      BY <1>1, <3>1
    <3>3. all[n + j] = on[j] /\ all[n + (j + 1)] = on[j + 1]
      BY <1>7, <3>2
    <3>4. u[n + j] = t[j] /\ on[j + 1] = Evolved(q, on[j], t[j])
      BY <1>2, <1>4, <3>1
    <3>. QED  BY <3>1, <3>2, <3>3, <3>4
  <2>. QED  BY <1>1, <2>1, <2>2
<1>10. Len(u) = n + m
  BY <1>1
<1>. QED  BY <1>5, <1>6, <1>8, <1>9, <1>10 DEF Trail, u

LEMMA TrailMovesUp ==
  ASSUME NEW q, NEW s \in Seq(Parcel), s # <<>>, NEW p \in 2 .. Len(s) + 1, NEW d, NEW e,
         Trail(q, s, p, d, e)
  PROVE  Trail(q, Tail(s), p - 1, d, e)
<1>. DEFINE n == Len(Tail(s))
<1>1. n \in Nat /\ Len(s) = n + 1 /\ p \in 2 .. n + 2
  OBVIOUS
<1>2. \A i \in 1 .. n : Tail(s)[i] = s[i + 1]
  OBVIOUS
<1>. HIDE DEF n
<1>3. PICK at \in [1 .. (n + 1) + 1 -> RunDetail] :
        /\ at[p] = d /\ at[(n + 1) + 1] = e
        /\ \A i \in p .. n + 1 : at[i + 1] = Evolved(q, at[i], s[i])
  BY <1>1 DEF Trail
<1>. DEFINE rest == [i \in 1 .. n + 1 |-> at[i + 1]]
<1>4. rest \in [1 .. n + 1 -> RunDetail]
  BY <1>1, <1>3
<1>5. rest[p - 1] = d /\ rest[n + 1] = e
  <2>1. p - 1 \in 1 .. n + 1 /\ (p - 1) + 1 = p
    BY <1>1
  <2>. QED  BY <1>1, <1>3, <2>1
<1>6. ASSUME NEW i \in p - 1 .. n
      PROVE  rest[i + 1] = Evolved(q, rest[i], Tail(s)[i])
  <2>1. i \in 1 .. n /\ i + 1 \in p .. n + 1 /\ i + 1 \in 1 .. n + 1
    BY <1>1
  <2>2. at[(i + 1) + 1] = Evolved(q, at[i + 1], s[i + 1])
    BY <1>3, <2>1
  <2>. QED  BY <1>1, <1>2, <2>1, <2>2
<1>. HIDE DEF rest
<1>. QED  BY <1>4, <1>5, <1>6 DEF Trail, n

LEMMA TrailBegins ==
  ASSUME NEW q, NEW s \in Seq(Parcel), s # <<>>, NEW d, NEW e, Trail(q, s, 1, d, e)
  PROVE  Trail(q, Tail(s), 1, Evolved(q, d, Head(s)), e)
<1>. DEFINE n == Len(s)
<1>1. n \in Nat /\ n >= 1 /\ Head(s) = s[1]
  OBVIOUS
<1>2. PICK at \in [1 .. n + 1 -> RunDetail] :
        /\ at[1] = d /\ at[n + 1] = e
        /\ \A i \in 1 .. n : at[i + 1] = Evolved(q, at[i], s[i])
  BY DEF Trail
<1>3. at[1 + 1] = Evolved(q, d, Head(s))
  BY <1>1, <1>2
<1>4. \A i \in 2 .. n : at[i + 1] = Evolved(q, at[i], s[i])
  BY <1>1, <1>2
<1>5. Trail(q, s, 2, Evolved(q, d, Head(s)), e)
  BY <1>1, <1>2, <1>3, <1>4 DEF Trail
<1>. QED  BY <1>1, <1>5, TrailMovesUp

LEMMA TrailIsDone ==
  ASSUME NEW q, NEW d, NEW e, Trail(q, <<>>, 1, d, e)
  PROVE  d = e
BY DEF Trail

\* A message or several of them carry what matches one row to what matches another.
Carries(q, t, row, next) ==
  \A e \in RunDetail : Matches(e, row) =>
     \E f \in RunDetail : Trail(q, t, 1, e, f) /\ Matches(f, next)

LEMMA LeadsOn ==
  ASSUME NEW q, NEW s \in Seq(Parcel), NEW t \in Seq(Parcel), NEW p \in 1 .. Len(s) + 1,
         NEW d, NEW row, NEW next, Leads(q, s, p, d, row), Carries(q, t, row, next)
  PROVE  Leads(q, s \o t, p, d, next)
<1>1. PICK e \in RunDetail : Trail(q, s, p, d, e) /\ Matches(e, row)
  BY DEF Leads
<1>2. PICK f \in RunDetail : Trail(q, t, 1, e, f) /\ Matches(f, next)
  BY <1>1 DEF Carries
<1>3. Trail(q, s \o t, p, d, f)
  BY <1>1, <1>2, TrailsJoin
<1>. QED  BY <1>2, <1>3 DEF Leads

LEMMA LeadsEnds ==
  ASSUME NEW q, NEW s \in Seq(Parcel), NEW d \in RunDetail, d.run = q, NEW row, Matches(d, row)
  PROVE  Leads(q, s, Len(s) + 1, d, row)
BY TrailEnds DEF Leads

LEMMA LeadsMovesUp ==
  ASSUME NEW q, NEW s \in Seq(Parcel), s # <<>>, NEW p \in 2 .. Len(s) + 1, NEW d, NEW row,
         Leads(q, s, p, d, row)
  PROVE  Leads(q, Tail(s), p - 1, d, row)
BY TrailMovesUp DEF Leads

LEMMA LeadsBegins ==
  ASSUME NEW q \in Runs, NEW s \in Seq(Parcel), s # <<>>, NEW d, NEW row, Leads(q, s, 1, d, row)
  PROVE  Leads(q, Tail(s), 1, Evolved(q, d, Head(s)), row)
<1>1. Head(s) \in Parcel /\ d \in RunDetail /\ d.run = q
  BY DEF Leads
<1>. QED  BY <1>1, TrailBegins, EvolvedIsDetail DEF Leads

LEMMA LeadsIsDone ==
  ASSUME NEW q, NEW d, NEW row, Leads(q, <<>>, 1, d, row)
  PROVE  d.run = q /\ Matches(d, row)
BY TrailIsDone DEF Leads

\* Up to four messages, one after the other.
LEMMA Several ==
  ASSUME NEW q \in Runs, NEW d \in RunDetail,
         NEW a \in Parcel, NEW b \in Parcel, NEW c \in Parcel, NEW x \in Parcel
  PROVE  LET da == Evolved(q, d, a)
             db == Evolved(q, da, b)
             dc == Evolved(q, db, c)
             dx == Evolved(q, dc, x)
         IN  /\ da \in RunDetail /\ db \in RunDetail /\ dc \in RunDetail /\ dx \in RunDetail
             /\ Trail(q, <<a>>, 1, d, da)
             /\ Trail(q, <<a, b>>, 1, d, db)
             /\ Trail(q, <<a, b, c>>, 1, d, dc)
             /\ Trail(q, <<a, b, c, x>>, 1, d, dx)
<1>. DEFINE da == Evolved(q, d, a)
            db == Evolved(q, da, b)
            dc == Evolved(q, db, c)
            dx == Evolved(q, dc, x)
            at == [i \in 1 .. 5 |-> IF i = 1 THEN d ELSE IF i = 2 THEN da ELSE IF i = 3 THEN db
                                    ELSE IF i = 4 THEN dc ELSE dx]
<1>1. da \in RunDetail
  BY EvolvedIsDetail
<1>2. db \in RunDetail
  BY <1>1, EvolvedIsDetail
<1>3. dc \in RunDetail
  BY <1>2, EvolvedIsDetail
<1>4. dx \in RunDetail
  BY <1>3, EvolvedIsDetail
<1>5. /\ at \in [1 .. 5 -> RunDetail]
      /\ at[1] = d /\ at[2] = da /\ at[3] = db /\ at[4] = dc /\ at[5] = dx
  BY <1>1, <1>2, <1>3, <1>4
<1>. HIDE DEF at
<1>6. /\ at[1 + 1] = Evolved(q, at[1], a) /\ at[2 + 1] = Evolved(q, at[2], b)
      /\ at[3 + 1] = Evolved(q, at[3], c) /\ at[4 + 1] = Evolved(q, at[4], x)
  BY <1>5
<1>. HIDE DEF da, db, dc, dx
<1>7. ASSUME NEW s, NEW k \in 1 .. 4, Len(s) = k,
             \A i \in 1 .. k : at[i + 1] = Evolved(q, at[i], s[i])
      PROVE  Trail(q, s, 1, d, at[k + 1])
  <2>. DEFINE part == [i \in 1 .. k + 1 |-> at[i]]
  <2>1. part \in [1 .. k + 1 -> RunDetail] /\ part[1] = d /\ part[k + 1] = at[k + 1]
    BY <1>5
  <2>2. \A i \in 1 .. k : part[i + 1] = Evolved(q, part[i], s[i])
    BY <1>7
  <2>. HIDE DEF part
  <2>. QED  BY <1>7, <2>1, <2>2 DEF Trail
<1>8. Trail(q, <<a>>, 1, d, at[1 + 1])
  BY <1>6, <1>7
<1>9. Trail(q, <<a, b>>, 1, d, at[2 + 1])
  BY <1>6, <1>7
<1>10. Trail(q, <<a, b, c>>, 1, d, at[3 + 1])
  BY <1>6, <1>7
<1>11. Trail(q, <<a, b, c, x>>, 1, d, at[4 + 1])
  BY <1>6, <1>7
<1>. QED  BY <1>1, <1>2, <1>3, <1>4, <1>5, <1>8, <1>9, <1>10, <1>11 DEF da, db, dc, dx

(***************************************************************************)
(* What is owed.  Every request made and not answered is on its way up, or *)
(* its answer is on its way down, or its run is being launched.            *)
(***************************************************************************)

IsAnswer(msg) == msg.kind \in {"reply", "refusal"}

\* The messages s carry n answers, at the places at.
Answers(s, n) ==
  \E at \in [1 .. n -> 1 .. Len(s)] :
     /\ \A j, k \in 1 .. n : j < k => at[j] < at[k]
     /\ \A i \in 1 .. Len(s) : IsAnswer(s[i]) <=> \E k \in 1 .. n : at[k] = i

BeingLaunched == (IF run[1].launching THEN 1 ELSE 0) + (IF run[2].launching THEN 1 ELSE 0)

Counted == \E n \in Nat : Answers(down, n) /\ asked = Len(up) + n + BeingLaunched

\* What main does in one go: it speaks of one run, and answers last.
Speech(t, q) ==
  /\ t \in Seq(Parcel) /\ t # <<>>
  /\ \A i \in 1 .. Len(t) : t[i].run = q /\ (IsAnswer(t[i]) => i = Len(t))

Closing(t) == t[Len(t)]

LEMMA SpeechIs ==
  ASSUME NEW q, NEW t, Speech(t, q), NEW s \in Seq(Parcel)
  PROVE  /\ t \in Seq(Parcel) /\ Len(t) \in Nat \ {0} /\ Closing(t) \in Parcel
         /\ Len(s) \in Nat /\ Len(s \o t) = Len(s) + Len(t) /\ s \o t \in Seq(Parcel)
         /\ \A i \in 1 .. Len(s) : (s \o t)[i] = s[i]
         /\ \A i \in 1 .. Len(t) : (s \o t)[Len(s) + i] = t[i]
         /\ \A i \in 1 .. Len(s) + Len(t) : i \in 1 .. Len(s) \/ \E j \in 1 .. Len(t) : i = Len(s) + j
<1>1. t \in Seq(Parcel) /\ t # <<>>
  BY DEF Speech
<1>2. Len(t) \in Nat \ {0} /\ Len(s) \in Nat /\ Len(s \o t) = Len(s) + Len(t) /\ s \o t \in Seq(Parcel)
  BY <1>1
<1>3. Closing(t) \in Parcel
  BY <1>1, <1>2 DEF Closing
<1>4. /\ \A i \in 1 .. Len(s) : (s \o t)[i] = s[i]
      /\ \A i \in 1 .. Len(t) : (s \o t)[Len(s) + i] = t[i]
  BY <1>1
<1>5. ASSUME NEW i \in 1 .. Len(s) + Len(t), i \notin 1 .. Len(s)
      PROVE  \E j \in 1 .. Len(t) : i = Len(s) + j
  <2>1. i - Len(s) \in 1 .. Len(t) /\ i = Len(s) + (i - Len(s))
    BY <1>2, <1>5
  <2>. QED  BY <2>1
<1>. QED  BY <1>1, <1>2, <1>3, <1>4, <1>5

LEMMA AnswersGrow ==
  ASSUME NEW q, NEW t, Speech(t, q), NEW s \in Seq(Parcel), NEW n \in Nat, Answers(s, n)
  PROVE  Answers(s \o t, IF IsAnswer(Closing(t)) THEN n + 1 ELSE n)
<1>. DEFINE len == Len(s)
            m == Len(t)
            u == s \o t
<1>1. /\ len \in Nat /\ m \in Nat \ {0} /\ Len(u) = len + m
      /\ \A i \in 1 .. len : u[i] = s[i]
      /\ \A i \in 1 .. m : u[len + i] = t[i]
      /\ \A i \in 1 .. len + m : i \in 1 .. len \/ \E j \in 1 .. m : i = len + j
  BY SpeechIs
<1>2. PICK at \in [1 .. n -> 1 .. len] :
        /\ \A j, k \in 1 .. n : j < k => at[j] < at[k]
        /\ \A i \in 1 .. len : IsAnswer(s[i]) <=> \E k \in 1 .. n : at[k] = i
  BY DEF Answers
<1>3. \A i \in 1 .. m : IsAnswer(t[i]) <=> i = m /\ IsAnswer(Closing(t))
  BY DEF Speech, Closing
<1>. HIDE DEF len, m, u
<1>4. CASE ~IsAnswer(Closing(t))
  <2>1. at \in [1 .. n -> 1 .. len + m]
    BY <1>1, <1>2
  <2>2. ASSUME NEW i \in 1 .. len + m
        PROVE  IsAnswer(u[i]) <=> \E k \in 1 .. n : at[k] = i
    <3>1. CASE i \in 1 .. len
      BY <1>1, <1>2, <3>1
    <3>2. ASSUME NEW j \in 1 .. m, i = len + j
          PROVE  IsAnswer(u[i]) <=> \E k \in 1 .. n : at[k] = i
      <4>1. ~IsAnswer(u[i])
        BY <1>1, <1>3, <1>4, <3>2
      <4>2. \A k \in 1 .. n : at[k] # i
        BY <1>1, <1>2, <3>2
      <4>. QED  BY <4>1, <4>2
    <3>. QED  BY <1>1, <3>1, <3>2
  <2>3. Answers(u, n)
    <3>1. Len(u) = len + m
      BY <1>1
    <3>2. at \in [1 .. n -> 1 .. Len(u)] /\ \A j, k \in 1 .. n : j < k => at[j] < at[k]
      BY <1>2, <2>1, <3>1
    <3>3. \A i \in 1 .. Len(u) : IsAnswer(u[i]) <=> \E k \in 1 .. n : at[k] = i
      BY <2>2, <3>1
    <3>. QED  BY <3>2, <3>3 DEF Answers
  <2>. QED  BY <1>4, <2>3 DEF u
<1>5. CASE IsAnswer(Closing(t))
  <2>. DEFINE more == [k \in 1 .. n + 1 |-> IF k = n + 1 THEN len + m ELSE at[k]]
  <2>1. more \in [1 .. n + 1 -> 1 .. len + m]
    BY <1>1, <1>2
  <2>2. more[n + 1] = len + m /\ \A k \in 1 .. n : more[k] = at[k] /\ more[k] \in 1 .. len
    BY <1>2
  <2>. HIDE DEF more
  <2>3. ASSUME NEW j \in 1 .. n + 1, NEW k \in 1 .. n + 1, j < k
        PROVE  more[j] < more[k]
    <3>1. j \in 1 .. n
      BY <2>3
    <3>2. CASE k = n + 1
      BY <1>1, <2>2, <3>1, <3>2
    <3>3. CASE k # n + 1
      <4>1. k \in 1 .. n
        BY <3>3
      <4>. QED  BY <1>2, <2>2, <2>3, <3>1, <4>1
    <3>. QED  BY <3>2, <3>3
  <2>4. ASSUME NEW i \in 1 .. len + m
        PROVE  IsAnswer(u[i]) <=> \E k \in 1 .. n + 1 : more[k] = i
    <3>1. CASE i \in 1 .. len
      <4>1. (\E k \in 1 .. n + 1 : more[k] = i) <=> \E k \in 1 .. n : at[k] = i
        <5>1. i # len + m /\ \A k \in 1 .. n + 1 : k = n + 1 \/ k \in 1 .. n
          BY <1>1, <3>1
        <5>2. \A k \in 1 .. n : k \in 1 .. n + 1
          OBVIOUS
        <5>. QED  BY <2>2, <5>1, <5>2
      <4>. QED  BY <1>1, <1>2, <3>1, <4>1
    <3>2. ASSUME NEW j \in 1 .. m, i = len + j
          PROVE  IsAnswer(u[i]) <=> \E k \in 1 .. n + 1 : more[k] = i
      <4>1. IsAnswer(u[i]) <=> j = m
        BY <1>1, <1>3, <1>5, <3>2
      <4>2. ASSUME NEW k \in 1 .. n + 1, more[k] = i
            PROVE  j = m
        <5>1. k = n + 1 \/ k \in 1 .. n
          OBVIOUS
        <5>. QED  BY <1>1, <2>2, <3>2, <4>2, <5>1
      <4>3. n + 1 \in 1 .. n + 1
        OBVIOUS
      <4>. QED  BY <2>2, <3>2, <4>1, <4>2, <4>3
    <3>. QED  BY <1>1, <3>1, <3>2
  <2>5. Answers(u, n + 1)
    BY <1>1, <2>1, <2>3, <2>4 DEF Answers
  <2>. QED  BY <1>5, <2>5 DEF u
<1>. QED  BY <1>4, <1>5

LEMMA AnswersShrink ==
  ASSUME NEW s \in Seq(Parcel), s # <<>>, NEW n \in Nat, Answers(s, n)
  PROVE  IF IsAnswer(Head(s)) THEN n > 0 /\ Answers(Tail(s), n - 1) ELSE Answers(Tail(s), n)
<1>. DEFINE m == Len(Tail(s))
<1>1. m \in Nat /\ Len(s) = m + 1 /\ Head(s) = s[1]
  OBVIOUS
<1>2. \A i \in 1 .. m : Tail(s)[i] = s[i + 1]
  OBVIOUS
<1>. HIDE DEF m
<1>3. PICK at \in [1 .. n -> 1 .. m + 1] :
        /\ \A j, k \in 1 .. n : j < k => at[j] < at[k]
        /\ \A i \in 1 .. m + 1 : IsAnswer(s[i]) <=> \E k \in 1 .. n : at[k] = i
  BY <1>1 DEF Answers
<1>4. CASE ~IsAnswer(Head(s))
  <2>. DEFINE less == [k \in 1 .. n |-> at[k] - 1]
  <2>1. \A k \in 1 .. n : at[k] \in 2 .. m + 1
    <3>1. \A k \in 1 .. n : at[k] # 1
      BY <1>1, <1>3, <1>4
    <3>. QED  BY <1>1, <1>3, <3>1
  <2>2. less \in [1 .. n -> 1 .. m] /\ \A k \in 1 .. n : less[k] = at[k] - 1
    BY <1>1, <2>1
  <2>. HIDE DEF less
  <2>3. \A j, k \in 1 .. n : j < k => less[j] < less[k]
    BY <1>1, <1>3, <2>1, <2>2
  <2>4. ASSUME NEW i \in 1 .. m
        PROVE  IsAnswer(Tail(s)[i]) <=> \E k \in 1 .. n : less[k] = i
    <3>1. i + 1 \in 1 .. m + 1
      BY <1>1
    <3>2. (\E k \in 1 .. n : less[k] = i) <=> \E k \in 1 .. n : at[k] = i + 1
      <4>1. ASSUME NEW k \in 1 .. n  PROVE less[k] = i <=> at[k] = i + 1
        <5>1. at[k] \in Nat /\ less[k] = at[k] - 1
          BY <1>1, <2>1, <2>2
        <5>. QED  BY <5>1
      <4>. QED  BY <4>1
    <3>. QED  BY <1>2, <1>3, <3>1, <3>2
  <2>5. Answers(Tail(s), n)
    BY <2>2, <2>3, <2>4 DEF Answers, m
  <2>. QED  BY <1>4, <2>5
<1>5. CASE IsAnswer(Head(s))
  <2>1. PICK k0 \in 1 .. n : at[k0] = 1
    BY <1>1, <1>3, <1>5
  <2>2. n > 0 /\ at[1] = 1
    <3>1. n > 0 /\ 1 \in 1 .. n /\ (k0 = 1 \/ 1 < k0)
      BY <2>1
    <3>2. 1 < k0 => at[1] < 1
      BY <1>3, <2>1, <3>1
    <3>. QED  BY <1>1, <1>3, <2>1, <3>1, <3>2
  <2>3. \A k \in 1 .. n - 1 : k + 1 \in 1 .. n /\ at[k + 1] \in 2 .. m + 1
    <3>1. ASSUME NEW k \in 1 .. n - 1  PROVE k + 1 \in 1 .. n /\ at[k + 1] \in 2 .. m + 1
      <4>1. k + 1 \in 1 .. n /\ 1 \in 1 .. n /\ 1 < k + 1
        BY <2>2
      <4>2. at[1] < at[k + 1] /\ at[k + 1] \in 1 .. m + 1
        BY <1>3, <4>1
      <4>. QED  BY <1>1, <2>2, <4>1, <4>2
    <3>. QED  BY <3>1
  <2>. DEFINE less == [k \in 1 .. n - 1 |-> at[k + 1] - 1]
  <2>4. less \in [1 .. n - 1 -> 1 .. m] /\ \A k \in 1 .. n - 1 : less[k] = at[k + 1] - 1
    BY <1>1, <2>3
  <2>. HIDE DEF less
  <2>5. ASSUME NEW j \in 1 .. n - 1, NEW k \in 1 .. n - 1, j < k
        PROVE  less[j] < less[k]
    <3>1. at[j + 1] < at[k + 1]
      BY <1>3, <2>3, <2>5
    <3>. QED  BY <1>1, <2>3, <2>4, <3>1
  <2>6. ASSUME NEW i \in 1 .. m
        PROVE  IsAnswer(Tail(s)[i]) <=> \E k \in 1 .. n - 1 : less[k] = i
    <3>1. i + 1 \in 1 .. m + 1 /\ i + 1 # 1
      BY <1>1
    <3>2. ASSUME NEW k \in 1 .. n, at[k] = i + 1  PROVE \E l \in 1 .. n - 1 : less[l] = i
      <4>1. k - 1 \in 1 .. n - 1 /\ (k - 1) + 1 = k
        BY <2>2, <3>1, <3>2
      <4>2. less[k - 1] = i
        BY <1>1, <2>4, <3>2, <4>1
      <4>. QED  BY <4>1, <4>2
    <3>3. ASSUME NEW k \in 1 .. n - 1, less[k] = i  PROVE \E l \in 1 .. n : at[l] = i + 1
      <4>1. k + 1 \in 1 .. n /\ less[k] = at[k + 1] - 1 /\ at[k + 1] \in 2 .. m + 1
        BY <2>3, <2>4
      <4>2. at[k + 1] = i + 1
        BY <1>1, <3>3, <4>1
      <4>. QED  BY <4>1, <4>2
    <3>. QED  BY <1>2, <1>3, <3>1, <3>2, <3>3
  <2>7. Answers(Tail(s), n - 1)
    BY <2>4, <2>5, <2>6 DEF Answers, m
  <2>. QED  BY <1>5, <2>2, <2>7
<1>. QED  BY <1>4, <1>5

LEMMA NoAnswers ==
  ASSUME NEW s \in Seq(Parcel), Answers(s, 0)
  PROVE  \A i \in 1 .. Len(s) : ~IsAnswer(s[i])
BY DEF Answers

(***************************************************************************)
(* The invariant of the detail shown.  A reply leads to main's row by the  *)
(* messages behind it, and so does the detail shown of the active run, or  *)
(* a selection of that run is still to be answered; nothing behind it is   *)
(* about another run.                                                      *)
(***************************************************************************)

Plain(v) == v \notin {"task", "continue"}

ForDown(s, from, q) ==
  \A i \in from .. Len(s) : IsAnswer(s[i]) /\ Plain(s[i].to) => s[i].run = q
ForUp(u, from, q) == \A i \in from .. Len(u) : Plain(u[i].verb) => u[i].run = q

SettledOn(s, u, q, d, row) == Leads(q, s, 1, d, row) /\ ForDown(s, 1, q) /\ ForUp(u, 1, q)
GetDown(s, u, q, i) ==
  /\ s[i].kind = "reply" /\ s[i].to = "get" /\ s[i].run = q
  /\ ForDown(s, i, q) /\ ForUp(u, 1, q)
GetUp(u, q, i) == u[i].verb = "get" /\ u[i].run = q /\ ForUp(u, i, q)

InHand(s, u, q, d, row) ==
  \/ SettledOn(s, u, q, d, row)
  \/ \E i \in 1 .. Len(s) : GetDown(s, u, q, i)
  \/ \E i \in 1 .. Len(u) : GetUp(u, q, i)

RepliesLead(s, rows, slip) ==
  \A i \in 1 .. Len(s) : s[i].kind = "reply" =>
     /\ s[i].detail.run = s[i].run
     /\ s[i].to # "apply" \/ ~slip => Leads(s[i].run, s, i + 1, s[i].detail, rows[s[i].run])

Unborn(row) == row.status = "absent" => row.steps = 0 /\ ~row.launching

ShownInv ==
  /\ slipped \in BOOLEAN
  /\ \A r \in Runs : Unborn(run[r])
  /\ Counted
  /\ RepliesLead(down, run, slipped)
  /\ ~slipped /\ active # NoRun => InHand(down, up, active, detail, run[active])

\* Main speaks of run q: what it says carries its row, and that of no other.
Speaks(t, q, rows, next) ==
  /\ Speech(t, q)
  /\ Carries(q, t, rows[q], next[q])
  /\ \A r \in Runs \ {q} : next[r] = rows[r]

LEMMA SpeaksOfAll ==
  ASSUME NEW t, NEW q \in Runs, NEW rows, NEW next, Speaks(t, q, rows, next), NEW r \in Runs
  PROVE  Carries(r, t, rows[r], next[r])
<1>1. t \in Seq(Parcel) /\ \A i \in 1 .. Len(t) : t[i].run = q
  BY DEF Speaks, Speech
<1>2. CASE r = q
  BY <1>2 DEF Speaks
<1>3. CASE r # q
  <2>1. next[r] = rows[r]
    BY <1>3 DEF Speaks
  <2>2. \A d \in RunDetail : Trail(r, t, 1, d, d)
    BY <1>1, <1>3, TrailIsSilent
  <2>. QED  BY <2>1, <2>2 DEF Carries
<1>. QED  BY <1>2, <1>3

LEMMA RepliesGoOn ==
  ASSUME NEW s \in Seq(Parcel), NEW t, NEW q \in Runs, NEW rows, NEW next,
         Speaks(t, q, rows, next), NEW slip \in BOOLEAN, NEW slips \in BOOLEAN, slip => slips,
         RepliesLead(s, rows, slip),
         Closing(t).kind = "reply" =>
            /\ Closing(t).detail.run = q
            /\ Closing(t).to # "apply" \/ ~slips => Matches(Closing(t).detail, next[q])
  PROVE  RepliesLead(s \o t, next, slips)
<1>. DEFINE u == s \o t
<1>1. Speech(t, q)
  BY DEF Speaks
<1>2. /\ t \in Seq(Parcel) /\ Len(t) \in Nat \ {0} /\ Closing(t) \in Parcel
      /\ Len(s) \in Nat /\ Len(u) = Len(s) + Len(t) /\ u \in Seq(Parcel)
      /\ \A i \in 1 .. Len(s) : u[i] = s[i]
      /\ \A i \in 1 .. Len(t) : u[Len(s) + i] = t[i]
      /\ \A i \in 1 .. Len(s) + Len(t) : i \in 1 .. Len(s) \/ \E j \in 1 .. Len(t) : i = Len(s) + j
  BY <1>1, SpeechIs
<1>3. ASSUME NEW i \in 1 .. Len(s), u[i].kind = "reply"
      PROVE  /\ u[i].detail.run = u[i].run
             /\ u[i].to # "apply" \/ ~slips =>
                  Leads(u[i].run, u, i + 1, u[i].detail, next[u[i].run])
  <2>1. u[i] = s[i] /\ s[i] \in Parcel /\ s[i].run \in Runs
    <3>1. u[i] = s[i] /\ s[i] \in Parcel
      BY <1>2
    <3>. QED  BY <1>3, <3>1 DEF Parcel
  <2>2. /\ s[i].detail.run = s[i].run
        /\ s[i].to # "apply" \/ ~slip => Leads(s[i].run, s, i + 1, s[i].detail, rows[s[i].run])
    BY <1>3, <2>1 DEF RepliesLead
  <2>3. Carries(s[i].run, t, rows[s[i].run], next[s[i].run])
    BY <2>1, SpeaksOfAll
  <2>4. i + 1 \in 1 .. Len(s) + 1
    BY <1>2
  <2>5. s[i].to # "apply" \/ ~slips =>
          Leads(s[i].run, u, i + 1, s[i].detail, next[s[i].run])
    BY <1>2, <2>2, <2>3, <2>4, LeadsOn
  <2>. QED  BY <2>1, <2>2, <2>5
<1>4. ASSUME NEW j \in 1 .. Len(t), u[Len(s) + j].kind = "reply"
      PROVE  LET i == Len(s) + j IN
             /\ u[i].detail.run = u[i].run
             /\ u[i].to # "apply" \/ ~slips =>
                  Leads(u[i].run, u, i + 1, u[i].detail, next[u[i].run])
  <2>1. u[Len(s) + j] = t[j] /\ t[j].run = q /\ j = Len(t) /\ t[j] = Closing(t)
    <3>1. u[Len(s) + j] = t[j]
      BY <1>2
    <3>2. j = Len(t)
      BY <1>1, <1>4, <3>1 DEF Speech, IsAnswer
    <3>. QED  BY <1>1, <3>1, <3>2 DEF Speech, Closing
  <2>2. t[j].detail \in RunDetail /\ t[j].detail.run = q
    BY <1>2, <1>4, <2>1 DEF Parcel
  <2>3. t[j].to # "apply" \/ ~slips => Matches(t[j].detail, next[q])
    BY <1>4, <2>1
  <2>4. (Len(s) + j) + 1 = Len(u) + 1
    BY <1>2, <2>1
  <2>5. t[j].to # "apply" \/ ~slips => Leads(q, u, Len(u) + 1, t[j].detail, next[q])
    BY <1>2, <2>2, <2>3, LeadsEnds
  <2>. QED  BY <2>1, <2>2, <2>4, <2>5
<1>5. ASSUME NEW i \in 1 .. Len(u), u[i].kind = "reply"
      PROVE  /\ u[i].detail.run = u[i].run
             /\ u[i].to # "apply" \/ ~slips =>
                  Leads(u[i].run, u, i + 1, u[i].detail, next[u[i].run])
  <2>1. i \in 1 .. Len(s) \/ \E j \in 1 .. Len(t) : i = Len(s) + j
    BY <1>2
  <2>. HIDE DEF u
  <2>. QED  BY <1>3, <1>4, <1>5, <2>1
<1>. QED  BY <1>5 DEF RepliesLead

\* Main's last message is no answer to a request about a run, or it answers the
\* request it has taken.
Answering(t, u, next) ==
  \/ next = u /\ (IsAnswer(Closing(t)) => ~Plain(Closing(t).to))
  \/ /\ u # <<>> /\ next = Tail(u)
     /\ IF IsAnswer(Closing(t))
        THEN /\ Closing(t).to = Head(u).verb /\ Closing(t).run = Head(u).run
             /\ Head(u).verb = "get" => Closing(t).kind = "reply"
        ELSE ~Plain(Head(u).verb)

LEMMA UpMoves ==
  ASSUME NEW u \in Seq(Order), u # <<>>, NEW q
  PROVE  /\ Len(Tail(u)) \in Nat /\ Len(u) = Len(Tail(u)) + 1 /\ Head(u) = u[1]
         /\ \A i \in 1 .. Len(Tail(u)) : Tail(u)[i] = u[i + 1]
         /\ ForUp(u, 1, q) => ForUp(Tail(u), 1, q) /\ (Plain(Head(u).verb) => Head(u).run = q)
         /\ GetUp(u, q, 1) => ForUp(u, 1, q)
         /\ \A i \in 2 .. Len(u) : GetUp(u, q, i) => i - 1 \in 1 .. Len(Tail(u)) /\ GetUp(Tail(u), q, i - 1)
<1>. DEFINE n == Len(Tail(u))
<1>1. n \in Nat /\ Len(u) = n + 1 /\ Head(u) = u[1] /\ \A i \in 1 .. n : Tail(u)[i] = u[i + 1]
  OBVIOUS
<1>2. ASSUME ForUp(u, 1, q)
      PROVE  ForUp(Tail(u), 1, q) /\ (Plain(Head(u).verb) => Head(u).run = q)
  <2>1. \A i \in 1 .. n : i + 1 \in 1 .. Len(u)
    BY <1>1
  <2>2. ForUp(Tail(u), 1, q)
    BY <1>1, <1>2, <2>1 DEF ForUp
  <2>3. 1 \in 1 .. Len(u)
    BY <1>1
  <2>. QED  BY <1>1, <1>2, <2>2, <2>3 DEF ForUp
<1>3. ASSUME NEW i \in 2 .. Len(u), GetUp(u, q, i)
      PROVE  i - 1 \in 1 .. n /\ GetUp(Tail(u), q, i - 1)
  <2>1. i - 1 \in 1 .. n /\ (i - 1) + 1 = i /\ Tail(u)[i - 1] = u[i]
    BY <1>1
  <2>2. ASSUME NEW j \in i - 1 .. n, Plain(Tail(u)[j].verb)
        PROVE  Tail(u)[j].run = q
    <3>1. j \in 1 .. n /\ j + 1 \in i .. Len(u) /\ Tail(u)[j] = u[j + 1]
      BY <1>1, <2>1
    <3>. QED  BY <1>3, <2>2, <3>1 DEF GetUp, ForUp
  <2>. QED  BY <1>3, <2>1, <2>2 DEF GetUp, ForUp
<1>4. GetUp(u, q, 1) => ForUp(u, 1, q)
  BY DEF GetUp
<1>. QED  BY <1>1, <1>2, <1>3, <1>4

LEMMA DownGrows ==
  ASSUME NEW s \in Seq(Parcel), NEW t, NEW q, Speech(t, q), NEW from \in 1 .. Len(s) + 1, NEW a,
         ForDown(s, from, a),
         IsAnswer(Closing(t)) /\ Plain(Closing(t).to) => Closing(t).run = a
  PROVE  ForDown(s \o t, from, a)
<1>. DEFINE u == s \o t
<1>2. /\ Len(t) \in Nat \ {0} /\ Len(s) \in Nat /\ Len(u) = Len(s) + Len(t)
      /\ \A i \in 1 .. Len(s) : u[i] = s[i]
      /\ \A i \in 1 .. Len(t) : u[Len(s) + i] = t[i]
      /\ \A i \in 1 .. Len(s) + Len(t) : i \in 1 .. Len(s) \/ \E j \in 1 .. Len(t) : i = Len(s) + j
  BY SpeechIs
<1>. HIDE DEF u
<1>3. ASSUME NEW i \in from .. Len(u), IsAnswer(u[i]), Plain(u[i].to)
      PROVE  u[i].run = a
  <2>1. i \in 1 .. Len(s) \/ \E j \in 1 .. Len(t) : i = Len(s) + j
    BY <1>2
  <2>2. CASE i \in 1 .. Len(s)
    <3>1. i \in from .. Len(s) /\ u[i] = s[i]
      BY <1>2, <2>2
    <3>. QED  BY <1>3, <3>1 DEF ForDown
  <2>3. ASSUME NEW j \in 1 .. Len(t), i = Len(s) + j
        PROVE  u[i].run = a
    <3>1. u[i] = t[j]
      BY <1>2, <2>3
    <3>2. j = Len(t)
      BY <1>3, <3>1 DEF Speech
    <3>. QED  BY <1>3, <3>1, <3>2 DEF Closing
  <2>. QED  BY <2>1, <2>2, <2>3
<1>. QED  BY <1>3 DEF ForDown, u

LEMMA HandGoesOn ==
  ASSUME NEW s \in Seq(Parcel), NEW t, NEW q \in Runs, NEW rows, NEW next,
         Speaks(t, q, rows, next), NEW u \in Seq(Order), NEW v, Answering(t, u, v),
         NEW a \in Runs, NEW d, InHand(s, u, a, d, rows[a])
  PROVE  InHand(s \o t, v, a, d, next[a])
<1>. DEFINE w == s \o t
<1>1. Speech(t, q)
  BY DEF Speaks
<1>2. /\ t \in Seq(Parcel) /\ Len(t) \in Nat \ {0} /\ Closing(t) = t[Len(t)]
      /\ Len(s) \in Nat /\ Len(w) = Len(s) + Len(t) /\ w \in Seq(Parcel)
      /\ \A i \in 1 .. Len(s) : w[i] = s[i]
      /\ \A i \in 1 .. Len(t) : w[Len(s) + i] = t[i]
  BY <1>1, SpeechIs DEF Closing
<1>3. ASSUME ForUp(u, 1, a)
      PROVE  ForUp(v, 1, a) /\ (IsAnswer(Closing(t)) /\ Plain(Closing(t).to) => Closing(t).run = a)
  BY <1>3, UpMoves DEF Answering
<1>4. CASE SettledOn(s, u, a, d, rows[a])
  <2>1. ForUp(v, 1, a) /\ (IsAnswer(Closing(t)) /\ Plain(Closing(t).to) => Closing(t).run = a)
    BY <1>3, <1>4 DEF SettledOn
  <2>2. 1 \in 1 .. Len(s) + 1
    BY <1>2
  <2>3. ForDown(w, 1, a)
    BY <1>1, <1>4, <2>1, <2>2, DownGrows DEF SettledOn
  <2>4. Carries(a, t, rows[a], next[a])
    BY SpeaksOfAll
  <2>5. Leads(a, w, 1, d, next[a])
    BY <1>2, <1>4, <2>2, <2>4, LeadsOn DEF SettledOn
  <2>. QED  BY <2>1, <2>3, <2>5 DEF InHand, SettledOn
<1>5. ASSUME NEW i \in 1 .. Len(s), GetDown(s, u, a, i)
      PROVE  InHand(w, v, a, d, next[a])
  <2>1. ForUp(v, 1, a) /\ (IsAnswer(Closing(t)) /\ Plain(Closing(t).to) => Closing(t).run = a)
    BY <1>3, <1>5 DEF GetDown
  <2>2. i \in 1 .. Len(s) + 1 /\ i \in 1 .. Len(w) /\ w[i] = s[i]
    BY <1>2
  <2>3. ForDown(w, i, a)
    BY <1>1, <1>5, <2>1, <2>2, DownGrows DEF GetDown
  <2>4. GetDown(w, v, a, i)
    BY <1>5, <2>1, <2>2, <2>3 DEF GetDown
  <2>. QED  BY <2>2, <2>4 DEF InHand
<1>6. ASSUME NEW i \in 1 .. Len(u), GetUp(u, a, i)
      PROVE  InHand(w, v, a, d, next[a])
  <2>1. CASE v = u
    BY <1>6, <2>1 DEF InHand
  <2>2. CASE v # u /\ i # 1
    <3>1. u # <<>> /\ v = Tail(u) /\ i \in 2 .. Len(u)
      BY <2>2 DEF Answering
    <3>2. i - 1 \in 1 .. Len(v) /\ GetUp(v, a, i - 1)
      BY <1>6, <3>1, UpMoves
    <3>. QED  BY <3>2 DEF InHand
  <2>3. CASE v # u /\ i = 1
    <3>1. u # <<>> /\ v = Tail(u)
      BY <2>3 DEF Answering
    <3>2. ForUp(v, 1, a) /\ Head(u) = u[1] /\ u[1].verb = "get" /\ u[1].run = a
      BY <1>6, <2>3, <3>1, UpMoves DEF GetUp
    <3>3. Closing(t).kind = "reply" /\ Closing(t).to = "get" /\ Closing(t).run = a
      BY <2>3, <3>2 DEF Answering, Plain
    <3>4. Len(w) \in 1 .. Len(w) /\ w[Len(w)] = Closing(t)
      BY <1>2
    <3>5. ForDown(w, Len(w), a)
      <4>1. \A j \in Len(w) .. Len(w) : j = Len(w)
        BY <1>2
      <4>. QED  BY <3>3, <3>4, <4>1 DEF ForDown
    <3>6. GetDown(w, v, a, Len(w))
      BY <3>2, <3>3, <3>4, <3>5 DEF GetDown
    <3>. HIDE DEF w
    <3>. QED  BY <3>4, <3>6 DEF InHand
  <2>. QED  BY <2>1, <2>2, <2>3
<1>. QED  BY <1>4, <1>5, <1>6 DEF InHand

LEMMA ShownNext ==
  ASSUME slipped' \in BOOLEAN,
         \A r \in Runs : Unborn(run'[r]),
         \E n \in Nat : Answers(down', n) /\ asked' = Len(up') + n + BeingLaunched',
         RepliesLead(down', run', slipped'),
         ~slipped' /\ active' # NoRun => InHand(down', up', active', detail', run'[active'])
  PROVE  ShownInv'
<1>1. \A r \in Runs : Unborn(run[r])'
  BY DEF Unborn
<1>2. Counted'
  BY DEF Counted, Answers
<1>3. RepliesLead(down, run, slipped)'
  BY DEF RepliesLead, Leads, Trail, Matches, Evolved
<1>4. (~slipped /\ active # NoRun => InHand(down, up, active, detail, run[active]))'
  BY DEF InHand, SettledOn, GetDown, GetUp, ForDown, ForUp, IsAnswer, Plain, Leads, Trail,
         Matches, Evolved
<1>. QED  BY <1>1, <1>2, <1>3, <1>4 DEF ShownInv

LEMMA Launching ==
  ASSUME ViewTyped, ViewTyped', NEW q \in Runs, \A r \in Runs \ {q} : run'[r] = run[r]
  PROVE  /\ BeingLaunched \in Nat
         /\ BeingLaunched' = BeingLaunched - (IF run[q].launching THEN 1 ELSE 0)
                                           + (IF run'[q].launching THEN 1 ELSE 0)
<1>1. \A r \in Runs : run[r].launching \in BOOLEAN /\ run'[r].launching \in BOOLEAN
  BY DEF ViewTyped, MainTyped, Row
<1>2. BeingLaunched' = (IF run'[1].launching THEN 1 ELSE 0) + (IF run'[2].launching THEN 1 ELSE 0)
  BY DEF BeingLaunched
<1>3. CASE q = 1
  <2>1. run'[2] = run[2]
    BY <1>3 DEF Runs
  <2>. QED  BY <1>2, <1>3, <2>1 DEF BeingLaunched
<1>4. CASE q = 2
  <2>1. run'[1] = run[1]
    BY <1>4 DEF Runs
  <2>. QED  BY <1>2, <1>4, <2>1 DEF BeingLaunched
<1>. QED  BY <1>3, <1>4 DEF Runs

LEMMA Tally ==
  ASSUME NEW answer, NEW was \in BOOLEAN, NEW is \in BOOLEAN,
         NEW k \in Nat, NEW l \in Nat, NEW n \in Nat, NEW b \in Nat,
         \/ l = k /\ (is => was) /\ (answer <=> ~(was <=> is))
         \/ l = k - 1 /\ (was => is) /\ (answer <=> (was <=> is))
  PROVE  k + n + b = l + (IF answer THEN n + 1 ELSE n)
                       + (b - (IF was THEN 1 ELSE 0) + (IF is THEN 1 ELSE 0))
<1>1. CASE was = TRUE /\ is = TRUE
  BY <1>1
<1>2. CASE was = TRUE /\ is = FALSE
  BY <1>2
<1>3. CASE was = FALSE /\ is = TRUE
  BY <1>3
<1>4. CASE was = FALSE /\ is = FALSE
  BY <1>4
<1>. QED  BY <1>1, <1>2, <1>3, <1>4

\* What main does in one go keeps the count: it answers, or launches, or neither.
LEMMA MainSteps ==
  ASSUME ViewTyped, ViewTyped', ShownInv, UNCHANGED <<active, detail, asked>>,
         slipped' \in BOOLEAN, slipped => slipped',
         NEW q \in Runs, NEW t, Speaks(t, q, run, run'), down' = down \o t, Unborn(run'[q]),
         Answering(t, up, up'),
         Closing(t).kind = "reply" =>
            /\ Closing(t).detail.run = q
            /\ Closing(t).to # "apply" \/ ~slipped' => Matches(Closing(t).detail, run'[q]),
         \/ /\ up' = up /\ (run'[q].launching => run[q].launching)
            /\ IsAnswer(Closing(t)) <=> ~(run[q].launching <=> run'[q].launching)
         \/ /\ up # <<>> /\ up' = Tail(up) /\ (run[q].launching => run'[q].launching)
            /\ IsAnswer(Closing(t)) <=> (run[q].launching <=> run'[q].launching)
  PROVE  ShownInv'
<1>1. /\ up \in Seq(Order) /\ down \in Seq(Parcel) /\ active \in Runs \cup {NoRun}
      /\ run[q].launching \in BOOLEAN /\ run'[q].launching \in BOOLEAN
  BY DEF ViewTyped, MainTyped, ChannelsTyped, ScreenTyped, Row
<1>2. /\ slipped \in BOOLEAN /\ RepliesLead(down, run, slipped)
      /\ \A r \in Runs : Unborn(run[r])
      /\ ~slipped /\ active # NoRun => InHand(down, up, active, detail, run[active])
  BY DEF ShownInv
<1>3. Speech(t, q) /\ \A r \in Runs \ {q} : run'[r] = run[r]
  BY DEF Speaks
<1>4. \A r \in Runs : Unborn(run'[r])
  BY <1>2, <1>3
<1>5. RepliesLead(down', run', slipped')
  BY <1>1, <1>2, RepliesGoOn
<1>6. ASSUME ~slipped', active' # NoRun
      PROVE  InHand(down', up', active', detail', run'[active'])
  <2>1. active \in Runs /\ InHand(down, up, active, detail, run[active])
    BY <1>1, <1>2, <1>6
  <2>2. InHand(down \o t, up', active, detail, run'[active])
    BY <1>1, <2>1, HandGoesOn
  <2>. QED  BY <2>2
<1>7. \E n \in Nat : Answers(down', n) /\ asked' = Len(up') + n + BeingLaunched'
  <2>1. PICK n \in Nat : Answers(down, n) /\ asked = Len(up) + n + BeingLaunched
    BY DEF ShownInv, Counted
  <2>. DEFINE m == IF IsAnswer(Closing(t)) THEN n + 1 ELSE n
  <2>2. Answers(down', m) /\ m \in Nat
    <3>1. Answers(down \o t, m)
      BY <1>1, <1>3, <2>1, AnswersGrow
    <3>. QED  BY <3>1
  <2>3. /\ BeingLaunched \in Nat
        /\ BeingLaunched' = BeingLaunched - (IF run[q].launching THEN 1 ELSE 0)
                                          + (IF run'[q].launching THEN 1 ELSE 0)
    BY <1>3, Launching
  <2>4. Len(up) \in Nat /\ (up # <<>> => Len(Tail(up)) = Len(up) - 1)
    BY <1>1
  <2>5. PICK k \in Nat, l \in Nat, b \in Nat : k = Len(up) /\ l = Len(up') /\ b = BeingLaunched
    BY <1>1, <2>3, <2>4
  <2>6. \/ l = k /\ (run'[q].launching => run[q].launching)
           /\ (IsAnswer(Closing(t)) <=> ~(run[q].launching <=> run'[q].launching))
        \/ l = k - 1 /\ (run[q].launching => run'[q].launching)
           /\ (IsAnswer(Closing(t)) <=> (run[q].launching <=> run'[q].launching))
    BY <2>4, <2>5
  <2>7. k + n + b = l + m + (b - (IF run[q].launching THEN 1 ELSE 0)
                               + (IF run'[q].launching THEN 1 ELSE 0))
    BY <1>1, <2>6, Tally
  <2>8. asked' = k + n + b
    BY <2>1, <2>5
  <2>. HIDE DEF m
  <2>9. asked' = Len(up') + m + BeingLaunched'
    BY <2>3, <2>5, <2>7, <2>8
  <2>. QED  BY <2>2, <2>9
<1>. QED  BY <1>4, <1>5, <1>6, <1>7, ShownNext

LEMMA SaidOnce ==
  ASSUME NEW q, NEW a \in Parcel, a.run = q
  PROVE  Speech(<<a>>, q) /\ Closing(<<a>>) = a
BY DEF Speech, Closing

LEMMA SaidTwice ==
  ASSUME NEW q, NEW a \in Parcel, NEW b \in Parcel, a.run = q, b.run = q, ~IsAnswer(a)
  PROVE  Speech(<<a, b>>, q) /\ Closing(<<a, b>>) = b
BY DEF Speech, Closing

LEMMA SaidThrice ==
  ASSUME NEW q, NEW a \in Parcel, NEW b \in Parcel, NEW c \in Parcel,
         a.run = q, b.run = q, c.run = q, ~IsAnswer(a), ~IsAnswer(b)
  PROVE  Speech(<<a, b, c>>, q) /\ Closing(<<a, b, c>>) = c
BY DEF Speech, Closing

LEMMA SaidFourTimes ==
  ASSUME NEW q, NEW a \in Parcel, NEW b \in Parcel, NEW c \in Parcel, NEW x \in Parcel,
         a.run = q, b.run = q, c.run = q, x.run = q, ~IsAnswer(a), ~IsAnswer(b), ~IsAnswer(c)
  PROVE  Speech(<<a, b, c, x>>, q) /\ Closing(<<a, b, c, x>>) = x
BY DEF Speech, Closing

(***************************************************************************)
(* What each message makes of a detail.                                    *)
(***************************************************************************)

Shown(r, s, n, p) == [run |-> r, status |-> s, steps |-> n, patch |-> p]

LEMMA ByStep ==
  ASSUME NEW q, NEW r, NEW s, NEW n, NEW p, NEW msg \in {Message(q), Step(q)}
  PROVE  Evolved(q, Shown(r, s, n, p), msg) = Shown(r, s, n + 1, p)
BY DEF Evolved, Shown, Message, Step

LEMMA ByStatus ==
  ASSUME NEW q, NEW r, NEW s, NEW n, NEW p, NEW y
  PROVE  Evolved(q, Shown(r, s, n, p), RunUpdated(q, y)) = Shown(r, y, n, p)
BY DEF Evolved, Shown, RunUpdated

LEMMA ByPatch ==
  ASSUME NEW q, NEW r, NEW s, NEW n, NEW p, NEW m
  PROVE  Evolved(q, Shown(r, s, n, p), PatchReady(q, m)) = Shown(r, s, n, m)
BY DEF Evolved, Shown, PatchReady

LEMMA ByOther ==
  ASSUME NEW q, NEW d, NEW msg, IsAnswer(msg) \/ msg.kind = "delta"
  PROVE  Evolved(q, d, msg) = d
BY DEF Evolved, IsAnswer

LEMMA ShownMatches ==
  ASSUME NEW r, NEW s, NEW n, NEW p, NEW row, s = row.status, n = row.steps,
         row.status = "waiting" => p = row.made
  PROVE  Matches(Shown(r, s, n, p), row)
BY DEF Matches, Shown

LEMMA MessagesAre ==
  ASSUME NEW q \in Runs
  PROVE  /\ Delta(q).run = q /\ Message(q).run = q /\ Step(q).run = q
         /\ ~IsAnswer(Delta(q)) /\ ~IsAnswer(Message(q)) /\ ~IsAnswer(Step(q))
         /\ \A m : PatchReady(q, m).run = q /\ ~IsAnswer(PatchReady(q, m))
         /\ \A y : RunUpdated(q, y).run = q /\ ~IsAnswer(RunUpdated(q, y))
         /\ \A v : /\ Refusal(v, q).run = q /\ Refusal(v, q).kind = "refusal" /\ Refusal(v, q).to = v
                   /\ IsAnswer(Refusal(v, q))
         /\ \A v, row : /\ ReplyTo(v, q, row).run = q /\ ReplyTo(v, q, row).kind = "reply"
                        /\ ReplyTo(v, q, row).to = v /\ IsAnswer(ReplyTo(v, q, row))
                        /\ ReplyTo(v, q, row).detail = Detail(q, row)
BY DEF Delta, Message, Step, PatchReady, RunUpdated, Refusal, ReplyTo, IsAnswer

\* The detail of a row matches the row, and every row with its status, its steps and
\* its patches.
LEMMA DetailMatches ==
  ASSUME NEW q, NEW row, NEW next,
         next.status = row.status, next.steps = row.steps, next.made = row.made
  PROVE  Detail(q, row).run = q /\ Matches(Detail(q, row), next)
BY DEF Detail, Matches

\* It is enough to follow a detail with the row's status and steps.
LEMMA CarriesWhen ==
  ASSUME NEW q, NEW t, NEW row \in Row, NEW next,
         \A r \in Runs, p \in Nat :
            (row.status = "waiting" => p = row.made)
            => \E f \in RunDetail : Trail(q, t, 1, Shown(r, row.status, row.steps, p), f)
                                    /\ Matches(f, next)
  PROVE  Carries(q, t, row, next)
<1>1. ASSUME NEW e \in RunDetail, Matches(e, row)
      PROVE  \E f \in RunDetail : Trail(q, t, 1, e, f) /\ Matches(f, next)
  <2>1. /\ e.run \in Runs /\ e.patch \in Nat /\ e = Shown(e.run, row.status, row.steps, e.patch)
        /\ row.status = "waiting" => e.patch = row.made
    BY <1>1 DEF RunDetail, Shown, Matches
  <2>. QED  BY <2>1
<1>. QED  BY <1>1 DEF Carries

LEMMA CarriesBy ==
  ASSUME NEW q \in Runs, NEW row \in Row, NEW next, NEW t,
         NEW a \in Parcel, NEW b \in Parcel, NEW c \in Parcel, NEW x \in Parcel,
         \A r \in Runs, p \in Nat :
            (row.status = "waiting" => p = row.made)
            => LET da == Evolved(q, Shown(r, row.status, row.steps, p), a)
                   db == Evolved(q, da, b)
                   dc == Evolved(q, db, c)
                   dx == Evolved(q, dc, x)
               IN  \/ t = <<a>> /\ Matches(da, next)
                   \/ t = <<a, b>> /\ Matches(db, next)
                   \/ t = <<a, b, c>> /\ Matches(dc, next)
                   \/ t = <<a, b, c, x>> /\ Matches(dx, next)
  PROVE  Carries(q, t, row, next)
<1>1. ASSUME NEW r \in Runs, NEW p \in Nat, row.status = "waiting" => p = row.made
      PROVE  \E f \in RunDetail : Trail(q, t, 1, Shown(r, row.status, row.steps, p), f)
                                  /\ Matches(f, next)
  <2>. DEFINE d == Shown(r, row.status, row.steps, p)
              da == Evolved(q, d, a)
              db == Evolved(q, da, b)
              dc == Evolved(q, db, c)
              dx == Evolved(q, dc, x)
  <2>1. d \in RunDetail
    BY DEF Shown, RunDetail, Row
  <2>2. \/ t = <<a>> /\ Matches(da, next)
        \/ t = <<a, b>> /\ Matches(db, next)
        \/ t = <<a, b, c>> /\ Matches(dc, next)
        \/ t = <<a, b, c, x>> /\ Matches(dx, next)
    BY <1>1
  <2>. HIDE DEF d
  <2>3. /\ da \in RunDetail /\ db \in RunDetail /\ dc \in RunDetail /\ dx \in RunDetail
        /\ Trail(q, <<a>>, 1, d, da)
        /\ Trail(q, <<a, b>>, 1, d, db)
        /\ Trail(q, <<a, b, c>>, 1, d, dc)
        /\ Trail(q, <<a, b, c, x>>, 1, d, dx)
    BY <2>1, Several
  <2>. HIDE DEF da, db, dc, dx
  <2>4. \E f \in RunDetail : Trail(q, t, 1, d, f) /\ Matches(f, next)
    BY <2>2, <2>3
  <2>. QED  BY <2>4 DEF d
<1>. QED  BY <1>1, CarriesWhen

LEMMA RowNext ==
  ASSUME ViewTyped, NEW q \in Runs, NEW row, run' = [run EXCEPT ![q] = row]
  PROVE  /\ run'[q] = row /\ \A r \in Runs \ {q} : run'[r] = run[r]
         /\ run[q] \in Row /\ run[q].steps \in Nat /\ run[q].made \in Nat
BY DEF ViewTyped, MainTyped, Row

LEMMA LoopSays ==
  ASSUME ViewTyped, ViewTyped', ShownInv, NEW q \in Runs, NEW t, LoopStep,
         Emit(t), Speech(t, q), ~IsAnswer(Closing(t)),
         NEW row, run' = [run EXCEPT ![q] = row], Carries(q, t, run[q], row),
         row.launching = run[q].launching, row.status # "absent"
  PROVE  ShownInv'
<1>1. run'[q] = row /\ \A r \in Runs \ {q} : run'[r] = run[r]
  BY RowNext
<1>2. Speaks(t, q, run, run') /\ Unborn(run'[q])
  BY <1>1 DEF Speaks, Unborn
<1>3. /\ UNCHANGED <<up, active, detail, asked>> /\ slipped' = slipped /\ down' = down \o t
      /\ slipped \in BOOLEAN
  BY DEF LoopStep, Emit, ShownInv
<1>4. Answering(t, up, up')
  BY <1>3 DEF Answering
<1>5. Closing(t).kind # "reply"
  BY DEF IsAnswer
<1>6. run'[q].launching = run[q].launching
  BY <1>1
<1>. QED  BY <1>2, <1>3, <1>4, <1>5, <1>6, MainSteps

LEMMA StreamShows ==
  ASSUME ViewTyped, ViewTyped', ShownInv, NEW q \in Runs, Stream(q)
  PROVE  ShownInv'
<1>. DEFINE row == [run[q] EXCEPT !.text = 1]
            t == <<Delta(q)>>
<1>1. LoopStep /\ Emit(t) /\ run' = [run EXCEPT ![q] = row] /\ run[q].status = "busy"
  BY DEF Stream, Running, Looping
<1>2. run[q] \in Row /\ Delta(q) \in Parcel
  BY RowIs, ParcelsAre
<1>3. Speech(t, q) /\ ~IsAnswer(Closing(t))
  <2>1. Delta(q).run = q /\ ~IsAnswer(Delta(q))
    BY MessagesAre
  <2>. QED  BY <1>2, <2>1, SaidOnce
<1>4. /\ row.status = "busy" /\ row.steps = run[q].steps /\ row.made = run[q].made
      /\ row.launching = run[q].launching
  BY <1>1, <1>2 DEF Row
<1>. HIDE DEF row
<1>5. Carries(q, t, run[q], row)
  <2>1. ASSUME NEW r \in Runs, NEW p \in Nat
        PROVE  Matches(Evolved(q, Shown(r, run[q].status, run[q].steps, p), Delta(q)), row)
    <3>1. Evolved(q, Shown(r, run[q].status, run[q].steps, p), Delta(q)) = Shown(r, run[q].status, run[q].steps, p)
      BY ByOther DEF Delta
    <3>2. Matches(Shown(r, run[q].status, run[q].steps, p), row)
      BY <1>1, <1>4, ShownMatches
    <3>. QED  BY <3>1, <3>2
  <2>. QED  BY <1>2, <2>1, CarriesBy
<1>. HIDE DEF t
<1>. QED  BY <1>1, <1>3, <1>4, <1>5, LoopSays

LEMMA CommitShows ==
  ASSUME ViewTyped, ViewTyped', ShownInv, NEW q \in Runs, Commit(q)
  PROVE  ShownInv'
<1>. DEFINE row == [run[q] EXCEPT !.text = 0, !.steps = @ + 1]
            told == RunUpdated(q, "busy")
            t == <<Message(q), told>>
<1>1. LoopStep /\ Emit(t) /\ run' = [run EXCEPT ![q] = row] /\ run[q].status = "busy"
  BY DEF Commit, Looping
<1>2. run[q] \in Row /\ Message(q) \in Parcel /\ told \in Parcel
  BY RowIs, ParcelsAre DEF Listed
<1>3. Speech(t, q) /\ ~IsAnswer(Closing(t))
  <2>1. /\ Message(q).run = q /\ ~IsAnswer(Message(q))
        /\ told.run = q /\ ~IsAnswer(told)
    BY MessagesAre
  <2>. HIDE DEF told
  <2>. QED  BY <1>2, <2>1, SaidTwice
<1>4. /\ row.status = "busy" /\ row.steps = run[q].steps + 1 /\ row.made = run[q].made
      /\ row.launching = run[q].launching
  BY <1>1, <1>2 DEF Row
<1>. HIDE DEF row
<1>5. Carries(q, t, run[q], row)
  <2>1. ASSUME NEW r \in Runs, NEW p \in Nat
        PROVE  LET da == Evolved(q, Shown(r, run[q].status, run[q].steps, p), Message(q))
               IN  Matches(Evolved(q, da, told), row)
    <3>1. Evolved(q, Shown(r, run[q].status, run[q].steps, p), Message(q)) = Shown(r, run[q].status, run[q].steps + 1, p)
      BY ByStep
    <3>2. Evolved(q, Shown(r, run[q].status, run[q].steps + 1, p), told) = Shown(r, "busy", run[q].steps + 1, p)
      BY ByStatus
    <3>3. Matches(Shown(r, "busy", run[q].steps + 1, p), row)
      BY <1>1, <1>4, ShownMatches
    <3>. QED  BY <3>1, <3>2, <3>3
  <2>. HIDE DEF told
  <2>. QED  BY <1>2, <2>1, CarriesBy
<1>. HIDE DEF t
<1>. QED  BY <1>1, <1>3, <1>4, <1>5, LoopSays

LEMMA CommitNothingShows ==
  ASSUME ViewTyped, ViewTyped', ShownInv, NEW q \in Runs, CommitNothing(q)
  PROVE  ShownInv'
<1>. DEFINE row == run[q]
            told == RunUpdated(q, "busy")
            t == <<told>>
<1>1. LoopStep /\ Emit(t) /\ run' = run /\ run[q].status = "busy"
  BY DEF CommitNothing, Looping
<1>2. run[q] \in Row /\ told \in Parcel
  BY RowIs, ParcelsAre DEF Listed
<1>3. Speech(t, q) /\ ~IsAnswer(Closing(t))
  <2>1. told.run = q /\ ~IsAnswer(told)
    BY MessagesAre
  <2>. HIDE DEF told
  <2>. QED  BY <1>2, <2>1, SaidOnce
<1>4. run' = [run EXCEPT ![q] = row]
  BY <1>1 DEF ViewTyped, MainTyped
<1>5. /\ row.status = "busy" /\ row.steps = run[q].steps /\ row.made = run[q].made
      /\ row.launching = run[q].launching
  BY <1>1
<1>. HIDE DEF row
<1>6. Carries(q, t, run[q], row)
  <2>1. ASSUME NEW r \in Runs, NEW p \in Nat
        PROVE  Matches(Evolved(q, Shown(r, run[q].status, run[q].steps, p), told), row)
    <3>1. Evolved(q, Shown(r, run[q].status, run[q].steps, p), told) = Shown(r, "busy", run[q].steps, p)
      BY ByStatus
    <3>2. Matches(Shown(r, "busy", run[q].steps, p), row)
      BY <1>5, ShownMatches
    <3>. QED  BY <3>1, <3>2
  <2>. HIDE DEF told
  <2>. QED  BY <1>2, <2>1, CarriesBy
<1>. HIDE DEF t
<1>. QED  BY <1>1, <1>3, <1>4, <1>5, <1>6, LoopSays

LEMMA WorkShows ==
  ASSUME ViewTyped, ViewTyped', ShownInv, NEW q \in Runs, Work(q)
  PROVE  ShownInv'
<1>. DEFINE row == [run[q] EXCEPT !.steps = @ + 1]
            t == <<Step(q)>>
<1>1. LoopStep /\ Emit(t) /\ run' = [run EXCEPT ![q] = row] /\ run[q].status = "busy"
  BY DEF Work, Looping
<1>2. run[q] \in Row /\ Step(q) \in Parcel
  BY RowIs, ParcelsAre
<1>3. Speech(t, q) /\ ~IsAnswer(Closing(t))
  <2>1. Step(q).run = q /\ ~IsAnswer(Step(q))
    BY MessagesAre
  <2>. QED  BY <1>2, <2>1, SaidOnce
<1>4. /\ row.status = "busy" /\ row.steps = run[q].steps + 1 /\ row.made = run[q].made
      /\ row.launching = run[q].launching
  BY <1>1, <1>2 DEF Row
<1>. HIDE DEF row
<1>5. Carries(q, t, run[q], row)
  <2>1. ASSUME NEW r \in Runs, NEW p \in Nat
        PROVE  Matches(Evolved(q, Shown(r, run[q].status, run[q].steps, p), Step(q)), row)
    <3>1. Evolved(q, Shown(r, run[q].status, run[q].steps, p), Step(q)) = Shown(r, run[q].status, run[q].steps + 1, p)
      BY ByStep
    <3>2. Matches(Shown(r, run[q].status, run[q].steps + 1, p), row)
      BY <1>1, <1>4, ShownMatches
    <3>. QED  BY <3>1, <3>2
  <2>. QED  BY <1>2, <2>1, CarriesBy
<1>. HIDE DEF t
<1>. QED  BY <1>1, <1>3, <1>4, <1>5, LoopSays

LEMMA ParkShows ==
  ASSUME ViewTyped, ViewTyped', ShownInv, NEW q \in Runs, Park(q)
  PROVE  ShownInv'
<1>. DEFINE row == [run[q] EXCEPT !.status = "waiting", !.steps = @ + 1, !.made = @ + 1,
                                  !.pending = TRUE, !.parked = TRUE]
            patch == PatchReady(q, run[q].made + 1)
            told == RunUpdated(q, "waiting")
            t == <<Step(q), patch, told>>
<1>1. LoopStep /\ Emit(t) /\ run' = [run EXCEPT ![q] = row] /\ run[q].status = "busy"
  BY DEF Park, Running, Looping
<1>2. run[q] \in Row /\ Step(q) \in Parcel /\ patch \in Parcel /\ told \in Parcel
  BY RowIs, ParcelsAre DEF Listed
<1>3. Speech(t, q) /\ ~IsAnswer(Closing(t))
  <2>1. /\ Step(q).run = q /\ ~IsAnswer(Step(q))
        /\ patch.run = q /\ ~IsAnswer(patch)
        /\ told.run = q /\ ~IsAnswer(told)
    BY MessagesAre
  <2>. HIDE DEF patch, told
  <2>. QED  BY <1>2, <2>1, SaidThrice
<1>4. /\ row.status = "waiting" /\ row.steps = run[q].steps + 1 /\ row.made = run[q].made + 1
      /\ row.launching = run[q].launching
  BY <1>1, <1>2 DEF Row
<1>. HIDE DEF row
<1>5. Carries(q, t, run[q], row)
  <2>1. ASSUME NEW r \in Runs, NEW p \in Nat
        PROVE  LET da == Evolved(q, Shown(r, run[q].status, run[q].steps, p), Step(q))
                   db == Evolved(q, da, patch)
               IN  Matches(Evolved(q, db, told), row)
    <3>1. Evolved(q, Shown(r, run[q].status, run[q].steps, p), Step(q)) = Shown(r, run[q].status, run[q].steps + 1, p)
      BY ByStep
    <3>2. Evolved(q, Shown(r, run[q].status, run[q].steps + 1, p), patch) = Shown(r, run[q].status, run[q].steps + 1, run[q].made + 1)
      BY ByPatch
    <3>3. Evolved(q, Shown(r, run[q].status, run[q].steps + 1, run[q].made + 1), told) = Shown(r, "waiting", run[q].steps + 1, run[q].made + 1)
      BY ByStatus
    <3>4. Matches(Shown(r, "waiting", run[q].steps + 1, run[q].made + 1), row)
      BY <1>1, <1>4, ShownMatches
    <3>. QED  BY <3>1, <3>2, <3>3, <3>4
  <2>. HIDE DEF told, patch
  <2>. QED  BY <1>2, <2>1, CarriesBy
<1>. HIDE DEF t
<1>. QED  BY <1>1, <1>3, <1>4, <1>5, LoopSays

LEMMA EndShows ==
  ASSUME ViewTyped, ViewTyped', ShownInv, NEW q \in Runs, End(q)
  PROVE  ShownInv'
<1>. DEFINE row == [run[q] EXCEPT !.status = "ended", !.pending = FALSE, !.doomed = FALSE,
                                  !.text = 0]
            told == RunUpdated(q, "ended")
            t == <<told>>
<1>1. LoopStep /\ Emit(t) /\ run' = [run EXCEPT ![q] = row]
  BY DEF End
<1>2. run[q] \in Row /\ told \in Parcel
  BY RowIs, ParcelsAre DEF Listed
<1>3. Speech(t, q) /\ ~IsAnswer(Closing(t))
  <2>1. told.run = q /\ ~IsAnswer(told)
    BY MessagesAre
  <2>. HIDE DEF told
  <2>. QED  BY <1>2, <2>1, SaidOnce
<1>4. /\ row.status = "ended" /\ row.steps = run[q].steps /\ row.made = run[q].made
      /\ row.launching = run[q].launching
  BY <1>1, <1>2 DEF Row
<1>. HIDE DEF row
<1>5. Carries(q, t, run[q], row)
  <2>1. ASSUME NEW r \in Runs, NEW p \in Nat
        PROVE  Matches(Evolved(q, Shown(r, run[q].status, run[q].steps, p), told), row)
    <3>1. Evolved(q, Shown(r, run[q].status, run[q].steps, p), told) = Shown(r, "ended", run[q].steps, p)
      BY ByStatus
    <3>2. Matches(Shown(r, "ended", run[q].steps, p), row)
      BY <1>4, ShownMatches
    <3>. QED  BY <3>1, <3>2
  <2>. HIDE DEF told
  <2>. QED  BY <1>2, <2>1, CarriesBy
<1>. HIDE DEF t
<1>. QED  BY <1>1, <1>3, <1>4, <1>5, LoopSays

\* An answer carries a row to what has the same status, steps and patches.
LEMMA AnswerCarries ==
  ASSUME NEW q \in Runs, NEW row \in Row, NEW next, NEW msg \in Parcel, IsAnswer(msg),
         next.status = row.status, next.steps = row.steps, next.made = row.made
  PROVE  Carries(q, <<msg>>, row, next)
<1>1. \A r \in Runs, p \in Nat :
        Evolved(q, Shown(r, row.status, row.steps, p), msg) = Shown(r, row.status, row.steps, p)
  BY DEF Evolved, IsAnswer
<1>2. \A r \in Runs, p \in Nat :
        (row.status = "waiting" => p = row.made)
        => Matches(Evolved(q, Shown(r, row.status, row.steps, p), msg), next)
  BY <1>1 DEF Matches, Shown
<1>. QED  BY <1>2, CarriesBy

LEMMA LoopReachedShows ==
  ASSUME ViewTyped, ViewTyped', ShownInv, NEW q \in Runs, LoopReached(q)
  PROVE  ShownInv'
<1>. DEFINE row == [run[q] EXCEPT !.launching = FALSE]
            reply == ReplyTo("task", q, run[q])
            t == <<reply>>
<1>1. /\ run' = [run EXCEPT ![q] = row] /\ down' = down \o t /\ run[q].launching
      /\ UNCHANGED <<up, active, detail, asked>> /\ slipped' = slipped /\ slipped \in BOOLEAN
  BY DEF LoopReached, LoopStep, Emit, ShownInv
<1>2. run[q] \in Row /\ reply \in Parcel
  BY RowIs, ParcelsAre DEF Verb
<1>3. /\ Speech(t, q) /\ Closing(t) = reply /\ reply.kind = "reply" /\ reply.to = "task"
      /\ IsAnswer(reply) /\ reply.detail = Detail(q, run[q])
  <2>1. /\ reply.run = q /\ reply.kind = "reply" /\ reply.to = "task"
        /\ IsAnswer(reply) /\ reply.detail = Detail(q, run[q])
    BY MessagesAre
  <2>. HIDE DEF reply
  <2>. QED  BY <1>2, <2>1, SaidOnce
<1>4. /\ row.status = run[q].status /\ row.steps = run[q].steps /\ row.made = run[q].made
      /\ row.launching = FALSE
  BY <1>2 DEF Row
<1>5. run'[q] = row /\ \A r \in Runs \ {q} : run'[r] = run[r]
  BY <1>1, RowNext
<1>. HIDE DEF row, reply
<1>6. Speaks(t, q, run, run')
  BY <1>2, <1>3, <1>4, <1>5, AnswerCarries DEF Speaks
<1>7. Unborn(run'[q])
  BY <1>1, <1>4, <1>5 DEF ShownInv, Unborn
<1>8. Answering(t, up, up')
  BY <1>1, <1>3 DEF Answering, Plain
<1>9. Closing(t).detail.run = q /\ Matches(Closing(t).detail, run'[q])
  BY <1>3, <1>4, <1>5, DetailMatches
<1>10. /\ up' = up /\ (run'[q].launching => run[q].launching)
       /\ IsAnswer(Closing(t)) <=> ~(run[q].launching <=> run'[q].launching)
  BY <1>1, <1>3, <1>4, <1>5
<1>. HIDE DEF t
<1>. QED  BY <1>1, <1>6, <1>7, <1>8, <1>9, <1>10, MainSteps

\* The handler has taken the request v about run q.
Taken(v, q) == up # <<>> /\ up' = Tail(up) /\ Head(up).verb = v /\ Head(up).run = q /\ Untouched

LEMMA HandlerSays ==
  ASSUME ViewTyped, ViewTyped', ShownInv, NEW v, NEW q \in Runs, Taken(v, q),
         NEW t, Emit(t), Speech(t, q), Carries(q, t, run[q], run'[q]),
         \A r \in Runs \ {q} : run'[r] = run[r],
         run'[q].launching = run[q].launching, Unborn(run'[q]),
         slipped' \in BOOLEAN, slipped => slipped',
         IsAnswer(Closing(t)), Closing(t).to = v, v = "get" => Closing(t).kind = "reply",
         Closing(t).kind = "reply" =>
            /\ Closing(t).detail.run = q
            /\ Closing(t).to # "apply" \/ ~slipped' => Matches(Closing(t).detail, run'[q])
  PROVE  ShownInv'
<1>1. Speaks(t, q, run, run')
  BY DEF Speaks
<1>2. /\ UNCHANGED <<active, detail, asked>> /\ down' = down \o t
      /\ up # <<>> /\ up' = Tail(up) /\ Head(up).verb = v /\ Head(up).run = q
  BY DEF Taken, Untouched, Emit
<1>3. Closing(t).run = q
  BY SpeechIs DEF Speech, Closing
<1>4. Answering(t, up, up')
  BY <1>2, <1>3 DEF Answering
<1>. QED  BY <1>1, <1>2, <1>4, MainSteps

\* A handler whose answer is all it says, and what it says is true.
LEMMA AnswerSays ==
  ASSUME ViewTyped, ViewTyped', ShownInv, NEW v, NEW q \in Runs, Taken(v, q),
         NEW msg \in Parcel, Emit(<<msg>>), UNCHANGED slipped,
         \A r \in Runs \ {q} : run'[r] = run[r],
         run'[q].status = run[q].status, run'[q].steps = run[q].steps,
         run'[q].made = run[q].made, run'[q].launching = run[q].launching,
         IsAnswer(msg), msg.run = q, msg.to = v, v = "get" => msg.kind = "reply",
         msg.kind = "reply" => msg.detail.run = q /\ Matches(msg.detail, run[q])
  PROVE  ShownInv'
<1>. DEFINE t == <<msg>>
<1>1. Speech(t, q) /\ Closing(t) = msg
  BY SaidOnce
<1>2. run[q] \in Row
  BY RowIs
<1>3. Carries(q, t, run[q], run'[q])
  BY <1>2, AnswerCarries
<1>4. Unborn(run'[q]) /\ slipped' \in BOOLEAN /\ (slipped => slipped')
  BY DEF ShownInv, Unborn
<1>5. Matches(msg.detail, run[q]) => Matches(msg.detail, run'[q])
  BY DEF Matches
<1>6. /\ IsAnswer(Closing(t)) /\ Closing(t).to = v
      /\ v = "get" => Closing(t).kind = "reply"
      /\ Closing(t).kind = "reply" =>
            /\ Closing(t).detail.run = q
            /\ Closing(t).to # "apply" \/ ~slipped' => Matches(Closing(t).detail, run'[q])
      /\ Emit(t)
  BY <1>1, <1>5
<1>. HIDE DEF t
<1>. QED  BY <1>1, <1>3, <1>4, <1>6, HandlerSays

LEMMA RepliesAre ==
  ASSUME NEW v \in Verb, NEW q \in Runs, NEW row \in Row
  PROVE  /\ ReplyTo(v, q, row) \in Parcel /\ IsAnswer(ReplyTo(v, q, row))
         /\ ReplyTo(v, q, row).kind = "reply" /\ ReplyTo(v, q, row).run = q
         /\ ReplyTo(v, q, row).to = v /\ ReplyTo(v, q, row).detail = Detail(q, row)
         /\ Detail(q, row).run = q /\ Matches(Detail(q, row), row)
         /\ Refusal(v, q) \in Parcel /\ IsAnswer(Refusal(v, q))
         /\ Refusal(v, q).kind # "reply" /\ Refusal(v, q).run = q /\ Refusal(v, q).to = v
<1>1. ReplyTo(v, q, row) \in Parcel /\ Refusal(v, q) \in Parcel
  BY ParcelsAre
<1>2. Detail(q, row).run = q /\ Matches(Detail(q, row), row)
  BY DetailMatches
<1>. QED  BY <1>1, <1>2, MessagesAre

LEMMA GetShows ==
  ASSUME ViewTyped, ViewTyped', ShownInv, HandleGet
  PROVE  ShownInv'
<1>1. PICK q \in Runs : q = Asked
  BY TakenIs DEF HandleGet, Verb
<1>. DEFINE msg == ReplyTo("get", q, run[q])
<1>2. Taken("get", q) /\ Emit(<<msg>>) /\ run' = run /\ UNCHANGED slipped
  BY <1>1 DEF HandleGet, Takes, Taken, Asked
<1>3. run[q] \in Row /\ "get" \in Verb
  BY RowIs DEF Verb
<1>4. /\ msg \in Parcel /\ IsAnswer(msg) /\ msg.run = q /\ msg.to = "get" /\ msg.kind = "reply"
      /\ msg.detail.run = q /\ Matches(msg.detail, run[q])
  BY <1>3, RepliesAre
<1>. HIDE DEF msg
<1>. QED  BY <1>2, <1>4, AnswerSays

LEMMA StopShows ==
  ASSUME ViewTyped, ViewTyped', ShownInv, HandleStop
  PROVE  ShownInv'
<1>1. PICK q \in Runs : q = Asked
  BY TakenIs DEF HandleStop, Verb
<1>. DEFINE msg == ReplyTo("stop", q, run[q])
            row == [run[q] EXCEPT !.parked = FALSE, !.doomed = @ \/ run[q].status # "ended"]
<1>2. Taken("stop", q) /\ Emit(<<msg>>) /\ run' = [run EXCEPT ![q] = row] /\ UNCHANGED slipped
  BY <1>1 DEF HandleStop, Takes, Taken, Asked
<1>3. run[q] \in Row /\ "stop" \in Verb
  BY RowIs DEF Verb
<1>4. /\ msg \in Parcel /\ IsAnswer(msg) /\ msg.run = q /\ msg.to = "stop"
      /\ msg.detail.run = q /\ Matches(msg.detail, run[q])
  BY <1>3, RepliesAre
<1>5. run'[q] = row /\ \A r \in Runs \ {q} : run'[r] = run[r]
  BY <1>2, RowNext
<1>6. /\ run'[q].status = run[q].status /\ run'[q].steps = run[q].steps
      /\ run'[q].made = run[q].made /\ run'[q].launching = run[q].launching
  BY <1>3, <1>5 DEF Row
<1>. HIDE DEF msg, row
<1>. QED  BY <1>2, <1>4, <1>5, <1>6, AnswerSays

LEMMA TaskShows ==
  ASSUME ViewTyped, ViewTyped', ShownInv, HandleTask
  PROVE  ShownInv'
<1>. DEFINE said(q) == <<Message(q), RunUpdated(q, "busy")>>
<1>1. /\ up # <<>> /\ up' = Tail(up) /\ Head(up).verb = "task"
      /\ UNCHANGED <<active, detail, asked, slipped>> /\ slipped \in BOOLEAN
  BY DEF HandleTask, Takes, Untouched, ShownInv
<1>2. PICK q \in Runs :
        /\ run[q].status = "absent"
        /\ run' = [run EXCEPT ![q].status = "busy", ![q].steps = 1, ![q].launching = TRUE]
        /\ down' = down \o said(q)
  BY DEF HandleTask, Emit
<1>. DEFINE row == [run[q] EXCEPT !.status = "busy", !.steps = 1, !.launching = TRUE]
            told == RunUpdated(q, "busy")
            t == <<Message(q), told>>
<1>3. run' = [run EXCEPT ![q] = row]
  BY <1>2
<1>4. run[q] \in Row /\ run[q].steps = 0 /\ run[q].launching = FALSE
  BY <1>2, RowIs DEF ShownInv, Unborn, Row
<1>5. row.status = "busy" /\ row.steps = 0 + 1 /\ row.made = run[q].made /\ row.launching = TRUE
  BY <1>4 DEF Row
<1>. HIDE DEF row
<1>6. Message(q) \in Parcel /\ told \in Parcel
  BY ParcelsAre DEF Listed
<1>7. Speech(t, q) /\ ~IsAnswer(Closing(t)) /\ Closing(t).kind # "reply"
  <2>1. /\ Message(q).run = q /\ ~IsAnswer(Message(q))
        /\ told.run = q /\ ~IsAnswer(told)
    BY MessagesAre
  <2>. HIDE DEF told
  <2>. QED  BY <1>6, <2>1, SaidTwice DEF IsAnswer
<1>8. Carries(q, t, run[q], row)
  <2>1. ASSUME NEW r \in Runs, NEW p \in Nat
        PROVE  LET da == Evolved(q, Shown(r, run[q].status, run[q].steps, p), Message(q))
               IN  Matches(Evolved(q, da, told), row)
    <3>1. Evolved(q, Shown(r, run[q].status, run[q].steps, p), Message(q))
            = Shown(r, run[q].status, 0 + 1, p)
      BY <1>4, ByStep
    <3>2. Evolved(q, Shown(r, run[q].status, 0 + 1, p), told) = Shown(r, "busy", 0 + 1, p)
      BY ByStatus
    <3>3. Matches(Shown(r, "busy", 0 + 1, p), row)
      BY <1>5, ShownMatches
    <3>. QED  BY <3>1, <3>2, <3>3
  <2>. HIDE DEF told
  <2>. QED  BY <1>4, <1>6, <2>1, CarriesBy
<1>9. run'[q] = row /\ \A r \in Runs \ {q} : run'[r] = run[r]
  BY <1>3, RowNext
<1>10. Speaks(t, q, run, run') /\ Unborn(run'[q]) /\ down' = down \o t
  BY <1>2, <1>5, <1>7, <1>8, <1>9 DEF Speaks, Unborn
<1>11. Answering(t, up, up')
  BY <1>1, <1>7 DEF Answering, Plain
<1>12. /\ (run[q].launching => run'[q].launching)
       /\ IsAnswer(Closing(t)) <=> (run[q].launching <=> run'[q].launching)
  BY <1>4, <1>5, <1>7, <1>9
<1>. HIDE DEF t
<1>. QED  BY <1>1, <1>7, <1>10, <1>11, <1>12, MainSteps

LEMMA ContinueShows ==
  ASSUME ViewTyped, ViewTyped', ShownInv, HandleContinue
  PROVE  ShownInv'
<1>0. PICK q \in Runs : q = Asked
  BY TakenIs DEF HandleContinue, Verb
<1>1. /\ Taken("continue", q) /\ slipped' = slipped /\ slipped \in BOOLEAN
      /\ run[q] \in Row /\ "continue" \in Verb
  BY <1>0, RowIs DEF HandleContinue, ShownInv, Takes, Taken, Asked, Verb
<1>2. ASSUME run[q].status # "ended"
      PROVE  ShownInv'
  <2>. DEFINE msg == Refusal("continue", q)
  <2>1. run' = run /\ Emit(<<msg>>)
    BY <1>0, <1>2 DEF HandleContinue
  <2>2. /\ msg \in Parcel /\ IsAnswer(msg) /\ msg.run = q /\ msg.to = "continue"
        /\ msg.kind # "reply"
    BY <1>1, RepliesAre
  <2>. HIDE DEF msg
  <2>. QED  BY <1>1, <2>1, <2>2, AnswerSays
<1>3. ASSUME run[q].status = "ended"
      PROVE  ShownInv'
  <2>. DEFINE row == [run[q] EXCEPT !.status = "busy", !.steps = @ + 1]
              told == RunUpdated(q, "busy")
              reply == ReplyTo("continue", q, row)
              t == <<told, Message(q), reply>>
  <2>1. run' = [run EXCEPT ![q] = row]
    BY <1>0, <1>3 DEF HandleContinue
  <2>2. run'[q] = row /\ \A r \in Runs \ {q} : run'[r] = run[r]
    BY <2>1, RowNext
  <2>3. Emit(t)
    BY <1>0, <1>3, <2>2 DEF HandleContinue
  <2>4. row \in Row
    <3>1. run[q].steps + 1 \in Nat
      BY <1>1 DEF Row
    <3>. QED  BY <1>1, <3>1 DEF Row, Listed
  <2>5. /\ row.status = "busy" /\ row.steps = run[q].steps + 1 /\ row.made = run[q].made
        /\ row.launching = run[q].launching
    BY <1>1 DEF Row
  <2>. HIDE DEF row
  <2>6. /\ told \in Parcel /\ told.run = q /\ ~IsAnswer(told)
        /\ Message(q) \in Parcel /\ Message(q).run = q /\ ~IsAnswer(Message(q))
    BY ParcelsAre, MessagesAre DEF Listed
  <2>7. /\ reply \in Parcel /\ reply.run = q /\ reply.to = "continue" /\ IsAnswer(reply)
        /\ reply.detail.run = q /\ Matches(reply.detail, row)
    BY <1>1, <2>4, RepliesAre
  <2>8. Carries(q, t, run[q], row)
    <3>1. ASSUME NEW r \in Runs, NEW p \in Nat
          PROVE  LET da == Evolved(q, Shown(r, run[q].status, run[q].steps, p), told)
                     db == Evolved(q, da, Message(q))
                 IN  Matches(Evolved(q, db, reply), row)
      <4>1. Evolved(q, Shown(r, run[q].status, run[q].steps, p), told)
              = Shown(r, "busy", run[q].steps, p)
        BY ByStatus
      <4>2. Evolved(q, Shown(r, "busy", run[q].steps, p), Message(q))
              = Shown(r, "busy", run[q].steps + 1, p)
        BY ByStep
      <4>3. Evolved(q, Shown(r, "busy", run[q].steps + 1, p), reply)
              = Shown(r, "busy", run[q].steps + 1, p)
        BY <2>7, ByOther
      <4>4. Matches(Shown(r, "busy", run[q].steps + 1, p), row)
        BY <2>5, ShownMatches
      <4>. QED  BY <4>1, <4>2, <4>3, <4>4
    <3>. HIDE DEF told, reply
    <3>. QED  BY <1>1, <2>6, <2>7, <3>1, CarriesBy
  <2>. HIDE DEF told, reply
  <2>9. Speech(t, q) /\ Closing(t) = reply
    BY <2>6, <2>7, SaidThrice
  <2>10. Unborn(row)
    BY <2>5 DEF Unborn
  <2>. HIDE DEF t
  <2>. QED  BY <1>1, <2>2, <2>3, <2>5, <2>7, <2>8, <2>9, <2>10, HandlerSays
<1>. QED  BY <1>2, <1>3

LEMMA ApplyShows ==
  ASSUME ViewTyped, ViewTyped', ShownInv, HandleApply
  PROVE  ShownInv'
<1>0. PICK q \in Runs : q = Asked
  BY TakenIs DEF HandleApply, Verb
<1>1. Taken("apply", q) /\ slipped \in BOOLEAN /\ run[q] \in Row /\ "apply" \in Verb
  BY <1>0, RowIs DEF HandleApply, ShownInv, Takes, Taken, Asked, Verb
<1>2. ASSUME ~run[q].parked
      PROVE  ShownInv'
  <2>1. /\ run' = run /\ UNCHANGED slipped
        /\ Emit(<<ReplyTo("apply", q, run[q])>>) \/ Emit(<<Refusal("apply", q)>>)
    BY <1>0, <1>2 DEF HandleApply
  <2>2. PICK msg \in {ReplyTo("apply", q, run[q]), Refusal("apply", q)} : Emit(<<msg>>)
    BY <2>1
  <2>3. /\ msg \in Parcel /\ IsAnswer(msg) /\ msg.run = q /\ msg.to = "apply"
        /\ msg.kind = "reply" => msg.detail.run = q /\ Matches(msg.detail, run[q])
    BY <1>1, RepliesAre
  <2>. QED  BY <1>1, <2>1, <2>2, <2>3, AnswerSays
<1>3. ASSUME run[q].parked
      PROVE  ShownInv'
  <2>. DEFINE done == Approved(run[q])
              more == [done EXCEPT !.steps = @ + 1]
              told == RunUpdated(q, "busy")
              reply == ReplyTo("apply", q, done)
              short == <<Message(q), told, reply>>
              long == <<Message(q), told, Step(q), reply>>
  <2>1. \/ run' = [run EXCEPT ![q] = done] /\ Emit(short) /\ UNCHANGED slipped
        \/ run' = [run EXCEPT ![q] = more] /\ Emit(long) /\ slipped' = TRUE
    BY <1>0, <1>3 DEF HandleApply
  <2>2. run[q].steps + 1 \in Nat
    BY <1>1 DEF Row
  <2>3. /\ done.status = "busy" /\ done.steps = run[q].steps + 1 /\ done.made = run[q].made
        /\ done.launching = run[q].launching /\ done \in Row
    BY <1>1, <2>2 DEF Approved, Row, Listed
  <2>. HIDE DEF done
  <2>4. /\ more.status = "busy" /\ more.steps = (run[q].steps + 1) + 1 /\ more.made = run[q].made
        /\ more.launching = run[q].launching
    BY <2>3 DEF Row
  <2>. HIDE DEF more
  <2>5. /\ told \in Parcel /\ told.run = q /\ ~IsAnswer(told)
        /\ Message(q) \in Parcel /\ Message(q).run = q /\ ~IsAnswer(Message(q))
        /\ Step(q) \in Parcel /\ Step(q).run = q /\ ~IsAnswer(Step(q))
    BY ParcelsAre, MessagesAre DEF Listed
  <2>6. /\ reply \in Parcel /\ reply.run = q /\ reply.to = "apply" /\ IsAnswer(reply)
        /\ reply.detail.run = q /\ Matches(reply.detail, done)
    BY <1>1, <2>3, RepliesAre
  <2>7. \A r \in Runs, p \in Nat :
          Evolved(q, Evolved(q, Shown(r, run[q].status, run[q].steps, p), Message(q)), told)
            = Shown(r, "busy", run[q].steps + 1, p)
    <3>1. ASSUME NEW r \in Runs, NEW p \in Nat
          PROVE  Evolved(q, Evolved(q, Shown(r, run[q].status, run[q].steps, p), Message(q)), told)
                   = Shown(r, "busy", run[q].steps + 1, p)
      <4>1. Evolved(q, Shown(r, run[q].status, run[q].steps, p), Message(q))
              = Shown(r, run[q].status, run[q].steps + 1, p)
        BY ByStep
      <4>. QED  BY <4>1, ByStatus
    <3>. QED  BY <3>1
  <2>. HIDE DEF told, reply
  <2>8. Carries(q, short, run[q], done)
    <3>1. ASSUME NEW r \in Runs, NEW p \in Nat
          PROVE  LET da == Evolved(q, Shown(r, run[q].status, run[q].steps, p), Message(q))
                     db == Evolved(q, da, told)
                 IN  Matches(Evolved(q, db, reply), done)
      <4>1. Evolved(q, Shown(r, "busy", run[q].steps + 1, p), reply)
              = Shown(r, "busy", run[q].steps + 1, p)
        BY <2>6, ByOther
      <4>2. Matches(Shown(r, "busy", run[q].steps + 1, p), done)
        BY <2>3, ShownMatches
      <4>. QED  BY <2>7, <4>1, <4>2
    <3>. QED  BY <1>1, <2>5, <2>6, <3>1, CarriesBy
  <2>9. Carries(q, long, run[q], more)
    <3>1. ASSUME NEW r \in Runs, NEW p \in Nat
          PROVE  LET da == Evolved(q, Shown(r, run[q].status, run[q].steps, p), Message(q))
                     db == Evolved(q, da, told)
                     dc == Evolved(q, db, Step(q))
                 IN  Matches(Evolved(q, dc, reply), more)
      <4>1. Evolved(q, Shown(r, "busy", run[q].steps + 1, p), Step(q))
              = Shown(r, "busy", (run[q].steps + 1) + 1, p)
        BY ByStep
      <4>2. Evolved(q, Shown(r, "busy", (run[q].steps + 1) + 1, p), reply)
              = Shown(r, "busy", (run[q].steps + 1) + 1, p)
        BY <2>6, ByOther
      <4>3. Matches(Shown(r, "busy", (run[q].steps + 1) + 1, p), more)
        BY <2>4, ShownMatches
      <4>. QED  BY <2>7, <4>1, <4>2, <4>3
    <3>. QED  BY <1>1, <2>5, <2>6, <3>1, CarriesBy
  <2>10. Speech(short, q) /\ Closing(short) = reply
    BY <2>5, <2>6, SaidThrice
  <2>11. Speech(long, q) /\ Closing(long) = reply
    BY <2>5, <2>6, SaidFourTimes
  <2>. HIDE DEF short, long
  <2>12. CASE run' = [run EXCEPT ![q] = done] /\ Emit(short) /\ UNCHANGED slipped
    <3>1. run'[q] = done /\ \A r \in Runs \ {q} : run'[r] = run[r]
      BY <2>12, RowNext
    <3>2. slipped' \in BOOLEAN /\ (slipped => slipped') /\ Unborn(done)
      BY <1>1, <2>3, <2>12 DEF Unborn
    <3>. QED  BY <1>1, <2>3, <2>6, <2>8, <2>10, <2>12, <3>1, <3>2, HandlerSays
  <2>13. CASE run' = [run EXCEPT ![q] = more] /\ Emit(long) /\ slipped' = TRUE
    <3>1. run'[q] = more /\ \A r \in Runs \ {q} : run'[r] = run[r]
      BY <2>13, RowNext
    <3>2. slipped' \in BOOLEAN /\ (slipped => slipped') /\ Unborn(more)
      BY <1>1, <2>4, <2>13 DEF Unborn
    <3>3. ~(Closing(long).to # "apply" \/ ~slipped')
      BY <2>6, <2>11, <2>13
    <3>. QED  BY <1>1, <2>4, <2>6, <2>9, <2>11, <2>13, <3>1, <3>2, <3>3, HandlerSays
  <2>. QED  BY <2>1, <2>12, <2>13
<1>. QED  BY <1>2, <1>3

LEMMA RejectShows ==
  ASSUME ViewTyped, ViewTyped', ShownInv, HandleReject
  PROVE  ShownInv'
<1>0. PICK q \in Runs : q = Asked
  BY TakenIs DEF HandleReject, Verb
<1>1. /\ Taken("reject", q) /\ slipped' \in BOOLEAN /\ slipped' = slipped /\ (slipped => slipped')
      /\ run[q] \in Row /\ "reject" \in Verb /\ run[q].steps + 1 \in Nat
  BY <1>0, RowIs DEF HandleReject, ShownInv, Takes, Taken, Asked, Verb
<1>. DEFINE parked == [run[q] EXCEPT !.steps = @ + 1, !.pending = FALSE,
                                     !.parked = FALSE, !.doomed = TRUE]
            unheard == [run[q] EXCEPT !.pending = FALSE]
            quiet == [run[q] EXCEPT !.steps = @ + 1, !.pending = FALSE, !.status = "ended"]
<1>2. Message(q) \in Parcel /\ Message(q).run = q /\ ~IsAnswer(Message(q))
  BY ParcelsAre, MessagesAre
<1>3. ASSUME run[q].parked
      PROVE  ShownInv'
  <2>. DEFINE reply == ReplyTo("reject", q, parked)
              t == <<Message(q), reply>>
  <2>1. run' = [run EXCEPT ![q] = parked] /\ Emit(t)
    <3>1. run[q].status # "busy"
      BY <1>3, RowIs
    <3>. QED  BY <1>0, <1>3, <3>1 DEF HandleReject
  <2>2. /\ parked \in Row /\ parked.status = run[q].status /\ parked.steps = run[q].steps + 1
        /\ parked.made = run[q].made /\ parked.launching = run[q].launching
    BY <1>1 DEF Row
  <2>3. run[q].status = "waiting"
    BY <1>3, RowIs
  <2>. HIDE DEF parked
  <2>4. /\ reply \in Parcel /\ reply.run = q /\ reply.to = "reject" /\ IsAnswer(reply)
        /\ reply.detail.run = q /\ Matches(reply.detail, parked)
    BY <1>1, <2>2, RepliesAre
  <2>. HIDE DEF reply
  <2>5. Carries(q, t, run[q], parked)
    <3>1. ASSUME NEW r \in Runs, NEW p \in Nat, run[q].status = "waiting" => p = run[q].made
          PROVE  LET da == Evolved(q, Shown(r, run[q].status, run[q].steps, p), Message(q))
                 IN  Matches(Evolved(q, da, reply), parked)
      <4>1. Evolved(q, Shown(r, run[q].status, run[q].steps, p), Message(q))
              = Shown(r, run[q].status, run[q].steps + 1, p)
        BY ByStep
      <4>2. Evolved(q, Shown(r, run[q].status, run[q].steps + 1, p), reply)
              = Shown(r, run[q].status, run[q].steps + 1, p)
        BY <2>4, ByOther
      <4>3. Matches(Shown(r, run[q].status, run[q].steps + 1, p), parked)
        BY <2>2, <3>1, ShownMatches
      <4>. QED  BY <4>1, <4>2, <4>3
    <3>. QED  BY <1>1, <1>2, <2>4, <3>1, CarriesBy
  <2>6. Speech(t, q) /\ Closing(t) = reply
    BY <1>2, <2>4, SaidTwice
  <2>7. run'[q] = parked /\ \A r \in Runs \ {q} : run'[r] = run[r]
    BY <2>1, RowNext
  <2>8. Unborn(parked)
    BY <2>2, <2>3 DEF Unborn
  <2>. HIDE DEF t
  <2>. QED  BY <1>1, <2>1, <2>2, <2>4, <2>5, <2>6, <2>7, <2>8, HandlerSays
<1>4. ASSUME ~run[q].parked, run[q].status = "busy"
      PROVE  ShownInv'
  <2>. DEFINE reply == ReplyTo("reject", q, unheard)
  <2>1. run' = [run EXCEPT ![q] = unheard]
    BY <1>0, <1>4 DEF HandleReject
  <2>2. run'[q] = unheard /\ \A r \in Runs \ {q} : run'[r] = run[r]
    BY <2>1, RowNext
  <2>3. Emit(<<reply>>)
    BY <1>0, <1>4, <2>2 DEF HandleReject
  <2>4. /\ unheard \in Row /\ unheard.status = run[q].status /\ unheard.steps = run[q].steps
        /\ unheard.made = run[q].made /\ unheard.launching = run[q].launching
    BY <1>1 DEF Row
  <2>. HIDE DEF unheard
  <2>5. /\ reply \in Parcel /\ reply.run = q /\ reply.to = "reject" /\ IsAnswer(reply)
        /\ reply.detail = Detail(q, unheard) /\ reply.detail.run = q
    BY <1>1, <2>4, RepliesAre
  <2>6. Matches(reply.detail, run[q])
    BY <2>4, <2>5, DetailMatches
  <2>. HIDE DEF reply
  <2>. QED  BY <1>1, <2>2, <2>3, <2>4, <2>5, <2>6, AnswerSays
<1>5. ASSUME ~run[q].parked, run[q].status # "busy"
      PROVE  ShownInv'
  <2>. DEFINE told == RunUpdated(q, "ended")
              reply == ReplyTo("reject", q, quiet)
              t == <<Message(q), told, reply>>
  <2>1. run' = [run EXCEPT ![q] = quiet] /\ Emit(t)
    BY <1>0, <1>5 DEF HandleReject
  <2>2. /\ quiet \in Row /\ quiet.status = "ended" /\ quiet.steps = run[q].steps + 1
        /\ quiet.made = run[q].made /\ quiet.launching = run[q].launching
    BY <1>1 DEF Row, Listed
  <2>. HIDE DEF quiet
  <2>3. told \in Parcel /\ told.run = q /\ ~IsAnswer(told)
    BY ParcelsAre, MessagesAre DEF Listed
  <2>4. /\ reply \in Parcel /\ reply.run = q /\ reply.to = "reject" /\ IsAnswer(reply)
        /\ reply.detail.run = q /\ Matches(reply.detail, quiet)
    BY <1>1, <2>2, RepliesAre
  <2>. HIDE DEF reply
  <2>5. Carries(q, t, run[q], quiet)
    <3>1. ASSUME NEW r \in Runs, NEW p \in Nat
          PROVE  LET da == Evolved(q, Shown(r, run[q].status, run[q].steps, p), Message(q))
                     db == Evolved(q, da, told)
                 IN  Matches(Evolved(q, db, reply), quiet)
      <4>1. Evolved(q, Shown(r, run[q].status, run[q].steps, p), Message(q))
              = Shown(r, run[q].status, run[q].steps + 1, p)
        BY ByStep
      <4>2. Evolved(q, Shown(r, run[q].status, run[q].steps + 1, p), told)
              = Shown(r, "ended", run[q].steps + 1, p)
        BY ByStatus
      <4>3. Evolved(q, Shown(r, "ended", run[q].steps + 1, p), reply)
              = Shown(r, "ended", run[q].steps + 1, p)
        BY <2>4, ByOther
      <4>4. Matches(Shown(r, "ended", run[q].steps + 1, p), quiet)
        BY <2>2, ShownMatches
      <4>. QED  BY <4>1, <4>2, <4>3, <4>4
    <3>. HIDE DEF told
    <3>. QED  BY <1>1, <1>2, <2>3, <2>4, <3>1, CarriesBy
  <2>. HIDE DEF told
  <2>6. Speech(t, q) /\ Closing(t) = reply
    BY <1>2, <2>3, <2>4, SaidThrice
  <2>7. run'[q] = quiet /\ \A r \in Runs \ {q} : run'[r] = run[r]
    BY <2>1, RowNext
  <2>8. Unborn(quiet)
    BY <2>2 DEF Unborn
  <2>. HIDE DEF t
  <2>. QED  BY <1>1, <2>1, <2>2, <2>4, <2>5, <2>6, <2>7, <2>8, HandlerSays
<1>. QED  BY <1>3, <1>4, <1>5

(***************************************************************************)
(* What the user does: a request goes up behind the others.                *)
(***************************************************************************)

LEMMA Requested ==
  ASSUME ViewTyped, ShownInv, NEW v, NEW r, Request(v, r), [verb |-> v, run |-> r] \in Order,
         UNCHANGED detail,
         \/ v = "get" /\ active' = r /\ r \in Runs
         \/ UNCHANGED active /\ (Plain(v) => r = active)
  PROVE  ShownInv'
<1>. DEFINE order == [verb |-> v, run |-> r]
<1>1. /\ up \in Seq(Order) /\ up' = Append(up, order) /\ asked' = asked + 1
      /\ UNCHANGED <<run, down, slipped, detail>>
  BY DEF ViewTyped, ChannelsTyped, Request
<1>2. /\ slipped \in BOOLEAN /\ RepliesLead(down, run, slipped)
      /\ \A q \in Runs : Unborn(run[q])
      /\ ~slipped /\ active # NoRun => InHand(down, up, active, detail, run[active])
  BY DEF ShownInv
<1>3. /\ order \in Order /\ order.verb = v /\ order.run = r
  OBVIOUS
<1>. HIDE DEF order
<1>4. /\ Len(up) \in Nat /\ Len(up') = Len(up) + 1
      /\ \A i \in 1 .. Len(up) : up'[i] = up[i]
      /\ up'[Len(up) + 1] = order
  BY <1>1, <1>3
<1>5. \E n \in Nat : Answers(down', n) /\ asked' = Len(up') + n + BeingLaunched'
  <2>1. PICK n \in Nat : Answers(down, n) /\ asked = Len(up) + n + BeingLaunched
    BY DEF ShownInv, Counted
  <2>2. BeingLaunched' = BeingLaunched /\ BeingLaunched \in Nat
    BY <1>1 DEF BeingLaunched
  <2>3. Answers(down', n)
    BY <1>1, <2>1
  <2>4. asked' = Len(up') + n + BeingLaunched'
    BY <1>1, <1>4, <2>1, <2>2
  <2>. QED  BY <2>3, <2>4
<1>6. CASE v = "get" /\ active' = r /\ r \in Runs
  <2>1. Len(up') \in 1 .. Len(up') /\ up'[Len(up')] = order
    BY <1>4
  <2>2. ForUp(up', Len(up'), r)
    <3>1. \A i \in Len(up') .. Len(up') : i = Len(up')
      BY <1>4
    <3>. QED  BY <1>3, <2>1, <3>1 DEF ForUp
  <2>3. GetUp(up', r, Len(up'))
    BY <1>3, <1>6, <2>1, <2>2 DEF GetUp
  <2>4. InHand(down', up', active', detail', run'[active'])
    BY <1>6, <2>1, <2>3 DEF InHand
  <2>. QED  BY <1>1, <1>2, <1>5, <2>4, ShownNext
<1>7. CASE UNCHANGED active /\ (Plain(v) => r = active)
  <2>1. ASSUME NEW from \in 1 .. Len(up) + 1, ForUp(up, from, active)
        PROVE  ForUp(up', from, active)
    <3>1. ASSUME NEW i \in from .. Len(up'), Plain(up'[i].verb)
          PROVE  up'[i].run = active
      <4>1. CASE i = Len(up) + 1
        BY <1>3, <1>4, <1>7, <3>1, <4>1
      <4>2. CASE i # Len(up) + 1
        <5>1. i \in from .. Len(up) /\ i \in 1 .. Len(up)
          BY <1>4, <4>2
        <5>. QED  BY <1>4, <2>1, <3>1, <5>1 DEF ForUp
      <4>. QED  BY <4>1, <4>2
    <3>. QED  BY <3>1 DEF ForUp
  <2>2. ASSUME ~slipped, active # NoRun
        PROVE  InHand(down, up', active, detail, run[active])
    <3>1. InHand(down, up, active, detail, run[active]) /\ 1 \in 1 .. Len(up) + 1
      BY <1>2, <1>4, <2>2
    <3>2. CASE SettledOn(down, up, active, detail, run[active])
      BY <2>1, <3>1, <3>2 DEF InHand, SettledOn
    <3>3. ASSUME NEW i \in 1 .. Len(down), GetDown(down, up, active, i)
          PROVE  GetDown(down, up', active, i)
      BY <2>1, <3>1, <3>3 DEF GetDown
    <3>4. ASSUME NEW i \in 1 .. Len(up), GetUp(up, active, i)
          PROVE  i \in 1 .. Len(up') /\ GetUp(up', active, i)
      BY <1>4, <2>1, <3>4 DEF GetUp
    <3>. QED  BY <3>1, <3>2, <3>3, <3>4 DEF InHand
  <2>3. ~slipped' /\ active' # NoRun => InHand(down', up', active', detail', run'[active'])
    BY <1>1, <1>7, <2>2
  <2>. QED  BY <1>1, <1>2, <1>5, <2>3, ShownNext
<1>. QED  BY <1>6, <1>7

LEMMA NothingShown ==
  ASSUME ShownInv, UNCHANGED <<run, up, down, asked, slipped>>,
         UNCHANGED <<active, detail>> \/ active' = NoRun
  PROVE  ShownInv'
<1>1. /\ slipped \in BOOLEAN /\ RepliesLead(down, run, slipped)
      /\ \A q \in Runs : Unborn(run[q])
      /\ ~slipped /\ active # NoRun => InHand(down, up, active, detail, run[active])
  BY DEF ShownInv
<1>2. \E n \in Nat : Answers(down', n) /\ asked' = Len(up') + n + BeingLaunched'
  <2>1. BeingLaunched' = BeingLaunched
    BY DEF BeingLaunched
  <2>. QED  BY <2>1 DEF ShownInv, Counted
<1>. QED  BY <1>1, <1>2, ShownNext

LEMMA UserShows ==
  ASSUME ViewTyped, ShownInv,
         \/ \E r \in Runs : SelectRun(r)
         \/ NewRun \/ Submit \/ Apply \/ Reject \/ Stop \/ ToggleSheet
  PROVE  ShownInv'
<1>1. active \in Runs \cup {NoRun} /\ detail \in RunDetail \cup {NoDetail}
  BY DEF ViewTyped, ScreenTyped
<1>2. ASSUME NEW r \in Runs, SelectRun(r)
      PROVE  ShownInv'
  <2>1. Request("get", r) /\ active' = r /\ UNCHANGED detail
    BY <1>2 DEF SelectRun
  <2>2. [verb |-> "get", run |-> r] \in Order
    BY DEF Order, Verb
  <2>. QED  BY <2>1, <2>2, Requested
<1>3. ASSUME NewRun \/ ToggleSheet
      PROVE  ShownInv'
  BY <1>3, NothingShown DEF NewRun, ToggleSheet
<1>4. ASSUME Submit
      PROVE  ShownInv'
  <2>1. UNCHANGED <<active, detail>>
    BY <1>4 DEF Submit
  <2>2. CASE Request("continue", detail.run) /\ detail # NoDetail
    <3>1. [verb |-> "continue", run |-> detail.run] \in Order
      BY <1>1, <2>2 DEF Order, Verb, RunDetail
    <3>2. ~Plain("continue")
      BY DEF Plain
    <3>. QED  BY <2>1, <2>2, <3>1, <3>2, Requested
  <2>3. CASE Request("task", NoRun)
    <3>1. [verb |-> "task", run |-> NoRun] \in Order
      BY DEF Order
    <3>2. ~Plain("task")
      BY DEF Plain
    <3>. QED  BY <2>1, <2>3, <3>1, <3>2, Requested
  <2>. QED  BY <1>4, <2>2, <2>3 DEF Submit
<1>5. ASSUME NEW v \in Verb \ {"task"}, Act(v)
      PROVE  ShownInv'
  <2>1. Request(v, active) /\ active \in Runs /\ UNCHANGED <<active, detail>>
    BY <1>1, <1>5 DEF Act
  <2>2. [verb |-> v, run |-> active] \in Order
    BY <2>1 DEF Order
  <2>. QED  BY <2>1, <2>2, Requested
<1>. QED  BY <1>2, <1>3, <1>4, <1>5 DEF Apply, Reject, Stop, Verb

(***************************************************************************)
(* What the renderer does with a message.                                  *)
(***************************************************************************)

LEMMA DownMoves ==
  ASSUME NEW s \in Seq(Parcel), s # <<>>
  PROVE  /\ Tail(s) \in Seq(Parcel) /\ Len(Tail(s)) \in Nat /\ Len(s) = Len(Tail(s)) + 1
         /\ Head(s) \in Parcel /\ Head(s) = s[1]
         /\ \A i \in 1 .. Len(Tail(s)) : Tail(s)[i] = s[i + 1]
OBVIOUS

LEMMA ForDownMoves ==
  ASSUME NEW s \in Seq(Parcel), s # <<>>, NEW q, NEW i \in 1 .. Len(s), ForDown(s, i, q)
  PROVE  /\ IsAnswer(s[i]) /\ Plain(s[i].to) => s[i].run = q
         /\ i = 1 => ForDown(Tail(s), 1, q)
         /\ i # 1 => ForDown(Tail(s), i - 1, q)
<1>1. /\ Len(Tail(s)) \in Nat /\ Len(s) = Len(Tail(s)) + 1
      /\ \A k \in 1 .. Len(Tail(s)) : Tail(s)[k] = s[k + 1]
  BY DownMoves
<1>. DEFINE n == Len(Tail(s))
<1>. HIDE DEF n
<1>2. n \in Nat /\ Len(s) = n + 1 /\ \A k \in 1 .. n : Tail(s)[k] = s[k + 1]
  BY <1>1 DEF n
<1>3. i \in i .. Len(s)
  BY <1>2
<1>4. ASSUME NEW from \in 1 .. n + 1, i <= from + 1
      PROVE  ForDown(Tail(s), from, q)
  <2>1. ASSUME NEW k \in from .. n, IsAnswer(Tail(s)[k]), Plain(Tail(s)[k].to)
        PROVE  Tail(s)[k].run = q
    <3>1. k \in 1 .. n /\ k + 1 \in i .. Len(s) /\ Tail(s)[k] = s[k + 1]
      BY <1>2, <1>4
    <3>. QED  BY <2>1, <3>1 DEF ForDown
  <2>. QED  BY <2>1 DEF ForDown, n
<1>5. i = 1 => ForDown(Tail(s), 1, q)
  BY <1>2, <1>4
<1>6. i # 1 => ForDown(Tail(s), i - 1, q)
  <2>1. ASSUME i # 1
        PROVE  i - 1 \in 1 .. n + 1 /\ i <= (i - 1) + 1
    BY <1>2, <2>1
  <2>. QED  BY <1>4, <2>1
<1>. QED  BY <1>3, <1>5, <1>6 DEF ForDown

LEMMA GetMovesUp ==
  ASSUME NEW s \in Seq(Parcel), s # <<>>, NEW u, NEW q, NEW i \in 1 .. Len(s), i # 1,
         GetDown(s, u, q, i)
  PROVE  i - 1 \in 1 .. Len(Tail(s)) /\ GetDown(Tail(s), u, q, i - 1)
<1>1. /\ Len(Tail(s)) \in Nat /\ Len(s) = Len(Tail(s)) + 1
      /\ \A k \in 1 .. Len(Tail(s)) : Tail(s)[k] = s[k + 1]
  BY DownMoves
<1>2. i - 1 \in 1 .. Len(Tail(s)) /\ (i - 1) + 1 = i
  BY <1>1
<1>3. Tail(s)[i - 1] = s[i]
  BY <1>1, <1>2
<1>4. ForDown(Tail(s), i - 1, q)
  BY ForDownMoves DEF GetDown
<1>. QED  BY <1>2, <1>3, <1>4 DEF GetDown

LEMMA RepliesMoveUp ==
  ASSUME NEW s \in Seq(Parcel), s # <<>>, NEW rows, NEW slip \in BOOLEAN,
         RepliesLead(s, rows, slip)
  PROVE  /\ RepliesLead(Tail(s), rows, slip)
         /\ Head(s).kind = "reply" =>
              /\ Head(s).detail.run = Head(s).run
              /\ Head(s).to # "apply" \/ ~slip =>
                   Leads(Head(s).run, Tail(s), 1, Head(s).detail, rows[Head(s).run])
<1>. DEFINE n == Len(Tail(s))
<1>. HIDE DEF n
<1>1. /\ n \in Nat /\ Len(s) = n + 1 /\ Head(s) = s[1]
      /\ \A i \in 1 .. n : Tail(s)[i] = s[i + 1]
  BY DownMoves DEF n
<1>2. ASSUME NEW i \in 1 .. Len(s), s[i].kind = "reply", s[i].to # "apply" \/ ~slip
      PROVE  Leads(s[i].run, Tail(s), i, s[i].detail, rows[s[i].run])
  <2>1. Leads(s[i].run, s, i + 1, s[i].detail, rows[s[i].run])
    BY <1>2 DEF RepliesLead
  <2>2. i + 1 \in 2 .. Len(s) + 1 /\ (i + 1) - 1 = i
    BY <1>1
  <2>3. Leads(s[i].run, Tail(s), (i + 1) - 1, s[i].detail, rows[s[i].run])
    BY <2>1, <2>2, LeadsMovesUp
  <2>. QED  BY <2>2, <2>3
<1>3. ASSUME NEW i \in 1 .. n, Tail(s)[i].kind = "reply"
      PROVE  /\ Tail(s)[i].detail.run = Tail(s)[i].run
             /\ Tail(s)[i].to # "apply" \/ ~slip =>
                  Leads(Tail(s)[i].run, Tail(s), i + 1, Tail(s)[i].detail, rows[Tail(s)[i].run])
  <2>1. Tail(s)[i] = s[i + 1] /\ i + 1 \in 1 .. Len(s)
    BY <1>1
  <2>2. s[i + 1].detail.run = s[i + 1].run
    BY <1>3, <2>1 DEF RepliesLead
  <2>. QED  BY <1>2, <1>3, <2>1, <2>2
<1>4. 1 \in 1 .. Len(s)
  BY <1>1
<1>5. Head(s).kind = "reply" => Head(s).detail.run = Head(s).run
  BY <1>1, <1>4 DEF RepliesLead
<1>6. Head(s).kind = "reply" /\ (Head(s).to # "apply" \/ ~slip) =>
        Leads(Head(s).run, Tail(s), 1, Head(s).detail, rows[Head(s).run])
  BY <1>1, <1>2, <1>4
<1>. QED  BY <1>3, <1>5, <1>6 DEF RepliesLead, n

\* The first message is gone: what is owed, and that nothing is left if nothing is.
LEMMA OneLess ==
  ASSUME ViewTyped, ShownInv, down # <<>>, down' = Tail(down), UNCHANGED <<run, up>>,
         asked' = IF IsAnswer(Head(down)) THEN asked - 1 ELSE asked
  PROVE  /\ \E n \in Nat : Answers(down', n) /\ asked' = Len(up') + n + BeingLaunched'
         /\ asked' \in Nat
         /\ asked' = 0 => /\ \A slip : RepliesLead(Tail(down), run, slip)
                          /\ \A q : ForDown(Tail(down), 1, q) /\ ForUp(up, 1, q)
<1>1. down \in Seq(Parcel) /\ up \in Seq(Order) /\ Len(up) \in Nat
  BY DEF ViewTyped, ChannelsTyped
<1>2. PICK n \in Nat : Answers(down, n) /\ asked = Len(up) + n + BeingLaunched
  BY DEF ShownInv, Counted
<1>3. BeingLaunched \in Nat /\ BeingLaunched' = BeingLaunched
  BY DEF BeingLaunched
<1>4. PICK m \in Nat : Answers(Tail(down), m) /\ asked' = Len(up) + m + BeingLaunched
  <2>1. CASE IsAnswer(Head(down))
    <3>1. n > 0 /\ Answers(Tail(down), n - 1)
      BY <1>1, <1>2, <2>1, AnswersShrink
    <3>2. n - 1 \in Nat /\ asked' = Len(up) + (n - 1) + BeingLaunched
      BY <1>1, <1>2, <1>3, <2>1, <3>1
    <3>. QED  BY <3>1, <3>2
  <2>2. CASE ~IsAnswer(Head(down))
    BY <1>1, <1>2, <2>2, AnswersShrink
  <2>. QED  BY <2>1, <2>2
<1>5. ASSUME asked' = 0
      PROVE  /\ \A slip : RepliesLead(Tail(down), run, slip)
             /\ \A q : ForDown(Tail(down), 1, q) /\ ForUp(up, 1, q)
  <2>1. m = 0 /\ Len(up) = 0
    BY <1>1, <1>3, <1>4, <1>5
  <2>2. \A i \in 1 .. Len(Tail(down)) : ~IsAnswer(Tail(down)[i])
    <3>1. Tail(down) \in Seq(Parcel)
      BY <1>1
    <3>. QED  BY <1>4, <2>1, <3>1, NoAnswers
  <2>3. \A slip : RepliesLead(Tail(down), run, slip)
    BY <2>2 DEF RepliesLead, IsAnswer
  <2>4. \A q : ForDown(Tail(down), 1, q)
    BY <2>2 DEF ForDown
  <2>5. \A q : ForUp(up, 1, q)
    BY <2>1 DEF ForUp
  <2>. QED  BY <2>3, <2>4, <2>5
<1>6. asked' \in Nat
  BY <1>1, <1>3, <1>4
<1>7. Answers(down', m) /\ asked' = Len(up') + m + BeingLaunched'
  BY <1>3, <1>4
<1>. QED  BY <1>5, <1>6, <1>7

LEMMA EventShows ==
  ASSUME ViewTyped, ShownInv, OnEvent
  PROVE  ShownInv'
<1>1. /\ down # <<>> /\ down' = Tail(down) /\ UNCHANGED <<run, up, active, asked, slipped>>
      /\ ~IsAnswer(Head(down)) /\ slipped \in BOOLEAN
      /\ detail' = IF Head(down).kind = "delta" \/ Head(down).run # active THEN detail
                   ELSE Reduce(detail, Head(down))
  BY DEF OnEvent, Show, Filtered, IsAnswer, ShownInv
<1>2. /\ down \in Seq(Parcel) /\ up \in Seq(Order) /\ active \in Runs \cup {NoRun}
      /\ Head(down) \in Parcel
  BY <1>1, HeadIs DEF ViewTyped, ChannelsTyped, ScreenTyped
<1>3. /\ RepliesLead(down, run, slipped) /\ \A r \in Runs : Unborn(run[r])
      /\ ~slipped /\ active # NoRun => InHand(down, up, active, detail, run[active])
  BY DEF ShownInv
<1>4. \E n \in Nat : Answers(down', n) /\ asked' = Len(up') + n + BeingLaunched'
  BY <1>1, OneLess
<1>5. RepliesLead(Tail(down), run, slipped)
  BY <1>1, <1>2, <1>3, RepliesMoveUp
<1>6. ASSUME ~slipped, active # NoRun
      PROVE  InHand(Tail(down), up, active, detail', run[active])
  <2>1. active \in Runs /\ InHand(down, up, active, detail, run[active])
    BY <1>2, <1>3, <1>6
  <2>2. CASE SettledOn(down, up, active, detail, run[active])
    <3>1. Leads(active, down, 1, detail, run[active]) /\ detail.run = active /\ detail \in RunDetail
      BY <2>2 DEF SettledOn, Leads
    <3>2. Leads(active, Tail(down), 1, Evolved(active, detail, Head(down)), run[active])
      BY <1>1, <1>2, <2>1, <3>1, LeadsBegins
    <3>3. detail' = Evolved(active, detail, Head(down))
      <4>1. detail # NoDetail /\ detail.run = active
        BY <1>6, <3>1 DEF NoDetail
      <4>2. CASE Head(down).kind = "delta" \/ Head(down).run # active
        BY <1>1, <4>2 DEF Evolved
      <4>3. CASE Head(down).kind # "delta" /\ Head(down).run = active
        <5>1. detail' = Reduce(detail, Head(down))
          BY <1>1, <4>3
        <5>2. CASE Head(down).kind = "run"
          <6>1. Head(down).run = detail.run /\ ~(Head(down).run > detail.run)
            BY <2>1, <4>1, <4>3 DEF Runs
          <6>. QED  BY <4>1, <4>3, <5>1, <5>2, <6>1 DEF Reduce, Evolved
        <5>3. CASE Head(down).kind \in {"step", "message"}
          BY <4>1, <4>3, <5>1, <5>3 DEF Reduce, Evolved
        <5>4. CASE Head(down).kind = "patch"
          BY <4>1, <4>3, <5>1, <5>4 DEF Reduce, Evolved
        <5>. QED  BY <1>1, <1>2, <4>3, <5>2, <5>3, <5>4 DEF Parcel, IsAnswer
      <4>. QED  BY <4>2, <4>3
    <3>4. 1 \in 1 .. Len(down)
      BY <1>1, <1>2, DownMoves
    <3>5. ForDown(Tail(down), 1, active)
      BY <1>1, <1>2, <2>2, <3>4, ForDownMoves DEF SettledOn
    <3>. QED  BY <2>2, <3>2, <3>3, <3>5 DEF InHand, SettledOn
  <2>3. ASSUME NEW i \in 1 .. Len(down), GetDown(down, up, active, i)
        PROVE  InHand(Tail(down), up, active, detail', run[active])
    <3>1. i # 1
      BY <1>1, <1>2, <2>3, DownMoves DEF GetDown, IsAnswer
    <3>. QED  BY <1>1, <1>2, <2>3, <3>1, GetMovesUp DEF InHand
  <2>4. ASSUME NEW i \in 1 .. Len(up), GetUp(up, active, i)
        PROVE  InHand(Tail(down), up, active, detail', run[active])
    BY <2>4 DEF InHand
  <2>. QED  BY <2>1, <2>2, <2>3, <2>4 DEF InHand
<1>7. ~slipped' /\ active' # NoRun => InHand(down', up', active', detail', run'[active'])
  BY <1>1, <1>6
<1>. QED  BY <1>1, <1>3, <1>4, <1>5, <1>7, ShownNext

LEMMA StartedShows ==
  ASSUME ViewTyped, ShownInv, OnStarted
  PROVE  ShownInv'
<1>1. /\ down # <<>> /\ down' = Tail(down) /\ UNCHANGED <<run, up>> /\ asked' = asked - 1
      /\ Head(down).kind = "reply" /\ Head(down).to \in {"task", "continue"}
      /\ active' = Head(down).detail.run /\ detail' = Head(down).detail
      /\ slipped' = (slipped \/ asked' > 0) /\ slipped \in BOOLEAN
  BY DEF OnStarted, Show, Answered, ShownInv
<1>2. /\ down \in Seq(Parcel) /\ up \in Seq(Order) /\ Head(down) \in Parcel
  BY <1>1, HeadIs DEF ViewTyped, ChannelsTyped, ScreenTyped
<1>3. RepliesLead(down, run, slipped) /\ \A r \in Runs : Unborn(run[r])
  BY DEF ShownInv
<1>4. /\ \E n \in Nat : Answers(down', n) /\ asked' = Len(up') + n + BeingLaunched'
      /\ asked' \in Nat
      /\ asked' = 0 => \A q : ForDown(Tail(down), 1, q) /\ ForUp(up, 1, q)
  BY <1>1, OneLess DEF IsAnswer
<1>5. /\ RepliesLead(Tail(down), run, slipped)
      /\ Head(down).detail.run = Head(down).run
      /\ Leads(Head(down).run, Tail(down), 1, Head(down).detail, run[Head(down).run])
  BY <1>1, <1>2, <1>3, RepliesMoveUp
<1>6. slipped' \in BOOLEAN
  BY <1>1
<1>7. RepliesLead(Tail(down), run, slipped')
  BY <1>1, <1>5 DEF RepliesLead
<1>8. ASSUME ~slipped'
      PROVE  InHand(down', up', active', detail', run'[active'])
  <2>1. asked' = 0
    <3>1. ~(slipped \/ asked' > 0)
      BY <1>1, <1>8
    <3>. QED  BY <1>4, <3>1
  <2>2. SettledOn(Tail(down), up, active', detail', run[active'])
    BY <1>1, <1>4, <1>5, <2>1 DEF SettledOn
  <2>. QED  BY <1>1, <2>2 DEF InHand
<1>. QED  BY <1>1, <1>3, <1>4, <1>6, <1>7, <1>8, ShownNext

LEMMA DetailShows ==
  ASSUME ViewTyped, ShownInv, OnDetail
  PROVE  ShownInv'
<1>. DEFINE msg == Head(down)
<1>1. /\ down # <<>> /\ down' = Tail(down) /\ UNCHANGED <<run, up, active>> /\ asked' = asked - 1
      /\ msg.kind = "reply" /\ Plain(msg.to) /\ detail' = msg.detail
      /\ slipped' = (slipped /\ ~(msg.to = "get" /\ msg.detail.run = active /\ asked' = 0))
      /\ slipped \in BOOLEAN
  BY DEF OnDetail, Answered, ShownInv, Plain
<1>2. /\ down \in Seq(Parcel) /\ up \in Seq(Order) /\ active \in Runs \cup {NoRun}
      /\ msg \in Parcel
  BY <1>1, HeadIs DEF ViewTyped, ChannelsTyped, ScreenTyped
<1>3. /\ RepliesLead(down, run, slipped) /\ \A r \in Runs : Unborn(run[r])
      /\ ~slipped /\ active # NoRun => InHand(down, up, active, detail, run[active])
  BY DEF ShownInv
<1>4. /\ \E n \in Nat : Answers(down', n) /\ asked' = Len(up') + n + BeingLaunched'
      /\ asked' = 0 => /\ \A slip : RepliesLead(Tail(down), run, slip)
                       /\ \A q : ForDown(Tail(down), 1, q) /\ ForUp(up, 1, q)
  BY <1>1, OneLess DEF IsAnswer
<1>5. /\ RepliesLead(Tail(down), run, slipped)
      /\ msg.detail.run = msg.run
      /\ msg.to # "apply" \/ ~slipped =>
           Leads(msg.run, Tail(down), 1, msg.detail, run[msg.run])
  BY <1>1, <1>2, <1>3, RepliesMoveUp
<1>6. slipped' \in BOOLEAN
  BY <1>1
<1>7. IsAnswer(msg)
  BY <1>1 DEF IsAnswer
<1>. HIDE DEF msg
<1>8. CASE slipped /\ slipped'
  <2>1. RepliesLead(down', run', slipped')
    <3>1. slipped' = slipped
      BY <1>1, <1>6, <1>8
    <3>. QED  BY <1>1, <1>5, <3>1
  <2>. QED  BY <1>1, <1>3, <1>4, <1>6, <1>8, <2>1, ShownNext
<1>9. CASE slipped /\ ~slipped'
  <2>1. msg.to = "get" /\ msg.run = active /\ asked' = 0
    BY <1>1, <1>5, <1>9
  <2>2. RepliesLead(down', run', slipped')
    BY <1>1, <1>4, <2>1
  <2>3. SettledOn(Tail(down), up, active, msg.detail, run[active])
    BY <1>4, <1>5, <2>1 DEF SettledOn
  <2>4. InHand(down', up', active', detail', run'[active'])
    BY <1>1, <2>3 DEF InHand
  <2>. QED  BY <1>1, <1>3, <1>4, <1>6, <2>2, <2>4, ShownNext
<1>10. CASE ~slipped
  <2>1. ~slipped' /\ RepliesLead(down', run', slipped')
    <3>1. slipped' = slipped
      BY <1>1, <1>6, <1>10
    <3>. QED  BY <1>1, <1>5, <1>10, <3>1
  <2>2. ASSUME active # NoRun
        PROVE  InHand(Tail(down), up, active, msg.detail, run[active])
    <3>1. active \in Runs /\ InHand(down, up, active, detail, run[active])
      BY <1>2, <1>3, <1>10, <2>2
    <3>2. Len(down) \in Nat /\ 1 \in 1 .. Len(down) /\ down[1] = msg
      BY <1>1, <1>2, DownMoves DEF msg
    <3>3. ASSUME ForDown(down, 1, active), ForUp(up, 1, active)
          PROVE  SettledOn(Tail(down), up, active, msg.detail, run[active])
      <4>1. msg.run = active /\ ForDown(Tail(down), 1, active)
        BY <1>1, <1>2, <1>7, <3>2, <3>3, ForDownMoves
      <4>. QED  BY <1>5, <1>10, <3>3, <4>1 DEF SettledOn
    <3>4. CASE SettledOn(down, up, active, detail, run[active])
      BY <3>3, <3>4 DEF SettledOn, InHand
    <3>5. ASSUME NEW i \in 1 .. Len(down), GetDown(down, up, active, i)
          PROVE  InHand(Tail(down), up, active, msg.detail, run[active])
      <4>1. CASE i = 1
        BY <3>3, <3>5, <4>1 DEF GetDown, InHand
      <4>2. CASE i # 1
        BY <1>1, <1>2, <3>5, <4>2, GetMovesUp DEF InHand
      <4>. QED  BY <4>1, <4>2
    <3>6. ASSUME NEW i \in 1 .. Len(up), GetUp(up, active, i)
          PROVE  InHand(Tail(down), up, active, msg.detail, run[active])
      BY <3>6 DEF InHand
    <3>. QED  BY <3>1, <3>4, <3>5, <3>6 DEF InHand
  <2>3. ~slipped' /\ active' # NoRun => InHand(down', up', active', detail', run'[active'])
    BY <1>1, <2>2
  <2>. QED  BY <1>1, <1>3, <1>4, <1>6, <2>1, <2>3, ShownNext
<1>. QED  BY <1>8, <1>9, <1>10

LEMMA RefusalShows ==
  ASSUME ViewTyped, ShownInv, OnRefusal
  PROVE  ShownInv'
<1>1. /\ down # <<>> /\ down' = Tail(down) /\ asked' = asked - 1
      /\ UNCHANGED <<run, up, active, detail, slipped>>
      /\ Head(down).kind = "refusal" /\ slipped \in BOOLEAN
  BY DEF OnRefusal, Answered, ShownInv
<1>2. /\ down \in Seq(Parcel) /\ up \in Seq(Order) /\ active \in Runs \cup {NoRun}
  BY DEF ViewTyped, ChannelsTyped, ScreenTyped
<1>3. /\ RepliesLead(down, run, slipped) /\ \A r \in Runs : Unborn(run[r])
      /\ ~slipped /\ active # NoRun => InHand(down, up, active, detail, run[active])
  BY DEF ShownInv
<1>4. \E n \in Nat : Answers(down', n) /\ asked' = Len(up') + n + BeingLaunched'
  BY <1>1, OneLess DEF IsAnswer
<1>5. RepliesLead(Tail(down), run, slipped)
  BY <1>1, <1>2, <1>3, RepliesMoveUp
<1>6. ASSUME ~slipped, active # NoRun
      PROVE  InHand(Tail(down), up, active, detail, run[active])
  <2>1. active \in Runs /\ InHand(down, up, active, detail, run[active])
    BY <1>2, <1>3, <1>6
  <2>2. CASE SettledOn(down, up, active, detail, run[active])
    <3>1. Leads(active, Tail(down), 1, Evolved(active, detail, Head(down)), run[active])
      BY <1>1, <1>2, <2>1, <2>2, LeadsBegins DEF SettledOn
    <3>2. Evolved(active, detail, Head(down)) = detail
      BY <1>1, ByOther DEF IsAnswer
    <3>3. 1 \in 1 .. Len(down)
      BY <1>1, <1>2, DownMoves
    <3>4. ForDown(Tail(down), 1, active)
      BY <1>1, <1>2, <2>2, <3>3, ForDownMoves DEF SettledOn
    <3>. QED  BY <2>2, <3>1, <3>2, <3>4 DEF InHand, SettledOn
  <2>3. ASSUME NEW i \in 1 .. Len(down), GetDown(down, up, active, i)
        PROVE  InHand(Tail(down), up, active, detail, run[active])
    <3>1. i # 1
      BY <1>1, <1>2, <2>3, DownMoves DEF GetDown
    <3>. QED  BY <1>1, <1>2, <2>3, <3>1, GetMovesUp DEF InHand
  <2>4. ASSUME NEW i \in 1 .. Len(up), GetUp(up, active, i)
        PROVE  InHand(Tail(down), up, active, detail, run[active])
    BY <2>4 DEF InHand
  <2>. QED  BY <2>1, <2>2, <2>3, <2>4 DEF InHand
<1>7. ~slipped' /\ active' # NoRun => InHand(down', up', active', detail', run'[active'])
  BY <1>1, <1>6
<1>. QED  BY <1>1, <1>3, <1>4, <1>5, <1>7, ShownNext

LEMMA ShownStarts == ViewInit => ShownInv
<1>. SUFFICES ASSUME ViewInit  PROVE ShownInv
  OBVIOUS
<1>1. /\ up = <<>> /\ down = <<>> /\ slipped = FALSE /\ asked = 0 /\ active = NoRun
      /\ \A r \in Runs : Unborn(run[r]) /\ run[r].launching = FALSE
  BY DEF ViewInit, Absent, Unborn
<1>2. BeingLaunched = 0
  BY <1>1 DEF BeingLaunched, Runs
<1>3. Answers(<<>>, 0)
  <2>. DEFINE at == [k \in 1 .. 0 |-> 1]
              empty == <<>>
  <2>1. Len(empty) = 0 /\ 1 .. 0 = {}
    OBVIOUS
  <2>2. at \in [1 .. 0 -> 1 .. Len(empty)]
    BY <2>1
  <2>. HIDE DEF at, empty
  <2>3. \A j, k \in 1 .. 0 : j < k => at[j] < at[k]
    BY <2>1
  <2>4. \A i \in 1 .. Len(empty) : IsAnswer(empty[i]) <=> \E k \in 1 .. 0 : at[k] = i
    BY <2>1
  <2>5. Answers(empty, 0)
    BY <2>2, <2>3, <2>4, Zenon DEF Answers
  <2>. QED  BY <2>5, Zenon DEF empty
<1>4. Counted
  <2>1. asked = Len(up) + 0 + BeingLaunched
    BY <1>1, <1>2
  <2>. QED  BY <1>1, <1>3, <2>1 DEF Counted
<1>5. RepliesLead(down, run, slipped)
  BY <1>1 DEF RepliesLead
<1>. QED  BY <1>1, <1>4, <1>5 DEF ShownInv

LEMMA ShownSteps ==
  ViewTyped /\ ViewTyped' /\ ShownInv /\ [ViewNext]_viewVars => ShownInv'
<1>. SUFFICES ASSUME ViewTyped, ViewTyped', ShownInv, [ViewNext]_viewVars
              PROVE  ShownInv'
  OBVIOUS
<1>1. CASE UNCHANGED viewVars
  BY <1>1, NothingShown DEF viewVars
<1>. QED  BY <1>1, StreamShows, CommitShows, CommitNothingShows, WorkShows, ParkShows, EndShows,
            LoopReachedShows, GetShows, TaskShows, ContinueShows, ApplyShows, RejectShows, StopShows, UserShows,
            EventShows, StartedShows, DetailShows, RefusalShows DEF ViewNext

\* With nothing in flight there is no selection to be answered.
LEMMA QuietShowsIt == ViewTyped /\ ShownInv => ShownIsCurrent
<1>. SUFFICES ASSUME ViewTyped, ShownInv, Quiet, active # NoRun, ~slipped
              PROVE  LET now == Detail(active, run[active]) IN
                     /\ <<detail.run, detail.status, detail.steps>>
                          = <<now.run, now.status, now.steps>>
                     /\ now.status = "waiting" => detail.patch = now.patch
  BY DEF ShownIsCurrent
<1>1. up = <<>> /\ down = <<>> /\ InHand(down, up, active, detail, run[active])
  BY DEF Quiet, ShownInv
<1>2. Leads(active, <<>>, 1, detail, run[active])
  BY <1>1 DEF InHand, SettledOn
<1>3. detail.run = active /\ Matches(detail, run[active])
  BY <1>2, LeadsIsDone
<1>. QED  BY <1>3 DEF Matches, Detail

\* When nothing is in flight the detail shown is main's detail of the active run,
\* unless one of the two races the model records has happened since it was opened.
THEOREM ShownIsRight == ViewSpec => []ShownIsCurrent
<1>1. ViewInit => ShownInv
  BY ShownStarts
<1>2. ViewTyped /\ ViewTyped' /\ ShownInv /\ [ViewNext]_viewVars => ShownInv'
  BY ShownSteps
<1>3. ViewTyped /\ ShownInv => ShownIsCurrent
  BY QuietShowsIt
<1>. QED  BY <1>1, <1>2, <1>3, ViewInvariant, PTL DEF ViewSpec
=============================================================================
