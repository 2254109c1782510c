------------------------------ MODULE RunView ------------------------------
(***************************************************************************)
(* The run view of the desktop renderer (App.tsx with the reducer          *)
(* agent-detail.ts) against the agent service of the main process.  The    *)
(* renderer keeps an active run, the detail it shows, a list of runs and a *)
(* buffer of streamed text per run; it learns of main by events and by     *)
(* replies, which share one ordered channel, and its buttons send requests *)
(* that carry a run's id and nothing else.  The agent's loop is reduced to *)
(* what it emits: streamed text, steps, patches to approve and an end.     *)
(***************************************************************************)
EXTENDS Naturals, Sequences, FiniteSets

CONSTANTS MaxSteps,     \* bound: steps of a run
          MaxPatches,   \* bound: patches a run proposes
          MaxClicks,    \* bound: requests the user makes
          MaxDown       \* bound: messages in flight to the renderer

Runs == {1, 2}      \* in the order of their creation
NoRun == 0
NoPatch == 0
Listed == {"absent", "busy", "waiting", "ended"}

VARIABLES
    run,       \* main: per run its row, its approval and its loop
    up,        \* requests on their way to main
    down,      \* events and replies on their way to the renderer
    active,    \* activeRunIdRef
    detail,    \* the detail shown
    open,      \* approvalOpen
    composing, \* isComposingNew
    list,      \* runs: the status each listed run is shown with
    live,      \* liveBuffers: pieces of streamed text per run
    busy,      \* the composer is disabled: raised by a request, lowered by an answer
    asked,     \* history: requests made and not answered
    clicks,    \* requests made
    slipped    \* history: a race the view does not recover from has happened

viewVars == <<run, up, down, active, detail, open, composing, list, live, busy, asked,
          clicks, slipped>>

Absent == [status |-> "absent", steps |-> 0, made |-> 0, pending |-> FALSE,
           parked |-> FALSE, doomed |-> FALSE, text |-> 0, launching |-> FALSE]
NoDetail == [run |-> NoRun, status |-> "absent", steps |-> 0, patch |-> NoPatch]

\* getDetail: the pending patch, or the last one while the row says waiting.
Detail(r, row) ==
    [run |-> r, status |-> row.status, steps |-> row.steps,
     patch |-> IF row.pending \/ row.status = "waiting" THEN row.made ELSE NoPatch]

ViewInit ==
    /\ run = [r \in Runs |-> IF r = 1 THEN [Absent EXCEPT !.status = "ended", !.steps = 1]
                                      ELSE Absent]
    /\ up = <<>> /\ down = <<>>
    /\ active = NoRun /\ detail = NoDetail /\ open = FALSE /\ composing = FALSE
    /\ list = [r \in Runs |-> run[r].status]
    /\ live = [r \in Runs |-> 0]
    /\ busy = FALSE /\ asked = 0 /\ clicks = 0 /\ slipped = FALSE

-----------------------------------------------------------------------------
(* Messages to the renderer.                                               *)

Delta(r) == [kind |-> "delta", run |-> r]
Message(r) == [kind |-> "message", run |-> r]          \* step_added of a message
Step(r) == [kind |-> "step", run |-> r]                \* step_added of another type
PatchReady(r, p) == [kind |-> "patch", run |-> r, patch |-> p]
RunUpdated(r, s) == [kind |-> "run", run |-> r, status |-> s]
ReplyTo(v, r, row) == [kind |-> "reply", run |-> r, to |-> v, detail |-> Detail(r, row)]
Refusal(v, r) == [kind |-> "refusal", run |-> r, to |-> v]

Emit(msgs) == /\ down' = down \o msgs
              /\ Len(down') <= MaxDown

-----------------------------------------------------------------------------
(* The agent's loop, one step of it at a time.                             *)

Looping(r) == run[r].status = "busy" /\ ~run[r].launching
Running(r) == Looping(r) /\ ~run[r].doomed
Room(r) == run[r].steps < MaxSteps
LoopStep == UNCHANGED <<up, active, detail, open, composing, list, live, busy, asked,
                        clicks, slipped>>

Stream(r) ==
    /\ Running(r) /\ run[r].text = 0
    /\ run' = [run EXCEPT ![r].text = 1]
    /\ Emit(<<Delta(r)>>)
    /\ LoopStep

\* onAssistant: the turn's text (blank text is none) becomes a message step, the
\* run acts again.
Commit(r) ==
    /\ Looping(r) /\ Room(r) /\ run[r].text = 1
    /\ run' = [run EXCEPT ![r].text = 0, ![r].steps = @ + 1]
    /\ Emit(<<Message(r), RunUpdated(r, "busy")>>)
    /\ LoopStep

\* onAssistant of a turn that has calls only.
CommitNothing(r) ==
    /\ Looping(r) /\ run[r].text = 0
    /\ Emit(<<RunUpdated(r, "busy")>>)
    /\ UNCHANGED run /\ LoopStep

Work(r) ==
    /\ Looping(r) /\ Room(r) /\ run[r].text = 0
    /\ run' = [run EXCEPT ![r].steps = @ + 1]
    /\ Emit(<<Step(r)>>)
    /\ LoopStep

\* awaitApproval: the diff step and patch_ready go out before the status.
Park(r) ==
    /\ Running(r) /\ Room(r) /\ run[r].text = 0 /\ run[r].made < MaxPatches
    /\ run' = [run EXCEPT ![r].status = "waiting", ![r].steps = @ + 1,
                          ![r].made = @ + 1, ![r].pending = TRUE, ![r].parked = TRUE]
    /\ Emit(<<Step(r), PatchReady(r, run[r].made + 1), RunUpdated(r, "waiting")>>)
    /\ LoopStep

\* applyOutcome and the finally of driveLoop.
End(r) ==
    /\ ~run[r].launching
    /\ \/ run[r].status = "busy"
       \/ run[r].status = "waiting" /\ run[r].doomed
    /\ run' = [run EXCEPT ![r].status = "ended", ![r].pending = FALSE,
                          ![r].doomed = FALSE, ![r].text = 0]
    /\ Emit(<<RunUpdated(r, "ended")>>)
    /\ LoopStep

\* runTask reaches its loop and answers.
LoopReached(r) ==
    /\ run[r].launching
    /\ run' = [run EXCEPT ![r].launching = FALSE]
    /\ Emit(<<ReplyTo("task", r, run[r])>>)
    /\ LoopStep

-----------------------------------------------------------------------------
(* The handlers of the main process, in the order the requests arrive.     *)

Takes(v) == /\ up # <<>> /\ Head(up).verb = v
             /\ up' = Tail(up)
Asked == Head(up).run
Untouched == UNCHANGED <<active, detail, open, composing, list, live, busy, asked, clicks>>

HandleGet ==
    /\ Takes("get")
    /\ Emit(<<ReplyTo("get", Asked, run[Asked])>>)
    /\ Untouched /\ UNCHANGED <<run, slipped>>

\* createRun, the first step and the first status, then the prompt is built.
HandleTask ==
    /\ Takes("task")
    /\ \E r \in Runs :
         /\ run[r].status = "absent" /\ \A q \in Runs : run[q].status = "absent" => r <= q
         /\ run' = [run EXCEPT ![r].status = "busy", ![r].steps = 1, ![r].launching = TRUE]
         /\ Emit(<<Message(r), RunUpdated(r, "busy")>>)
    /\ Untouched /\ UNCHANGED slipped

HandleContinue ==
    /\ Takes("continue")
    /\ IF run[Asked].status = "ended"
       THEN /\ Room(Asked)
            /\ run' = [run EXCEPT ![Asked].status = "busy", ![Asked].steps = @ + 1]
            /\ Emit(<<RunUpdated(Asked, "busy"), Message(Asked),
                      ReplyTo("continue", Asked, run'[Asked])>>)
       ELSE Emit(<<Refusal("continue", Asked)>>) /\ UNCHANGED run
    /\ Untouched /\ UNCHANGED slipped

Approved(row) == [row EXCEPT !.status = "busy", !.steps = @ + 1,
                             !.pending = FALSE, !.parked = FALSE]

\* applyPatch: the approval found is the one resolved.  Its
\* detail is read at once and sent some microtasks later: a tool that ends within
\* them gets its step out first.
HandleApply ==
    /\ Takes("apply")
    /\ LET r == Asked
           done == Approved(run[r])
       IN IF run[r].parked
          THEN /\ Room(r)
               /\ \/ /\ run' = [run EXCEPT ![r] = done]
                     /\ Emit(<<Message(r), RunUpdated(r, "busy"), ReplyTo("apply", r, done)>>)
                     /\ UNCHANGED slipped
                  \/ /\ done.steps < MaxSteps
                     /\ run' = [run EXCEPT ![r] = [done EXCEPT !.steps = @ + 1]]
                     /\ Emit(<<Message(r), RunUpdated(r, "busy"), Step(r),
                               ReplyTo("apply", r, done)>>)
                     /\ slipped' = TRUE
          ELSE /\ Emit(IF run[r].status = "busy" THEN <<ReplyTo("apply", r, run[r])>>
                                                 ELSE <<Refusal("apply", r)>>)
               /\ UNCHANGED <<run, slipped>>
    /\ Untouched

HandleReject ==
    /\ Takes("reject")
    /\ LET r == Asked
           parked == [run[r] EXCEPT !.steps = @ + 1, !.pending = FALSE,
                                    !.parked = FALSE, !.doomed = TRUE]
           quiet == [run[r] EXCEPT !.steps = @ + 1, !.pending = FALSE, !.status = "ended"]
       IN CASE run[r].parked ->
                 /\ Room(r)
                 /\ run' = [run EXCEPT ![r] = parked]
                 /\ Emit(<<Message(r), ReplyTo("reject", r, parked)>>)
            [] run[r].status = "busy" ->
                 /\ run' = [run EXCEPT ![r].pending = FALSE]
                 /\ Emit(<<ReplyTo("reject", r, run'[r])>>)
            [] OTHER ->
                 /\ Room(r)
                 /\ run' = [run EXCEPT ![r] = quiet]
                 /\ Emit(<<Message(r), RunUpdated(r, "ended"), ReplyTo("reject", r, quiet)>>)
    /\ Untouched /\ UNCHANGED slipped

HandleStop ==
    /\ Takes("stop")
    /\ LET r == Asked IN
         /\ run' = [run EXCEPT ![r].parked = FALSE,
                               ![r].doomed = @ \/ run[r].status # "ended"]
         /\ Emit(<<ReplyTo("stop", r, run[r])>>)
    /\ Untouched /\ UNCHANGED slipped

-----------------------------------------------------------------------------
(* What the user does.                                                     *)

Request(v, r) ==
    /\ clicks < MaxClicks
    /\ clicks' = clicks + 1
    /\ busy' = TRUE /\ asked' = asked + 1
    /\ up' = Append(up, [verb |-> v, run |-> r])
    /\ UNCHANGED <<run, down, list, live, slipped>>

SelectRun(r) ==
    /\ list[r] # "absent"
    /\ active' = r /\ composing' = FALSE
    /\ Request("get", r)
    /\ UNCHANGED <<detail, open>>

NewRun ==
    /\ active' = NoRun /\ detail' = NoDetail /\ composing' = TRUE /\ open' = FALSE
    /\ active # NoRun \/ detail # NoDetail \/ ~composing
    /\ UNCHANGED <<run, up, down, list, live, busy, asked, clicks, slipped>>

\* Bound: no more runs are asked for than Runs has.
Spare == Cardinality({i \in DOMAIN up : up[i].verb = "task"})
            < Cardinality({r \in Runs : run[r].status = "absent"})

\* Continue the run shown unless it is at work, else start another.
Submit ==
    /\ ~busy
    /\ IF detail # NoDetail /\ ~composing
       THEN detail.status # "busy" /\ Request("continue", detail.run)
       ELSE Spare /\ Request("task", NoRun)
    /\ UNCHANGED <<active, detail, open, composing>>

Act(v) == active # NoRun /\ Request(v, active) /\ UNCHANGED <<active, detail, open, composing>>

Apply == open /\ detail.patch # NoPatch /\ Act("apply")
Reject == detail.patch # NoPatch /\ Act("reject")
Stop == detail.status = "busy" /\ Act("stop")

\* The sheet is closed (Escape) or opened again (a shortcut, the patch card).
ToggleSheet ==
    /\ detail.patch # NoPatch
    /\ open' = ~open
    /\ UNCHANGED <<run, up, down, active, detail, composing, list, live, busy, asked, clicks,
                   slipped>>

-----------------------------------------------------------------------------
(* What the renderer does with a message.                                  *)

Offers(d) == d.status = "waiting" /\ d.patch # NoPatch

\* Every change of the detail opens or closes the approval sheet.
Show(d) == /\ detail' = d
           /\ open' = IF d # detail THEN Offers(d) ELSE open

\* reduceAgentDetail
Reduce(d, msg) ==
    CASE msg.kind = "run" /\ d = NoDetail ->
           [NoDetail EXCEPT !.run = msg.run, !.status = msg.status]
      [] msg.kind = "run" /\ msg.run = d.run -> [d EXCEPT !.status = msg.status]
      [] msg.kind = "run" /\ msg.run > d.run ->
           [NoDetail EXCEPT !.run = msg.run, !.status = msg.status]
      [] msg.kind \in {"step", "message"} /\ msg.run = d.run -> [d EXCEPT !.steps = @ + 1]
      [] msg.kind = "patch" /\ msg.run = d.run -> [d EXCEPT !.patch = msg.patch]
      [] OTHER -> d

\* A handler that clears the streamed text on a committed message only.
SupersedesCommitted(msg) == msg.kind = "message"

Supersedes(msg) == msg.kind = "message" \/ (msg.kind = "run" /\ msg.status = "ended")

\* A handler that reduces the events of every run.
FilteredNever(msg) == FALSE

Filtered(msg) == msg.run # active

\* A handler that lists only what it reduces.
RelistsActive(msg) == msg.kind = "run" /\ msg.run = active

Relists(msg) == msg.kind = "run"

OnEvent ==
    /\ down # <<>>
    /\ LET msg == Head(down) IN
         /\ msg.kind \notin {"reply", "refusal"}
         /\ live' = CASE msg.kind = "delta" -> [live EXCEPT ![msg.run] = @ + 1]
                      [] Supersedes(msg) -> [live EXCEPT ![msg.run] = 0]
                      [] OTHER -> live
         /\ IF msg.kind = "delta" \/ Filtered(msg) THEN UNCHANGED <<detail, open>>
            ELSE Show(Reduce(detail, msg))
         /\ list' = IF Relists(msg) THEN [list EXCEPT ![msg.run] = msg.status] ELSE list
    /\ down' = Tail(down)
    /\ UNCHANGED <<run, up, active, composing, busy, asked, clicks, slipped>>

Answered == busy' = FALSE /\ asked' = asked - 1

\* submitComposer after its await.
OnStarted ==
    /\ down # <<>> /\ Head(down).kind = "reply" /\ Head(down).to \in {"task", "continue"}
    /\ LET d == Head(down).detail IN
         /\ active' = d.run /\ Show(d) /\ composing' = FALSE
         /\ list' = [list EXCEPT ![d.run] = d.status]
    /\ Answered
    /\ slipped' = (slipped \/ asked' > 0)
    /\ down' = Tail(down)
    /\ UNCHANGED <<run, up, live, clicks>>

\* selectRun, stopRun, applyPatch and rejectPatch after their await: no check that
\* the run is still the active one.
OnDetail ==
    /\ down # <<>> /\ Head(down).kind = "reply" /\ Head(down).to \notin {"task", "continue"}
    /\ LET d == Head(down).detail
           sheet == IF Head(down).to \in {"apply", "reject"} THEN FALSE ELSE open
       IN /\ detail' = d
          /\ open' = IF d # detail THEN Offers(d) ELSE sheet
          /\ Answered
          /\ slipped' = (slipped /\ ~(Head(down).to = "get" /\ d.run = active /\ asked' = 0))
    /\ down' = Tail(down)
    /\ UNCHANGED <<run, up, active, composing, list, live, clicks>>

\* guard shows the error and leaves the rest.
OnRefusal ==
    /\ down # <<>> /\ Head(down).kind = "refusal"
    /\ Answered
    /\ down' = Tail(down)
    /\ UNCHANGED <<run, up, active, detail, open, composing, list, live, clicks,
                   slipped>>

-----------------------------------------------------------------------------
ViewNext ==
    \/ \E r \in Runs : Stream(r) \/ Commit(r) \/ CommitNothing(r) \/ Work(r) \/ Park(r)
                       \/ End(r) \/ LoopReached(r) \/ SelectRun(r)
    \/ HandleGet \/ HandleTask \/ HandleContinue
    \/ HandleApply \/ HandleReject \/ HandleStop
    \/ NewRun \/ Submit \/ Apply \/ Reject \/ Stop \/ ToggleSheet
    \/ OnEvent \/ OnStarted \/ OnDetail \/ OnRefusal

ViewSpec == ViewInit /\ [][ViewNext]_viewVars

-----------------------------------------------------------------------------
(* Properties.                                                             *)

Quiet == up = <<>> /\ down = <<>>

\* The text shown as being streamed is exactly what the run has streamed and not
\* yet committed as a message: text that arrives before the reply that makes the
\* run active is kept, and no text stays behind a commit or an end.
LiveTextIsUncommitted == Quiet => \A r \in Runs : live[r] = run[r].text

\* When nothing is in flight the detail shown is main's detail of the active run,
\* with its steps, its status and the patch it waits on, unless one of two races
\* has happened since the run was last opened: the answer of a new run overtook
\* the selection of another, or a step of an approved tool overtook the answer of
\* its approval.
ShownIsCurrent ==
    Quiet /\ active # NoRun /\ ~slipped
        => LET now == Detail(active, run[active]) IN
             /\ <<detail.run, detail.status, detail.steps>>
                  = <<now.run, now.status, now.steps>>
             /\ now.status = "waiting" => detail.patch = now.patch

\* When nothing is in flight the list shows every run with its status.
ListIsCurrent == Quiet => \A r \in Runs : list[r] = run[r].status

=============================================================================
