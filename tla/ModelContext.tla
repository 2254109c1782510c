---------------------------- MODULE ModelContext ----------------------------
(* The messages a run sends to the language model, from the first request of *)
(* a task to the follow-ups of later turns: phase1InitContext, the loop of   *)
(* react.ts with its compression (transform.ts, compressor.ts), and the      *)
(* conversation the service saves when a loop ends and loads when the run is *)
(* continued (service.ts, storage.ts).  AgentService has the statuses and    *)
(* the approvals of the same loop, this module has what the model is told.   *)
(*                                                                           *)
(* The run's transcript is what the user, the model and the tools said, in   *)
(* all loops of the run; said counts it.  A message of a list stands for     *)
(* places of the transcript: one that was said for its own, a summary for    *)
(* those it replaced.  The transcript is kept nowhere in the program: said,  *)
(* began and lost are history variables, which no guard reads.               *)
(* A tool call is its position in the assistant message that makes it.       *)
EXTENDS ModelCall, Sequences

CONSTANTS
    KeepRecent,    \* messages kept verbatim at the end (KEEP_RECENT, 10)
    MaxRepairs,    \* patches in a row that are verified (3)
    MaxTurns,      \* model turns of one loop (the budget's maxIterations)
    MaxLoops,      \* bound: the task and its follow-ups
    MaxSaid,       \* bound: what was said before a follow-up
    PatchesLast    \* the model makes a patch the last call of its answer

ASSUME ContextAssumption ==
    /\ KeepRecent \in Nat /\ MaxRepairs \in Nat
    /\ MaxTurns \in Nat \ {0} /\ MaxLoops \in Nat \ {0}
    /\ MaxSaid \in Nat
    /\ PatchesLast \in BOOLEAN

VARIABLES
    conv,      \* the messages of the loop that runs, << >> when none does
    saved,     \* agent_run_messages of the run
    entry,     \* the messages the loop was entered with
    loop,      \* what the loop awaits
    turn,      \* calls of the last answer, and the one being handled
    turns,     \* model turns of this loop
    repairs,   \* consecutive apply_patch calls
    loops,     \* loops entered so far
    said,      \* history: messages of the transcript so far
    began,     \* history: those said before the loop that runs, 0 when none does
    lost       \* history: places said in a loop that threw or died unsaved

transcript == <<said, lost>>
vars == <<aborted, http, conv, saved, entry, loop, turn, turns, repairs, loops,
          began, transcript>>

LoopStates == {"idle", "baseline", "summary", "model", "approval", "tool", "verify"}

Messages == [role : {"system", "user", "assistant", "tool"},
             of : SUBSET Nat, calls : 0 .. MaxCalls, call : 0 .. MaxCalls]

-----------------------------------------------------------------------------
(* Messages.                                                                 *)

Say(m, place, role, calls, call) ==
    Append(m, [role |-> role, of |-> {place}, calls |-> calls, call |-> call])

System == Say(<< >>, 1, "system", 0, 0)
User(m, place) == Say(m, place, "user", 0, 0)
Assistant(m, place, calls) == Say(m, place, "assistant", calls, 0)
ToolResult(m, place, call) == Say(m, place, "tool", 0, call)

(* n messages are said in a step that loses none.                            *)
Says(n) == said' = said + n /\ UNCHANGED lost

(* The messages a loop is entered with and has not loaded: the prompt and    *)
(* the task, or the follow-up.                                               *)
Opening == IF began = 0 THEN 2 ELSE 1

-----------------------------------------------------------------------------
(* compressConversation.                                                     *)

FirstUser(m) ==
    CHOOSE i \in DOMAIN m :
        m[i].role = "user" /\ \A j \in 1 .. i - 1 : m[j].role # "user"

(* Where the verbatim tail would begin: the last KeepRecent messages, never  *)
(* before the end of the task.                                               *)
TailFrom(m) ==
    IF Len(m) - KeepRecent > FirstUser(m) THEN Len(m) - KeepRecent + 1
                                          ELSE FirstUser(m) + 1

\* A tail that may begin with the results of a folded message.
TailAnywhere(m) == TailFrom(m)

(* The tail gives up the tool results it would begin with: the assistant     *)
(* message they answer is on the other side.                                 *)
TailStart(m) ==
    CHOOSE i \in TailFrom(m) .. Len(m) + 1 :
        /\ \A j \in TailFrom(m) .. i - 1 : m[j].role = "tool"
        /\ i \in DOMAIN m => m[i].role # "tool"

Foldable(m) == TailStart(m) - FirstUser(m) > 2

Summary(m) ==
    [role |-> "assistant",
     of |-> UNION {m[i].of : i \in FirstUser(m) + 1 .. TailStart(m) - 1},
     calls |-> 0, call |-> 0]

(* The only system message is the first: Phase 1 puts it there and strips    *)
(* the stale ones, and the loop adds none.                                   *)
SystemMessages(m) == SubSeq(m, 1, 1)

Compressed(m) ==
    SystemMessages(m) \o <<m[FirstUser(m)], Summary(m)>> \o SubSeq(m, TailStart(m), Len(m))

-----------------------------------------------------------------------------
(* The steps of the loop, as what happens between two of its awaits.         *)

(* No loop runs, and the controller of the last is gone.                    *)
Gone ==
    /\ loop' = "idle" /\ conv' = << >> /\ entry' = << >>
    /\ aborted' = FALSE /\ http' = NoRequest
    /\ turn' = [calls |-> 0, at |-> 0] /\ turns' = 0 /\ repairs' = 0
    /\ began' = 0
    /\ UNCHANGED loops

\* What the loop was entered with is saved, not what it ends with.
FinishAsEntered(m) == saved' = entry /\ Gone

(* The loop returns: its messages are saved.                                 *)
Finish(m) == saved' = m /\ Gone

(* The request is made with the messages m.                                  *)
Request(m) ==
    /\ loop' = "model" /\ conv' = m
    /\ Attempt(1)
    /\ UNCHANGED <<aborted, saved, entry, loops, began>>

(* The head of the while: stop, budget, then the check of the window.        *)
(* Whether the estimate of the tokens is above the trigger is a choice, for  *)
(* messages have any length; so is whether the cost, the tool calls or the   *)
(* time of the budget are spent.                                             *)
LoopTop(m, r) ==
    \/ Finish(m)
    \/ /\ ~aborted /\ turns < MaxTurns
       /\ turns' = turns + 1 /\ repairs' = r
       /\ turn' = [calls |-> 0, at |-> 0]
       /\ \/ Request(m)
          \/ /\ Foldable(m)
             /\ loop' = "summary" /\ conv' = m
             /\ UNCHANGED <<aborted, http, saved, entry, loops, began>>

(* The head of the for over the calls of an answer.                          *)
NextCall(m, n, k, r) ==
    IF aborted THEN Finish(m)
    ELSE /\ loop' \in {"approval", "tool"} /\ conv' = m
         /\ turn' = [calls |-> n, at |-> k] /\ repairs' = r
         /\ http' = NoRequest
         /\ UNCHANGED <<aborted, saved, entry, turns, loops, began>>

AfterCall(m, r) ==
    IF turn.at = turn.calls THEN LoopTop(m, r)
                            ELSE NextCall(m, turn.calls, turn.at + 1, r)

-----------------------------------------------------------------------------
(* Entering a loop.                                                          *)

Enter(m) ==
    /\ loop = "idle" /\ loops < MaxLoops
    /\ loops' = loops + 1
    /\ entry' = m /\ conv' = m /\ began' = said
    /\ loop' = "baseline"
    /\ UNCHANGED <<aborted, http, saved, turn, turns, repairs>>

(* runTask: the system prompt and the task.                                  *)
StartTask == loops = 0 /\ Enter(User(System, 2)) /\ Says(2)

(* A multi-agent run leaves a recap of its nodes to continue from.           *)
SaveRecap ==
    /\ loops = 0 /\ loops' = 1
    /\ saved' = Assistant(User(System, 2), 3, 0) /\ Says(3)
    /\ UNCHANGED <<aborted, http, conv, entry, loop, turn, turns, repairs, began>>

(* continueTask: refused when no conversation was saved.                     *)
Continue ==
    /\ saved # << >> /\ said <= MaxSaid
    /\ Enter(User(saved, said + 1)) /\ Says(1)

(* The baseline of the tests is taken before the loop is entered.            *)
BaselineTaken ==
    /\ loop = "baseline"
    /\ LoopTop(conv, 0) /\ Says(0)

-----------------------------------------------------------------------------
(* The steps of a loop.                                                      *)

(* The summary arrives, or the summariser fails and the messages stay.       *)
SummaryArrives ==
    /\ loop = "summary" /\ Says(0)
    /\ \E m \in {conv, Compressed(conv)} :
         IF aborted THEN Finish(m)
         ELSE Request(m) /\ UNCHANGED <<turn, turns, repairs>>

(* The request in flight moves on.                                           *)
RequestStep(A) ==
    /\ loop = "model" /\ A
    /\ UNCHANGED <<conv, saved, entry, loop, turn, turns, repairs, loops,
                   began, transcript>>

(* The answer is consumed: its message is kept even when it is an error,     *)
(* which carries no calls.  A stop wins over the error.                      *)
TurnEnds ==
    /\ loop = "model" /\ http.phase \in {"finished", "error"}
    /\ LET n == IF http.phase = "finished" THEN http.calls ELSE 0
           m == Assistant(conv, said + 1, n)
       IN Says(1) /\
          IF aborted \/ n = 0
          THEN Finish(m)
          ELSE NextCall(m, n, 1, repairs) /\ UNCHANGED turns

(* A callback of the service throws (the database refuses a step, the        *)
(* lifecycle a status), before or after the message it is about: the service *)
(* saves what the loop was entered with.                                     *)
LoopThrows ==
    /\ loop \notin {"idle", "baseline"}
    /\ said' \in {said, said + 1}
    /\ lost' = lost \cup (began + Opening + 1 .. said')
    /\ Finish(entry)

Approve ==
    /\ loop = "approval" /\ ~aborted
    /\ loop' = "tool"
    /\ UNCHANGED <<aborted, http, conv, saved, entry, turn, turns, repairs, loops,
                   began, transcript>>

(* The user refuses, or a stop answers for the user: the loop ends, with the *)
(* call and those after it unanswered.                                       *)
Refuse ==
    /\ loop = "approval"
    /\ Finish(conv) /\ Says(0)

(* The tool's result is fed back.  After a patch the loop verifies, unless   *)
(* too many patches came in a row: the first one over is told to stop, the   *)
(* next ones nothing.                                                        *)
ToolReturns ==
    /\ loop = "tool"
    /\ \E patch \in BOOLEAN :
         LET m == ToolResult(conv, said + 1, turn.at)
             r == IF patch THEN repairs + 1 ELSE 0
         IN /\ patch /\ PatchesLast => turn.at = turn.calls
            /\ Says(IF r = MaxRepairs + 1 THEN 2 ELSE 1)
            /\ IF ~patch THEN AfterCall(m, r)
               ELSE IF r > MaxRepairs
               THEN LET told == IF r = MaxRepairs + 1 THEN User(m, said + 2) ELSE m
                    IN IF aborted THEN Finish(told)
                       ELSE AfterCall(told, MaxRepairs + 1)
               ELSE /\ loop' = "verify" /\ conv' = m /\ repairs' = r
                    /\ UNCHANGED <<aborted, http, saved, entry, turn, turns, loops, began>>

(* The verification ends with feedback for the model or without (no patch    *)
(* was written, no command to run, stopped, or it threw).                    *)
VerifyReturns ==
    /\ loop = "verify"
    /\ \E m \in {conv, User(conv, said + 1)} :
         /\ Says(IF m = conv THEN 0 ELSE 1)
         /\ IF aborted THEN Finish(m) ELSE AfterCall(m, repairs)

-----------------------------------------------------------------------------
(* stopTask aborts the signal; what the loop awaits then ends as it does.    *)
Stop ==
    /\ loop # "idle" /\ ~aborted
    /\ aborted' = TRUE
    /\ UNCHANGED <<http, conv, saved, entry, loop, turn, turns, repairs, loops,
                   began, transcript>>

(* The process dies, or the write at the end of the loop fails: what was     *)
(* saved last is what the next one loads.                                    *)
Crash ==
    /\ loop # "idle"
    /\ Gone /\ UNCHANGED <<saved, said>>
    /\ lost' = lost \cup (began + 1 .. said)

Init ==
    /\ aborted = FALSE /\ http = NoRequest
    /\ conv = << >> /\ saved = << >> /\ entry = << >>
    /\ loop = "idle" /\ turn = [calls |-> 0, at |-> 0]
    /\ turns = 0 /\ repairs = 0 /\ loops = 0
    /\ said = 0 /\ began = 0 /\ lost = {}

LoopStep == BaselineTaken \/ SummaryArrives \/ TurnEnds \/ ToolReturns \/ VerifyReturns

Next ==
    \/ StartTask \/ SaveRecap \/ Continue
    \/ LoopStep \/ LoopThrows
    \/ RequestStep(ServerStep) \/ RequestStep(ClientStep) \/ RequestStep(StreamStops)
    \/ Approve \/ Refuse
    \/ Stop \/ Crash

Spec == Init /\ [][Next]_vars

(* The awaits of the loop end: tools, verification and the summary are under *)
(* timeouts of their own, a body under the HTTP client's; before the headers *)
(* only the timer of withTimeout is sure to fire, the server may be silent.  *)
(* A stop answers a pending approval; a user need not.                       *)
Fairness ==
    /\ WF_vars(LoopStep)
    /\ WF_vars(RequestStep(ClientStep))
    /\ WF_vars(RequestStep(StreamStops))
    /\ WF_vars(aborted /\ Refuse)

FairSpec == Spec /\ Fairness

-----------------------------------------------------------------------------
(* Type invariant.                                                           *)
TypeOK ==
    /\ aborted \in BOOLEAN /\ http \in HttpStates
    /\ \A s \in {conv, saved, entry} : s \in Seq(Messages)
    /\ loop \in LoopStates
    /\ turn \in [calls : 0 .. MaxCalls, at : 0 .. MaxCalls]
    /\ turns \in 0 .. MaxTurns /\ repairs \in 0 .. MaxRepairs + 1
    /\ loops \in 0 .. MaxLoops
    /\ said \in Nat /\ began \in 0 .. said /\ lost \subseteq 1 .. said

(* The messages of a request keep the system prompt and the task word for    *)
(* word, and stand for all that was said in the run, in order, nothing       *)
(* missing and nothing twice, however often the middle was folded, a summary *)
(* failed or the run was stopped and continued over its saved messages.      *)
(* What may be missing is what a loop said that ended in an exception, whose *)
(* follow-up stays, or that died unsaved, follow-up included.                *)
InOrder(m) ==
    \A i, j \in DOMAIN m : i < j => \A p \in m[i].of, q \in m[j].of : p < q

StandsFor(m, places) ==
    /\ Len(m) > 1
    /\ m[1].role = "system" /\ m[2].role = "user"
    /\ \A i \in 1 .. 2 : m[i].of = {i}
    /\ InOrder(m)
    /\ UNION {m[i].of : i \in DOMAIN m} = places

TranscriptIsWhole == loop = "model" => StandsFor(conv, (1 .. said) \ lost)

(* Every tool message of a request answers a call of the assistant message   *)
(* before it, with only other results in between: the contract the           *)
(* compressor quotes, which the providers enforce.                           *)
Answers(m, i) ==
    \E j \in 1 .. i - 1 :
        /\ m[j].role = "assistant" /\ m[i].call \in 1 .. m[j].calls
        /\ \A k \in j + 1 .. i - 1 : m[k].role = "tool"

ResultsFollowCalls(m) == \A i \in DOMAIN m : m[i].role = "tool" => Answers(m, i)

RequestsAreAnswerable == loop = "model" => ResultsFollowCalls(conv)

(* A loop does not hang: again and again it has ended or waits for the user, *)
(* though a server may accept a connection and never answer, and whatever a  *)
(* stop interrupts.                                                          *)
LoopNeverHangs == []<>(loop = "idle" \/ (loop = "approval" /\ ~aborted))
=============================================================================
