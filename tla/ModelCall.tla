------------------------------ MODULE ModelCall ------------------------------
(* One streamed request to the language model: packages/runtime/llm, the     *)
(* timeout and the retries of http.ts, the reading of the event stream of    *)
(* stream.ts, and chat() of the two providers, which have the same control.  *)
(*                                                                           *)
(* The server is not modelled: its answers are choices.  Text deltas change  *)
(* nothing the agent decides on and are left out; of the answer, the number  *)
(* of tool calls it carries is kept.                                         *)
EXTENDS Naturals

CONSTANTS
    MaxAttempts,   \* fetches of one request (DEFAULT_ATTEMPTS, 3)
    MaxCalls       \* bound: tool calls in one answer

ASSUME CallAssumption == MaxAttempts \in Nat \ {0} /\ MaxCalls \in Nat

VARIABLES
    aborted,   \* the run's AbortSignal
    http       \* the request in flight: phase, attempt, tool calls received

HttpPhases == {"idle", "connecting", "draining", "backoff", "streaming",
               "finished", "error"}

HttpStates == [phase : HttpPhases, attempt : 0 .. MaxAttempts, calls : 0 .. MaxCalls]

NoRequest == [phase |-> "idle", attempt |-> 0, calls |-> 0]

At(phase) == http' = [http EXCEPT !.phase = phase]

(* The head of an iteration of withRetries: a signal that is already aborted *)
(* throws, otherwise fetch starts under a fresh timer.                       *)
Attempt(k) ==
    http' = [phase |-> IF aborted THEN "error" ELSE "connecting",
             attempt |-> k, calls |-> 0]

(* The catch of withRetries, for an error that is no AbortError.             *)
AttemptFailed ==
    At(IF aborted \/ http.attempt = MaxAttempts THEN "error" ELSE "backoff")

(* The headers of a good answer: the body is read from here on.  The timer   *)
(* is cleared and the signal unlinked, so neither ends the reading.          *)
HeadersArrive ==
    /\ http.phase = "connecting" /\ ~aborted
    /\ At("streaming")
    /\ UNCHANGED aborted

(* A status that is not OK: the last attempt's, or one not worth a retry, is *)
(* returned and becomes an error chunk; an earlier retryable one is drained. *)
Refused(retryable) ==
    /\ http.phase = "connecting" /\ ~aborted
    /\ At(IF retryable /\ http.attempt < MaxAttempts THEN "draining" ELSE "error")
    /\ UNCHANGED aborted

Drained ==
    /\ http.phase = "draining"
    /\ AttemptFailed
    /\ UNCHANGED aborted

(* The network fails before the headers.                                     *)
ConnectionFails ==
    /\ http.phase = "connecting" /\ ~aborted
    /\ AttemptFailed
    /\ UNCHANGED aborted

\* A timer set once for the whole request, not for each attempt.
TimerOnce ==
    /\ http.phase = "connecting" /\ ~aborted /\ http.attempt = 1
    /\ AttemptFailed
    /\ UNCHANGED aborted

(* The timer of withTimeout aborts the fetch; the error it throws instead of *)
(* the AbortError is retried like a network failure.                         *)
TimerFires ==
    /\ http.phase = "connecting" /\ ~aborted
    /\ AttemptFailed
    /\ UNCHANGED aborted

(* A stop while fetch waits, or while the backoff sleeps, is an AbortError,  *)
(* which is never retried.                                                   *)
AbortFetch ==
    /\ http.phase \in {"connecting", "backoff"} /\ aborted
    /\ At("error")
    /\ UNCHANGED aborted

BackoffEnds ==
    /\ http.phase = "backoff" /\ ~aborted
    /\ Attempt(http.attempt + 1)
    /\ UNCHANGED aborted

(* A chunk opens one more tool call.  The signal is looked at before each    *)
(* read, so the chunk a pending read returns after a stop still counts.      *)
ToolCallStarts ==
    /\ http.phase = "streaming" /\ http.calls < MaxCalls
    /\ http' = [http EXCEPT !.calls = @ + 1]
    /\ UNCHANGED aborted

(* The body ends, after the answer or in the middle of it: the providers     *)
(* cannot tell and emit the calls they have and a finish chunk either way.   *)
StreamEnds ==
    /\ http.phase = "streaming"
    /\ At("finished")
    /\ UNCHANGED aborted

(* An error event in the stream, a broken connection or the body timer of    *)
(* the HTTP client, or the signal found aborted before a read: an error      *)
(* chunk, and the calls received so far are never emitted.                   *)
StreamFails ==
    /\ http.phase = "streaming"
    /\ At("error")
    /\ UNCHANGED aborted

ServerStep ==
    \/ HeadersArrive
    \/ \E retryable \in BOOLEAN : Refused(retryable)
    \/ ConnectionFails
    \/ ToolCallStarts

ClientStep == TimerFires \/ AbortFetch \/ Drained \/ BackoffEnds

StreamStops == StreamEnds \/ StreamFails
=============================================================================
