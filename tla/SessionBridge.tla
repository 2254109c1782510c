--------------------------- MODULE SessionBridge ---------------------------
(***************************************************************************)
(* Terminal processes that record their conversations: the session bridge *)
(* (apps/cli/src/tui/session-bridge.ts) and the part of the TUI hook that  *)
(* drives it (use-loop.ts).  A process owns at most one writer; assistant  *)
(* text is kept pending until something after it is written.  An append    *)
(* can be interrupted by a crash of the process or by an I/O error.        *)
(***************************************************************************)
EXTENDS SessionStore, ConversationTree

CONSTANTS Proc,          \* terminal processes on one workspace
          MaxRuns,       \* bound: tasks submitted
          MaxEvents,     \* bound: state events on file
          MaxFaults,     \* bound: crashes and I/O errors
          SharedTick     \* the records of one call may bear one timestamp

ASSUME BridgeAssumption ==
    MaxRuns \in Nat /\ MaxEvents \in Nat /\ MaxFaults \in Nat /\ SharedTick \in BOOLEAN

Run == 1 .. MaxRuns

VARIABLES
    disk,        \* the session files
    clock,       \* records written so far
    runs,        \* tasks submitted so far
    writer,      \* per process: the active writer, NoWriter when there is none
    pending,     \* per process: the runs whose assistant text awaits a flush
    disabled,    \* per process: persistence is off for this turn
    up,          \* per process: the terminal is open
    busy,        \* per process: isRunning, which disables the prompt
    live,        \* per process: runs whose loop may still emit
    late,        \* per process: those of them whose terminal status was announced
    acked,       \* history: ids of messages whose append returned
    faults,      \* history: crashes and I/O errors
    exposed      \* history: torn tails left under a writer that stays open

local == <<writer, pending, disabled, up, busy, live, late>>
sessionVars == <<disk, clock, runs, local, acked, faults, exposed>>

NoWriter == [file |-> None, last |-> None]

SessionInit ==
    /\ disk = [f \in File |-> NoLines]
    /\ clock = 0 /\ runs = 0
    /\ late = [p \in Proc |-> {}]
    /\ writer = [p \in Proc |-> NoWriter]
    /\ pending = [p \in Proc |-> {}]
    /\ disabled = [p \in Proc |-> FALSE]
    /\ up = [p \in Proc |-> FALSE]
    /\ busy = [p \in Proc |-> FALSE]
    /\ live = [p \in Proc |-> {}]
    /\ acked = {} /\ faults = 0 /\ exposed = 0

-----------------------------------------------------------------------------
(* Writing.                                                                *)

Unused == {f \in File : disk[f] = NoLines}
NextFile == Min(Unused)

Time(i) == IF SharedTick THEN clock + 1 ELSE clock + i

\* The messages of one call, each the child of the one before; `body` lists
\* their roles and runs, the first takes the id clock + from.
Chain(last, body, from) ==
    [i \in 1 .. Len(body) |->
        Message(clock + from + i - 1, Time(from + i - 1),
                IF i = 1 THEN last ELSE clock + from + i - 2, body[i].role, body[i].runs)]

\* #flushAssistantTurn: the pending turn as a message, if a writer is there.
Flush(p) ==
    IF writer[p] = NoWriter \/ pending[p] = {} THEN <<>>
    ELSE <<[role |-> "assistant", runs |-> pending[p]]>>

\* The messages among the records.
IdsOf(records) == {records[i].id : i \in {j \in DOMAIN records : IsMessage(records[j])}}

\* On a disk where `before` was appended already, the first k of the records
\* reach file f and the next one is interrupted; `gone` closes its writer.
SaveAfter(base, before, f, records, k, gone) ==
    \E d \in Outcomes(base[f], records, k) :
        /\ disk' = [base EXCEPT ![f] = d]
        /\ clock' = clock + Len(before) + Len(records)
        /\ clock' <= MaxClock
        /\ acked' = acked \cup IdsOf(before) \cup IdsOf(SubSeq(records, 1, k))
        /\ faults' = faults + (IF k < Len(records) THEN 1 ELSE 0)
        /\ faults' <= MaxFaults
        /\ exposed' = exposed + (IF d.cut /\ \E q \in Proc \ gone : writer[q].file = f
                                 THEN 1 ELSE 0)

Save(f, records, k, gone) == SaveAfter(disk, <<>>, f, records, k, gone)

\* The process is gone: everything it held in memory is.
Dead(p) ==
    /\ writer' = [writer EXCEPT ![p] = NoWriter]
    /\ pending' = [pending EXCEPT ![p] = {}]
    /\ disabled' = [disabled EXCEPT ![p] = FALSE]
    /\ up' = [up EXCEPT ![p] = FALSE]
    /\ busy' = [busy EXCEPT ![p] = FALSE]
    /\ live' = [live EXCEPT ![p] = {}]
    /\ late' = [late EXCEPT ![p] = {}]

\* reportSessionFailure: the writer is abandoned, persistence is off.
Abandoned(p) ==
    /\ writer' = [writer EXCEPT ![p] = NoWriter]
    /\ pending' = [pending EXCEPT ![p] = {}]
    /\ disabled' = [disabled EXCEPT ![p] = TRUE]

\* Append `body` through the active writer, created first when there is none,
\* after the pending turn. Gives the writer's new head.
Record(p, body, k) ==
    LET fresh == writer[p] = NoWriter
        file == IF fresh THEN NextFile ELSE writer[p].file
        head == IF fresh THEN <<Header(clock + 1, None)>> ELSE <<>>
        all == Flush(p) \o body
        records == head \o Chain(writer[p].last, all, Len(head) + 1)
    IN  /\ fresh => Unused # {}
        /\ k \in 0 .. Len(records)
        /\ Save(file, records, k, {p})
        /\ k = Len(records) =>
             /\ writer' = [writer EXCEPT ![p] = [file |-> file, last |-> clock']]
             /\ pending' = [pending EXCEPT ![p] = {}]

\* The disk once the pending turn is flushed, as branching and resuming begin.
Flushed(p) ==
    LET turn == Chain(writer[p].last, Flush(p), 1)
    IN  IF turn = <<>> THEN disk
        ELSE [disk EXCEPT ![writer[p].file] = Appended(@, turn)]

Saved == faults' = faults

-----------------------------------------------------------------------------
(* The hook's effect, commands and events.                                 *)

\* The mount effect: the newest session is resumed, its torn tail closed.
Mount(p) ==
    /\ ~up[p]
    /\ up' = [up EXCEPT ![p] = TRUE]
    /\ LET f == Latest(disk) IN
         IF f = None THEN UNCHANGED <<disk, writer>>
         ELSE /\ disk' = [disk EXCEPT ![f] = Isolated(@)]
              /\ writer' = [writer EXCEPT ![p] = [file |-> f, last |-> HeadOf(disk[f])]]
    /\ UNCHANGED <<clock, runs, pending, disabled, busy, live, late, acked, faults, exposed>>

PromptEnabled(p) == up[p] /\ ~busy[p]

\* submit: the prompt is recorded, then the run starts. A failed write only
\* switches persistence off; a run that is refused switches it on again.
Submit(p) ==
    /\ PromptEnabled(p)
    /\ runs < MaxRuns
    /\ runs' = runs + 1
    /\ \E k \in 0 .. 3 : Record(p, <<[role |-> "user", runs |-> {runs'}]>>, k)
    /\ \/ ~Saved /\ Dead(p)
       \/ \E started \in BOOLEAN :
             /\ IF Saved THEN disabled' = [disabled EXCEPT ![p] = FALSE]
                ELSE /\ writer' = [writer EXCEPT ![p] = NoWriter]
                     /\ pending' = [pending EXCEPT ![p] = {}]
                     /\ disabled' = [disabled EXCEPT ![p] = started]
             /\ busy' = [busy EXCEPT ![p] = started]
             /\ live' = [live EXCEPT ![p] = IF started THEN @ \cup {runs'} ELSE @]
             /\ UNCHANGED <<up, late>>

\* The emit callback for a delta or a tool call: it becomes pending.
Heard(p, r) ==
    /\ r \in live[p] /\ ~disabled[p]
    /\ r \notin pending[p]
    /\ pending' = [pending EXCEPT ![p] = @ \cup {r}]
    /\ UNCHANGED <<disk, clock, runs, writer, disabled, up, busy, live, late,
                   acked, faults, exposed>>

\* The emit callback for a tool result or an error step.
Result(p, r) ==
    /\ r \in live[p] /\ ~disabled[p]
    /\ \E k \in 0 .. 3 : Record(p, <<[role |-> "tool", runs |-> {r}]>>, k)
    /\ UNCHANGED <<runs>>
    /\ \/ Saved /\ UNCHANGED <<disabled, up, busy, live, late>>
       \/ ~Saved /\ Abandoned(p) /\ UNCHANGED <<up, busy, live, late>>
       \/ ~Saved /\ Dead(p)

\* The emit callback for the terminal run_updated: the turn is flushed, the
\* prompt comes back and persistence is on again. The loop that was stopped
\* may still be between two of its steps, for as long as it likes.
Ended(p, r) ==
    LET silent == disabled[p] \/ Flush(p) = <<>> IN
    /\ r \in live[p] \ late[p]
    /\ UNCHANGED runs
    /\ \/ silent /\ UNCHANGED <<disk, clock, writer, acked, faults, exposed>>
                 /\ pending' = [pending EXCEPT ![p] = {}]
       \/ ~silent /\ \E k \in 0 .. 1 : Record(p, <<>>, k)
    /\ \/ /\ Saved \/ (writer' = [writer EXCEPT ![p] = NoWriter]
                         /\ pending' = [pending EXCEPT ![p] = {}])
          /\ late' = [late EXCEPT ![p] = @ \cup {r}]
          /\ disabled' = [disabled EXCEPT ![p] = FALSE]
          /\ busy' = [busy EXCEPT ![p] = FALSE]
          /\ UNCHANGED <<up, live>>
       \/ ~Saved /\ Dead(p)

EventsOnFile ==
    Cardinality(UNION {{<<f, i>> : i \in {j \in DOMAIN disk[f].lines : disk[f].lines[j].kind = "event"}} : f \in File})

\* recordStateChange, for /model, /think, /theme and the provider picker.
StateChange(p) ==
    /\ PromptEnabled(p) /\ ~disabled[p]
    /\ EventsOnFile < MaxEvents
    /\ LET fresh == writer[p] = NoWriter
           file == IF fresh THEN NextFile ELSE writer[p].file
           records == IF fresh THEN <<Header(clock + 1, None), StateEvent(clock + 2)>>
                      ELSE <<StateEvent(clock + 1)>>
       IN  /\ fresh => Unused # {}
           /\ \E k \in 0 .. Len(records) : Save(file, records, k, {p})
           /\ \/ /\ Saved
                 /\ writer' = [writer EXCEPT ![p].file = file]
                 /\ UNCHANGED <<pending, disabled, up, busy, live, late>>
              \/ ~Saved /\ Abandoned(p) /\ UNCHANGED <<up, busy, live, late>>
              \/ ~Saved /\ Dead(p)
    /\ UNCHANGED <<runs>>

\* The flush that branching and resuming begin with, when the write fails: the
\* command reports the error and the writer stays.
FlushFails(p) ==
    /\ PromptEnabled(p)
    /\ Flush(p) # <<>>
    /\ Save(writer[p].file, Chain(writer[p].last, Flush(p), 1), 0, {})
    /\ UNCHANGED <<runs, local>>

\* /branch: the pending turn goes to the old session; a new session starts at a
\* message of session s, and its first message will hang off that message.
\* When its header cannot be written, the old writer stays.
Branch(p, s, m) ==
    LET turn == Chain(writer[p].last, Flush(p), 1)
        header == Header(clock + Len(turn) + 1, m.id)
    IN  /\ PromptEnabled(p)
        /\ Unused # {}
        /\ HasMessage(disk, s, m)
        /\ \E k \in 0 .. 1 : SaveAfter(Flushed(p), turn, NextFile, <<header>>, k, {})
        /\ pending' = [pending EXCEPT ![p] = {}]
        /\ writer' = [writer EXCEPT ![p] =
                         IF Saved THEN [file |-> NextFile, last |-> m.id]
                         ELSE IF turn = <<>> THEN @ ELSE [@ EXCEPT !.last = clock + 1]]
        /\ UNCHANGED <<runs, disabled, up, busy, live, late>>

\* /resume: likewise, with the writer put at the end of an existing session.
Resume(p, s) ==
    LET turn == Chain(writer[p].last, Flush(p), 1)
        seen == Flushed(p)
    IN  /\ PromptEnabled(p)
        /\ CanOpen(disk, s)
        /\ SaveAfter([seen EXCEPT ![s] = Isolated(@)], turn, s, <<>>, 0, {})
        /\ pending' = [pending EXCEPT ![p] = {}]
        /\ writer' = [writer EXCEPT ![p] = [file |-> s, last |-> HeadOf(seen[s])]]
        /\ UNCHANGED <<runs, disabled, up, busy, live, late>>

\* Leaving the terminal: the last turn is flushed, errors are swallowed.
Quit(p) ==
    /\ PromptEnabled(p)
    /\ IF Flush(p) = <<>> THEN UNCHANGED <<disk, clock, acked, faults, exposed>>
       ELSE \E k \in 0 .. 1 :
              Save(writer[p].file, Chain(writer[p].last, Flush(p), 1), k, {p})
    /\ Dead(p)
    /\ UNCHANGED <<runs>>

\* The process dies between two writes.
Crash(p) ==
    /\ up[p] /\ faults < MaxFaults
    /\ faults' = faults + 1
    /\ Dead(p)
    /\ UNCHANGED <<disk, clock, runs, acked, exposed>>

SessionNext ==
    \E p \in Proc :
        \/ Mount(p) \/ Submit(p) \/ StateChange(p)
        \/ \E r \in Run : Heard(p, r) \/ Result(p, r) \/ Ended(p, r)
        \/ \E s \in File : Resume(p, s) \/ \E m \in Messages(disk[s]) : Branch(p, s, m)
        \/ FlushFails(p)
        \/ Quit(p) \/ Crash(p)

SessionSpec == SessionInit /\ [][SessionNext]_sessionVars

-----------------------------------------------------------------------------
(* Properties.                                                             *)

LoadedIds == {m.id : m \in Loaded(disk)}
Lost == acked \ LoadedIds

SessionTypeOK ==
    /\ clock \in 0 .. MaxClock /\ runs \in 0 .. MaxRuns /\ faults \in 0 .. MaxFaults
    /\ writer \in [Proc -> [file : File \cup {None}, last : 0 .. MaxClock]]
    /\ pending \in [Proc -> SUBSET Run]
    /\ live \in [Proc -> SUBSET Run] /\ late \in [Proc -> SUBSET Run]
    /\ disabled \in [Proc -> BOOLEAN] /\ up \in [Proc -> BOOLEAN] /\ busy \in [Proc -> BOOLEAN]
    /\ \A p \in Proc : ~up[p] => pending[p] = {} /\ live[p] = {}

\* What an append acknowledged is read back after any number of crashes and
\* restarts, except for one record per torn tail that was left under a writer
\* still open on the file: another process's, or the one a failed /branch or
\* /resume keeps; and /sessions warns of no fewer malformed lines.
LossIsBounded ==
    LET lost == Cardinality(Lost)
    IN  lost <= exposed /\ lost <= Cardinality(Diagnostics(disk))

\* The messages read back hang together: the head a writer starts from, and the
\* head it keeps after a failed append, are there. Only a tail torn under an open
\* writer breaks links, and at most two of them: to the torn record, if a session
\* was branched off it, and to the record glued to it.
ChainUnbroken ==
    LET loaded == Loaded(disk)
        known == {m.id : m \in loaded} \cup {None}
    IN  Cardinality({m.parent : m \in loaded} \ known) <= 2 * exposed

\* /tree, on the files as they are.
First(f) ==
    LET found == MessageLines(disk[f])
    IN  IF found = {} THEN None ELSE disk[f].lines[Min(found)].id
Anchor(f) == HeaderOf(disk[f]).parent

Annotated(f) == {[id |-> m.id, ts |-> m.ts, parent |-> m.parent, session |-> f]
                   : m \in Messages(disk[f])}

\* Whatever crashes, branches and concurrent writers left in the files, /tree
\* draws every message that reads back once and joined to its parent.
TreeShowsConversation ==
    LET listed == Listed(disk)
        messages == Rewired(UNION {Annotated(f) : f \in listed},
                                 [f \in listed |-> First(f)], [f \in listed |-> Anchor(f)])
    IN  Shows(Layout(messages), messages)
=============================================================================
