--------------------------- MODULE SessionStore ---------------------------
(***************************************************************************)
(* The session store (packages/core/session/src/store.ts): one append-only *)
(* JSONL file per conversation.  An append is one write of a line and its  *)
(* newline; a crash or an I/O error may leave nothing, a piece of the line *)
(* or the whole line without its newline.  The next append then continues  *)
(* that line, and the two read back as one malformed record.  A file is    *)
(* the sequence of its lines and whether the last one lacks its newline.   *)
(***************************************************************************)
EXTENDS Integers, Sequences, FiniteSets, FiniteSetsExt

CONSTANTS MaxFiles,      \* bound: session files of the project
          MaxClock       \* bound: records written, also the newest timestamp

ASSUME FilesAssumption == MaxFiles \in Nat /\ MaxClock \in Nat

File == 1 .. MaxFiles
None == 0                \* no file, or a null parent id

\* Ids are fresh numbers; a record also bears the time it was written at.
Header(t, parent) == [kind |-> "session", id |-> t, ts |-> t, parent |-> parent]
Message(id, t, parent, role, runs) ==
    [kind |-> "message", id |-> id, ts |-> t, parent |-> parent, role |-> role, runs |-> runs]
StateEvent(t) == [kind |-> "event", id |-> t]
Malformed == [kind |-> "malformed"]

NoLines == [lines |-> <<>>, cut |-> FALSE]

WithLast(lines, record) == [lines EXCEPT ![Len(lines)] = record]

\* appendLine for each of the records in turn, when the writes succeed.
Appended(d, records) ==
    IF records = <<>> THEN d
    ELSE [lines |-> IF d.cut THEN WithLast(d.lines, Malformed) \o Tail(records)
                    ELSE d.lines \o records,
          cut |-> FALSE]

\* appendLine, when the process dies in it or the write fails.
Torn(d, record) ==
    {d} \cup IF d.cut
             THEN {[lines |-> WithLast(d.lines, Malformed), cut |-> TRUE]}
             ELSE {[lines |-> Append(d.lines, r), cut |-> TRUE] : r \in {Malformed, record}}

\* What a file may hold after the first k of the records were appended and the
\* next one, if any, was interrupted.
Outcomes(d, records, k) ==
    LET sofar == Appended(d, SubSeq(records, 1, k))
    IN  IF k = Len(records) THEN {sofar} ELSE Torn(sofar, records[k + 1])

\* Mutant: a resumed file keeps its torn tail.
IsolatedNot(d) == d

\* isolateUnterminatedTail
Isolated(d) == [d EXCEPT !.cut = FALSE]

-----------------------------------------------------------------------------
(* Reading a file back: malformed lines are skipped, and a file without a  *)
(* header is skipped by every listing.                                     *)

IsMessage(record) == record.kind = "message"

\* openSession
MessageLines(d) == {i \in DOMAIN d.lines : IsMessage(d.lines[i])}
Messages(d) == {d.lines[i] : i \in MessageLines(d)}
Readable(d) == \E i \in DOMAIN d.lines : d.lines[i].kind = "session"
HeaderOf(d) == d.lines[Min({i \in DOMAIN d.lines : d.lines[i].kind = "session"})]

\* Mutant: the head is the last record, state events included.
HeadOfRecords(d) ==
    LET kept == {i \in DOMAIN d.lines : d.lines[i].kind \in {"message", "event"}}
    IN  IF kept = {} THEN None ELSE d.lines[Max(kept)].id

\* The head a resumed writer continues from, and a summary's updatedAt.
HeadOf(d) == IF MessageLines(d) = {} THEN None ELSE d.lines[Max(MessageLines(d))].id
UpdatedAt(d) ==
    IF MessageLines(d) = {} THEN HeaderOf(d).ts ELSE d.lines[Max(MessageLines(d))].ts

\* listProjectSessions, and its first entry (0 when there is none).
Listed(disk) == {f \in File : Readable(disk[f])}
Latest(disk) ==
    IF Listed(disk) = {} THEN None
    ELSE CHOOSE f \in Listed(disk) :
            \A g \in Listed(disk) : UpdatedAt(disk[f]) >= UpdatedAt(disk[g])

\* branchSession and openProjectSession: what may be branched from and resumed.
HasMessage(disk, f, m) == f \in Listed(disk) /\ m \in Messages(disk[f])
CanOpen(disk, f) == Readable(disk[f])

\* listProjectSessionDiagnostics: the malformed lines /sessions warns about.
Diagnostics(disk) ==
    UNION {{<<f, i>> : i \in {j \in DOMAIN disk[f].lines : disk[f].lines[j] = Malformed}}
             : f \in Listed(disk)}

\* loadProjectSessions, as the set of every message of the project.
Loaded(disk) == UNION {Messages(disk[f]) : f \in Listed(disk)}
=============================================================================
