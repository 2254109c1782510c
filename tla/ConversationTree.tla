------------------------- MODULE ConversationTree -------------------------
(***************************************************************************)
(* The lane layout of /tree (packages/core/session/src/tree.ts): messages  *)
(* are walked from the newest to the oldest; a lane is a column that waits *)
(* for the parent of the message drawn in it last, and lanes that wait for *)
(* the same message fold into the leftmost of them.                        *)
(***************************************************************************)
EXTENDS Integers, Sequences, FiniteSets, FiniteSetsExt

Free == 0                \* an unused lane, also the parent of a root (null)

\* The order of the rows: newest first, ties by session, then by id.
Newer(a, b) ==
    \/ a.ts > b.ts
    \/ a.ts = b.ts /\ a.session < b.session
    \/ a.ts = b.ts /\ a.session = b.session /\ a.id < b.id

Ordered(messages) ==
    [k \in 1 .. Cardinality(messages) |->
        CHOOSE m \in messages : Cardinality({x \in messages : Newer(x, m)}) = k - 1]

\* rewireBranchAnchors: the first message of a branched session that names no
\* parent hangs off the branch point of the header.
Rewired(messages, first, anchor) ==
    {IF first[m.session] = m.id /\ m.parent = Free
     THEN [m EXCEPT !.parent = anchor[m.session]] ELSE m : m \in messages}

Waiting(lanes, id) == {i \in DOMAIN lanes : lanes[i] = id}

\* The leftmost lane that waits for the message, else the leftmost free one,
\* else a new one.
LaneFor(lanes, id) ==
    IF Waiting(lanes, id) # {} THEN Min(Waiting(lanes, id))
    ELSE IF Waiting(lanes, Free) # {} THEN Min(Waiting(lanes, Free))
    ELSE Len(lanes) + 1

Trimmed(lanes) ==
    LET used == {i \in DOMAIN lanes : lanes[i] # Free}
    IN  IF used = {} THEN <<>> ELSE SubSeq(lanes, 1, Max(used))

\* Mutant: the other lanes that waited for the message are not freed.
DrawnUnfolded(layout, m) ==
    LET lane == LaneFor(layout.lanes, m.id)
        advanced == [i \in 1 .. Max({lane, Len(layout.lanes)}) |->
                       IF i = lane THEN m.parent ELSE layout.lanes[i]]
    IN  [lanes |-> Trimmed(advanced),
         rows |-> Append(layout.rows, [id |-> m.id, parent |-> m.parent, lane |-> lane,
                                       folds |-> Waiting(layout.lanes, m.id)])]

\* One step of layoutLanes.
Drawn(layout, m) ==
    LET waiting == Waiting(layout.lanes, m.id)
        lane == LaneFor(layout.lanes, m.id)
        advanced == [i \in 1 .. Max({lane, Len(layout.lanes)}) |->
                       IF i = lane THEN m.parent
                       ELSE IF i \in waiting THEN Free ELSE layout.lanes[i]]
    IN  [lanes |-> Trimmed(advanced),
         rows |-> Append(layout.rows,
                         [id |-> m.id, parent |-> m.parent, lane |-> lane, folds |-> waiting])]

\* layoutLanes
Layout(messages) ==
    LET order == Ordered(messages)
        upto[k \in 0 .. Len(order)] ==
            IF k = 0 THEN [lanes |-> <<>>, rows |-> <<>>] ELSE Drawn(upto[k - 1], order[k])
    IN  upto[Len(order)]

\* A layout shows the conversation when every message has one row, every
\* message whose parent is there is joined to it, and no lane is left waiting
\* for a message that was drawn.
Shows(layout, messages) ==
    LET ids == {m.id : m \in messages}
        rows == layout.rows
    IN  /\ Len(rows) = Cardinality(ids)
        /\ {rows[i].id : i \in DOMAIN rows} = ids
        /\ \A i, j \in DOMAIN rows :
              rows[i].parent = rows[j].id => rows[i].lane \in rows[j].folds
        /\ \A i \in DOMAIN layout.lanes : layout.lanes[i] \notin ids
=============================================================================
