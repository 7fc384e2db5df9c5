-------------------------- MODULE PooledEngineProofs --------------------------
(***************************************************************************)
(* Theorems about PooledEngine, for every set of calls, principals, pool   *)
(* places, handles, writes and savepoint names, and every choice of        *)
(* faults.                                                                 *)
(***************************************************************************)
EXTENDS PooledEngine, LaneProofs

-------------------------------------------------------------------------------
(* The inductive invariant                                                 *)

ArgumentOK(op, arg) ==
    /\ op \in {"run", "copy_in", "write", "write_outside", "dry_run"} => arg \in Writes
    /\ op \in {"savepoint", "rollback_to"} => arg \in Names

OnHandleStages == {"wait", "inside", "lose", "finish", "note"}
EndingStages == {"finish", "note"}

\* What the stage of a call says of its handle, its connection and its
\* argument: a begin that waits for the table brings a block, a call without
\* a handle a connection with no block that works.
CallOK(c) ==
    /\ pc[c].id # None <=> pc[c].at \in OnHandleStages
    /\ pc[c].id # None => handles[pc[c].id] # None
    /\ pc[c].conn # None <=> pc[c].at \in {"insert", "using"}
    /\ pc[c].at = "insert" => conns[pc[c].conn] \in Stays("write")
    /\ pc[c].at = "using" => /\ conns[pc[c].conn] \in Parked
                             /\ pc[c].op \in LaneOps
    /\ pc[c].at \in {"wait", "inside"} => pc[c].op \in HandleOps
    /\ pc[c].at \in {"wait", "inside", "using"} => ArgumentOK(pc[c].op, pc[c].arg)

\* An open handle has the block it was begun with and no other end.
HandleOK(i) ==
    /\ i \in open => conns[handles[i].conn] \in Stays("write") /\ i \notin draining
    /\ handles[i] = None \/ i \in open \/ i \in draining => closed[i] = "none"

\* A handle some call is ending has left the table, is ended by that call
\* alone, and no end is on record.
EndingOK(c) ==
    pc[c].at \in EndingStages =>
        /\ pc[c].id \notin open \cup draining
        /\ closed[pc[c].id] = "none"
        /\ \A d \in Calls : pc[d].at \in EndingStages /\ pc[d].id = pc[c].id => d = c

\* Two users of one place of the pool are one.
Sharing ==
    /\ \A i, j \in Ids : Reached(i) /\ Reached(j) /\ handles[i] # None /\ handles[j] # None
                            /\ handles[i].conn = handles[j].conn => i = j
    /\ \A c, d \in Calls : pc[c].conn = pc[d].conn /\ pc[c].conn # None => c = d
    /\ \A i \in Ids, c \in Calls : Reached(i) /\ handles[i] # None
                                       => pc[c].conn # handles[i].conn

PooledInv ==
    /\ TypeOK
    /\ conns \in [Slots -> Sessions]
    /\ \A c \in Calls : CallOK(c)
    /\ \A i \in Ids : HandleOK(i)
    /\ \A c \in Calls : EndingOK(c)
    /\ Sharing
    /\ OneHandlePerPrincipal

-------------------------------------------------------------------------------
(* Calls on a handle                                                       *)

\* Handles of one principal p on one place k of the pool.
HandleOf(k, p) == {h \in PooledHandle : h.conn = k /\ h.owner = p}

\* A session that stays in block b, with a handle of H.
OnBlocks(b, H) == [s : Stays(b), h : H]

\* Commands that stay in the block leave the handle as it is.
LEMMA OnBlockKeeps ==
    ASSUME NEW b, NEW H, NEW x \in OnBlocks(b, H), NEW R, R \subseteq Replies(Stays(b))
    PROVE  OnBlock(x, R) \subseteq Replies(OnBlocks(b, {x.h}))
  BY DEF OnBlock, OnBlocks, Replies

\* touch (engine.rs) moves a deadline, not the handle.
LEMMA TouchedKeeps ==
    ASSUME NEW k, NEW p, NEW h \in HandleOf(k, p)
    PROVE  Touched(h) \subseteq HandleOf(k, p)
  BY DEF Touched, HandleOf, PooledHandle

\* A call cancelled before its statement changes nothing.
LEMMA TrackSame ==
    ASSUME NEW x
    PROVE  Track(x) \subseteq Replies({x})
  BY RefuseType

\* Replies of part of a set are replies of the set.
LEMMA RepliesOfPart ==
    ASSUME NEW S, NEW T, S \subseteq T
    PROVE  Replies(S) \subseteq Replies(T)
  BY DEF Replies

\* A call that finds the connection closed, or is refused, changes nothing.
LEMMA LostKeeps ==
    ASSUME NEW S, NEW x \in S
    PROVE  Lost(x) \subseteq Replies(S) /\ Refuse(x) \subseteq Replies(S)
  BY ReplyType, RefuseType DEF Lost, Outcomes

\* A savepoint is added to the handle's own list when the server has set it.
LEMMA MarkInKeeps ==
    ASSUME NEW b, NEW k, NEW p, NEW x \in OnBlocks(b, HandleOf(k, p)), NEW name \in Names
    PROVE  MarkIn(x, name) \subseteq Replies(OnBlocks(b, HandleOf(k, p)))
  <1> DEFINE X == OnBlocks(b, HandleOf(k, p))
             marked(h) == [h EXCEPT !.savepoints = Append(@, [name |-> name, sofar |-> h.done])]
             G(z) == {Reply([z EXCEPT !.h = h], "ok") : h \in Touched(marked(z.h))}
             F(y) == Then(OnBlock(y, Savepoint(y.s, name)), G)
  <1>1. ASSUME NEW z \in X
        PROVE  G(z) \subseteq Replies(X)
    <2>1. z.h \in PooledHandle /\ z.h \in HandleOf(k, p) /\ z.s \in Stays(b)
      BY DEF OnBlocks, HandleOf
    <2> DEFINE mark == [name |-> name, sofar |-> z.h.done]
    <2>2. mark \in SavepointType /\ z.h.savepoints \in Seq(SavepointType)
      BY <2>1 DEF PooledHandle, SavepointType
    <2> HIDE DEF mark
    <2>3. Append(z.h.savepoints, mark) \in Seq(SavepointType)
      BY <2>2
    <2>4. [z.h EXCEPT !.savepoints = Append(@, mark)] \in HandleOf(k, p)
      BY <2>1, <2>3 DEF HandleOf, PooledHandle
    <2>5. marked(z.h) \in HandleOf(k, p)
      BY <2>4 DEF mark
    <2> HIDE DEF marked
    <2>6. \A h \in Touched(marked(z.h)) : [z EXCEPT !.h = h] \in X
      BY <2>5, TouchedKeeps DEF OnBlocks
    <2> HIDE DEF X
    <2>7. QED
      BY <2>6, ReplyType DEF Outcomes
  <1>2. F(x) \subseteq Replies(X)
    <2>1. OnBlock(x, Savepoint(x.s, name)) \subseteq Replies(X)
      <3>1. OnBlock(x, Savepoint(x.s, name)) \subseteq Replies(OnBlocks(b, {x.h}))
        BY SavepointStays, OnBlockKeeps DEF OnBlocks
      <3>2. OnBlocks(b, {x.h}) \subseteq X
        BY DEF OnBlocks
      <3>3. QED
        BY <3>1, <3>2, RepliesOfPart
    <2>2. \A q \in Replies(X) : G(q.st) \subseteq Replies(X)
      BY <1>1 DEF Replies
    <2> HIDE DEF G, X
    <2>3. QED
      BY <2>1, <2>2, AddKept DEF Then
  <1>3. Then(Track(x), F) \subseteq Replies(X)
    <2>1. \A q \in Track(x) : q \in Replies(X) /\ q.st = x
      BY TrackSame DEF Replies
    <2> HIDE DEF F, X
    <2>2. QED
      BY <1>2, <2>1, AddKept DEF Then
  <1>4. QED
    BY <1>3, LostKeeps DEF MarkIn

\* Going back to a savepoint keeps it and forgets the ones after it.
LEMMA UndoInKeeps ==
    ASSUME NEW b, NEW k, NEW p, NEW x \in OnBlocks(b, HandleOf(k, p)), NEW name \in Names
    PROVE  UndoIn(x, name) \subseteq Replies(OnBlocks(b, HandleOf(k, p)))
  <1> DEFINE X == OnBlocks(b, HandleOf(k, p))
             at == LastNamed(x.h.savepoints, name)
             back(h) == [h EXCEPT !.savepoints = SubSeq(@, 1, at), !.done = h.savepoints[at].sofar]
             G(z) == {Reply([z EXCEPT !.h = h], "ok") : h \in Touched(back(z.h))}
             F(y) == Then(OnBlock(y, RollbackToSavepoint(y.s, name)), G)
  <1>1. ASSUME at # 0, NEW z \in OnBlocks(b, {x.h})
        PROVE  G(z) \subseteq Replies(X)
    <2>1. z.h = x.h /\ x.h \in PooledHandle /\ x.h \in HandleOf(k, p) /\ z.s \in Stays(b)
      BY DEF OnBlocks, HandleOf
    <2>2. x.h.savepoints \in Seq(SavepointType)
      BY <2>1 DEF PooledHandle
    <2>3. at \in 1 .. Len(x.h.savepoints)
      BY <1>1, <2>2, LastNamedSavepoint
    <2> HIDE DEF at
    <2>4. SubSeq(x.h.savepoints, 1, at) \in Seq(SavepointType)
      BY <2>2, <2>3
    <2>5. x.h.savepoints[at].sofar \subseteq Writes
      <3>1. x.h.savepoints[at] \in SavepointType
        BY <2>2, <2>3
      <3>2. QED
        BY <3>1 DEF SavepointType
    <2>6. back(x.h) \in HandleOf(k, p)
      BY <2>1, <2>4, <2>5 DEF HandleOf, PooledHandle
    <2> HIDE DEF back
    <2>7. \A h \in Touched(back(z.h)) : [z EXCEPT !.h = h] \in X
      BY <2>1, <2>6, TouchedKeeps DEF OnBlocks
    <2> HIDE DEF X
    <2>8. QED
      BY <2>7, ReplyType DEF Outcomes
  <1>2. ASSUME at # 0
        PROVE  F(x) \subseteq Replies(X)
    <2> DEFINE R == OnBlock(x, RollbackToSavepoint(x.s, name))
    <2>1. R \subseteq Replies(OnBlocks(b, {x.h}))
      BY RollbackToSavepointStays, OnBlockKeeps DEF OnBlocks
    <2>2. OnBlocks(b, {x.h}) \subseteq X
      BY DEF OnBlocks
    <2>3. R \subseteq Replies(X)
      BY <2>1, <2>2, RepliesOfPart
    <2>4. \A q \in R : G(q.st) \subseteq Replies(X)
      BY <1>1, <1>2, <2>1 DEF Replies
    <2> HIDE DEF G, X, R
    <2>5. Then(R, G) \subseteq Replies(X)
      BY <2>3, <2>4, AddKept DEF Then
    <2>6. QED
      BY <2>5 DEF R
  <1>3. at # 0 => Then(Track(x), F) \subseteq Replies(X)
    <2>1. \A q \in Track(x) : q \in Replies(X) /\ q.st = x
      BY TrackSame DEF Replies
    <2> HIDE DEF F, X, at
    <2>2. QED
      BY <1>2, <2>1, AddKept DEF Then
  <1>4. QED
    BY <1>3, LostKeeps DEF UndoIn

\* A statement under its savepoint, and the SET LOCAL before it, stay in the
\* block.
LEMMA GuardedStatementStays ==
    ASSUME NEW b, NEW s \in Stays(b), NEW w \in Writes
    PROVE  /\ GuardedStatement(s, w) \subseteq Replies(Stays(b))
           /\ Then(Command(s, s), LAMBDA t : GuardedStatement(t, w)) \subseteq Replies(Stays(b))
  <1>1. \A t \in Stays(b) : GuardedStatement(t, w) \subseteq Replies(Stays(b))
    BY GuardedWriteStays DEF GuardedStatement
  <1>2. Command(s, s) \subseteq Replies(Stays(b))
    BY CommandStays
  <1>3. \A q \in Replies(Stays(b)) : GuardedStatement(q.st, w) \subseteq Replies(Stays(b))
    BY <1>1 DEF Replies
  <1>4. QED
    BY <1>1, <1>2, <1>3, AddKept DEF Then

\* The handle after a statement is the same handle.
LEMMA RanKeeps ==
    ASSUME NEW b, NEW k, NEW p, NEW r \in Replies(OnBlocks(b, HandleOf(k, p))), NEW w \in Writes
    PROVE  /\ Ran(r, w) \subseteq HandleOf(k, p)
           /\ \A h \in Ran(r, w) : [r EXCEPT !.st.h = h] \in Replies(OnBlocks(b, HandleOf(k, p)))
           /\ [r EXCEPT !.out = "lost"] \in Replies(OnBlocks(b, HandleOf(k, p)))
  <1>1. r.st.h \in HandleOf(k, p)
    BY DEF Replies, OnBlocks
  <1>2. [r.st.h EXCEPT !.done = @ \cup {w}] \in HandleOf(k, p)
    BY <1>1 DEF HandleOf, PooledHandle
  <1>3. Ran(r, w) \subseteq HandleOf(k, p)
    BY <1>1, <1>2, TouchedKeeps DEF Ran
  <1>4. \A h \in HandleOf(k, p) : [r EXCEPT !.st.h = h] \in Replies(OnBlocks(b, HandleOf(k, p)))
    BY DEF Replies, OnBlocks
  <1>5. QED
    BY <1>3, <1>4 DEF Replies, Outcomes

\* A statement on a handle, whether it finds the connection lost or not.
LEMMA RunInKeeps ==
    ASSUME NEW b, NEW k, NEW p, NEW x \in OnBlocks(b, HandleOf(k, p)), NEW w \in Writes
    PROVE  /\ RunIn(x, w) \subseteq Replies(OnBlocks(b, HandleOf(k, p)))
           /\ CopyInto(x, w) \subseteq Replies(OnBlocks(b, HandleOf(k, p)))
  <1> DEFINE X == OnBlocks(b, HandleOf(k, p))
             timed(y) == OnBlock(y, Then(Command(y.s, y.s), LAMBDA s : GuardedStatement(s, w)))
             plain(y) == OnBlock(y, GuardedStatement(y.s, w))
             F(y) == UNION {IF r.st.s.alive THEN {[r EXCEPT !.st.h = h] : h \in Ran(r, w)}
                            ELSE {[r EXCEPT !.out = "lost"]} : r \in timed(y)}
             G(y) == UNION {IF r.out = "ok" THEN {[r EXCEPT !.st.h = h] : h \in Ran(r, w)}
                            ELSE {r} : r \in plain(y)}
  <1>1. timed(x) \subseteq Replies(X) /\ plain(x) \subseteq Replies(X)
    <2>1. x.s \in Stays(b) /\ OnBlocks(b, {x.h}) \subseteq X
      BY DEF OnBlocks
    <2>2. /\ timed(x) \subseteq Replies(OnBlocks(b, {x.h}))
          /\ plain(x) \subseteq Replies(OnBlocks(b, {x.h}))
      BY <2>1, GuardedStatementStays, OnBlockKeeps
    <2>3. QED
      BY <2>1, <2>2, RepliesOfPart
  <1>2. F(x) \subseteq Replies(X) /\ G(x) \subseteq Replies(X)
    <2>1. ASSUME NEW r \in Replies(X)
          PROVE  /\ {[r EXCEPT !.st.h = h] : h \in Ran(r, w)} \subseteq Replies(X)
                 /\ {[r EXCEPT !.out = "lost"]} \subseteq Replies(X)
      <3>1. /\ \A h \in Ran(r, w) : [r EXCEPT !.st.h = h] \in Replies(X)
            /\ [r EXCEPT !.out = "lost"] \in Replies(X)
        BY RanKeeps
      <3> HIDE DEF X
      <3>2. QED
        BY <3>1
    <2> HIDE DEF timed, plain, X
    <2>2. F(x) \subseteq Replies(X)
      BY <1>1, <2>1
    <2>3. G(x) \subseteq Replies(X)
      BY <1>1, <2>1
    <2>4. QED
      BY <2>2, <2>3
  <1>3. Then(Track(x), F) \subseteq Replies(X) /\ Then(Track(x), G) \subseteq Replies(X)
    <2>1. \A q \in Track(x) : q \in Replies(X) /\ q.st = x
      BY TrackSame DEF Replies
    <2> HIDE DEF F, G, X
    <2>2. QED
      BY <1>2, <2>1, AddKept DEF Then
  <1>4. Lost(x) \subseteq Replies(X)
    BY LostKeeps
  <1>5. QED
    BY <1>3, <1>4 DEF RunIn, CopyInto

\* Whatever a call does inside its handle, the handle keeps its connection
\* and its owner, and the connection its block.
LEMMA OnHandleKeeps ==
    ASSUME NEW b, NEW k, NEW p, NEW x \in OnBlocks(b, HandleOf(k, p)),
           NEW op \in HandleOps, NEW arg, ArgumentOK(op, arg)
    PROVE  OnHandle(x, op, arg) \subseteq Replies(OnBlocks(b, HandleOf(k, p)))
  <1>1. StatusOf(x) \subseteq Replies(OnBlocks(b, HandleOf(k, p)))
    BY LostKeeps, ReplyType DEF StatusOf, Outcomes
  <1>2. CASE op = "status"
    BY <1>1, <1>2 DEF OnHandle
  <1>3. CASE op = "run"
    BY <1>3, RunInKeeps DEF OnHandle, ArgumentOK
  <1>4. CASE op = "copy_in"
    BY <1>4, RunInKeeps DEF OnHandle, ArgumentOK
  <1>5. CASE op = "savepoint"
    BY <1>5, MarkInKeeps DEF OnHandle, ArgumentOK
  <1>6. CASE op = "rollback_to"
    BY <1>6, UndoInKeeps DEF OnHandle, ArgumentOK
  <1>7. QED
    BY <1>2, <1>3, <1>4, <1>5, <1>6 DEF HandleOps

\* A call without a handle leaves its connection in order.
LEMMA OnTakenKeeps ==
    ASSUME NEW s \in Parked, NEW op \in LaneOps, NEW arg, ArgumentOK(op, arg)
    PROVE  OnTaken(s, op, arg) \subseteq Replies(Sessions)
  <1> DEFINE l == [NewLane EXCEPT !.s = s]
  <1>1. l \in QuietLane /\ l.s = s
    BY NewLaneRests DEF RestingLane, QuietLane, LaneType, NewLane, Parked
  <1>2. \A R : R \subseteq Replies(QuietLane) => OfSession(R) \subseteq Replies(Sessions)
    BY QuietSessions DEF OfSession, Replies
  <1>3. Replies(Parked) \subseteq Replies(Sessions)
    BY ParkedSessions, RepliesOfPart
  <1>4. OnTaken(s, op, arg) \subseteq Replies(Sessions)
    <2>1. CASE op = "read"
      BY <1>1, <1>2, <2>1, ReadWholeQuiet DEF OnTaken
    <2>2. CASE op = "catalog"
      BY <1>1, <1>2, <2>2, CatalogOnLaneQuiet DEF OnTaken
    <2>3. CASE op \in {"write", "write_outside"}
      BY <1>3, <2>3, AutocommitParks DEF OnTaken, ArgumentOK
    <2>4. CASE op = "dry_run"
      BY <1>3, <2>4, RunThenRollbackParks DEF OnTaken, ArgumentOK
    <2>5. QED
      BY <2>1, <2>2, <2>3, <2>4 DEF LaneOps
  <1>5. QED
    BY <1>4

-------------------------------------------------------------------------------
(* Steps                                                                   *)

\* A handle keeps its connection and its owner for good.
SameHandles ==
    \A i \in Ids : /\ handles'[i] = None <=> handles[i] = None
                   /\ handles[i] # None => /\ handles'[i].conn = handles[i].conn
                                           /\ handles'[i].owner = handles[i].owner

\* A step that leaves a call and its connection alone; the connection may die.
LEMMA CallFrame ==
    ASSUME NEW c \in Calls, CallOK(c), pc'[c] = pc[c],
           \A i \in Ids : handles[i] # None => handles'[i] # None,
           pc[c].id \in Ids \cup {None},
           pc[c].conn # None => conns'[pc[c].conn] \in {conns[pc[c].conn], Dead}
    PROVE  CallOK(c)'
  BY DeadStays, ParkedSessions DEF CallOK

\* A step in which no call comes to an end of a handle.
LEMMA EndingShrinks ==
    ASSUME \A c \in Calls : EndingOK(c),
           open' \cup draining' \subseteq open \cup draining,
           \A c \in Calls : pc'[c].at \in EndingStages =>
               /\ pc[c].at \in EndingStages /\ pc'[c].id = pc[c].id
               /\ closed'[pc[c].id] = closed[pc[c].id]
    PROVE  \A c \in Calls : EndingOK(c)'
  BY DEF EndingOK

\* A step after which nobody reaches a place of the pool who did not before.
LEMMA SharingShrinks ==
    ASSUME TypeOK, Sharing, SameHandles,
           open' \cup draining' \subseteq open \cup draining,
           \A c \in Calls : pc'[c].id \in {None, pc[c].id} \cup open,
           \A c \in Calls : pc'[c].conn \in {None, pc[c].conn}
    PROVE  Sharing'
  <1>1. \A i \in Ids : Reached(i)' => Reached(i)
    BY NoneAssumption DEF Reached
  <1>2. ASSUME NEW i \in Ids, NEW j \in Ids, (Reached(i) /\ Reached(j))',
               handles'[i] # None, handles'[j] # None, handles'[i].conn = handles'[j].conn
        PROVE  i = j
    BY <1>1, <1>2 DEF Sharing, SameHandles
  <1>3. ASSUME NEW c \in Calls, NEW d \in Calls, pc'[c].conn = pc'[d].conn, pc'[c].conn # None
        PROVE  c = d
    BY <1>3 DEF Sharing
  <1>4. ASSUME NEW i \in Ids, NEW c \in Calls, Reached(i)', handles'[i] # None
        PROVE  pc'[c].conn # handles'[i].conn
    <2>1. Reached(i) /\ handles[i] # None /\ handles'[i].conn = handles[i].conn
      BY <1>1, <1>4 DEF SameHandles
    <2>2. handles[i].conn # None
      BY <2>1, NoneAssumption DEF TypeOK, PooledHandle
    <2>3. QED
      BY <2>1, <2>2 DEF Sharing
  <1>5. QED
    BY <1>2, <1>3, <1>4 DEF Sharing

\* A step that takes nothing new into the table.
LEMMA InvShrinks ==
    ASSUME PooledInv, TypeOK', conns' \in [Slots -> Sessions], SameHandles,
           open' \subseteq open, draining' \subseteq draining \cup open,
           open' \cap draining' = {},
           \A c \in Calls : CallOK(c)',
           \A c \in Calls : EndingOK(c)',
           \A c \in Calls : pc'[c].conn \in {None, pc[c].conn},
           \A c \in Calls : pc'[c].id \in {None, pc[c].id} \cup open,
           \A i \in open' : conns'[handles[i].conn] \in Stays("write"),
           \A i \in Ids : closed[i] = "none" /\ (handles[i] = None \/ i \in open' \cup draining')
                             => closed'[i] = "none"
    PROVE  PooledInv'
  <1>1. Sharing'
    BY SharingShrinks DEF PooledInv
  <1>2. \A i \in Ids : HandleOK(i)'
    BY DEF PooledInv, HandleOK, SameHandles, TypeOK
  <1>3. OneHandlePerPrincipal'
    BY DEF PooledInv, OneHandlePerPrincipal, SameHandles, TypeOK
  <1>4. QED
    BY <1>1, <1>2, <1>3 DEF PooledInv

\* note_closed (engine.rs) records the end of the handles it is given and may
\* forget older ends; it changes no other.
LEMMA NoteClosedNotes ==
    ASSUME closed \in [Ids -> ClosedStates], NEW ids \in SUBSET Ids,
           NEW state \in ClosedStates, NoteClosed(ids, state)
    PROVE  /\ closed' \in [Ids -> ClosedStates]
           /\ \A i \in Ids \ ids : IF closed[i] = "none" THEN closed'[i] = "none"
                                   ELSE closed'[i] \in {closed[i], "forgotten"}
  BY DEF NoteClosed, ClosedStates

\* roll_back_quietly on the connections of some handles touches no other.
LEMMA RollBackEachParks ==
    ASSUME PooledInv, NEW ids, ids \subseteq {i \in Ids : handles[i] # None}, RollBackEach(ids)
    PROVE  /\ conns' \in [Slots -> Sessions]
           /\ \A k \in Slots : (\A i \in ids : handles[i].conn # k) => conns'[k] = conns[k]
  <1> DEFINE places == {handles[i].conn : i \in ids}
  <1>1. places \subseteq Slots
    BY DEF PooledInv, TypeOK, PooledHandle
  <1>2. \A k \in Slots : conns[k] \in Sessions
    BY DEF PooledInv
  <1>3. PICK after : /\ \A k \in places : after[k] \in RollBackQuietly(conns[k])
                     /\ conns' = [k \in Slots |-> IF k \in places THEN after[k] ELSE conns[k]]
    BY DEF RollBackEach
  <1>4. \A k \in places : after[k] \in Sessions
    BY <1>1, <1>2, <1>3, RollBackQuietlyParks, ParkedSessions
  <1>5. \A k \in Slots : (\A i \in ids : handles[i].conn # k) => k \notin places
    OBVIOUS
  <1> HIDE DEF places
  <1>6. QED
    BY <1>2, <1>3, <1>4, <1>5

\* pooled_sweep (engine.rs) takes expired handles out of the table, rolls their
\* blocks back and notes their end, and no other handle or call sees it.
LEMMA PooledSweepShrinks ==
    ASSUME PooledInv, NEW taken \in SUBSET Ids, PooledSweep(taken)
    PROVE  /\ conns' \in [Slots -> Sessions]
           /\ open' \subseteq open \ taken
           /\ ended' \subseteq Ids
           /\ closed' \in [Ids -> ClosedStates]
           /\ \A i \in Ids : IF closed[i] = "none" THEN i \in open' \/ i \notin open => closed'[i] = "none"
                             ELSE closed'[i] \in {closed[i], "forgotten"}
           /\ \A i \in taken : closed[i] = "none" /\ i \notin Expired => closed'[i] = "none"
           /\ \A i \in open' : conns'[handles[i].conn] = conns[handles[i].conn]
           /\ \A c \in Calls : pc[c].conn # None => conns'[pc[c].conn] = conns[pc[c].conn]
  <1>1. /\ Expired \subseteq open /\ open \subseteq {i \in Ids : handles[i] # None}
        /\ Expired \subseteq {i \in Ids : handles[i] # None} /\ Expired \in SUBSET Ids
    BY DEF Expired, PooledInv, TypeOK
  <1>2. /\ conns' \in [Slots -> Sessions]
        /\ \A k \in Slots : (\A i \in Expired : handles[i].conn # k) => conns'[k] = conns[k]
    BY <1>1, RollBackEachParks DEF PooledSweep
  <1>3. /\ closed' \in [Ids -> ClosedStates]
        /\ \A i \in Ids \ Expired : IF closed[i] = "none" THEN closed'[i] = "none"
                                    ELSE closed'[i] \in {closed[i], "forgotten"}
    <2>1. NoteClosed(Expired, "expired") /\ closed \in [Ids -> ClosedStates]
      BY DEF PooledSweep, PooledInv, TypeOK
    <2>2. QED
      BY <1>1, <2>1, NoteClosedNotes DEF ClosedStates
  <1>4. open' = open \ (Expired \cup taken) /\ ended' = ended \cup Expired
    BY DEF PooledSweep
  <1>5. \A i \in Expired : closed[i] = "none" /\ Reached(i)
    BY <1>1 DEF PooledInv, HandleOK, Reached
  <1>6. ASSUME NEW i \in open'
        PROVE  conns'[handles[i].conn] = conns[handles[i].conn]
    <2>1. i \in Ids /\ handles[i] # None /\ Reached(i) /\ i \notin Expired
      BY <1>1, <1>4 DEF Reached
    <2>2. handles[i].conn \in Slots
      BY <2>1 DEF PooledInv, TypeOK, PooledHandle
    <2>3. \A j \in Expired : handles[j].conn # handles[i].conn
      BY <1>1, <1>5, <2>1 DEF PooledInv, Sharing
    <2>4. QED
      BY <1>2, <2>2, <2>3
  <1>7. ASSUME NEW c \in Calls, pc[c].conn # None
        PROVE  conns'[pc[c].conn] = conns[pc[c].conn]
    <2>1. pc[c].conn \in Slots
      BY <1>7 DEF PooledInv, TypeOK, Call
    <2>2. \A j \in Expired : handles[j].conn # pc[c].conn
      BY <1>1, <1>5 DEF PooledInv, Sharing
    <2>3. QED
      BY <1>2, <2>1, <2>2
  <1>8. ended' \subseteq Ids
    BY <1>1, <1>4 DEF PooledInv, TypeOK
  <1>9. QED
    BY <1>1, <1>2, <1>3, <1>4, <1>5, <1>6, <1>7, <1>8

\* What a step may do to a call: leave it and its connection alone, or move it
\* on without a new user of a place of the pool or of a handle out of the table.
Moves(d) ==
    /\ CallOK(d)'
    /\ pc'[d].conn \in {None, pc[d].conn}
    /\ pc'[d].id \in {None, pc[d].id} \cup open
    /\ pc'[d].at \in EndingStages => pc[d].at \in EndingStages /\ pc'[d].id = pc[d].id

Stands(d) ==
    /\ pc'[d] = pc[d]
    /\ pc[d].conn # None => conns'[pc[d].conn] \in {conns[pc[d].conn], Dead}

\* What a step may do to the record of an end: note it once, when the handle
\* has left the table or the call that ends it goes on.
NotesOnce(i) ==
    closed[i] = "none" =>
        \/ closed'[i] = "none"
        \/ /\ handles[i] # None /\ i \notin open' \cup draining'
           /\ \/ i \in open \cup draining
              \/ \A d \in Calls : pc'[d].at \in EndingStages => pc'[d].id # i

LEMMA StepKeeps ==
    ASSUME PooledInv, TypeOK', conns' \in [Slots -> Sessions], SameHandles,
           open' \subseteq open, draining' \subseteq draining \cup open, open' \cap draining' = {},
           \A d \in Calls : Stands(d) \/ Moves(d),
           \A i \in open' : conns'[handles[i].conn] \in Stays("write"),
           \A i \in Ids : NotesOnce(i)
    PROVE  PooledInv'
  <1>1. \A d \in Calls : CallOK(d)'
    BY CallFrame DEF PooledInv, TypeOK, Call, SameHandles, Stands, Moves
  <1>2. \A d \in Calls : /\ pc'[d].conn \in {None, pc[d].conn}
                         /\ pc'[d].id \in {None, pc[d].id} \cup open
                         /\ pc'[d].at \in EndingStages => /\ pc[d].at \in EndingStages
                                                          /\ pc'[d].id = pc[d].id
    BY DEF Stands, Moves
  <1>3. ASSUME NEW d \in Calls, pc'[d].at \in EndingStages
        PROVE  closed'[pc[d].id] = closed[pc[d].id]
    <2>1. pc[d].at \in EndingStages /\ pc'[d].id = pc[d].id
      BY <1>2, <1>3
    <2>2. pc[d].id \in Ids /\ closed[pc[d].id] = "none" /\ pc[d].id \notin open \cup draining
      BY <2>1 DEF PooledInv, TypeOK, Call, CallOK, EndingOK, EndingStages, OnHandleStages
    <2>3. QED
      BY <1>3, <2>1, <2>2 DEF NotesOnce
  <1>4. \A d \in Calls : EndingOK(d)'
    BY <1>2, <1>3, EndingShrinks DEF PooledInv
  <1>5. \A i \in Ids : closed[i] = "none" /\ (handles[i] = None \/ i \in open' \cup draining')
                          => closed'[i] = "none"
    BY DEF NotesOnce
  <1>6. QED
    BY <1>1, <1>2, <1>4, <1>5, InvShrinks

-------------------------------------------------------------------------------
(* Actions                                                                 *)

\* A step that sweeps the table and moves at most one call.
LEMMA SweepStepKeeps ==
    ASSUME PooledInv, NEW taken \in SUBSET Ids, taken = {}, PooledSweep(taken),
           handles' = handles, draining' = draining, shutdown' = shutdown, durable' = durable,
           told' \in [Writes -> Told], pc' \in [Calls -> Call],
           \A d \in Calls : pc'[d] = pc[d] \/ Moves(d)
    PROVE  PooledInv'
  <1>1. /\ conns' \in [Slots -> Sessions] /\ open' \subseteq open /\ ended' \subseteq Ids
        /\ closed' \in [Ids -> ClosedStates]
        /\ \A i \in open' : conns'[handles[i].conn] = conns[handles[i].conn]
        /\ \A d \in Calls : pc[d].conn # None => conns'[pc[d].conn] = conns[pc[d].conn]
        /\ \A i \in Ids : closed[i] = "none" /\ (i \in open' \/ i \notin open) => closed'[i] = "none"
    BY PooledSweepShrinks
  <1>2. conns' \in [Slots -> Session]
    BY <1>1 DEF Sessions
  <1>3. TypeOK'
    BY <1>1, <1>2 DEF PooledInv, TypeOK
  <1>4. SameHandles
    BY DEF SameHandles
  <1>5. \A d \in Calls : Stands(d) \/ Moves(d)
    BY <1>1 DEF Stands
  <1>6. \A i \in Ids : NotesOnce(i)
    BY <1>1 DEF NotesOnce, PooledInv, TypeOK, HandleOK
  <1>7. \A i \in open' : i \in Ids /\ i \notin draining /\ conns'[handles[i].conn] \in Stays("write")
    BY <1>1 DEF PooledInv, TypeOK, HandleOK
  <1>8. QED
    BY <1>1, <1>3, <1>4, <1>5, <1>6, <1>7, StepKeeps

\* A call back at rest uses nothing.
LEMMA AtRestMoves ==
    ASSUME NEW d \in Calls, pc'[d] = AtRest
    PROVE  Moves(d)
  BY DEF Moves, CallOK, AtRest, OnHandleStages, EndingStages

\* begin counts the open handles and waits for a connection.
LEMMA BeginKeeps ==
    ASSUME PooledInv, NEW c \in Calls, Begin(c)
    PROVE  PooledInv'
  <1> DEFINE waits == [AtRest EXCEPT !.at = "checkout", !.op = "begin"]
  <1>1. waits \in Call
    BY DEF Call, AtRest, Stages, ClosedStates
  <1>2. pc' \in {pc, [pc EXCEPT ![c] = waits]}
    BY DEF Begin
  <1>3. pc \in [Calls -> Call] /\ told \in [Writes -> Told]
    BY DEF PooledInv, TypeOK
  <1>4. \A d \in Calls : pc'[d] = pc[d] \/ Moves(d)
    BY ZenonT(60), <1>2, <1>3 DEF Moves, CallOK, AtRest, OnHandleStages, EndingStages
  <1> HIDE DEF waits
  <1>5. QED
    BY <1>1, <1>2, <1>3, <1>4, SweepStepKeeps DEF Begin

\* A call finds its own handle in the table, or nothing.
LEMMA LookUpKeeps ==
    ASSUME PooledInv, NEW c \in Calls, NEW id \in Ids, NEW op \in Ops \cap HandleOps,
           NEW arg \in Arguments(op), LookUp(c, id, op, arg)
    PROVE  PooledInv'
  <1> DEFINE waits == [AtRest EXCEPT !.at = "wait", !.op = op, !.id = id, !.arg = arg]
             running == [out |-> "running", by |-> id, for |-> PrincipalOf[c]]
  <1>1. ArgumentOK(op, arg) /\ arg \in Writes \cup Names \cup {None}
    BY DEF ArgumentOK, Arguments, Unissued, HandleOps
  <1>2. waits \in Call /\ running \in Told
    BY <1>1, PrincipalOfAssumption DEF Call, AtRest, Stages, ClosedStates, Told, Answers
  <1>3. /\ pc \in [Calls -> Call] /\ told \in [Writes -> Told]
        /\ \A i \in open : i \in Ids /\ handles[i] # None
    BY DEF PooledInv, TypeOK
  <1>4. handles' = handles /\ PooledSweep({})
    BY DEF LookUp
  <1> DEFINE moved == pc' = [pc EXCEPT ![c] = waits]
  <1>5. /\ pc' = pc \/ (moved /\ id \in open')
        /\ told' = told \/ (arg \in Writes /\ told' = [told EXCEPT ![arg] = running])
    BY DEF LookUp, Serves
  <1>6. id \in open' => id \in open
    BY <1>4, PooledSweepShrinks
  <1>7. pc'[c] = waits /\ id \in open => Moves(c)
    BY <1>1, <1>3, <1>4, NoneAssumption
    DEF Moves, CallOK, AtRest, OnHandleStages, EndingStages
  <1> HIDE DEF waits, running
  <1>8. pc' \in [Calls -> Call] /\ told' \in [Writes -> Told]
    BY <1>2, <1>3, <1>5
  <1>9. \A d \in Calls : pc'[d] = pc[d] \/ Moves(d)
    BY <1>3, <1>5, <1>6, <1>7
  <1>10. QED
    BY <1>4, <1>8, <1>9, SweepStepKeeps DEF LookUp

\* A step that touches neither the table, the records, nor any connection.
LEMMA CallStepKeeps ==
    ASSUME PooledInv, UNCHANGED << conns, handles, table, shutdown, draining, durable, told >>,
           pc' \in [Calls -> Call], \A d \in Calls : pc'[d] = pc[d] \/ Moves(d)
    PROVE  PooledInv'
  <1>1. /\ conns' = conns /\ handles' = handles /\ open' = open /\ closed' = closed
        /\ ended' = ended /\ draining' = draining
    BY DEF table
  <1>2. TypeOK' /\ conns' \in [Slots -> Sessions] /\ SameHandles
    BY <1>1 DEF PooledInv, TypeOK, SameHandles
  <1>3. /\ \A d \in Calls : Stands(d) \/ Moves(d)
        /\ \A i \in Ids : NotesOnce(i)
        /\ open' \cap draining' = {}
        /\ \A i \in open' : conns'[handles[i].conn] \in Stays("write")
    BY <1>1 DEF PooledInv, TypeOK, HandleOK, Stands, NotesOnce
  <1>4. QED
    BY <1>1, <1>2, <1>3, StepKeeps

\* A waiting call gets the mutex of its handle.
LEMMA LockHandleKeeps ==
    ASSUME PooledInv, NEW c \in Calls, LockHandle(c)
    PROVE  PooledInv'
  <1>1. pc \in [Calls -> Call] /\ pc[c] \in Call /\ pc[c].at = "wait" /\ CallOK(c)
    BY DEF PooledInv, TypeOK, LockHandle
  <1>2. pc' = [pc EXCEPT ![c] = [pc[c] EXCEPT !.at = "inside"]]
    BY DEF LockHandle, Goto
  <1>3. [pc[c] EXCEPT !.at = "inside"] \in Call
    BY <1>1 DEF Call, Stages
  <1>4. pc' \in [Calls -> Call] /\ \A d \in Calls \ {c} : pc'[d] = pc[d]
    BY <1>1, <1>2, <1>3
  <1>5. Moves(c)
    <2>1. pc'[c] = [pc[c] EXCEPT !.at = "inside"] /\ handles' = handles
      BY <1>1, <1>2 DEF LockHandle
    <2>2. QED
      BY <1>1, <2>1 DEF Moves, CallOK, Call, OnHandleStages, EndingStages
  <1>6. QED
    BY <1>4, <1>5, CallStepKeeps DEF LockHandle

\* Sweeping the table by itself.
LEMMA SweepTableKeeps ==
    ASSUME PooledInv, Sweep
    PROVE  PooledInv'
  BY SweepStepKeeps DEF Sweep, PooledInv, TypeOK

\* The pool is closed when every handle has been released.
LEMMA ClosePoolKeeps ==
    ASSUME PooledInv, ClosePool
    PROVE  PooledInv'
  <1>1. /\ conns' = conns /\ handles' = handles /\ open' = open /\ closed' = closed
        /\ ended' = ended /\ draining' = draining /\ pc' = pc
    BY DEF ClosePool, table
  <1>2. TypeOK' /\ conns' \in [Slots -> Sessions] /\ SameHandles
    BY <1>1 DEF PooledInv, TypeOK, SameHandles, ClosePool
  <1>3. /\ \A d \in Calls : Stands(d) \/ Moves(d)
        /\ \A i \in Ids : NotesOnce(i)
        /\ open' \cap draining' = {}
        /\ \A i \in open' : conns'[handles[i].conn] \in Stays("write")
    BY <1>1 DEF PooledInv, TypeOK, HandleOK, Stands, NotesOnce
  <1>4. QED
    BY <1>1, <1>2, <1>3, StepKeeps

\* A shutdown takes every open handle out of the table.
LEMMA ReleaseHandlesKeeps ==
    ASSUME PooledInv, ReleaseHandles
    PROVE  PooledInv'
  <1>1. /\ conns' = conns /\ handles' = handles /\ open' = {} /\ closed' = closed
        /\ ended' = ended /\ draining' = open /\ pc' = pc
    BY DEF ReleaseHandles
  <1>2. TypeOK' /\ conns' \in [Slots -> Sessions] /\ SameHandles
    BY <1>1 DEF PooledInv, TypeOK, SameHandles, ReleaseHandles
  <1>3. /\ \A d \in Calls : Stands(d) \/ Moves(d)
        /\ \A i \in Ids : NotesOnce(i)
    BY <1>1 DEF Stands, NotesOnce
  <1>4. QED
    BY <1>1, <1>2, <1>3, StepKeeps

\* A shutdown ends the block of a handle and notes that it did.
LEMMA ReleaseHandleKeeps ==
    ASSUME PooledInv, NEW i \in Ids, ReleaseHandle(i)
    PROVE  PooledInv'
  <1>1. /\ handles' = handles /\ open' = open /\ draining' = draining \ {i} /\ pc' = pc
        /\ ended' = ended \cup {i} /\ i \in draining /\ RollBackEach({i})
        /\ NoteClosed({i}, "rolled_back")
    BY DEF ReleaseHandle
  <1>2. handles[i] # None /\ Reached(i) /\ i \notin open
    BY <1>1 DEF PooledInv, TypeOK, HandleOK, Reached
  <1>3. /\ conns' \in [Slots -> Sessions]
        /\ \A k \in Slots : handles[i].conn # k => conns'[k] = conns[k]
    BY <1>1, <1>2, RollBackEachParks
  <1>4. /\ closed' \in [Ids -> ClosedStates]
        /\ \A j \in Ids \ {i} : closed[j] = "none" => closed'[j] = "none"
    <2>1. closed \in [Ids -> ClosedStates]
      BY DEF PooledInv, TypeOK
    <2>2. QED
      BY <1>1, <2>1, NoteClosedNotes DEF ClosedStates
  <1>5. TypeOK' /\ SameHandles
    BY <1>1, <1>3, <1>4 DEF PooledInv, TypeOK, SameHandles, ReleaseHandle, Sessions
  <1>6. \A j \in open : conns'[handles[j].conn] = conns[handles[j].conn]
    <2>1. \A j \in open : j \in Ids /\ handles[j] # None /\ Reached(j) /\ handles[j].conn \in Slots
      BY DEF PooledInv, TypeOK, Reached, PooledHandle
    <2>2. \A j \in open : handles[j].conn # handles[i].conn
      BY <1>2, <2>1 DEF PooledInv, Sharing
    <2>3. QED
      BY <1>3, <2>1, <2>2
  <1>7. \A d \in Calls : pc[d].conn # None => conns'[pc[d].conn] = conns[pc[d].conn]
    BY <1>2, <1>3 DEF PooledInv, Sharing, TypeOK, Call
  <1>8. /\ \A d \in Calls : Stands(d) \/ Moves(d)
        /\ \A j \in Ids : NotesOnce(j)
        /\ open' \cap draining' = {}
        /\ \A j \in open' : conns'[handles[j].conn] \in Stays("write")
    BY <1>1, <1>2, <1>4, <1>6, <1>7 DEF PooledInv, TypeOK, HandleOK, Stands, NotesOnce
  <1>9. QED
    BY <1>1, <1>3, <1>5, <1>8, StepKeeps

\* A connection may be lost at any time.
LEMMA LoseConnectionKeeps ==
    ASSUME PooledInv, NEW k \in Slots, LoseConnection(k)
    PROVE  PooledInv'
  <1>1. /\ conns' = [conns EXCEPT ![k] = Dead]
        /\ handles' = handles /\ open' = open /\ closed' = closed
        /\ ended' = ended /\ draining' = draining /\ pc' = pc
    BY DEF LoseConnection, table
  <1>2. Dead \in Sessions /\ Dead \in Stays("write") /\ Dead \in Session
    BY DeadStays, ParkedSessions DEF Sessions
  <1>3. TypeOK' /\ conns' \in [Slots -> Sessions] /\ SameHandles
    BY <1>1, <1>2 DEF PooledInv, TypeOK, SameHandles, LoseConnection
  <1>4. \A j \in Slots : conns'[j] \in {conns[j], Dead}
    BY <1>1 DEF PooledInv
  <1>5. /\ \A d \in Calls : Stands(d) \/ Moves(d)
        /\ \A i \in Ids : NotesOnce(i)
        /\ open' \cap draining' = {}
        /\ \A i \in open' : conns'[handles[i].conn] \in Stays("write")
    BY <1>1, <1>2, <1>4 DEF PooledInv, TypeOK, HandleOK, Stands, NotesOnce, Call, PooledHandle
  <1>6. QED
    BY <1>1, <1>3, <1>5, StepKeeps

\* A deadline passes.
LEMMA DeadlineKeeps ==
    ASSUME PooledInv, NEW i \in Ids, DeadlinePasses(i)
    PROVE  PooledInv'
  <1>1. /\ handles' = [handles EXCEPT ![i] = [handles[i] EXCEPT !.due = TRUE]] /\ i \in open
        /\ conns' = conns /\ open' = open /\ closed' = closed
        /\ ended' = ended /\ draining' = draining /\ pc' = pc
    BY DEF DeadlinePasses, table
  <1>2. handles \in [Ids -> PooledHandle \cup {None}] /\ handles[i] \in PooledHandle
    BY <1>1 DEF PooledInv, TypeOK
  <1>3. /\ [handles[i] EXCEPT !.due = TRUE] \in PooledHandle
        /\ [handles[i] EXCEPT !.due = TRUE].conn = handles[i].conn
        /\ [handles[i] EXCEPT !.due = TRUE].owner = handles[i].owner
    BY <1>2 DEF PooledHandle
  <1>4. SameHandles
    BY <1>1, <1>2, <1>3, NoneAssumption DEF SameHandles
  <1>5. handles' \in [Ids -> PooledHandle \cup {None}]
    BY <1>1, <1>2, <1>3
  <1>6. TypeOK' /\ conns' \in [Slots -> Sessions]
    BY <1>1, <1>4, <1>5 DEF PooledInv, TypeOK, SameHandles, DeadlinePasses
  <1>7. /\ \A d \in Calls : Stands(d) \/ Moves(d)
        /\ \A j \in Ids : NotesOnce(j)
        /\ open' \cap draining' = {}
        /\ \A j \in open' : conns'[handles[j].conn] \in Stays("write")
    BY <1>1 DEF PooledInv, TypeOK, HandleOK, Stands, NotesOnce
  <1>8. QED
    BY <1>1, <1>4, <1>6, <1>7, StepKeeps

\* A call with the mutex of its handle may change its session and the handle's
\* savepoints; the place of the pool is the handle's own.
LEMMA HandlePlace ==
    ASSUME PooledInv, NEW i \in Ids, Reached(i), handles[i] # None,
           NEW s \in Sessions, conns' = [conns EXCEPT ![handles[i].conn] = s]
    PROVE  /\ conns' \in [Slots -> Sessions]
           /\ conns'[handles[i].conn] = s
           /\ \A j \in open : j # i => conns'[handles[j].conn] = conns[handles[j].conn]
           /\ \A d \in Calls : pc[d].conn # None => conns'[pc[d].conn] = conns[pc[d].conn]
  <1>1. handles[i].conn \in Slots /\ conns \in [Slots -> Sessions]
    BY DEF PooledInv, TypeOK, PooledHandle
  <1>2. \A j \in open : j \in Ids /\ handles[j] # None /\ Reached(j) /\ handles[j].conn \in Slots
    BY DEF PooledInv, TypeOK, Reached, PooledHandle
  <1>3. \A j \in open : j # i => handles[j].conn # handles[i].conn
    BY <1>2 DEF PooledInv, Sharing
  <1>4. \A d \in Calls : pc[d].conn # None => pc[d].conn \in Slots /\ pc[d].conn # handles[i].conn
    BY DEF PooledInv, Sharing, TypeOK, Call
  <1>5. QED
    BY <1>1, <1>2, <1>3, <1>4

\* What a caller is told is an answer.
LEMMA TellType ==
    ASSUME PooledInv, NEW c, NEW out, NEW undone, Tell(c, out, undone)
    PROVE  told' \in [Writes -> Told]
  <1>1. /\ AnswerOf(out) \in Answers /\ "undone" \in Answers
        /\ [out |-> "none", by |-> None, for |-> None] \in Told
    BY DEF AnswerOf, Answers, Told
  <1>2. \A w \in Writes : told[w] \in Told
    BY DEF PooledInv, TypeOK
  <1>3. \A w \in Writes, a \in Answers : [told[w] EXCEPT !.out = a] \in Told
    BY <1>2 DEF Told
  <1>4. QED
    BY <1>1, <1>2, <1>3 DEF Tell

\* A call inside its handle leaves it its connection, its owner and its block.
LEMMA WorkKeeps ==
    ASSUME PooledInv, NEW c \in Calls, Work(c)
    PROVE  PooledInv'
  <1> DEFINE id == pc[c].id
             h == handles[id]
             x == [s |-> conns[h.conn], h |-> h]
             b == IF id \in open THEN "write" ELSE conns[h.conn].block
             H == HandleOf(h.conn, h.owner)
  <1>1. /\ pc \in [Calls -> Call] /\ pc[c] \in Call /\ CallOK(c) /\ pc[c].at = "inside"
        /\ id \in Ids /\ h # None /\ h \in PooledHandle /\ Reached(id)
    BY DEF PooledInv, TypeOK, Call, CallOK, Work, OnHandleStages, Reached
  <1>2. x \in OnBlocks(b, H)
    <2>1. h.conn \in Slots /\ conns[h.conn] \in Sessions /\ h \in H
      BY <1>1 DEF PooledInv, PooledHandle, HandleOf
    <2>2. conns[h.conn] \in Stays(b)
      BY <1>1, <2>1, ParkedSessions DEF PooledInv, HandleOK
    <2>3. QED
      BY <2>1, <2>2 DEF OnBlocks
  <1>3. pc[c].op \in HandleOps /\ ArgumentOK(pc[c].op, pc[c].arg)
    BY <1>1 DEF CallOK
  <1>4. OnHandle(x, pc[c].op, pc[c].arg) \subseteq Replies(OnBlocks(b, H))
    BY <1>2, <1>3, OnHandleKeeps
  <1>5. PICK r \in OnHandle(x, pc[c].op, pc[c].arg) :
            /\ conns' = [conns EXCEPT ![h.conn] = r.st.s]
            /\ handles' = [handles EXCEPT ![id] = r.st.h]
            /\ durable' = durable \cup r.kept
            /\ Tell(c, r.out, h.done \ r.st.h.done)
            /\ IF r.out = "lost" THEN Goto(c, "lose") ELSE Finished(c)
    BY DEF Work
  <1>6. /\ r.st.s \in Stays(b) /\ r.st.h \in H /\ r.kept \subseteq Writes
        /\ r.st.s \in Sessions
    BY <1>4, <1>5, ParkedSessions DEF Replies, OnBlocks
  <1>7. open' = open /\ closed' = closed /\ ended' = ended /\ draining' = draining /\ shutdown' = shutdown
    BY DEF Work, table
  <1> HIDE DEF x, b
  <1>8. /\ conns' \in [Slots -> Sessions] /\ conns'[h.conn] = r.st.s
        /\ \A j \in open : j # id => conns'[handles[j].conn] = conns[handles[j].conn]
        /\ \A d \in Calls : pc[d].conn # None => conns'[pc[d].conn] = conns[pc[d].conn]
    BY <1>1, <1>5, <1>6, HandlePlace
  <1>9. /\ handles' \in [Ids -> PooledHandle \cup {None}] /\ handles'[id] = r.st.h
        /\ r.st.h # None /\ \A j \in Ids \ {id} : handles'[j] = handles[j]
    BY <1>1, <1>5, <1>6, NoneAssumption DEF PooledInv, TypeOK, HandleOf
  <1>10. SameHandles
    BY <1>1, <1>6, <1>9 DEF SameHandles, HandleOf
  <1>11. /\ pc' \in [Calls -> Call] /\ \A d \in Calls \ {c} : pc'[d] = pc[d]
         /\ pc'[c] = AtRest \/ pc'[c] = [pc[c] EXCEPT !.at = "lose"]
    <2>1. AtRest \in Call /\ [pc[c] EXCEPT !.at = "lose"] \in Call
      BY <1>1 DEF Call, AtRest, Stages, ClosedStates
    <2>2. pc' = [pc EXCEPT ![c] = AtRest] \/ pc' = [pc EXCEPT ![c] = [pc[c] EXCEPT !.at = "lose"]]
      BY <1>5 DEF Goto, Finished
    <2>3. QED
      BY <1>1, <2>1, <2>2
  <1>12. Moves(c)
    <2>1. CASE pc'[c] = AtRest
      BY <2>1, AtRestMoves
    <2>2. CASE pc'[c] = [pc[c] EXCEPT !.at = "lose"]
      BY <1>1, <1>9, <2>2 DEF Moves, CallOK, Call, OnHandleStages, EndingStages
    <2>3. QED
      BY <1>11, <2>1, <2>2
  <1>13. TypeOK'
    <2>1. told' \in [Writes -> Told]
      BY <1>5, TellType
    <2>2. conns' \in [Slots -> Session] /\ durable' \subseteq Writes
      BY <1>5, <1>6, <1>8 DEF Sessions, PooledInv, TypeOK
    <2>3. QED
      BY <1>7, <1>9, <1>10, <1>11, <2>1, <2>2 DEF PooledInv, TypeOK, SameHandles
  <1>14. /\ \A d \in Calls : Stands(d) \/ Moves(d)
         /\ \A j \in Ids : NotesOnce(j)
         /\ open' \cap draining' = {}
    BY <1>7, <1>8, <1>11, <1>12 DEF PooledInv, TypeOK, HandleOK, Stands, NotesOnce
  <1>15. \A j \in open' : conns'[handles[j].conn] \in Stays("write")
    BY <1>6, <1>7, <1>8 DEF PooledInv, TypeOK, HandleOK, b
  <1>16. QED
    BY <1>7, <1>8, <1>10, <1>13, <1>14, <1>15, StepKeeps

\* pooled_lose (engine.rs) notes the end of a handle that is still in the table.
LEMMA LoseKeeps ==
    ASSUME PooledInv, NEW c \in Calls, Lose(c)
    PROVE  PooledInv'
  <1> DEFINE lost == {pc[c].id} \cap open
  <1>1. /\ open' = open \ lost /\ ended' = ended \cup lost /\ NoteClosed(lost, "lost")
        /\ conns' = conns /\ handles' = handles /\ draining' = draining
        /\ pc' = [pc EXCEPT ![c] = AtRest]
    BY DEF Lose, Finished
  <1>2. lost \in SUBSET Ids /\ closed \in [Ids -> ClosedStates] /\ pc \in [Calls -> Call]
        /\ lost \subseteq open
    BY DEF PooledInv, TypeOK
  <1> HIDE DEF lost
  <1>3. /\ closed' \in [Ids -> ClosedStates]
        /\ \A i \in Ids \ lost : closed[i] = "none" => closed'[i] = "none"
    BY <1>1, <1>2, NoteClosedNotes DEF ClosedStates
  <1>4. AtRest \in Call
    BY DEF Call, AtRest, Stages, ClosedStates
  <1>5. pc' \in [Calls -> Call] /\ pc'[c] = AtRest /\ \A d \in Calls \ {c} : pc'[d] = pc[d]
    BY <1>1, <1>2, <1>4
  <1>6. TypeOK' /\ SameHandles /\ conns' \in [Slots -> Sessions]
    BY <1>1, <1>2, <1>3, <1>5 DEF PooledInv, TypeOK, SameHandles, Lose
  <1>7. \A d \in Calls : Stands(d) \/ Moves(d)
    BY <1>1, <1>5, AtRestMoves DEF Stands
  <1>8. /\ \A i \in Ids : NotesOnce(i)
        /\ open' \subseteq open /\ open' \cap draining' = {}
        /\ \A i \in open' : conns'[handles[i].conn] \in Stays("write")
    BY <1>1, <1>2, <1>3 DEF PooledInv, TypeOK, HandleOK, NotesOnce
  <1>9. QED
    BY <1>1, <1>6, <1>7, <1>8, StepKeeps

\* pooled_finish (engine.rs) takes the handle out of the table for itself.
LEMMA FinishTransactionKeeps ==
    ASSUME PooledInv, NEW c \in Calls, NEW id \in Ids, NEW op \in Ops \cap FinishOps,
           FinishTransaction(c, id, op)
    PROVE  PooledInv'
  <1> DEFINE ending == [AtRest EXCEPT !.at = "finish", !.op = op, !.id = id]
  <1>1. CASE ~Serves(open \ Expired, id, c)
    BY <1>1, SweepStepKeeps DEF FinishTransaction, PooledInv, TypeOK
  <1>2. CASE Serves(open \ Expired, id, c)
    <2>1. /\ id \in open /\ id \notin Expired /\ PooledSweep({id})
          /\ pc' = [pc EXCEPT ![c] = ending] /\ handles' = handles /\ draining' = draining
          /\ shutdown' = shutdown /\ durable' = durable /\ told' = told
      BY <1>2 DEF FinishTransaction, Serves
    <2>2. /\ conns' \in [Slots -> Sessions] /\ open' \subseteq open \ {id} /\ ended' \subseteq Ids
          /\ closed' \in [Ids -> ClosedStates]
          /\ \A i \in open' : conns'[handles[i].conn] = conns[handles[i].conn]
          /\ \A d \in Calls : pc[d].conn # None => conns'[pc[d].conn] = conns[pc[d].conn]
          /\ \A i \in Ids : closed[i] = "none" /\ (i \in open' \/ i \notin open) => closed'[i] = "none"
          /\ closed[id] = "none" => closed'[id] = "none"
      BY <2>1, PooledSweepShrinks
    <2>3. /\ pc \in [Calls -> Call] /\ handles[id] # None /\ id \notin draining
          /\ closed[id] = "none" /\ closed'[id] = "none"
      BY <2>1, <2>2 DEF PooledInv, TypeOK, HandleOK
    <2>4. ending \in Call /\ ending.at = "finish" /\ ending.id = id /\ ending.conn = None
      BY DEF Call, AtRest, Stages, ClosedStates
    <2>5. CallOK(c)'
      BY <2>1, <2>3, NoneAssumption DEF CallOK, AtRest, OnHandleStages
    <2> HIDE DEF ending
    <2>6. /\ pc' \in [Calls -> Call] /\ pc'[c] = ending /\ \A d \in Calls \ {c} : pc'[d] = pc[d]
      BY <2>1, <2>3, <2>4
    <2>7. SameHandles
      BY <2>1 DEF SameHandles
    <2>8. TypeOK'
      BY <2>1, <2>2, <2>6 DEF PooledInv, TypeOK, Sessions
    <2>9. \A d \in Calls : CallOK(d)'
      <3>1. ASSUME NEW d \in Calls, d # c
            PROVE  CallOK(d)'
        BY <2>1, <2>2, <2>6, <3>1, CallFrame DEF PooledInv, TypeOK, Call
      <3>2. QED
        BY <2>5, <3>1
    <2>10. ASSUME NEW d \in Calls, d # c, pc'[d].at \in EndingStages
           PROVE  /\ pc[d].id \notin open \cup draining /\ closed'[pc[d].id] = "none"
                  /\ pc[d].id # id
                  /\ \A e \in Calls : pc[e].at \in EndingStages /\ pc[e].id = pc[d].id => e = d
      <3>1. pc[d].at \in EndingStages /\ pc[d].id \in Ids
        BY <2>6, <2>10 DEF PooledInv, CallOK, TypeOK, Call, EndingStages, OnHandleStages
      <3>2. EndingOK(d)
        BY DEF PooledInv
      <3>3. QED
        BY <2>1, <2>2, <3>1, <3>2 DEF EndingOK
    <2>11. \A d \in Calls : EndingOK(d)'
      <3>1. ASSUME NEW d \in Calls, d # c, pc'[d].at \in EndingStages
            PROVE  EndingOK(d)'
        BY <2>1, <2>2, <2>4, <2>6, <2>10, <3>1 DEF EndingOK
      <3>2. EndingOK(c)'
        BY <2>1, <2>2, <2>3, <2>4, <2>6, <2>10 DEF EndingOK
      <3>3. QED
        BY <3>1, <3>2 DEF EndingOK
    <2>12. /\ open' \subseteq open /\ open' \cap draining' = {}
           /\ \A i \in open' : conns'[handles[i].conn] \in Stays("write")
           /\ \A i \in Ids : closed[i] = "none" /\ (handles[i] = None \/ i \in open' \cup draining')
                                => closed'[i] = "none"
      BY <2>1, <2>2 DEF PooledInv, TypeOK, HandleOK
    <2>13. \A d \in Calls : pc'[d].conn \in {None, pc[d].conn} /\ pc'[d].id \in {None, pc[d].id} \cup open
      BY <2>1, <2>4, <2>6
    <2>14. QED
      BY <2>1, <2>2, <2>7, <2>8, <2>9, <2>11, <2>12, <2>13, InvShrinks
  <1>3. QED
    BY <1>1, <1>2

\* The block of a handle out of the table is ended, or left to the pool by a
\* call that was cancelled.
LEMMA EndBlockKeeps ==
    ASSUME PooledInv, NEW c \in Calls, EndBlock(c)
    PROVE  PooledInv'
  <1> DEFINE id == pc[c].id
             k == handles[id].conn
             noted(state) == [pc[c] EXCEPT !.at = "note", !.out = state]
             F(s) == FinishBlock(s, StatementOf(pc[c].op))
  <1>1. /\ pc \in [Calls -> Call] /\ pc[c] \in Call /\ CallOK(c) /\ pc[c].at = "finish"
        /\ id \in Ids /\ handles[id] # None /\ Reached(id) /\ id \notin open
        /\ k \in Slots /\ conns[k] \in Sessions
    BY DEF PooledInv, TypeOK, Call, CallOK, EndBlock, OnHandleStages, EndingStages, Reached,
           EndingOK, PooledHandle
  <1>2. handles' = handles /\ open' = open /\ closed' = closed /\ ended' = ended
        /\ draining' = draining /\ shutdown' = shutdown /\ told' = told
    BY DEF EndBlock, table
  <1>3. \A r \in Then(Track(conns[k]), F) : r \in Replies(Sessions)
    <2>1. Replies(Parked) \subseteq Replies(Sessions)
      BY ParkedSessions, RepliesOfPart
    <2>2. F(conns[k]) \subseteq Replies(Sessions)
      BY <1>1, <2>1, FinishBlockParks
    <2>3. \A q \in Track(conns[k]) : q \in Replies(Sessions) /\ q.st = conns[k]
      BY <1>1, TrackSame DEF Replies
    <2> HIDE DEF F, k
    <2>4. QED
      BY <2>2, <2>3, AddKept DEF Then
  <1>4. /\ \E s \in Sessions : conns' = [conns EXCEPT ![k] = s]
        /\ durable' \subseteq Writes
        /\ \/ pc' = [pc EXCEPT ![c] = AtRest]
           \/ \E state \in ClosedStates : pc' = [pc EXCEPT ![c] = noted(state)]
    <2>1. CASE ~conns[k].alive
      <3>1. pc' = [pc EXCEPT ![c] = noted("lost")] /\ conns' = conns /\ durable' = durable
        BY <2>1 DEF EndBlock
      <3>2. conns' = [conns EXCEPT ![k] = conns[k]]
        BY <3>1 DEF PooledInv
      <3>3. QED
        BY <1>1, <3>1, <3>2 DEF ClosedStates, PooledInv, TypeOK
    <2>2. CASE conns[k].alive
      <3>1. PICK r \in Then(Track(conns[k]), F) :
               /\ conns' = [conns EXCEPT ![k] = r.st]
               /\ durable' = durable \cup r.kept
               /\ IF r.out = "refused" THEN Finished(c)
                  ELSE pc' = [pc EXCEPT ![c] = noted(FinalState(r, pc[c].op))]
        BY <2>2 DEF EndBlock
      <3>2. r.st \in Sessions /\ r.kept \subseteq Writes
        BY <1>3, <3>1 DEF Replies
      <3>3. FinalState(r, pc[c].op) \in ClosedStates
        BY DEF FinalState, StateOf, ClosedStates
      <3>4. QED
        BY <3>1, <3>2, <3>3 DEF Finished, PooledInv, TypeOK
    <2>3. QED
      BY <2>1, <2>2
  <1>5. PICK s \in Sessions : conns' = [conns EXCEPT ![k] = s]
    BY <1>4
  <1>6. /\ conns' \in [Slots -> Sessions]
        /\ \A j \in open : j # id => conns'[handles[j].conn] = conns[handles[j].conn]
        /\ \A d \in Calls : pc[d].conn # None => conns'[pc[d].conn] = conns[pc[d].conn]
    BY <1>1, <1>5, HandlePlace
  <1>7. /\ pc' \in [Calls -> Call] /\ \A d \in Calls \ {c} : pc'[d] = pc[d]
        /\ pc'[c] = AtRest \/ \E state \in ClosedStates : pc'[c] = noted(state)
    <2>1. AtRest \in Call /\ \A state \in ClosedStates : noted(state) \in Call
      BY <1>1 DEF Call, AtRest, Stages, ClosedStates
    <2> HIDE DEF noted
    <2>2. QED
      BY <1>1, <1>4, <2>1
  <1>8. Moves(c)
    <2>1. CASE pc'[c] = AtRest
      BY <2>1, AtRestMoves
    <2>2. ASSUME NEW state \in ClosedStates, pc'[c] = noted(state)
          PROVE  Moves(c)
      BY <1>1, <1>2, <2>2 DEF Moves, CallOK, Call, OnHandleStages, EndingStages
    <2>3. QED
      BY <1>7, <2>1, <2>2
  <1>9. TypeOK' /\ SameHandles
    BY <1>2, <1>4, <1>6, <1>7 DEF PooledInv, TypeOK, SameHandles, Sessions
  <1>10. /\ \A d \in Calls : Stands(d) \/ Moves(d)
         /\ \A j \in Ids : NotesOnce(j)
         /\ open' \cap draining' = {}
         /\ \A j \in open' : conns'[handles[j].conn] \in Stays("write")
    BY <1>1, <1>2, <1>6, <1>7, <1>8 DEF PooledInv, TypeOK, HandleOK, Stands, NotesOnce
  <1>11. QED
    BY <1>2, <1>6, <1>9, <1>10, StepKeeps

\* The end of a handle is noted by the call that ended it.
LEMMA NoteFinalKeeps ==
    ASSUME PooledInv, NEW c \in Calls, NoteFinal(c)
    PROVE  PooledInv'
  <1> DEFINE id == pc[c].id
  <1>1. /\ pc \in [Calls -> Call] /\ pc[c] \in Call /\ pc[c].at \in EndingStages
        /\ id \in Ids /\ handles[id] # None /\ id \notin open \cup draining
        /\ \A d \in Calls : pc[d].at \in EndingStages /\ pc[d].id = id => d = c
    BY DEF PooledInv, TypeOK, Call, CallOK, EndingOK, NoteFinal, OnHandleStages, EndingStages
  <1>2. /\ conns' = conns /\ handles' = handles /\ open' = open /\ ended' = ended
        /\ draining' = draining /\ NoteClosed({id}, pc[c].out) /\ pc[c].out \in ClosedStates
        /\ pc' = [pc EXCEPT ![c] = AtRest]
    BY <1>1 DEF NoteFinal, Finished, Call
  <1>3. /\ closed' \in [Ids -> ClosedStates]
        /\ \A i \in Ids \ {id} : closed[i] = "none" => closed'[i] = "none"
    <2>1. closed \in [Ids -> ClosedStates] /\ {id} \in SUBSET Ids
      BY <1>1 DEF PooledInv, TypeOK
    <2>2. QED
      BY <1>2, <2>1, NoteClosedNotes
  <1>4. AtRest \in Call
    BY DEF Call, AtRest, Stages, ClosedStates
  <1>5. pc' \in [Calls -> Call] /\ pc'[c] = AtRest /\ \A d \in Calls \ {c} : pc'[d] = pc[d]
    BY <1>1, <1>2, <1>4
  <1>6. TypeOK' /\ SameHandles /\ conns' \in [Slots -> Sessions]
    BY <1>2, <1>3, <1>5 DEF PooledInv, TypeOK, SameHandles, NoteFinal
  <1>7. \A d \in Calls : Stands(d) \/ Moves(d)
    BY <1>2, <1>5, AtRestMoves DEF Stands
  <1>8. \A d \in Calls : pc'[d].at \in EndingStages => pc'[d].id # id
    BY <1>1, <1>5 DEF AtRest, EndingStages
  <1>9. /\ \A i \in Ids : NotesOnce(i)
        /\ open' \cap draining' = {}
        /\ \A i \in open' : conns'[handles[i].conn] \in Stays("write")
    BY <1>1, <1>2, <1>3, <1>8 DEF PooledInv, TypeOK, HandleOK, NotesOnce
  <1>10. QED
    BY <1>2, <1>6, <1>7, <1>9, StepKeeps

\* A call that has a connection changes that connection alone.
LEMMA CallPlace ==
    ASSUME PooledInv, NEW c \in Calls, pc[c].conn # None,
           NEW s \in Sessions, conns' = [conns EXCEPT ![pc[c].conn] = s]
    PROVE  /\ conns' \in [Slots -> Sessions]
           /\ conns'[pc[c].conn] = s
           /\ \A j \in open : conns'[handles[j].conn] = conns[handles[j].conn]
           /\ \A d \in Calls : d # c /\ pc[d].conn # None => conns'[pc[d].conn] = conns[pc[d].conn]
  <1>1. pc[c].conn \in Slots /\ conns \in [Slots -> Sessions]
    BY DEF PooledInv, TypeOK, Call
  <1>2. \A j \in open : j \in Ids /\ handles[j] # None /\ Reached(j) /\ handles[j].conn \in Slots
    BY DEF PooledInv, TypeOK, Reached, PooledHandle
  <1>3. \A j \in open : handles[j].conn # pc[c].conn
    BY <1>2 DEF PooledInv, Sharing
  <1>4. \A d \in Calls : d # c /\ pc[d].conn # None
                            => pc[d].conn \in Slots /\ pc[d].conn # pc[c].conn
    BY DEF PooledInv, Sharing, TypeOK, Call
  <1>5. QED
    BY <1>1, <1>2, <1>3, <1>4

\* A step of a call on a connection of its own, after which it is at rest.
LEMMA CallPlaceKeeps ==
    ASSUME PooledInv, NEW c \in Calls, pc[c].conn # None,
           NEW s \in Sessions, conns' = [conns EXCEPT ![pc[c].conn] = s],
           handles' = handles, table' = table, draining' = draining, shutdown' = shutdown,
           durable' \subseteq Writes, told' \in [Writes -> Told], Finished(c)
    PROVE  PooledInv'
  <1>1. /\ conns' \in [Slots -> Sessions]
        /\ \A j \in open : conns'[handles[j].conn] = conns[handles[j].conn]
        /\ \A d \in Calls : d # c /\ pc[d].conn # None => conns'[pc[d].conn] = conns[pc[d].conn]
    BY CallPlace
  <1>2. pc \in [Calls -> Call] /\ AtRest \in Call /\ pc' = [pc EXCEPT ![c] = AtRest]
    BY DEF Finished, PooledInv, TypeOK, Call, AtRest, Stages, ClosedStates
  <1>3. pc' \in [Calls -> Call] /\ pc'[c] = AtRest /\ \A d \in Calls \ {c} : pc'[d] = pc[d]
    BY <1>2
  <1>4. open' = open /\ closed' = closed /\ ended' = ended
    BY DEF table
  <1>5. TypeOK' /\ SameHandles
    BY <1>1, <1>3, <1>4 DEF PooledInv, TypeOK, SameHandles, Sessions
  <1>6. /\ \A d \in Calls : Stands(d) \/ Moves(d)
        /\ \A j \in Ids : NotesOnce(j)
        /\ open' \cap draining' = {}
        /\ \A j \in open' : conns'[handles[j].conn] \in Stays("write")
    BY <1>1, <1>3, <1>4, AtRestMoves DEF PooledInv, TypeOK, HandleOK, Stands, NotesOnce
  <1>7. QED
    BY <1>1, <1>4, <1>5, <1>6, StepKeeps

\* A call without a handle runs on its connection and gives it back.
LEMMA UseKeeps ==
    ASSUME PooledInv, NEW c \in Calls, Use(c)
    PROVE  PooledInv'
  <1> DEFINE k == pc[c].conn
             arg == pc[c].arg
             op == pc[c].op
             F(s) == OnTaken(s, op, arg)
  <1>1. k # None /\ conns[k] \in Parked /\ op \in LaneOps /\ ArgumentOK(op, arg)
    BY DEF PooledInv, CallOK, Use
  <1>2. PICK r \in Then(Track(conns[k]), F) :
           /\ conns' = [conns EXCEPT ![k] = r.st]
           /\ durable' = durable \cup r.kept
           /\ told' = IF arg \in Writes
                      THEN [told EXCEPT ![arg].out = IF op = "dry_run" THEN "undone"
                                                     ELSE AnswerOf(IF r.out = "refused"
                                                                   THEN "error" ELSE r.out)]
                      ELSE told
    BY DEF Use
  <1>3. r.st \in Sessions /\ r.kept \subseteq Writes
    <2>1. F(conns[k]) \subseteq Replies(Sessions)
      BY <1>1, OnTakenKeeps
    <2>2. \A q \in Track(conns[k]) : q \in Replies(Sessions) /\ q.st = conns[k]
      BY <1>1, TrackSame, ParkedSessions DEF Replies
    <2> HIDE DEF F, k
    <2>3. Then(Track(conns[k]), F) \subseteq Replies(Sessions)
      BY <2>1, <2>2, AddKept DEF Then
    <2>4. QED
      BY <1>2, <2>3 DEF Replies
  <1> DEFINE a == IF op = "dry_run" THEN "undone"
                  ELSE AnswerOf(IF r.out = "refused" THEN "error" ELSE r.out)
  <1>4. a \in Answers
    BY DEF AnswerOf, Answers
  <1>5. told' = told \/ (arg \in Writes /\ told' = [told EXCEPT ![arg] = [told[arg] EXCEPT !.out = a]])
    BY <1>2
  <1> HIDE DEF a
  <1>6. told' \in [Writes -> Told]
    <2>1. told \in [Writes -> Told]
      BY DEF PooledInv, TypeOK
    <2>2. arg \in Writes => [told[arg] EXCEPT !.out = a] \in Told
      BY <1>4, <2>1 DEF Told
    <2>3. QED
      BY <1>5, <2>1, <2>2
  <1>7. durable' \subseteq Writes
    BY <1>2, <1>3 DEF PooledInv, TypeOK
  <1> HIDE DEF F
  <1>8. QED
    BY <1>1, <1>2, <1>3, <1>6, <1>7, CallPlaceKeeps DEF Use

\* A call takes a place of the pool nobody uses.
LEMMA TakenPlaceKeeps ==
    ASSUME PooledInv, NEW c \in Calls, NEW k \in Slots, ~Taken(k),
           NEW s \in Sessions, conns' = [conns EXCEPT ![k] = s],
           NEW x \in Call, pc' = [pc EXCEPT ![c] = x], CallOK(c)',
           x.conn \in {k, None}, x.id = None, x.at \notin EndingStages,
           handles' = handles, table' = table, draining' = draining, shutdown' = shutdown,
           durable' = durable, told' \in [Writes -> Told]
    PROVE  PooledInv'
  <1>1. /\ open' = open /\ closed' = closed /\ ended' = ended
        /\ pc \in [Calls -> Call] /\ conns \in [Slots -> Sessions]
    BY DEF table, PooledInv, TypeOK
  <1>2. /\ pc' \in [Calls -> Call] /\ pc'[c] = x /\ \A d \in Calls \ {c} : pc'[d] = pc[d]
        /\ conns' \in [Slots -> Sessions] /\ \A j \in Slots \ {k} : conns'[j] = conns[j]
    BY <1>1
  <1>3. /\ \A d \in Calls : pc[d].conn # k
        /\ \A i \in Ids : Reached(i) /\ handles[i] # None => handles[i].conn # k
    BY DEF Taken, Referenced, Reached
  <1>4. TypeOK' /\ SameHandles
    BY <1>1, <1>2 DEF PooledInv, TypeOK, SameHandles, Sessions
  <1>5. ASSUME NEW d \in Calls
        PROVE  CallOK(d)' /\ EndingOK(d)'
    <2>1. d # c => CallOK(d)'
      BY <1>1, <1>2, <1>3, CallFrame DEF PooledInv, TypeOK, Call
    <2>2. EndingOK(d)'
      BY <1>1, <1>2 DEF PooledInv, EndingOK
    <2>3. QED
      BY <2>1, <2>2
  <1>6. ASSUME NEW i \in Ids
        PROVE  HandleOK(i)'
    <2>1. i \in open => conns'[handles[i].conn] = conns[handles[i].conn]
      BY <1>2, <1>3 DEF PooledInv, TypeOK, PooledHandle, Reached
    <2>2. QED
      BY <1>1, <2>1 DEF PooledInv, HandleOK
  <1>7. Sharing'
    <2>1. \A i \in Ids : Reached(i)' => Reached(i)
      BY <1>1, <1>2, NoneAssumption DEF Reached
    <2>2. ASSUME NEW i \in Ids, NEW d \in Calls, Reached(i)', handles'[i] # None
          PROVE  pc'[d].conn # handles'[i].conn
      <3>1. Reached(i) /\ handles[i] # None /\ handles[i].conn # None
        BY <2>1, <2>2, NoneAssumption DEF PooledInv, TypeOK, PooledHandle
      <3>2. QED
        BY <1>2, <1>3, <3>1 DEF PooledInv, Sharing
    <2>3. ASSUME NEW d \in Calls, NEW e \in Calls, pc'[d].conn = pc'[e].conn, pc'[d].conn # None
          PROVE  d = e
      BY <1>2, <1>3, <2>3 DEF PooledInv, Sharing
    <2>4. ASSUME NEW i \in Ids, NEW j \in Ids, (Reached(i) /\ Reached(j))',
                 handles'[i] # None, handles'[j] # None, handles'[i].conn = handles'[j].conn
          PROVE  i = j
      BY <2>1, <2>4 DEF PooledInv, Sharing
    <2>5. QED
      BY <2>2, <2>3, <2>4 DEF Sharing
  <1>8. OneHandlePerPrincipal'
    BY <1>1 DEF PooledInv, OneHandlePerPrincipal
  <1>9. QED
    BY <1>2, <1>4, <1>5, <1>6, <1>7, <1>8 DEF PooledInv

\* What comes out of the pool is outside any block.
LEMMA RecycledIdle ==
    ASSUME NEW k
    PROVE  Recycled(k) = {Idle}
  BY DEF Recycled, ReadyForReuse

\* checkout (engine.rs) gives a call a connection nobody else uses.
LEMMA TakeKeeps ==
    ASSUME PooledInv, NEW c \in Calls, NEW op \in Ops \cap LaneOps,
           NEW arg \in LaneArguments(op), Take(c, op, arg)
    PROVE  PooledInv'
  <1> DEFINE using(k) == [AtRest EXCEPT !.at = "using", !.op = op, !.conn = k, !.arg = arg]
             issued(out) == [out |-> out, by |-> None, for |-> PrincipalOf[c]]
  <1>1. ArgumentOK(op, arg) /\ arg \in Writes \cup Names \cup {None}
    BY DEF ArgumentOK, LaneArguments, Unissued, LaneOps
  <1>2. /\ told' \in {told, [told EXCEPT ![arg] = issued("failed")],
                      [told EXCEPT ![arg] = issued("running")]}
        /\ issued("failed") \in Told /\ issued("running") \in Told
    BY PrincipalOfAssumption DEF Take, Told, Answers
  <1>3. told' \in [Writes -> Told]
    <2> HIDE DEF issued
    <2>1. QED
      BY <1>2 DEF PooledInv, TypeOK
  <1>4. CASE UNCHANGED << conns, pc >>
    <2>1. /\ conns' = conns /\ handles' = handles /\ open' = open /\ closed' = closed
          /\ ended' = ended /\ draining' = draining /\ pc' = pc /\ shutdown' = shutdown
          /\ durable' = durable
      BY <1>4 DEF Take, table
    <2>2. TypeOK' /\ conns' \in [Slots -> Sessions] /\ SameHandles
      BY <1>3, <2>1 DEF PooledInv, TypeOK, SameHandles
    <2>3. /\ \A d \in Calls : Stands(d) \/ Moves(d)
          /\ \A j \in Ids : NotesOnce(j)
          /\ open' \cap draining' = {}
          /\ \A j \in open' : conns'[handles[j].conn] \in Stays("write")
      BY <2>1 DEF PooledInv, TypeOK, HandleOK, Stands, NotesOnce
    <2>4. QED
      BY <2>1, <2>2, <2>3, StepKeeps
  <1>5. CASE ~UNCHANGED << conns, pc >>
    <2>1. PICK k \in Available : \E s \in Recycled(k) :
             conns' = [conns EXCEPT ![k] = s] /\ pc' = [pc EXCEPT ![c] = using(k)]
      BY <1>5 DEF Take
    <2>2. k \in Slots /\ ~Taken(k) /\ conns' = [conns EXCEPT ![k] = Idle]
      BY <2>1, RecycledIdle DEF Available
    <2>3. using(k) \in Call
      BY <1>1, <2>2 DEF Call, AtRest, Stages, ClosedStates
    <2>4. CallOK(c)'
      <3>1. pc'[c] = using(k) /\ conns'[k] = Idle /\ Idle \in Parked /\ k # None
        BY <2>1, <2>2, ParkedSessions, NoneAssumption DEF PooledInv, TypeOK
      <3>2. QED
        BY <1>1, <3>1 DEF CallOK, AtRest, OnHandleStages
    <2>5. using(k).conn = k /\ using(k).id = None /\ using(k).at \notin EndingStages
      BY DEF AtRest, EndingStages
    <2> HIDE DEF using
    <2>6. Idle \in Sessions
      BY ParkedSessions
    <2>7. QED
      BY <1>3, <2>1, <2>2, <2>3, <2>4, <2>5, <2>6, TakenPlaceKeeps DEF Take
  <1>6. QED
    BY <1>4, <1>5

\* begin has a connection inside a block, or gives it back.
LEMMA OpenBlockKeeps ==
    ASSUME PooledInv, NEW c \in Calls, OpenBlock(c)
    PROVE  PooledInv'
  <1> DEFINE brings(k) == [pc[c] EXCEPT !.at = "insert", !.conn = k]
             F(t) == BeginBlock(t, "write")
  <1>1. /\ pc \in [Calls -> Call] /\ told \in [Writes -> Told] /\ pc[c] \in Call /\ CallOK(c)
        /\ pc[c].at = "checkout" /\ AtRest \in Call
    BY DEF PooledInv, TypeOK, OpenBlock, Call, AtRest, Stages, ClosedStates
  <1>2. CASE Finished(c) /\ UNCHANGED conns
    <2>1. pc' = [pc EXCEPT ![c] = AtRest]
      BY <1>2 DEF Finished
    <2>2. pc' \in [Calls -> Call] /\ \A d \in Calls : pc'[d] = pc[d] \/ Moves(d)
      BY <1>1, <2>1, AtRestMoves
    <2>3. QED
      BY <1>2, <2>2, CallStepKeeps DEF OpenBlock
  <1>3. CASE ~(Finished(c) /\ UNCHANGED conns)
    <2>1. PICK k \in Available : \E s \in Recycled(k) : \E r \in Then(Track(s), F) :
             /\ conns' = [conns EXCEPT ![k] = r.st]
             /\ IF r.out = "ok"
                THEN pc' = [pc EXCEPT ![c].at = "insert", ![c].conn = k]
                ELSE Finished(c)
      BY <1>3 DEF OpenBlock
    <2>2. PICK r \in Then(Track(Idle), F) :
             /\ conns' = [conns EXCEPT ![k] = r.st]
             /\ IF r.out = "ok"
                THEN pc' = [pc EXCEPT ![c].at = "insert", ![c].conn = k]
                ELSE Finished(c)
      BY <2>1, RecycledIdle
    <2>3. k \in Slots /\ ~Taken(k) /\ k # None
      BY NoneAssumption DEF Available
    <2>4. r \in RepliesOr(Stays("write"), Parked)
      <3>1. Idle \in Parked /\ F(Idle) \subseteq RepliesOr(Stays("write"), Parked)
        BY ParkedSessions, BeginBlockBegins
      <3>2. \A q \in Track(Idle) : q.st = Idle /\ q \in Replies({Idle})
        BY TrackSame DEF Replies
      <3>3. PICK q \in Track(Idle) :
               IF q.out = "ok" THEN \E x \in F(q.st) : r = [x EXCEPT !.kept = @ \cup q.kept]
               ELSE r = q
        <4> HIDE DEF F
        <4>1. QED
          BY <2>2 DEF Then
      <3>4. CASE q.out = "ok"
        <4>1. PICK x \in RepliesOr(Stays("write"), Parked) : r = [x EXCEPT !.kept = @ \cup q.kept]
          BY <3>1, <3>2, <3>3, <3>4
        <4>2. QED
          BY <3>2, <4>1 DEF Replies, RepliesOr
      <3>5. CASE q.out # "ok"
        BY <3>1, <3>2, <3>3, <3>5 DEF Replies, RepliesOr
      <3>6. QED
        BY <3>4, <3>5
    <2>5. r.st \in Sessions /\ (r.out = "ok" => r.st \in Stays("write"))
      BY <2>4, ParkedSessions DEF RepliesOr, Replies
    <2>6. CASE r.out = "ok"
      <3>1. pc' = [pc EXCEPT ![c] = brings(k)]
        BY <1>1, <2>2, <2>6
      <3>2. brings(k) \in Call /\ brings(k).at = "insert" /\ brings(k).conn = k /\ brings(k).id = None
        BY <1>1, <2>3 DEF Call, Stages, CallOK, OnHandleStages
      <3>3. conns'[k] = r.st
        BY <2>2, <2>3 DEF PooledInv, TypeOK
      <3> HIDE DEF brings
      <3>4. CallOK(c)'
        BY <1>1, <2>3, <2>5, <2>6, <3>1, <3>2, <3>3 DEF CallOK, OnHandleStages
      <3>5. QED
        BY <1>1, <2>2, <2>3, <2>5, <3>1, <3>2, <3>4, TakenPlaceKeeps DEF OpenBlock, EndingStages
    <2>7. CASE r.out # "ok"
      <3>1. pc' = [pc EXCEPT ![c] = AtRest]
        BY <2>2, <2>7 DEF Finished
      <3>2. Moves(c)
        BY <1>1, <3>1, AtRestMoves
      <3>3. CallOK(c)' /\ AtRest.conn = None /\ AtRest.id = None /\ AtRest.at \notin EndingStages
        BY <3>2 DEF Moves, AtRest, EndingStages
      <3>4. QED
        BY <1>1, <2>2, <2>3, <2>5, <3>1, <3>3, TakenPlaceKeeps DEF OpenBlock
    <2>8. QED
      BY <2>6, <2>7
  <1>4. QED
    BY <1>2, <1>3

\* begin puts its new handle, with the connection it has opened a block on,
\* into the table.
LEMMA NewHandleKeeps ==
    ASSUME PooledInv, NEW c \in Calls, pc[c].at = "insert", NEW i \in Fresh,
           OpenFor(open, PrincipalOf[c]) = {},
           NEW h \in PooledHandle, h.conn = pc[c].conn, h.owner = PrincipalOf[c],
           handles' = [handles EXCEPT ![i] = h], open' = open \cup {i},
           conns' = conns, closed' = closed, ended' = ended, shutdown' = shutdown,
           draining' = draining, durable' = durable, told' = told, Finished(c)
    PROVE  PooledInv'
  <1> DEFINE k == pc[c].conn
  <1>1. /\ pc \in [Calls -> Call] /\ AtRest \in Call /\ pc' = [pc EXCEPT ![c] = AtRest]
        /\ handles \in [Ids -> PooledHandle \cup {None}]
        /\ open \subseteq {j \in Ids : handles[j] # None}
        /\ draining \subseteq {j \in Ids : handles[j] # None}
        /\ i \in Ids /\ handles[i] = None /\ h # None
    BY NoneAssumption DEF Finished, PooledInv, TypeOK, Call, AtRest, Stages, ClosedStates, Fresh
  <1>2. /\ pc' \in [Calls -> Call] /\ pc'[c] = AtRest /\ \A d \in Calls \ {c} : pc'[d] = pc[d]
        /\ handles'[i] = h /\ \A j \in Ids \ {i} : handles'[j] = handles[j]
        /\ handles' \in [Ids -> PooledHandle \cup {None}]
    BY <1>1
  <1>3. /\ i \notin open /\ i \notin draining /\ closed[i] = "none"
        /\ \A d \in Calls : pc[d].id # i
    BY <1>1, NoneAssumption DEF PooledInv, HandleOK, CallOK, TypeOK, Call
  <1>4. k # None /\ k \in Slots /\ conns[k] \in Stays("write")
    BY DEF PooledInv, CallOK, TypeOK, Call
  <1>5. open' \subseteq {j \in Ids : handles'[j] # None} /\ draining' \subseteq {j \in Ids : handles'[j] # None}
    BY <1>1, <1>2, <1>3
  <1>6. TypeOK'
    BY <1>2, <1>5 DEF PooledInv, TypeOK
  <1>7. ASSUME NEW d \in Calls
        PROVE  CallOK(d)'
    <2>1. CASE d = c
      BY <1>1, <1>2, <2>1, AtRestMoves DEF Moves
    <2>2. CASE d # c
      <3>1. \A j \in Ids : handles[j] # None => handles'[j] # None
        BY <1>1, <1>2
      <3>2. QED
        BY <1>1, <1>2, <2>2, <3>1, CallFrame DEF PooledInv, Call
    <2>3. QED
      BY <2>1, <2>2
  <1>8. ASSUME NEW j \in Ids
        PROVE  HandleOK(j)'
    <2>1. CASE j = i
      BY <1>1, <1>2, <1>3, <1>4, <2>1 DEF HandleOK
    <2>2. CASE j # i
      BY <1>1, <1>2, <2>2 DEF PooledInv, HandleOK
    <2>3. QED
      BY <2>1, <2>2
  <1>9. ASSUME NEW d \in Calls
        PROVE  EndingOK(d)'
    BY <1>1, <1>2, <1>3 DEF PooledInv, EndingOK, AtRest, EndingStages
  <1>10. \A j \in Ids \ {i} : Reached(j)' => Reached(j)
    BY <1>1, <1>2, NoneAssumption DEF Reached, AtRest
  <1>11. \A j \in Ids : Reached(j) /\ handles[j] # None => handles[j].conn # k
    BY DEF PooledInv, Sharing
  <1>12. \A d \in Calls : pc'[d].conn # k /\ (d # c => pc'[d].conn = pc[d].conn)
    BY <1>1, <1>2, <1>4 DEF PooledInv, Sharing, AtRest
  <1>13. Sharing'
    <2>1. ASSUME NEW j \in Ids, NEW l \in Ids, (Reached(j) /\ Reached(l))',
                 handles'[j] # None, handles'[l] # None, handles'[j].conn = handles'[l].conn
          PROVE  j = l
      <3>1. CASE j # i /\ l # i
        BY <1>2, <1>10, <2>1, <3>1 DEF PooledInv, Sharing
      <3>2. CASE (j = i \/ l = i) /\ j # l
        BY <1>2, <1>10, <1>11, <2>1, <3>2
      <3>3. QED
        BY <3>1, <3>2
    <2>2. ASSUME NEW d \in Calls, NEW e \in Calls, pc'[d].conn = pc'[e].conn, pc'[d].conn # None
          PROVE  d = e
      BY <1>2, <1>12, <2>2 DEF PooledInv, Sharing, AtRest
    <2>3. ASSUME NEW j \in Ids, NEW d \in Calls, Reached(j)', handles'[j] # None
          PROVE  pc'[d].conn # handles'[j].conn
      <3>1. CASE j = i
        BY <1>2, <1>12, <3>1
      <3>2. CASE j # i /\ d = c
        <4>1. handles'[j] \in PooledHandle
          BY <1>2, <2>3
        <4>2. handles'[j].conn # None
          BY <4>1, NoneAssumption DEF PooledHandle
        <4>3. QED
          BY <1>2, <3>2, <4>2 DEF AtRest
      <3>3. CASE j # i /\ d # c
        BY <1>2, <1>10, <2>3, <3>3 DEF PooledInv, Sharing
      <3>4. QED
        BY <3>1, <3>2, <3>3
    <2>4. QED
      BY <2>1, <2>2, <2>3 DEF Sharing
  <1>14. OneHandlePerPrincipal'
    <2>1. \A j \in open : j \in Ids /\ j # i /\ handles'[j] = handles[j] /\ handles[j].owner # PrincipalOf[c]
      BY <1>1, <1>2 DEF OpenFor
    <2>2. QED
      BY <1>2, <2>1 DEF PooledInv, OneHandlePerPrincipal
  <1>15. QED
    BY <1>6, <1>7, <1>8, <1>9, <1>13, <1>14 DEF PooledInv

\* The principal that got a handle meanwhile is refused a second one.
LEMMA InsertHandleKeeps ==
    ASSUME PooledInv, NEW c \in Calls, InsertHandle(c)
    PROVE  PooledInv'
  <1> DEFINE k == pc[c].conn
             h == [conn |-> k, owner |-> PrincipalOf[c], savepoints |-> << >>,
                   done |-> {}, due |-> FALSE]
  <1>1. /\ k # None /\ k \in Slots /\ conns[k] \in Sessions
        /\ told \in [Writes -> Told] /\ durable \subseteq Writes
    BY DEF PooledInv, CallOK, InsertHandle, TypeOK, Call
  <1>2. CASE OpenFor(open, PrincipalOf[c]) # {}
    <2>1. PICK s \in RollBackQuietly(conns[k]) : conns' = [conns EXCEPT ![k] = s]
      BY <1>2 DEF InsertHandle
    <2>2. s \in Sessions
      BY <1>1, <2>1, RollBackQuietlyParks, ParkedSessions
    <2>3. handles' = handles /\ table' = table /\ draining' = draining /\ shutdown' = shutdown
      BY <1>2 DEF InsertHandle, table
    <2>4. QED
      BY <1>1, <2>1, <2>2, <2>3, CallPlaceKeeps DEF InsertHandle
  <1>3. CASE OpenFor(open, PrincipalOf[c]) = {}
    <2>1. PICK i \in Fresh : handles' = [handles EXCEPT ![i] = h] /\ open' = open \cup {i}
                                /\ conns' = conns
      BY <1>3 DEF InsertHandle
    <2>2. << >> \in Seq(SavepointType)
      OBVIOUS
    <2>3. h \in PooledHandle /\ h.conn = k /\ h.owner = PrincipalOf[c]
      BY <1>1, <2>2, PrincipalOfAssumption DEF PooledHandle
    <2> HIDE DEF h
    <2>4. QED
      BY <1>3, <2>1, <2>3, NewHandleKeeps DEF InsertHandle
  <1>4. QED
    BY <1>2, <1>3

-------------------------------------------------------------------------------
(* Theorems                                                                *)

\* A server just started has no handle and no call.
LEMMA StartKeeps == Init => PooledInv
  <1> SUFFICES ASSUME Init PROVE PooledInv
    OBVIOUS
  <1>1. Dead \in Sessions /\ Sessions \subseteq Session
    BY ParkedSessions DEF Sessions
  <1>2. conns \in [Slots -> Sessions] /\ conns \in [Slots -> Session]
    BY <1>1 DEF Init
  <1>3. TypeOK
    BY <1>2 DEF Init, TypeOK, Call, Told, AtRest, Stages, ClosedStates, Answers
  <1>4. \A c \in Calls : CallOK(c) /\ EndingOK(c)
    BY DEF Init, CallOK, EndingOK, AtRest, OnHandleStages, EndingStages
  <1>5. (\A i \in Ids : HandleOK(i)) /\ Sharing /\ OneHandlePerPrincipal
    BY DEF Init, HandleOK, Sharing, OneHandlePerPrincipal, AtRest
  <1>6. QED
    BY <1>2, <1>3, <1>4, <1>5 DEF PooledInv

\* Every step keeps the invariant.
LEMMA NextKeeps ==
    ASSUME PooledInv, [Next]_vars
    PROVE  PooledInv'
  <1>1. ASSUME NEW c \in Calls, Start(c)
        PROVE  PooledInv'
    <2>1. CASE Begin(c)
      BY <2>1, BeginKeeps
    <2>2. ASSUME NEW id \in Ids, NEW op \in Ops \cap HandleOps, NEW arg \in Arguments(op),
                 LookUp(c, id, op, arg)
          PROVE  PooledInv'
      BY <2>2, LookUpKeeps
    <2>3. ASSUME NEW id \in Ids, NEW op \in Ops \cap FinishOps, FinishTransaction(c, id, op)
          PROVE  PooledInv'
      BY <2>3, FinishTransactionKeeps
    <2>4. ASSUME NEW op \in Ops \cap LaneOps, NEW arg \in LaneArguments(op), Take(c, op, arg)
          PROVE  PooledInv'
      BY <2>4, TakeKeeps
    <2>5. QED
      BY <1>1, <2>1, <2>2, <2>3, <2>4 DEF Start
  <1>2. ASSUME NEW c \in Calls, GoOn(c)
        PROVE  PooledInv'
    BY <1>2, OpenBlockKeeps, InsertHandleKeeps, LockHandleKeeps, WorkKeeps, LoseKeeps,
       EndBlockKeeps, NoteFinalKeeps, UseKeeps DEF GoOn
  <1>3. CASE Sweep
    BY <1>3, SweepTableKeeps
  <1>4. CASE Shutdown
    BY <1>4, ReleaseHandlesKeeps, ReleaseHandleKeeps, ClosePoolKeeps DEF Shutdown
  <1>5. ASSUME NEW k \in Slots, LoseConnection(k)
        PROVE  PooledInv'
    BY <1>5, LoseConnectionKeeps
  <1>6. ASSUME NEW i \in Ids, DeadlinePasses(i)
        PROVE  PooledInv'
    BY <1>6, DeadlineKeeps
  <1>7. CASE UNCHANGED vars
    <2>1. /\ conns' = conns /\ handles' = handles /\ open' = open /\ closed' = closed
          /\ ended' = ended /\ shutdown' = shutdown /\ draining' = draining
          /\ durable' = durable /\ told' = told /\ pc' = pc
      BY <1>7 DEF vars
    <2>2. QED
      BY <2>1 DEF PooledInv, TypeOK, CallOK, HandleOK, EndingOK, Sharing, Reached,
                  OneHandlePerPrincipal
  <1>8. QED
    BY <1>1, <1>2, <1>3, <1>4, <1>5, <1>6, <1>7 DEF Next

(***************************************************************************)
(* Every state the pooled engine reaches satisfies the invariant.          *)
(***************************************************************************)
THEOREM PooledInvariant == Spec => []PooledInv
  <1>1. QED
    BY StartKeeps, NextKeeps, PTL DEF Spec

(***************************************************************************)
(* The variables keep their types.                                         *)
(***************************************************************************)
THEOREM PooledTypeCorrect == Spec => []TypeOK
  <1>1. PooledInv => TypeOK
    BY DEF PooledInv
  <1>2. QED
    BY <1>1, PooledInvariant, PTL

(***************************************************************************)
(* A principal has at most one open handle: begin (engine.rs) looks at the *)
(* table again after it has waited for the pool.                           *)
(***************************************************************************)
THEOREM OneHandle == Spec => []OneHandlePerPrincipal
  <1>1. PooledInv => OneHandlePerPrincipal
    BY DEF PooledInv
  <1>2. QED
    BY <1>1, PooledInvariant, PTL

(***************************************************************************)
(* No connection of the pool has two users: no two handles, no two calls,  *)
(* no handle and call.                                                     *)
(***************************************************************************)
THEOREM ExclusiveConnections == Spec => []ConnectionsAreExclusive
  <1>1. ASSUME PooledInv, NEW k \in Slots
        PROVE  /\ \A i, j \in HandlesAt(k) : i = j
               /\ \A c, d \in CallsAt(k) : c = d
               /\ HandlesAt(k) = {} \/ CallsAt(k) = {}
    <2>1. k # None
      BY NoneAssumption
    <2>2. QED
      BY <1>1, <2>1 DEF PooledInv, Sharing, HandlesAt, CallsAt
  <1>2. PooledInv => ConnectionsAreExclusive
    BY <1>1 DEF ConnectionsAreExclusive
  <1>3. QED
    BY <1>2, PooledInvariant, PTL

(***************************************************************************)
(* The connection of an open handle is closed or inside the handle's own   *)
(* block, whatever other calls, the sweep and the shutdown do.             *)
(***************************************************************************)
THEOREM OpenHandlesKeepTheirBlock == Spec => []OpenHandlesHaveABlock
  <1>1. PooledInv => OpenHandlesHaveABlock
    BY DEF PooledInv, TypeOK, HandleOK, OpenHandlesHaveABlock, Stays
  <1>2. QED
    BY <1>1, PooledInvariant, PTL

\* An end once noted stands until it is forgotten.
EndsStand == \A i \in Ids : closed[i] # "none" => closed'[i] \in {closed[i], "forgotten"}

\* The sweep notes only handles of the table, and none of them had ended.
LEMMA SweepEndsStand ==
    ASSUME PooledInv, NEW taken \in SUBSET Ids, PooledSweep(taken)
    PROVE  EndsStand
  BY PooledSweepShrinks DEF EndsStand

\* note_closed changes no end when it is given handles that had none.
LEMMA NoteClosedStands ==
    ASSUME PooledInv, NEW ids \in SUBSET Ids, NEW state \in ClosedStates,
           NoteClosed(ids, state), \A i \in ids : closed[i] = "none"
    PROVE  EndsStand
  <1>1. closed \in [Ids -> ClosedStates]
    BY DEF PooledInv, TypeOK
  <1>2. QED
    BY <1>1, NoteClosedNotes DEF EndsStand

\* Every step of the engine lets ends stand.
LEMMA NextEndsStand ==
    ASSUME PooledInv, [Next]_vars
    PROVE  EndsStand
  <1>1. ASSUME closed' = closed
        PROVE  EndsStand
    BY <1>1 DEF EndsStand
  <1>2. ASSUME NEW c \in Calls, Start(c)
        PROVE  EndsStand
    <2>1. ASSUME NEW id \in Ids, NEW op, FinishTransaction(c, id, op)
          PROVE  EndsStand
      <3>1. PooledSweep({id}) \/ PooledSweep({})
        BY <2>1 DEF FinishTransaction
      <3>2. {id} \in SUBSET Ids /\ {} \in SUBSET Ids
        OBVIOUS
      <3>3. QED
        BY <3>1, <3>2, SweepEndsStand
    <2>2. ASSUME PooledSweep({})
          PROVE  EndsStand
      <3>1. {} \in SUBSET Ids
        OBVIOUS
      <3>2. QED
        BY <2>2, <3>1, SweepEndsStand
    <2>3. QED
      BY <1>1, <1>2, <2>1, <2>2 DEF Start, Begin, LookUp, Take, table
  <1>3. ASSUME NEW c \in Calls, Lose(c)
        PROVE  EndsStand
    <2> DEFINE lost == {pc[c].id} \cap open
    <2>1. lost \in SUBSET Ids /\ (\A i \in lost : closed[i] = "none") /\ NoteClosed(lost, "lost")
      BY <1>3 DEF Lose, PooledInv, TypeOK, HandleOK
    <2> HIDE DEF lost
    <2>2. "lost" \in ClosedStates
      BY DEF ClosedStates
    <2>3. QED
      BY <2>1, <2>2, NoteClosedStands
  <1>4. ASSUME NEW c \in Calls, NoteFinal(c)
        PROVE  EndsStand
    <2>1. /\ {pc[c].id} \in SUBSET Ids /\ closed[pc[c].id] = "none"
          /\ pc[c].out \in ClosedStates /\ NoteClosed({pc[c].id}, pc[c].out)
      BY <1>4 DEF NoteFinal, PooledInv, TypeOK, Call, CallOK, EndingOK, EndingStages, OnHandleStages
    <2>2. QED
      BY <2>1, NoteClosedStands
  <1>5. ASSUME NEW c \in Calls, GoOn(c)
        PROVE  EndsStand
    BY <1>1, <1>3, <1>4, <1>5
       DEF GoOn, OpenBlock, InsertHandle, LockHandle, Work, EndBlock, Use, table
  <1>6. CASE Sweep
    <2>1. PooledSweep({}) /\ {} \in SUBSET Ids
      BY <1>6 DEF Sweep
    <2>2. QED
      BY <2>1, SweepEndsStand
  <1>7. ASSUME NEW i \in Ids, ReleaseHandle(i)
        PROVE  EndsStand
    <2>1. {i} \in SUBSET Ids /\ closed[i] = "none" /\ NoteClosed({i}, "rolled_back")
      BY <1>7 DEF ReleaseHandle, PooledInv, TypeOK, HandleOK
    <2>2. "rolled_back" \in ClosedStates
      BY DEF ClosedStates
    <2>3. QED
      BY <2>1, <2>2, NoteClosedStands
  <1>8. CASE Shutdown
    BY <1>1, <1>7, <1>8 DEF Shutdown, ReleaseHandles, ClosePool, table
  <1>9. CASE (\E k \in Slots : LoseConnection(k)) \/ (\E i \in Ids : DeadlinePasses(i))
    BY <1>1, <1>9 DEF LoseConnection, DeadlinePasses, table
  <1>10. CASE UNCHANGED vars
    BY <1>1, <1>10 DEF vars
  <1>11. QED
    BY <1>2, <1>5, <1>6, <1>8, <1>9, <1>10 DEF Next

(***************************************************************************)
(* The end of a handle is noted once: a call that lost a race against the  *)
(* sweep, another call or the shutdown does not note a second one.         *)
(***************************************************************************)
THEOREM EndsStayFinal == Spec => EndsAreFinal
  <1>1. PooledInv /\ [Next]_vars =>
            [\A i \in Ids : closed[i] # "none" => closed'[i] \in {closed[i], "forgotten"}]_vars
    BY NextEndsStand DEF EndsStand
  <1>2. QED
    BY <1>1, PooledInvariant, PTL DEF Spec, EndsAreFinal

-------------------------------------------------------------------------------
(* What a call on a handle answers                                         *)

\* A handle with its session.
OnPlace == [s : Sessions, h : PooledHandle]

\* What a call on x = [s, h] answers when it sends the session a command with
\* the replies R, after which the handle is one of H: it is stopped before it
\* starts, or it succeeds, or it fails and the handle is as it was.
Replied(x, R, H, r) ==
    \/ r.st = x /\ r.out \in {"lost", "refused"} /\ r.kept = {}
    \/ \E q \in R :
          /\ r.st.s = q.st /\ r.kept = q.kept
          /\ \/ q.out = "ok" /\ r.out = "ok" /\ r.st.h \in H
             \/ /\ q.out = "ok" => ~q.st.alive
                /\ r.out \in {q.out, "lost"} \ {"ok"} /\ r.st.h \in Touched(x.h)

Marked(h, name) == [h EXCEPT !.savepoints = Append(@, [name |-> name, sofar |-> h.done])]
Undone(h, at) == [h EXCEPT !.savepoints = SubSeq(@, 1, at), !.done = h.savepoints[at].sofar]
Acknowledged(h, w) == [h EXCEPT !.done = @ \cup {w}]

\* The replies of a session, seen from the handle.
LEMMA OnBlockReply ==
    ASSUME NEW x \in OnPlace, NEW R, R \subseteq Replies(Sessions), NEW o \in OnBlock(x, R)
    PROVE  \E q \in R : o = [st |-> [s |-> q.st, h |-> x.h], out |-> q.out, kept |-> q.kept]
  <1>1. PICK q \in R : o = [q EXCEPT !.st = [x EXCEPT !.s = q.st]]
    BY DEF OnBlock
  <1>2. q = [st |-> q.st, out |-> q.out, kept |-> q.kept]
    BY DEF Replies
  <1>3. [x EXCEPT !.s = q.st] = [s |-> q.st, h |-> x.h]
    BY DEF OnPlace
  <1>4. QED
    BY <1>1, <1>2, <1>3

\* The replies in a block are replies of sessions.
LEMMA BlockSessions ==
    ASSUME NEW b, NEW R, R \subseteq Replies(Stays(b))
    PROVE  R \subseteq Replies(Sessions)
  BY ParkedSessions DEF Replies

\* A call cancelled before it starts, or not.
LEMMA TrackIs ==
    ASSUME NEW x
    PROVE  \A t \in Track(x) : t \in {Reply(x, "ok"), Reply(x, "refused")}
  BY DEF Track, Refuse

\* A call that is stopped before it starts.
LEMMA StoppedReplied ==
    ASSUME NEW x, NEW R, NEW H
    PROVE  Replied(x, R, H, Reply(x, "lost")) /\ Replied(x, R, H, Reply(x, "refused"))
  BY DEF Reply, Replied

\* What a call that is not stopped answers.
LEMMA SentReplied ==
    ASSUME NEW x, NEW R, NEW H, NEW q \in R, NEW r, r.st.s = q.st, r.kept = q.kept,
           \/ q.out = "ok" /\ r.out = "ok" /\ r.st.h \in H
           \/ q.out # "ok" /\ r.out = q.out /\ r.st.h = x.h
    PROVE  Replied(x, R, H, r)
  BY DEF Replied, Touched

\* set_savepoint (engine.rs) on a pooled handle.
LEMMA MarkInReplies ==
    ASSUME NEW x \in OnPlace, NEW name \in Names, NEW r \in MarkIn(x, name)
    PROVE  Replied(x, Savepoint(x.s, name), Touched(Marked(x.h, name)), r)
  <1> DEFINE R == Savepoint(x.s, name)
             G(z) == {Reply([z EXCEPT !.h = h], "ok") :
                         h \in Touched([z.h EXCEPT !.savepoints =
                                  Append(@, [name |-> name, sofar |-> z.h.done])])}
             F(y) == Then(OnBlock(y, Savepoint(y.s, name)), G)
  <1>1. CASE ~x.s.alive
    <2>1. r = Reply(x, "lost")
      BY <1>1 DEF MarkIn, Lost
    <2> HIDE DEF R, G, F
    <2>2. QED
      BY <2>1, StoppedReplied
  <1>2. CASE x.s.alive
    <2>1. R \subseteq Replies(Sessions)
      BY SavepointStays, BlockSessions, ParkedSessions DEF OnPlace
    <2>2. r \in Then(Track(x), F)
      BY <1>2 DEF MarkIn
    <2>3. PICK t \in {Reply(x, "ok"), Reply(x, "refused")} :
             r \in (IF t.out = "ok" THEN {[v EXCEPT !.kept = @ \cup t.kept] : v \in F(t.st)} ELSE {t})
      <3> HIDE DEF F
      <3>1. QED
        BY <2>2, TrackIs DEF Then
    <2>4. CASE t = Reply(x, "refused")
      <3>1. r = Reply(x, "refused")
        BY <2>3, <2>4 DEF Reply
      <3> HIDE DEF R, G, F
      <3>2. QED
        BY <3>1, StoppedReplied
    <2>5. CASE t = Reply(x, "ok")
      <3>1. PICK v \in F(x) : r = [v EXCEPT !.kept = @ \cup {}]
        <4> HIDE DEF F
        <4>1. QED
          BY <2>3, <2>5 DEF Reply
      <3>2. PICK o \in OnBlock(x, R) :
               v \in (IF o.out = "ok" THEN {[u EXCEPT !.kept = @ \cup o.kept] : u \in G(o.st)} ELSE {o})
        <4> HIDE DEF G
        <4>1. QED
          BY <3>1 DEF Then
      <3> HIDE DEF G, F
      <3>3. PICK q \in R : o = [st |-> [s |-> q.st, h |-> x.h], out |-> q.out, kept |-> q.kept]
        BY <2>1, OnBlockReply
      <3> HIDE DEF R
      <3>4. CASE q.out = "ok"
        <4>1. PICK u \in G(o.st) : v = [u EXCEPT !.kept = @ \cup o.kept]
          BY <3>2, <3>3, <3>4
        <4>2. PICK h \in Touched(Marked(x.h, name)) : u = Reply([s |-> q.st, h |-> h], "ok")
          <5>1. PICK h \in Touched([o.st.h EXCEPT !.savepoints =
                           Append(@, [name |-> name, sofar |-> o.st.h.done])]) :
                   u = Reply([o.st EXCEPT !.h = h], "ok")
            BY <4>1 DEF G
          <5>2. o.st = [s |-> q.st, h |-> x.h]
            BY <3>3
          <5>3. [o.st EXCEPT !.h = h] = [s |-> q.st, h |-> h] /\ o.st.h = x.h
            BY <5>2
          <5>4. QED
            BY <5>1, <5>3 DEF Marked
        <4>3. r.st.s = q.st /\ r.st.h = h /\ r.out = "ok" /\ r.kept = q.kept
          BY <3>1, <3>3, <4>1, <4>2 DEF Reply
        <4>4. QED
          BY <3>4, <4>3, SentReplied DEF R
      <3>5. CASE q.out # "ok"
        <4>1. r.st.s = q.st /\ r.st.h = x.h /\ r.out = q.out /\ r.kept = q.kept
          BY <3>1, <3>2, <3>3, <3>5
        <4>2. QED
          BY <3>5, <4>1, SentReplied DEF R
      <3>6. QED
        BY <3>4, <3>5
    <2>6. QED
      BY <2>3, <2>4, <2>5
  <1>3. QED
    BY <1>1, <1>2

\* undo_to (engine.rs) on a pooled handle.
LEMMA UndoInReplies ==
    ASSUME NEW x \in OnPlace, NEW name \in Names, NEW r \in UndoIn(x, name)
    PROVE  Replied(x, IF LastNamed(x.h.savepoints, name) = 0 THEN {}
                      ELSE RollbackToSavepoint(x.s, name),
                   Touched(Undone(x.h, LastNamed(x.h.savepoints, name))), r)
  <1> DEFINE at == LastNamed(x.h.savepoints, name)
             R == RollbackToSavepoint(x.s, name)
             G(z) == {Reply([z EXCEPT !.h = h], "ok") :
                         h \in Touched([z.h EXCEPT !.savepoints = SubSeq(@, 1, at),
                                                   !.done = z.h.savepoints[at].sofar])}
             F(y) == Then(OnBlock(y, RollbackToSavepoint(y.s, name)), G)
  <1>1. CASE at = 0
    <2>1. r = Reply(x, "refused")
      BY <1>1 DEF UndoIn, Refuse
    <2> HIDE DEF R, G, F
    <2>2. QED
      BY <2>1, StoppedReplied
  <1>2. CASE at # 0 /\ ~x.s.alive
    <2>1. r = Reply(x, "lost")
      BY <1>2 DEF UndoIn, Lost
    <2> HIDE DEF R, G, F
    <2>2. QED
      BY <2>1, StoppedReplied
  <1>3. CASE at # 0 /\ x.s.alive
    <2>1. R \subseteq Replies(Sessions)
      BY RollbackToSavepointStays, BlockSessions, ParkedSessions DEF OnPlace
    <2>2. r \in Then(Track(x), F)
      BY <1>3 DEF UndoIn
    <2>3. PICK t \in {Reply(x, "ok"), Reply(x, "refused")} :
             r \in (IF t.out = "ok" THEN {[v EXCEPT !.kept = @ \cup t.kept] : v \in F(t.st)} ELSE {t})
      <3> HIDE DEF F
      <3>1. QED
        BY <2>2, TrackIs DEF Then
    <2>4. CASE t = Reply(x, "refused")
      <3>1. r = Reply(x, "refused")
        BY <2>3, <2>4 DEF Reply
      <3> HIDE DEF R, G, F
      <3>2. QED
        BY <3>1, StoppedReplied
    <2>5. CASE t = Reply(x, "ok")
      <3>1. PICK v \in F(x) : r = [v EXCEPT !.kept = @ \cup {}]
        <4> HIDE DEF F
        <4>1. QED
          BY <2>3, <2>5 DEF Reply
      <3>2. PICK o \in OnBlock(x, R) :
               v \in (IF o.out = "ok" THEN {[u EXCEPT !.kept = @ \cup o.kept] : u \in G(o.st)} ELSE {o})
        <4> HIDE DEF G
        <4>1. QED
          BY <3>1 DEF Then
      <3> HIDE DEF G, F
      <3>3. PICK q \in R : o = [st |-> [s |-> q.st, h |-> x.h], out |-> q.out, kept |-> q.kept]
        BY <2>1, OnBlockReply
      <3> HIDE DEF R
      <3>4. CASE q.out = "ok"
        <4>1. PICK u \in G(o.st) : v = [u EXCEPT !.kept = @ \cup o.kept]
          BY <3>2, <3>3, <3>4
        <4>2. PICK h \in Touched(Undone(x.h, at)) : u = Reply([s |-> q.st, h |-> h], "ok")
          <5>1. PICK h \in Touched([o.st.h EXCEPT !.savepoints = SubSeq(@, 1, at),
                                              !.done = o.st.h.savepoints[at].sofar]) :
                   u = Reply([o.st EXCEPT !.h = h], "ok")
            BY <4>1 DEF G
          <5>2. o.st = [s |-> q.st, h |-> x.h]
            BY <3>3
          <5>3. [o.st EXCEPT !.h = h] = [s |-> q.st, h |-> h] /\ o.st.h = x.h
            BY <5>2
          <5>4. QED
            BY <5>1, <5>3 DEF Undone
        <4>3. r.st.s = q.st /\ r.st.h = h /\ r.out = "ok" /\ r.kept = q.kept
          BY <3>1, <3>3, <4>1, <4>2 DEF Reply
        <4>4. QED
          BY <1>3, <3>4, <4>3, SentReplied DEF R
      <3>5. CASE q.out # "ok"
        <4>1. r.st.s = q.st /\ r.st.h = x.h /\ r.out = q.out /\ r.kept = q.kept
          BY <3>1, <3>2, <3>3, <3>5
        <4>2. QED
          BY <1>3, <3>5, <4>1, SentReplied DEF R
      <3>6. QED
        BY <3>4, <3>5
    <2>6. QED
      BY <2>3, <2>4, <2>5
  <1>4. QED
    BY <1>1, <1>2, <1>3

\* The statement of run, with its timeout, and of copy_in.
Timed(s, w) == Then(Command(s, s), LAMBDA t : GuardedStatement(t, w))

\* A statement on a pooled handle, with or without the SET LOCAL of timed().
LEMMA RunInReplies ==
    ASSUME NEW x \in OnPlace, NEW w \in Writes
    PROVE  /\ \A r \in RunIn(x, w) :
                 Replied(x, Timed(x.s, w), Touched(Acknowledged(x.h, w)), r)
           /\ \A r \in CopyInto(x, w) :
                 Replied(x, GuardedStatement(x.s, w), Touched(Acknowledged(x.h, w)), r)
  <1> DEFINE R == Timed(x.s, w)
             P == GuardedStatement(x.s, w)
             timed(y) == OnBlock(y, Then(Command(y.s, y.s), LAMBDA s : GuardedStatement(s, w)))
             plain(y) == OnBlock(y, GuardedStatement(y.s, w))
             F(y) == UNION {IF r.st.s.alive THEN {[r EXCEPT !.st.h = h] : h \in Ran(r, w)}
                            ELSE {[r EXCEPT !.out = "lost"]} : r \in timed(y)}
             G(y) == UNION {IF r.out = "ok" THEN {[r EXCEPT !.st.h = h] : h \in Ran(r, w)}
                            ELSE {r} : r \in plain(y)}
             H == Touched(Acknowledged(x.h, w))
  <1>1. R \subseteq Replies(Sessions) /\ P \subseteq Replies(Sessions)
    <2>1. x.s \in Stays(x.s.block)
      BY ParkedSessions DEF OnPlace
    <2>2. R \subseteq Replies(Stays(x.s.block)) /\ P \subseteq Replies(Stays(x.s.block))
      BY <2>1, GuardedStatementStays DEF Timed
    <2> HIDE DEF R, P
    <2>3. QED
      BY <2>2, BlockSessions
  <1>2. timed(x) = OnBlock(x, R) /\ plain(x) = OnBlock(x, P)
    BY DEF Timed
  <1>3. ASSUME NEW v \in F(x)
        PROVE  Replied(x, R, H, v) /\ v = [st |-> v.st, out |-> v.out, kept |-> v.kept]
    <2>1. PICK o \in OnBlock(x, R) :
             v \in (IF o.st.s.alive THEN {[o EXCEPT !.st.h = h] : h \in Ran(o, w)}
                    ELSE {[o EXCEPT !.out = "lost"]})
      <3> HIDE DEF timed, R
      <3>1. QED
        BY <1>2, <1>3
    <2>2. PICK q \in R : o = [st |-> [s |-> q.st, h |-> x.h], out |-> q.out, kept |-> q.kept]
      BY <1>1, OnBlockReply
    <2>3. CASE q.st.alive
      <3>1. PICK h \in Ran(o, w) : v = [o EXCEPT !.st.h = h]
        BY <2>1, <2>2, <2>3
      <3>2. v = [st |-> [s |-> q.st, h |-> h], out |-> q.out, kept |-> q.kept]
        BY <2>2, <3>1
      <3>3. IF q.out = "ok" THEN h \in H ELSE h \in Touched(x.h)
        BY <2>2, <3>1 DEF Ran, Acknowledged
      <3> HIDE DEF R, H
      <3>4. QED
        BY <3>2, <3>3 DEF Replied
    <2>4. CASE ~q.st.alive
      <3>1. v = [st |-> [s |-> q.st, h |-> x.h], out |-> "lost", kept |-> q.kept]
        BY <2>1, <2>2, <2>4
      <3> HIDE DEF R, H
      <3>2. QED
        BY <2>4, <3>1 DEF Replied, Touched
    <2>5. QED
      BY <2>3, <2>4
  <1>4. ASSUME NEW v \in G(x)
        PROVE  Replied(x, P, H, v) /\ v = [st |-> v.st, out |-> v.out, kept |-> v.kept]
    <2>1. PICK o \in OnBlock(x, P) :
             v \in (IF o.out = "ok" THEN {[o EXCEPT !.st.h = h] : h \in Ran(o, w)} ELSE {o})
      <3> HIDE DEF plain, P
      <3>1. QED
        BY <1>2, <1>4
    <2>2. PICK q \in P : o = [st |-> [s |-> q.st, h |-> x.h], out |-> q.out, kept |-> q.kept]
      BY <1>1, OnBlockReply
    <2>3. CASE q.out = "ok"
      <3>1. PICK h \in Ran(o, w) : v = [o EXCEPT !.st.h = h]
        BY <2>1, <2>2, <2>3
      <3>2. v = [st |-> [s |-> q.st, h |-> h], out |-> q.out, kept |-> q.kept]
        BY <2>2, <3>1
      <3>3. h \in H
        BY <2>2, <2>3, <3>1 DEF Ran, Acknowledged
      <3> HIDE DEF P, H
      <3>4. QED
        BY <2>3, <3>2, <3>3 DEF Replied
    <2>4. CASE q.out # "ok"
      <3>1. v = [st |-> [s |-> q.st, h |-> x.h], out |-> q.out, kept |-> q.kept]
        BY <2>1, <2>2, <2>4
      <3> HIDE DEF P, H
      <3>2. QED
        BY <2>4, <3>1 DEF Replied, Touched
    <2>5. QED
      BY <2>3, <2>4
  <1> HIDE DEF F, G, R, P, H
  <1>5. ASSUME NEW r \in Then(Track(x), F)
        PROVE  Replied(x, R, H, r)
    <2>1. PICK t \in {Reply(x, "ok"), Reply(x, "refused")} :
             r \in (IF t.out = "ok" THEN {[v EXCEPT !.kept = @ \cup t.kept] : v \in F(t.st)} ELSE {t})
      BY <1>5, TrackIs DEF Then
    <2>2. CASE t = Reply(x, "refused")
      <3>1. r = Reply(x, "refused")
        BY <2>1, <2>2 DEF Reply
      <3>2. QED
        BY <3>1, StoppedReplied
    <2>3. CASE t = Reply(x, "ok")
      <3>1. PICK v \in F(x) : r = [v EXCEPT !.kept = @ \cup {}]
        BY <2>1, <2>3 DEF Reply
      <3>2. r = v
        BY <1>3, <3>1
      <3>3. QED
        BY <1>3, <3>2
    <2>4. QED
      BY <2>1, <2>2, <2>3
  <1>6. ASSUME NEW r \in Then(Track(x), G)
        PROVE  Replied(x, P, H, r)
    <2>1. PICK t \in {Reply(x, "ok"), Reply(x, "refused")} :
             r \in (IF t.out = "ok" THEN {[v EXCEPT !.kept = @ \cup t.kept] : v \in G(t.st)} ELSE {t})
      BY <1>6, TrackIs DEF Then
    <2>2. CASE t = Reply(x, "refused")
      <3>1. r = Reply(x, "refused")
        BY <2>1, <2>2 DEF Reply
      <3>2. QED
        BY <3>1, StoppedReplied
    <2>3. CASE t = Reply(x, "ok")
      <3>1. PICK v \in G(x) : r = [v EXCEPT !.kept = @ \cup {}]
        BY <2>1, <2>3 DEF Reply
      <3>2. r = v
        BY <1>4, <3>1
      <3>3. QED
        BY <1>4, <3>2
    <2>4. QED
      BY <2>1, <2>2, <2>3
  <1>7. \A r \in Lost(x) : Replied(x, R, H, r) /\ Replied(x, P, H, r)
    BY StoppedReplied DEF Lost
  <1>8. QED
    BY <1>5, <1>6, <1>7 DEF RunIn, CopyInto, F, G, R, P, H

-------------------------------------------------------------------------------
(* What a call on a handle does to it                                      *)

\* What a call on a handle can answer.
HandleAnswers == {"ok", "aborted", "error", "lost", "refused"}

\* An answer of a call that sent its session commands adding nothing but W.
LEMMA RepliedHeld ==
    ASSUME NEW x \in OnPlace, NEW W, x.s \in Within(W, Cursors), NEW R, R \subseteq Held(W, Cursors),
           NEW H, NEW r, Replied(x, R, H, r)
    PROVE  /\ r.st.s \in Within(W, Cursors) /\ r.kept = {} /\ r.out \in HandleAnswers
           /\ r.out = "refused" => r.st = x
           /\ IF r.out = "ok" THEN r.st.h \in H ELSE r.st.h \in Touched(x.h)
  <1>1. \A q \in R : q.st \in Within(W, Cursors) /\ q.kept = {} /\ q.out \in {"ok", "aborted", "error"}
    BY DEF Held
  <1>2. x.h \in Touched(x.h)
    BY DEF Touched
  <1>3. QED
    BY <1>1, <1>2 DEF Replied, HandleAnswers

\* One of a call whose commands leave the server's stack as the handle is then.
LEMMA RepliedMirrors ==
    ASSUME NEW x \in OnPlace, NEW F \in Stacks, Stack(x.h, F), x.s \in Based("write", F),
           NEW G \in Stacks, NEW R, R \subseteq BareOr(At("write", G), Based("write", F)),
           NEW H, \A h \in H : Stack(h, G), NEW r, Replied(x, R, H, r)
    PROVE  Mirrors(r.st.h, r.st.s)
  <1>1. \A q \in R : IF q.out = "ok" THEN q.st \in At("write", G) ELSE q.st \in Based("write", F)
    BY DEF BareOr
  <1>2. \A s \in At("write", G) : s.alive /\ s \in Based("write", G)
    BY BasedSessions DEF At, Blocks
  <1>3. x.h \in PooledHandle
    BY DEF OnPlace
  <1>4. \A h \in Touched(x.h) : Stack(h, F)
    BY <1>3 DEF Touched, Stack, PooledHandle
  <1>5. CASE r.st = x
    BY <1>5 DEF Mirrors
  <1>6. ASSUME NEW q \in R, r.st.s = q.st, q.out = "ok", r.st.h \in H
        PROVE  Mirrors(r.st.h, r.st.s)
    BY <1>1, <1>2, <1>6 DEF Mirrors
  <1>7. ASSUME NEW q \in R, r.st.s = q.st, q.out # "ok", r.st.h \in Touched(x.h)
        PROVE  Mirrors(r.st.h, r.st.s)
    BY <1>1, <1>4, <1>7 DEF Mirrors
  <1>8. QED
    BY <1>1, <1>2, <1>5, <1>6, <1>7 DEF Replied

\* One of a call whose commands all fail.
LEMMA RepliedFails ==
    ASSUME NEW x, NEW R, \A q \in R : q.out # "ok", NEW H, NEW r, Replied(x, R, H, r)
    PROVE  r.out # "ok"
  BY DEF Replied

\* Touching a handle moves its deadline only.
LEMMA TouchedSame ==
    ASSUME NEW g \in PooledHandle, NEW h \in Touched(g)
    PROVE  /\ h.savepoints = g.savepoints /\ h.done = g.done
           /\ \A F : Stack(g, F) => Stack(h, F)
  BY DEF Touched, Stack, PooledHandle

\* Where there is no block a savepoint can neither be set nor be gone back to.
LEMMA NoSavepoints ==
    ASSUME NEW s \in Stays("none"), NEW name
    PROVE  /\ \A q \in Savepoint(s, name) : q.out # "ok"
           /\ \A q \in RollbackToSavepoint(s, name) : q.out # "ok"
           /\ \A w \in Writes : \A q \in GuardedStatement(s, w) : q.out # "ok"
           /\ \A w \in Writes : \A q \in Timed(s, w) : q.out # "ok"
  <1>1. s.block = "none" /\ s.failed = FALSE /\ s.frames = << >>
    BY DEF Stays, Session, SessionOK
  <1>2. ASSUME NEW t \in Stays("none"), NEW n
        PROVE  \A q \in Savepoint(t, n) : q.out # "ok"
    <2>1. t.block = "none"
      BY DEF Stays, Session, SessionOK
    <2>2. QED
      BY <2>1 DEF Savepoint, BlockCommand, Reply
  <1>3. \A q \in RollbackToSavepoint(s, name) : q.out # "ok"
    <2>1. Innermost(s.frames, name) = 0
      <3>1. 2 .. Len(s.frames) = {}
        BY <1>1
      <3>2. QED
        BY <3>1 DEF Innermost
    <2>2. QED
      BY <2>1 DEF RollbackToSavepoint, Reply
  <1>4. ASSUME NEW t \in Stays("none"), NEW w \in Writes
        PROVE  \A q \in GuardedStatement(t, w) : q.out # "ok"
    <2>1. \A q \in Savepoint(t, SAVEPOINT_NAME) : q.out # "ok"
      BY <1>2
    <2>2. QED
      BY <2>1 DEF GuardedStatement, Guarded, Then
  <1>5. ASSUME NEW w \in Writes
        PROVE  \A q \in Timed(s, w) : q.out # "ok"
    <2>1. \A c \in Command(s, s) : c.st \in Stays("none")
      BY CommandStays DEF Replies
    <2>2. \A c \in Command(s, s) : \A q \in GuardedStatement(c.st, w) : q.out # "ok"
      BY <1>4, <2>1
    <2>3. \A c \in Command(s, s) : \A q \in GuardedStatement(c.st, w) :
             [q EXCEPT !.kept = @ \cup c.kept].out = q.out
      BY <2>1, GuardedStatementStays DEF Replies
    <2>4. ASSUME NEW q \in Timed(s, w)
          PROVE  q.out # "ok"
      <3>1. PICK c \in Command(s, s) :
               q \in (IF c.out = "ok"
                      THEN {[v EXCEPT !.kept = @ \cup c.kept] : v \in GuardedStatement(c.st, w)}
                      ELSE {c})
        BY <2>4 DEF Timed, Then
      <3>2. CASE c.out # "ok"
        BY <3>1, <3>2
      <3>3. CASE c.out = "ok"
        <4>1. PICK v \in GuardedStatement(c.st, w) : q = [v EXCEPT !.kept = @ \cup c.kept]
          BY <3>1, <3>3
        <4>2. q.out = v.out
          BY <2>3, <4>1
        <4>3. QED
          BY <2>2, <4>2
      <3>4. QED
        BY <3>2, <3>3
    <2>5. QED
      BY <2>4
  <1>6. QED
    BY <1>2, <1>3, <1>4, <1>5

\* A statement, timed or not, on a session over the frames F.
LEMMA StatementsBased ==
    ASSUME NEW F \in Stacks, NEW s \in Based("write", F), NEW w \in Writes
    PROVE  /\ GuardedStatement(s, w) \subseteq BareOr(At("write", Top(F, {w}, {})), Based("write", F))
           /\ Timed(s, w) \subseteq BareOr(At("write", Top(F, {w}, {})), Based("write", F))
  <1> DEFINE T == Based("write", F)
             U == BareOr(At("write", Top(F, {w}, {})), T)
  <1>1. \A t \in T : GuardedStatement(t, w) \subseteq U
    BY GuardedBased DEF GuardedStatement, Blocks
  <1>2. Command(s, s) \subseteq BareOr(T, T)
    <2>1. s \in T /\ Errored(s) \in T /\ Dead \in T
      BY BasedSessions DEF Blocks
    <2>2. "ok" \in Outcomes /\ "error" \in Outcomes
      BY DEF Outcomes
    <2> HIDE DEF T
    <2>3. \A out \in {"ok", "error"} : \A t \in T : Reply(t, out) \in BareOr(T, T)
      BY <2>2, BareType
    <2>4. QED
      BY <2>1, <2>3 DEF Command, Interrupted, Broken
  <1>3. ASSUME NEW q \in BareOr(T, T)
        PROVE  /\ q.out = "ok" => q.st \in T
               /\ q.out # "ok" => q \in U
               /\ \A v \in U : [v EXCEPT !.kept = @ \cup q.kept] \in U
    BY BareThen
  <1> HIDE DEF T, U
  <1>4. Timed(s, w) \subseteq U
    BY <1>1, <1>2, <1>3 DEF Timed, Then
  <1>5. QED
    BY <1>1, <1>4 DEF T, U

\* What they add to a session.
LEMMA StatementsWithin ==
    ASSUME NEW W, NEW s \in Within(W, Cursors), NEW w \in Writes, w \in W
    PROVE  GuardedStatement(s, w) \subseteq Held(W, Cursors) /\ Timed(s, w) \subseteq Held(W, Cursors)
  <1>1. \A t \in Within(W, Cursors) : GuardedStatement(t, w) \subseteq Held(W, Cursors)
    BY GuardedWriteWithin DEF GuardedStatement
  <1>2. Command(s, s) \subseteq Held(W, Cursors)
    BY CommandWithin
  <1>3. QED
    BY <1>1, <1>2, HeldThen DEF Timed, Then

Statements == {"run", "copy_in"}

\* The statements of a handle its caller believes in once op has succeeded.
DoneAfter(h, op, arg) ==
    IF op \in Statements THEN h.done \cup {arg}
    ELSE IF op = "rollback_to" THEN h.savepoints[LastNamed(h.savepoints, arg)].sofar
    ELSE h.done

\* What a call may send its session, and the handles it may leave.
SentFor(x, op, arg) ==
    CASE op = "status" -> {Reply(x.s, "ok")}
      [] op = "run" -> Timed(x.s, arg)
      [] op = "copy_in" -> GuardedStatement(x.s, arg)
      [] op = "savepoint" -> Savepoint(x.s, arg)
      [] op = "rollback_to" -> IF LastNamed(x.h.savepoints, arg) = 0 THEN {}
                               ELSE RollbackToSavepoint(x.s, arg)

LeftBy(x, op, arg) ==
    CASE op = "status" -> {x.h}
      [] op \in Statements -> Touched(Acknowledged(x.h, arg))
      [] op = "savepoint" -> Touched(Marked(x.h, arg))
      [] op = "rollback_to" -> Touched(Undone(x.h, LastNamed(x.h.savepoints, arg)))

\* Every call on a handle answers what its session does.
LEMMA OnHandleReplied ==
    ASSUME NEW x \in OnPlace, NEW op \in HandleOps, NEW arg, ArgumentOK(op, arg),
           NEW r \in OnHandle(x, op, arg)
    PROVE  Replied(x, SentFor(x, op, arg), LeftBy(x, op, arg), r)
  <1>1. CASE op = "status"
    <2>1. r = Reply(x, "ok") \/ r = Reply(x, "lost")
      BY <1>1 DEF OnHandle, StatusOf, Lost
    <2>2. SentFor(x, op, arg) = {Reply(x.s, "ok")} /\ LeftBy(x, op, arg) = {x.h}
      BY <1>1 DEF SentFor, LeftBy, Statements
    <2>3. CASE r = Reply(x, "lost")
      BY <2>3, StoppedReplied
    <2>4. CASE r = Reply(x, "ok")
      BY <2>2, <2>4 DEF Replied, Reply
    <2>5. QED
      BY <2>1, <2>3, <2>4
  <1>2. CASE op = "run"
    <2>1. r \in RunIn(x, arg) /\ arg \in Writes
      BY <1>2 DEF OnHandle, ArgumentOK
    <2>2. SentFor(x, op, arg) = Timed(x.s, arg) /\ LeftBy(x, op, arg) = Touched(Acknowledged(x.h, arg))
      BY <1>2 DEF SentFor, LeftBy, Statements
    <2>3. QED
      BY <2>1, <2>2, RunInReplies
  <1>3. CASE op = "copy_in"
    <2>1. r \in CopyInto(x, arg) /\ arg \in Writes
      BY <1>3 DEF OnHandle, ArgumentOK
    <2>2. /\ SentFor(x, op, arg) = GuardedStatement(x.s, arg)
          /\ LeftBy(x, op, arg) = Touched(Acknowledged(x.h, arg))
      BY <1>3 DEF SentFor, LeftBy, Statements
    <2>3. QED
      BY <2>1, <2>2, RunInReplies
  <1>4. CASE op = "savepoint"
    <2>1. r \in MarkIn(x, arg) /\ arg \in Names
      BY <1>4 DEF OnHandle, ArgumentOK
    <2>2. SentFor(x, op, arg) = Savepoint(x.s, arg) /\ LeftBy(x, op, arg) = Touched(Marked(x.h, arg))
      BY <1>4 DEF SentFor, LeftBy, Statements
    <2>3. QED
      BY <2>1, <2>2, MarkInReplies
  <1>5. CASE op = "rollback_to"
    <2>1. r \in UndoIn(x, arg) /\ arg \in Names
      BY <1>5 DEF OnHandle, ArgumentOK
    <2>2. /\ SentFor(x, op, arg) = IF LastNamed(x.h.savepoints, arg) = 0 THEN {}
                                   ELSE RollbackToSavepoint(x.s, arg)
          /\ LeftBy(x, op, arg) = Touched(Undone(x.h, LastNamed(x.h.savepoints, arg)))
      BY <1>5 DEF SentFor, LeftBy, Statements
    <2>3. QED
      BY <2>1, <2>2, UndoInReplies
  <1>6. QED
    BY <1>1, <1>2, <1>3, <1>4, <1>5 DEF HandleOps

\* The handles a call that succeeds may leave have done what it did.
LEMMA LeftDone ==
    ASSUME NEW x \in OnPlace, NEW op \in HandleOps, NEW arg, NEW h \in LeftBy(x, op, arg)
    PROVE  h.done = DoneAfter(x.h, op, arg)
  <1>1. x.h \in PooledHandle
    BY DEF OnPlace
  <1>2. ASSUME NEW g, g \in {Acknowledged(x.h, arg), Marked(x.h, arg),
                             Undone(x.h, LastNamed(x.h.savepoints, arg))}, h \in Touched(g)
        PROVE  h.done = g.done
    BY <1>1, <1>2 DEF Touched, Acknowledged, Marked, Undone, PooledHandle
  <1>3. CASE op = "status"
    BY <1>3 DEF LeftBy, DoneAfter, Statements
  <1>4. CASE op \in Statements
    BY <1>1, <1>2, <1>4 DEF LeftBy, DoneAfter, Statements, Acknowledged, PooledHandle
  <1>5. CASE op = "savepoint"
    BY <1>1, <1>2, <1>5 DEF LeftBy, DoneAfter, Statements, Marked, PooledHandle
  <1>6. CASE op = "rollback_to"
    BY <1>1, <1>2, <1>6 DEF LeftBy, DoneAfter, Statements, Undone, PooledHandle
  <1>7. QED
    BY <1>3, <1>4, <1>5, <1>6 DEF HandleOps, Statements

\* A call on a handle adds nothing to its block but its own statement, keeps
\* nothing, and counts a statement as done only when it answers so.
LEMMA OnHandleHolds ==
    ASSUME NEW x \in OnPlace, NEW op \in HandleOps, NEW arg, ArgumentOK(op, arg),
           NEW W, x.s \in Within(W, Cursors), op \in Statements => arg \in W,
           NEW r \in OnHandle(x, op, arg)
    PROVE  /\ r.st.s \in Within(W, Cursors) /\ r.kept = {} /\ r.out \in HandleAnswers
           /\ r.out = "refused" => r.st = x
           /\ r.st.h.done = IF r.out = "ok" THEN DoneAfter(x.h, op, arg) ELSE x.h.done
  <1> DEFINE R == SentFor(x, op, arg)
             H == LeftBy(x, op, arg)
  <1>1. Replied(x, R, H, r)
    BY OnHandleReplied
  <1>2. R \subseteq Held(W, Cursors)
    <2>1. CASE op = "status"
      BY <2>1, ReplyHeld DEF SentFor
    <2>2. CASE op = "run"
      BY <2>2, StatementsWithin DEF SentFor, Statements, ArgumentOK
    <2>3. CASE op = "copy_in"
      BY <2>3, StatementsWithin DEF SentFor, Statements, ArgumentOK
    <2>4. CASE op = "savepoint"
      BY <2>4, SavepointWithin DEF SentFor, ArgumentOK
    <2>5. CASE op = "rollback_to"
      BY <2>5, RollbackToWithin DEF SentFor, ArgumentOK
    <2>6. QED
      BY <2>1, <2>2, <2>3, <2>4, <2>5 DEF HandleOps
  <1> HIDE DEF R
  <1>3. /\ r.st.s \in Within(W, Cursors) /\ r.kept = {} /\ r.out \in HandleAnswers
        /\ r.out = "refused" => r.st = x
        /\ IF r.out = "ok" THEN r.st.h \in H ELSE r.st.h \in Touched(x.h)
    <2> HIDE DEF H
    <2>1. QED
      BY <1>1, <1>2, RepliedHeld
  <1>4. r.out = "ok" => r.st.h.done = DoneAfter(x.h, op, arg)
    BY <1>3, LeftDone
  <1>5. r.out # "ok" => r.st.h.done = x.h.done
    BY <1>3, TouchedSame DEF OnPlace
  <1>6. QED
    BY <1>3, <1>4, <1>5

\* The handle and the server's stack stay in step through every call on it.
LEMMA OnHandleMirrors ==
    ASSUME SAVEPOINT_NAME \notin Names,
           NEW x \in OnPlace, NEW op \in HandleOps, NEW arg, ArgumentOK(op, arg),
           Mirrors(x.h, x.s), NEW r \in OnHandle(x, op, arg)
    PROVE  /\ Mirrors(r.st.h, r.st.s)
           /\ op \notin Statements /\ r.out = "ok" => DoneAfter(x.h, op, arg) \subseteq x.h.done
  <1> DEFINE R == SentFor(x, op, arg)
             H == LeftBy(x, op, arg)
  <1>1. Replied(x, R, H, r)
    BY OnHandleReplied
  <1>2. /\ x.h \in PooledHandle /\ x.h.savepoints \in Seq(SavepointType) /\ x.h.done \subseteq Writes
    BY DEF OnPlace, PooledHandle
  <1>3. PICK F \in Stacks : Stack(x.h, F) /\ x.s \in Based("write", F)
    BY DEF Mirrors
  <1>4. CASE op = "status"
    <2>1. r = Reply(x, "ok") \/ r = Reply(x, "lost")
      BY <1>4 DEF OnHandle, StatusOf, Lost
    <2>2. r.st = x
      BY <2>1 DEF Reply
    <2>3. QED
      BY <1>4, <2>2 DEF DoneAfter, Statements
  <1>5. CASE op \in Statements
    <2>1. arg \in Writes
      BY <1>5 DEF Statements, ArgumentOK
    <2> DEFINE G == Top(F, {arg}, {})
    <2>2. G \in Stacks
      BY <2>1, TopFrames
    <2>3. R \subseteq BareOr(At("write", G), Based("write", F))
      BY <1>3, <1>5, <2>1, StatementsBased DEF SentFor, Statements
    <2>4. \A h \in H : Stack(h, G)
      <3> SUFFICES ASSUME NEW h \in H PROVE Stack(h, G)
        OBVIOUS
      <3>1. h \in Touched(Acknowledged(x.h, arg))
        BY <1>5 DEF LeftBy, Statements
      <3>2. h.savepoints = x.h.savepoints /\ h.done = x.h.done \cup {arg}
        BY <1>2, <3>1 DEF Touched, Acknowledged, PooledHandle
      <3>3. QED
        BY <1>2, <1>3, <2>1, <3>2, StackWrote
    <2> HIDE DEF R, H, G
    <2>5. QED
      BY <1>1, <1>3, <1>5, <2>2, <2>3, <2>4, RepliedMirrors
  <1>6. CASE op = "savepoint"
    <2>1. arg \in Names
      BY <1>6 DEF ArgumentOK
    <2> DEFINE G == Append(F, NewFrame(arg))
    <2>2. G \in Stacks /\ Savepoint(x.s, arg) \subseteq BareOr(At("write", G), Based("write", F))
      BY <1>3, <2>1, SavepointBased, NewFrameType, AppendStack DEF Blocks, Stacks
    <2>3. R \subseteq BareOr(At("write", G), Based("write", F))
      BY <1>6, <2>2 DEF SentFor
    <2>4. \A h \in H : Stack(h, G)
      <3> SUFFICES ASSUME NEW h \in H PROVE Stack(h, G)
        OBVIOUS
      <3>1. h \in Touched(Marked(x.h, arg))
        BY <1>6 DEF LeftBy, Statements
      <3>2. /\ h.savepoints = Append(x.h.savepoints, [name |-> arg, sofar |-> x.h.done])
            /\ h.done = x.h.done
        BY <1>2, <3>1 DEF Touched, Marked, PooledHandle
      <3>3. QED
        BY <1>2, <1>3, <2>1, <3>2, StackMarked
    <2> HIDE DEF R, H, G
    <2>5. Mirrors(r.st.h, r.st.s)
      BY <1>1, <1>3, <2>2, <2>3, <2>4, RepliedMirrors
    <2>6. QED
      BY <1>6, <2>5 DEF DoneAfter, Statements
  <1>7. CASE op = "rollback_to"
    <2>1. arg \in Names
      BY <1>7 DEF ArgumentOK
    <2> DEFINE at == LastNamed(x.h.savepoints, arg)
               G == Append(SubSeq(F, 1, at), NewFrame(arg))
    <2>2. CASE at = 0
      <3>1. R = {}
        BY <1>7, <2>2 DEF SentFor
      <3>2. r.st = x /\ r.out # "ok"
        BY <1>1, <3>1 DEF Replied
      <3>3. QED
        BY <3>2
    <2>3. CASE at # 0
      <3>1. /\ at \in 1 .. Len(x.h.savepoints) /\ x.h.savepoints[at].name = arg
            /\ \A j \in at + 1 .. Len(x.h.savepoints) : x.h.savepoints[j].name # arg
        BY <1>2, <2>3, LastNamedIs
      <3>2. R = RollbackToSavepoint(x.s, arg) /\ H = Touched(Undone(x.h, at))
        BY <1>7, <2>3 DEF SentFor, LeftBy, Statements
      <3>3. DoneAfter(x.h, op, arg) = x.h.savepoints[at].sofar
        BY <1>7 DEF DoneAfter, Statements
      <3> HIDE DEF R, H, at
      <3>4. ASSUME NEW h, h.savepoints = SubSeq(x.h.savepoints, 1, at),
                   h.done = x.h.savepoints[at].sofar
            PROVE  /\ Innermost(F, arg) = at + 1
                   /\ Append(SubSeq(F, 1, at), NewFrame(arg)) \in Stacks
                   /\ Stack(h, Append(SubSeq(F, 1, at), NewFrame(arg)))
                   /\ h.done \subseteq x.h.done
        <4>1. /\ Stack(x.h, F) /\ F \in Stacks /\ arg \in Names
              /\ x.h.savepoints \in Seq(SavepointType) /\ x.h.done \subseteq Writes
          BY <1>2, <1>3, <2>1
        <4>2. /\ at \in 1 .. Len(x.h.savepoints) /\ x.h.savepoints[at].name = arg
              /\ \A j \in at + 1 .. Len(x.h.savepoints) : x.h.savepoints[j].name # arg
          BY <3>1
        <4>3. h.savepoints = SubSeq(x.h.savepoints, 1, at) /\ h.done = x.h.savepoints[at].sofar
          BY <3>4
        <4> HIDE DEF G
        <4>4. QED
          BY ONLY ZenonT(60), <4>1, <4>2, <4>3, StackUndone
      <3> DEFINE u == Undone(x.h, at)
      <3>5. u.savepoints = SubSeq(x.h.savepoints, 1, at) /\ u.done = x.h.savepoints[at].sofar
        BY <1>2 DEF Undone, PooledHandle
      <3>6. \A h \in H : h.savepoints = u.savepoints /\ h.done = u.done
        BY <1>2, <3>2 DEF Touched, Undone, PooledHandle
      <3> HIDE DEF u
      <3>7. Innermost(F, arg) = at + 1 /\ G \in Stacks /\ u.done \subseteq x.h.done
        BY <3>4, <3>5
      <3>8. \A h \in H : Stack(h, G)
        BY <3>4, <3>5, <3>6
      <3>9. R \subseteq BareOr(At("write", G), Based("write", F))
        <4>1. (at + 1) # 0 /\ (at + 1) - 1 = at
          BY <3>1
        <4>2. arg # SAVEPOINT_NAME /\ "write" \in Blocks
          BY <2>1 DEF Blocks
        <4>3. RollbackToSavepoint(x.s, arg) \subseteq
               BareOr(At("write", Append(SubSeq(F, 1, (at + 1) - 1), NewFrame(arg))), Based("write", F))
          BY <1>3, <2>1, <3>7, <4>1, <4>2, RollbackToBased
        <4>4. QED
          BY <3>2, <4>1, <4>3
      <3> HIDE DEF G
      <3>10. Mirrors(r.st.h, r.st.s)
        BY <1>1, <1>3, <3>7, <3>8, <3>9, RepliedMirrors
      <3>11. QED
        BY <3>3, <3>5, <3>7, <3>10
    <2>4. QED
      BY <2>2, <2>3
  <1>8. QED
    BY <1>4, <1>5, <1>6, <1>7 DEF HandleOps, Statements

\* Without its block a handle is told of no success but a status.
LEMMA OnHandleLoose ==
    ASSUME NEW x \in OnPlace, x.s \in Stays("none"), NEW op \in HandleOps, NEW arg,
           ArgumentOK(op, arg), NEW r \in OnHandle(x, op, arg), r.out = "ok"
    PROVE  op = "status"
  <1> DEFINE R == SentFor(x, op, arg)
             H == LeftBy(x, op, arg)
  <1> SUFFICES ASSUME op # "status"
               PROVE  \A q \in R : q.out # "ok"
    <2>1. Replied(x, R, H, r)
      BY OnHandleReplied
    <2> HIDE DEF R, H
    <2>2. QED
      BY <2>1, RepliedFails
  <1>1. CASE op = "run"
    BY <1>1, NoSavepoints DEF SentFor, ArgumentOK
  <1>2. CASE op = "copy_in"
    BY <1>2, NoSavepoints DEF SentFor, ArgumentOK
  <1>3. CASE op = "savepoint"
    BY <1>3, NoSavepoints DEF SentFor
  <1>4. CASE op = "rollback_to"
    BY <1>4, NoSavepoints DEF SentFor
  <1>5. QED
    BY <1>1, <1>2, <1>3, <1>4 DEF HandleOps

-------------------------------------------------------------------------------
(* What callers were told, and what the server keeps                       *)

IssuedIn(i) == {w \in Writes : told[w].by = i}
DoneIn(i) == {w \in Writes : told[w].by = i /\ told[w].out = "done"}

\* The statements of a handle that its session may hold.
Sent(i) == {w \in Writes : told[w].by = i /\ told[w].out # "running"}

Place(i) == conns[handles[i].conn]

\* Nobody has sent the COMMIT or ROLLBACK of the handle yet.
Undecided(i) == i \in open \cup draining \/ \E c \in Calls : pc[c].at = "finish" /\ pc[c].id = i

\* An end of the handle is noted, or about to be.
Decided(i, state) ==
    \/ closed[i] = state
    \/ \E c \in Calls : pc[c].at = "note" /\ pc[c].id = i /\ pc[c].out = state

\* The block of a handle holds what the handle remembers, nothing that was not
\* sent in it, and none of it is durable.
OpenWork(i) ==
    /\ Mirrors(handles[i], Place(i))
    /\ Place(i) \in Within(Sent(i), Cursors)
    /\ IssuedIn(i) \cap durable = {}

\* The block is over.
Settled(i) == ~Undecided(i) /\ Place(i) \in Stays("none")

\* A handle knows what its caller was told is done; while a call can reach it
\* its block is as it remembers or over; and an end on record is what became
\* of its work.
HandleSound(i) ==
    /\ handles[i] = None => IssuedIn(i) = {}
    /\ handles[i] # None =>
        /\ handles[i].done = DoneIn(i)
        /\ \A w \in IssuedIn(i) : told[w].for = handles[i].owner
        /\ Reached(i) => OpenWork(i) \/ Settled(i)
        /\ Decided(i, "committed") =>
            DoneIn(i) \subseteq durable /\ (Reached(i) => Place(i) \in Stays("none"))
        /\ Decided(i, "rolled_back") => IssuedIn(i) \cap durable = {}

\* What a caller was told of a write outside a handle is what the server kept.
ToldAlone(w) ==
    /\ told[w].out = "none" => told[w].by = None
    /\ told[w].out \in {"none", "running", "undone"} => w \notin durable
    /\ told[w].by = None /\ told[w].out = "done" => w \in durable

WorkStages == {"wait", "inside", "using"}

\* The call carries a statement its caller waits for.
Carries(c) ==
    /\ pc[c].at \in WorkStages
    /\ pc[c].op \in {"run", "copy_in", "write", "write_outside", "dry_run"}

\* A statement has one call that carries it; a begin that waits for the table
\* brings a block nobody has used; and what is to be noted is an end.
CallSound(c) ==
    /\ Carries(c) =>
        /\ told[pc[c].arg].out = "running" /\ told[pc[c].arg].by = pc[c].id
        /\ \A d \in Calls : Carries(d) /\ pc[d].arg = pc[c].arg => d = c
    /\ pc[c].at \in WorkStages /\ pc[c].arg \in Writes => Carries(c)
    /\ pc[c].at = "insert" => conns[pc[c].conn] \in {Opened("write"), Dead}
    /\ pc[c].at = "note" => pc[c].out \in {"committed", "rolled_back", "lost"}

HistoryInv ==
    /\ PooledInv
    /\ \A i \in Ids : HandleSound(i)
    /\ \A w \in Writes : ToldAlone(w)
    /\ \A c \in Calls : CallSound(c)

\* What has to be shown of a step.
Goes == HistoryInv' /\ Promised!Next

-------------------------------------------------------------------------------
(* A handle a step has no business with                                    *)

\* What its caller was told stays; one more statement may be under way in it.
ToldRests(i) ==
    /\ \A w \in IssuedIn(i) : told'[w] = told[w]
    /\ \A w \in Writes : told'[w].by = i /\ told[w].by # i =>
           told'[w].out = "running" /\ told'[w].for = handles[i].owner /\ w \notin durable'

\* Its connection stays as it is, is lost, or has its block ended by a sweep
\* or a shutdown.
PlaceRests(i) ==
    Reached(i)' => \/ Place(i)' \in {Place(i), Dead, Errored(Place(i))}
                   \/ Place(i)' = Idle /\ ~Undecided(i)'

\* Its phase stays, or it leaves the table, or an end is noted that is decided,
\* or is a rollback nobody has run ahead of, or an end is forgotten.
PhaseRests(i) ==
    \/ PhaseOf(i)' = PhaseOf(i)
    \/ PhaseOf(i) = "open" /\ PhaseOf(i)' = "leaving"
    \/ /\ PhaseOf(i) \in {"open", "leaving"}
       /\ \/ PhaseOf(i)' = "lost"
          \/ PhaseOf(i)' \in {"committed", "rolled_back"} /\ Decided(i, PhaseOf(i)')
          \/ PhaseOf(i)' \in {"rolled_back", "expired"} /\ Undecided(i)
    \/ /\ PhaseOf(i) \in {"committed", "rolled_back", "expired", "lost"}
       /\ PhaseOf(i)' = "forgotten"

HandleRests(i) ==
    /\ handles'[i] = None <=> handles[i] = None
    /\ handles[i] # None => /\ handles'[i].conn = handles[i].conn
                            /\ handles'[i].owner = handles[i].owner
                            /\ handles'[i].savepoints = handles[i].savepoints
                            /\ handles'[i].done = handles[i].done
    /\ Undecided(i)' => Undecided(i)
    /\ Reached(i)' => Reached(i)
    /\ ToldRests(i)
    /\ handles[i] = None => \A w \in Writes : told'[w].by # i
    /\ durable \subseteq durable'
    /\ \A w \in durable' \ durable : told[w].by # i
    /\ PlaceRests(i)
    /\ \A state \in {"committed", "rolled_back"} :
           Decided(i, state)' => Decided(i, state) \/ (state = "rolled_back" /\ Undecided(i))
    /\ PhaseRests(i)

\* What the server holds for a handle does not depend on its deadline, and it
\* does not change when the connection is lost or the block fails.
LEMMA MirrorsRests ==
    ASSUME NEW h, NEW h2, h2.savepoints = h.savepoints, h2.done = h.done,
           NEW s, Mirrors(h, s), NEW s2 \in {s, Dead, Errored(s)}
    PROVE  Mirrors(h2, s2)
  <1>1. PICK F \in Stacks : Stack(h, F) /\ s \in Based("write", F)
    BY DEF Mirrors
  <1>2. Stack(h2, F)
    BY <1>1 DEF Stack
  <1>3. s2 \in Based("write", F)
    BY <1>1, BasedSessions DEF Blocks
  <1>4. QED
    BY <1>1, <1>2, <1>3 DEF Mirrors

\* A handle that rests has the same work done, and no more of its statements
\* are durable.
LEMMA RestingWork ==
    ASSUME NEW i \in Ids, HandleRests(i), durable \subseteq Writes, durable' \subseteq Writes
    PROVE  /\ DoneIn(i)' = DoneIn(i)
           /\ IssuedIn(i) \subseteq IssuedIn(i)' /\ Sent(i) \subseteq Sent(i)'
           /\ \A w \in durable' : w \in IssuedIn(i)' => w \in IssuedIn(i) /\ w \in durable
           /\ DoneIn(i) \subseteq IssuedIn(i)
  <1>1. \A w \in Writes : told'[w].by = i => told'[w] = told[w] \/ (told'[w].out = "running" /\ w \notin durable')
    BY DEF HandleRests, ToldRests, IssuedIn
  <1>2. \A w \in Writes : told[w].by = i => told'[w] = told[w]
    BY DEF HandleRests, ToldRests, IssuedIn
  <1>3. DoneIn(i)' = DoneIn(i)
    BY <1>1, <1>2 DEF DoneIn
  <1>4. IssuedIn(i) \subseteq IssuedIn(i)' /\ Sent(i) \subseteq Sent(i)' /\ DoneIn(i) \subseteq IssuedIn(i)
    BY <1>2 DEF IssuedIn, Sent, DoneIn
  <1>5. \A w \in durable' : w \in IssuedIn(i)' => w \in IssuedIn(i)
    BY <1>1 DEF IssuedIn
  <1>6. \A w \in durable' : w \in IssuedIn(i) => w \in durable
    BY DEF HandleRests, IssuedIn
  <1>7. QED
    BY <1>3, <1>4, <1>5, <1>6

\* A resting handle stays sound.
LEMMA RestSound ==
    ASSUME PooledInv, durable' \subseteq Writes, NEW i \in Ids, HandleSound(i), HandleRests(i)
    PROVE  HandleSound(i)'
  <1>0. durable \subseteq Writes /\ handles \in [Ids -> PooledHandle \cup {None}] /\ conns \in [Slots -> Sessions]
    BY DEF PooledInv, TypeOK
  <1>1. /\ DoneIn(i)' = DoneIn(i)
        /\ IssuedIn(i) \subseteq IssuedIn(i)' /\ Sent(i) \subseteq Sent(i)'
        /\ \A w \in durable' : w \in IssuedIn(i)' => w \in IssuedIn(i) /\ w \in durable
        /\ DoneIn(i) \subseteq IssuedIn(i) /\ durable \subseteq durable'
    BY <1>0, RestingWork DEF HandleRests
  <1>2. handles'[i] = None => IssuedIn(i)' = {}
    BY DEF HandleRests, IssuedIn
  <1>3. IssuedIn(i) \cap durable = {} => IssuedIn(i)' \cap durable' = {}
    BY <1>1
  <1> SUFFICES ASSUME handles[i] # None
               PROVE  HandleSound(i)'
    BY <1>2 DEF HandleRests, HandleSound
  <1>4. /\ handles'[i] # None /\ handles'[i].conn = handles[i].conn
        /\ handles'[i].owner = handles[i].owner
        /\ handles'[i].savepoints = handles[i].savepoints
        /\ handles'[i].done = handles[i].done
        /\ Reached(i)' => Reached(i)
        /\ Undecided(i)' => Undecided(i)
    BY DEF HandleRests
  <1>5. /\ handles[i].done = DoneIn(i)
        /\ \A w \in IssuedIn(i) : told[w].for = handles[i].owner
        /\ Reached(i) => OpenWork(i) \/ Settled(i)
        /\ Decided(i, "committed") =>
            DoneIn(i) \subseteq durable /\ (Reached(i) => Place(i) \in Stays("none"))
        /\ Decided(i, "rolled_back") => IssuedIn(i) \cap durable = {}
    BY DEF HandleSound
  <1>6. Place(i) \in Sessions
    BY <1>0 DEF Place, PooledHandle
  <1>7. Place(i) \in Stays("none") /\ Reached(i)' => Place(i)' \in Stays("none")
    BY ErroredStays, DeadStays, IdleStays DEF HandleRests, PlaceRests
  <1>8. \A w \in IssuedIn(i)' : told'[w].for = handles'[i].owner
    BY <1>4, <1>5 DEF IssuedIn, HandleRests, ToldRests
  <1>9. ASSUME Reached(i)'
        PROVE  OpenWork(i)' \/ Settled(i)'
    <2>1. CASE Settled(i)
      BY <1>4, <1>7, <1>9, <2>1 DEF Settled
    <2>2. CASE Place(i)' = Idle /\ ~Undecided(i)'
      BY <2>2, IdleStays DEF Settled
    <2>3. CASE OpenWork(i) /\ Place(i)' \in {Place(i), Dead, Errored(Place(i))}
      <3>1. Mirrors(handles'[i], Place(i)')
        BY <1>4, <2>3, MirrorsRests DEF OpenWork
      <3>2. Place(i)' \in Within(Sent(i), Cursors)
        BY <2>3, ErroredWithin, NothingWithin DEF OpenWork
      <3>3. Place(i)' \in Within(Sent(i)', Cursors)
        BY <1>1, <3>2 DEF Within
      <3>4. QED
        BY <1>3, <2>3, <3>1, <3>3 DEF OpenWork, Place
    <2>4. QED
      BY <1>4, <1>5, <1>9, <2>1, <2>2, <2>3 DEF HandleRests, PlaceRests
  <1>10. Decided(i, "committed")' =>
            DoneIn(i)' \subseteq durable' /\ (Reached(i)' => Place(i)' \in Stays("none"))
    BY <1>1, <1>4, <1>5, <1>7 DEF HandleRests
  <1>11. Undecided(i) => IssuedIn(i) \cap durable = {}
    BY <1>5 DEF OpenWork, Settled, Undecided, Reached
  <1>12. Decided(i, "rolled_back")' => IssuedIn(i)' \cap durable' = {}
    BY <1>3, <1>5, <1>11 DEF HandleRests
  <1>13. QED
    BY <1>1, <1>4, <1>5, <1>8, <1>9, <1>10, <1>12 DEF HandleSound

\* Its promises are kept.
LEMMA RestPromised ==
    ASSUME PooledInv, durable' \subseteq Writes, NEW i \in Ids, HandleSound(i), HandleRests(i)
    PROVE  Promised!Step(i)
  <1>0. durable \subseteq Writes
    BY DEF PooledInv, TypeOK
  <1>1. /\ DoneIn(i)' = DoneIn(i)
        /\ \A w \in durable' : w \in IssuedIn(i)' => w \in IssuedIn(i) /\ w \in durable
        /\ DoneIn(i)' \subseteq IssuedIn(i)' /\ durable \subseteq durable'
    BY <1>0, RestingWork DEF HandleRests
  <1>2. Promised!Keeps(i)
    BY <1>1 DEF Promised!Keeps, Promised!Sends, Promised!Gains, IssuedIn, DoneIn
  <1>3. Decided(i, "committed") /\ handles[i] # None => DoneIn(i) \subseteq durable'
    BY <1>1 DEF HandleSound
  <1>4. (Decided(i, "rolled_back") \/ Undecided(i)) /\ handles[i] # None => DoneIn(i) \cap durable' = {}
    <2>1. (Decided(i, "rolled_back") \/ Undecided(i)) /\ handles[i] # None => IssuedIn(i) \cap durable = {}
      BY DEF HandleSound, OpenWork, Settled, Undecided, Reached
    <2>2. QED
      BY <1>1, <2>1
  <1>5. PhaseOf(i) \in {"open", "leaving"} => handles[i] # None
    BY DEF PhaseOf
  <1>6. ASSUME PhaseOf(i) \in {"open", "leaving"},
               \/ PhaseOf(i)' = "lost"
               \/ PhaseOf(i)' \in {"committed", "rolled_back"} /\ Decided(i, PhaseOf(i)')
               \/ PhaseOf(i)' \in {"rolled_back", "expired"} /\ Undecided(i)
        PROVE  Promised!End(i)
    BY <1>2, <1>3, <1>4, <1>5, <1>6 DEF Promised!End, Promised!InReach, DoneIn
  <1>7. QED
    BY <1>2, <1>6 DEF HandleRests, PhaseRests, Promised!Step, Promised!Rest, Promised!Leave, Promised!Forget

\* What a step may do to a call a handle has nothing to do with.
CallRests(d) ==
    \/ pc'[d] = pc[d]
    \/ /\ pc'[d].at # "note"
       /\ pc'[d].id \in {None, pc[d].id} \cup open
       /\ pc'[d].at = "finish" => pc'[d].id \in open

\* What it may do to the record of an end.
ClosedRests(i) ==
    \/ closed'[i] = closed[i]
    \/ closed[i] # "none" /\ closed'[i] = "forgotten"
    \/ /\ closed[i] = "none" /\ i \notin open'
       /\ \/ closed'[i] = "lost"
          \/ closed'[i] \in {"committed", "rolled_back"} /\ Decided(i, closed'[i])
          \/ closed'[i] \in {"rolled_back", "expired"} /\ Undecided(i)

\* A step that leaves alone, of a handle, what it remembers and was told.
LEMMA StepRests ==
    ASSUME PooledInv, NEW i \in Ids,
           handles'[i] = None <=> handles[i] = None,
           handles[i] # None => /\ handles'[i].conn = handles[i].conn
                                /\ handles'[i].owner = handles[i].owner
                                /\ handles'[i].savepoints = handles[i].savepoints
                                /\ handles'[i].done = handles[i].done,
           i \in open' => i \in open, i \in draining' => i \in draining \cup open,
           \A d \in Calls : CallRests(d) \/ (pc[d].id # i /\ pc'[d].id # i),
           ClosedRests(i), PlaceRests(i),
           ToldRests(i), handles[i] = None => \A w \in Writes : told'[w].by # i,
           durable \subseteq durable', \A w \in durable' \ durable : told[w].by # i
    PROVE  HandleRests(i)
  <1>1. /\ closed \in [Ids -> ClosedStates] /\ pc \in [Calls -> Call]
        /\ i \in open => handles[i] # None /\ closed[i] = "none"
        /\ \A d \in Calls : pc[d].id \in Ids \cup {None}
        /\ None \notin Ids
    BY NoneAssumption DEF PooledInv, TypeOK, HandleOK, Call
  <1>2. \A d \in Calls : /\ pc'[d].id = i => pc[d].id = i \/ i \in open
                         /\ pc'[d].at = "finish" /\ pc'[d].id = i =>
                                (pc[d].at = "finish" /\ pc[d].id = i) \/ i \in open
                         /\ pc'[d].at = "note" /\ pc'[d].id = i => pc'[d] = pc[d]
    BY <1>1 DEF CallRests
  <1>3. (Reached(i)' => Reached(i)) /\ (Undecided(i)' => Undecided(i))
    BY <1>2 DEF Reached, Undecided
  <1>4. ASSUME NEW state \in {"committed", "rolled_back"}, Decided(i, state)'
        PROVE  Decided(i, state) \/ (state = "rolled_back" /\ Undecided(i))
    <2>1. CASE closed'[i] = state
      BY <2>1 DEF ClosedRests, Decided
    <2>2. CASE \E d \in Calls : pc'[d].at = "note" /\ pc'[d].id = i /\ pc'[d].out = state
      BY <1>2, <2>2 DEF Decided
    <2>3. QED
      BY <1>4, <2>1, <2>2 DEF Decided
  <1>5. PhaseRests(i)
    <2>1. CASE handles[i] = None
      BY <2>1 DEF PhaseRests, PhaseOf
    <2>2. CASE handles[i] # None /\ i \in open'
      BY <2>2 DEF PhaseRests, PhaseOf
    <2>3. CASE handles[i] # None /\ i \notin open' /\ closed[i] # "none"
      BY <1>1, <2>3 DEF PhaseRests, PhaseOf, ClosedRests, ClosedStates
    <2>4. CASE handles[i] # None /\ i \notin open' /\ closed[i] = "none"
      <3>1. PhaseOf(i) \in {"open", "leaving"}
        BY <2>4 DEF PhaseOf
      <3>2. PhaseOf(i)' = IF closed'[i] = "none" THEN "leaving" ELSE closed'[i]
        BY <2>4 DEF PhaseOf
      <3>3. QED
        BY <2>4, <3>1, <3>2 DEF PhaseRests, ClosedRests
    <2>5. QED
      BY <2>1, <2>2, <2>3, <2>4
  <1>6. QED
    BY <1>3, <1>4, <1>5 DEF HandleRests

\* A step in which one call moves, and no statement another one carries is
\* answered.
LEMMA CarriersSound ==
    ASSUME PooledInv, \A d \in Calls : CallSound(d), NEW c \in Calls,
           \A d \in Calls \ {c} : pc'[d] = pc[d],
           \A w \in Writes : told[w].out = "running" /\ ~(Carries(c) /\ pc[c].arg = w)
                                => told'[w] = told[w],
           Carries(c)' => /\ told'[pc'[c].arg].out = "running" /\ told'[pc'[c].arg].by = pc'[c].id
                          /\ \/ Carries(c) /\ pc'[c].arg = pc[c].arg
                             \/ told[pc'[c].arg].out # "running"
    PROVE  \A d \in Calls : Carries(d)' =>
               /\ told'[pc'[d].arg].out = "running" /\ told'[pc'[d].arg].by = pc'[d].id
               /\ \A e \in Calls : Carries(e)' /\ pc'[e].arg = pc'[d].arg => e = d
  <1>1. \A d \in Calls : Carries(d) => pc[d].arg \in Writes /\ told[pc[d].arg].out = "running"
                                         /\ told[pc[d].arg].by = pc[d].id
    BY DEF PooledInv, CallOK, Carries, ArgumentOK, CallSound, WorkStages
  <1>2. \A d, e \in Calls : Carries(d) /\ Carries(e) /\ pc[d].arg = pc[e].arg => d = e
    BY DEF CallSound
  <1>3. \A d \in Calls \ {c} : /\ Carries(d)' => Carries(d)
                               /\ pc'[d].arg = pc[d].arg /\ pc'[d].id = pc[d].id
    BY DEF Carries, WorkStages
  <1>4. \A d \in Calls \ {c} : Carries(d)' => told'[pc[d].arg] = told[pc[d].arg]
    BY <1>1, <1>2, <1>3
  <1>5. ASSUME NEW d \in Calls, NEW e \in Calls, Carries(d)', Carries(e)', pc'[e].arg = pc'[d].arg
        PROVE  d = e
    BY <1>1, <1>2, <1>3, <1>5
  <1>6. QED
    BY <1>1, <1>3, <1>4, <1>5

\* The connections of begins that wait for the table stay theirs.
LEMMA InsertersSound ==
    ASSUME PooledInv, \A d \in Calls : CallSound(d), NEW c,
           \A d \in Calls : d # c => pc'[d] = pc[d],
           \A d \in Calls : pc[d].conn # None /\ d # c => conns'[pc[d].conn] \in {conns[pc[d].conn], Dead},
           c \in Calls => pc'[c].at \notin {"insert", "note"}
    PROVE  \A d \in Calls : /\ pc'[d].at = "insert" => conns'[pc'[d].conn] \in {Opened("write"), Dead}
                            /\ pc'[d].at = "note" => pc'[d].out \in {"committed", "rolled_back", "lost"}
  BY DEF PooledInv, CallOK, CallSound

\* roll_back_quietly on the connections of handles in reach: each may be idle,
\* lost or failed, and no other handle notices.
LEMMA RollBackEachRests ==
    ASSUME PooledInv, NEW ids, ids \subseteq {i \in Ids : handles[i] # None /\ Reached(i)},
           RollBackEach(ids), handles' = handles
    PROVE  \A i \in Ids : handles[i] # None /\ Reached(i) =>
               IF i \in ids THEN Place(i)' \in Ending(Place(i)) ELSE Place(i)' = Place(i)
  <1> DEFINE places == {handles[i].conn : i \in ids}
  <1>1. PICK after : /\ \A k \in places : after[k] \in RollBackQuietly(conns[k])
                     /\ conns' = [k \in Slots |-> IF k \in places THEN after[k] ELSE conns[k]]
    BY DEF RollBackEach
  <1>2. \A k \in Slots : conns[k] \in Sessions
    BY DEF PooledInv
  <1>3. \A k \in Slots : k \in places => conns'[k] \in Ending(conns[k])
    <2> HIDE DEF places
    <2>1. QED
      BY <1>1, <1>2, RollBackQuietlyEnds
  <1>4. \A k \in Slots : k \notin places => conns'[k] = conns[k]
    BY <1>1
  <1>5. ASSUME NEW i \in Ids, handles[i] # None, Reached(i)
        PROVE  IF i \in ids THEN Place(i)' \in Ending(Place(i)) ELSE Place(i)' = Place(i)
    <2>1. handles[i].conn \in Slots
      BY <1>5 DEF PooledInv, TypeOK, PooledHandle
    <2>2. CASE i \in ids
      BY <1>3, <2>1, <2>2 DEF Place
    <2>3. CASE i \notin ids
      <3>1. \A j \in ids : handles[j].conn # handles[i].conn
        BY <1>5, <2>3 DEF PooledInv, Sharing
      <3>2. handles[i].conn \notin places
        BY <3>1
      <3>3. conns'[handles[i].conn] = conns[handles[i].conn]
        BY <1>4, <2>1, <3>2
      <3>4. QED
        BY <2>3, <3>3 DEF Place
    <2>4. QED
      BY <2>2, <2>3
  <1>6. QED
    BY <1>5

\* note_closed (engine.rs) in full.
LEMMA NoteClosedIs ==
    ASSUME closed \in [Ids -> ClosedStates], NEW ids \in SUBSET Ids, NEW state, NoteClosed(ids, state)
    PROVE  /\ \A i \in ids : closed'[i] = state
           /\ \A i \in Ids \ ids : \/ closed'[i] = closed[i]
                                   \/ closed[i] # "none" /\ closed'[i] = "forgotten"
  BY DEF NoteClosed

\* A sweep of the table lets every handle rest, the expired ones among them.
LEMMA SweepRests ==
    ASSUME PooledInv, NEW taken, taken \subseteq open, PooledSweep(taken), taken \cap Expired = {},
           handles' = handles, draining' = draining, durable' = durable,
           \A d \in Calls : pc'[d] = pc[d] \/ ~(pc'[d].at = "finish" /\ pc'[d].id \in Expired),
           \A d \in Calls : CallRests(d), NEW i \in Ids, ToldRests(i),
           handles[i] = None => \A w \in Writes : told'[w].by # i
    PROVE  HandleRests(i)
  <1>1. /\ RollBackEach(Expired) /\ NoteClosed(Expired, "expired")
        /\ open' = open \ (Expired \cup taken)
    BY DEF PooledSweep
  <1>2. /\ Expired \subseteq {j \in Ids : handles[j] # None /\ Reached(j)}
        /\ Expired \in SUBSET Ids /\ Expired \subseteq open
    BY DEF Expired, PooledInv, TypeOK, Reached
  <1>3. /\ i \in Expired => closed'[i] = "expired" /\ closed[i] = "none"
        /\ i \notin Expired => \/ closed'[i] = closed[i]
                               \/ closed[i] # "none" /\ closed'[i] = "forgotten"
    BY <1>1, <1>2, NoteClosedIs DEF PooledInv, TypeOK, HandleOK
  <1>4. ClosedRests(i)
    <2>1. CASE i \in Expired
      BY <1>1, <1>2, <1>3, <2>1 DEF ClosedRests, Undecided
    <2>2. CASE i \notin Expired
      BY <1>3, <2>2 DEF ClosedRests
    <2>3. QED
      BY <2>1, <2>2
  <1>5. ASSUME Reached(i)'
        PROVE  \/ Place(i)' \in {Place(i), Dead, Errored(Place(i))}
               \/ Place(i)' = Idle /\ ~Undecided(i)'
    <2>1. None # i
      BY NoneAssumption
    <2>2. Reached(i)
      BY <1>1, <1>5, <2>1 DEF Reached, CallRests
    <2>3. handles[i] # None
      BY <2>2, <2>1 DEF PooledInv, TypeOK, CallOK, Reached
    <2>4. IF i \in Expired THEN Place(i)' \in Ending(Place(i)) ELSE Place(i)' = Place(i)
      BY <1>1, <1>2, <2>2, <2>3, RollBackEachRests
    <2>5. ASSUME i \in Expired
          PROVE  ~Undecided(i)'
      <3>1. i \notin open' /\ i \notin draining'
        BY <1>1, <1>2, <2>5 DEF PooledInv, HandleOK
      <3>2. \A d \in Calls : pc[d].at = "finish" => pc[d].id # i
        BY <1>2, <2>5 DEF PooledInv, EndingOK, EndingStages
      <3>3. QED
        BY <2>5, <3>1, <3>2 DEF Undecided
    <2>6. QED
      BY <2>4, <2>5 DEF Ending
  <1>6. PlaceRests(i)
    BY <1>5 DEF PlaceRests
  <1>7. open' \subseteq open /\ draining' \subseteq draining \cup open /\ durable \subseteq durable'
    BY <1>1
  <1>8. QED
    BY <1>4, <1>6, <1>7, StepRests

-------------------------------------------------------------------------------
(* What the steps of the engine do to the history                         *)

\* What every step comes down to: a handle rests, or what it does is sound.
LEMMA StepGoes ==
    ASSUME HistoryInv, PooledInv', durable \subseteq durable',
           \A w \in Writes : ToldAlone(w)', \A c \in Calls : CallSound(c)',
           \A i \in Ids : HandleRests(i) \/ (HandleSound(i)' /\ Promised!Step(i))
    PROVE  Goes
  <1>1. PooledInv /\ \A i \in Ids : HandleSound(i)
    BY DEF HistoryInv
  <1>2. durable' \subseteq Writes
    BY DEF PooledInv, TypeOK
  <1>3. \A i \in Ids : HandleRests(i) => HandleSound(i)' /\ Promised!Step(i)
    BY <1>1, <1>2, RestSound, RestPromised
  <1>4. QED
    BY <1>3 DEF Goes, HistoryInv, Promised!Next

\* A step in which call c moves keeps the calls sound.
LEMMA CallsSound ==
    ASSUME HistoryInv, NEW c \in Calls,
           \A d \in Calls \ {c} : pc'[d] = pc[d],
           \A d \in Calls \ {c} : pc[d].conn # None => conns'[pc[d].conn] \in {conns[pc[d].conn], Dead},
           \A w \in Writes : told[w].out = "running" /\ ~(Carries(c) /\ pc[c].arg = w)
                                => told'[w] = told[w],
           Carries(c)' => /\ told'[pc'[c].arg].out = "running" /\ told'[pc'[c].arg].by = pc'[c].id
                          /\ \/ Carries(c) /\ pc'[c].arg = pc[c].arg
                             \/ told[pc'[c].arg].out # "running",
           pc'[c].at \in WorkStages /\ pc'[c].arg \in Writes => Carries(c)',
           pc'[c].at = "insert" => conns'[pc'[c].conn] \in {Opened("write"), Dead},
           pc'[c].at = "note" => pc'[c].out \in {"committed", "rolled_back", "lost"}
    PROVE  \A d \in Calls : CallSound(d)'
  <1>1. PooledInv /\ \A d \in Calls : CallSound(d)
    BY DEF HistoryInv
  <1>2. \A d \in Calls : Carries(d)' =>
               /\ told'[pc'[d].arg].out = "running" /\ told'[pc'[d].arg].by = pc'[d].id
               /\ \A e \in Calls : Carries(e)' /\ pc'[e].arg = pc'[d].arg => e = d
    BY <1>1, CarriersSound
  <1>3. \A d \in Calls : /\ pc'[d].at = "insert" => conns'[pc'[d].conn] \in {Opened("write"), Dead}
                         /\ pc'[d].at = "note" => pc'[d].out \in {"committed", "rolled_back", "lost"}
    BY <1>1 DEF PooledInv, CallOK, CallSound
  <1>4. \A d \in Calls : pc'[d].at \in WorkStages /\ pc'[d].arg \in Writes => Carries(d)'
    BY <1>1 DEF CallSound, Carries
  <1>5. QED
    BY <1>2, <1>3, <1>4 DEF CallSound

\* A step in which no call moves does, too.
LEMMA StillCallsSound ==
    ASSUME HistoryInv, pc' = pc, told' = told,
           \A d \in Calls : pc[d].conn # None => conns'[pc[d].conn] \in {conns[pc[d].conn], Dead}
    PROVE  \A d \in Calls : CallSound(d)'
  <1>1. \A d \in Calls : Carries(d)' <=> Carries(d)
    BY DEF Carries, WorkStages
  <1>2. \A d \in Calls : pc[d].at = "insert" => pc[d].conn # None
    BY DEF HistoryInv, PooledInv, CallOK
  <1>3. QED
    BY <1>1, <1>2 DEF HistoryInv, CallSound

\* roll_back_quietly on the connections of handles in reach leaves those of
\* the calls alone.
LEMMA RollBackEachSpares ==
    ASSUME PooledInv, NEW ids, ids \subseteq {i \in Ids : handles[i] # None /\ Reached(i)},
           RollBackEach(ids)
    PROVE  \A d \in Calls : pc[d].conn # None => conns'[pc[d].conn] = conns[pc[d].conn]
  <1>1. ASSUME NEW d \in Calls, pc[d].conn # None
        PROVE  conns'[pc[d].conn] = conns[pc[d].conn]
    <2>1. pc[d].conn \in Slots
      BY <1>1 DEF PooledInv, TypeOK, Call
    <2>2. \A i \in ids : handles[i].conn # pc[d].conn
      BY DEF PooledInv, Sharing
    <2>3. QED
      BY <2>1, <2>2, RollBackEachParks
  <1>2. QED
    BY <1>1

\* Steps that tell nobody anything and make nothing durable.
LEMMA SilentAlone ==
    ASSUME HistoryInv, told' = told, durable' = durable
    PROVE  /\ \A w \in Writes : ToldAlone(w)'
           /\ \A i \in Ids : ToldRests(i)
           /\ \A i \in Ids : handles[i] = None => \A w \in Writes : told'[w].by # i
           /\ durable \subseteq durable' /\ \A i \in Ids : \A w \in durable' \ durable : told[w].by # i
  <1>1. \A w \in Writes : ToldAlone(w)'
    BY DEF HistoryInv, ToldAlone
  <1>2. \A i \in Ids : handles[i] = None => \A w \in Writes : told'[w].by # i
    BY DEF HistoryInv, HandleSound, IssuedIn
  <1>3. QED
    BY <1>1, <1>2 DEF ToldRests, IssuedIn

\* Such a step that takes nothing new into the table.
LEMMA SilentRests ==
    ASSUME HistoryInv, told' = told, durable' = durable,
           \A i \in Ids : /\ handles'[i] = None <=> handles[i] = None
                          /\ handles[i] # None => /\ handles'[i].conn = handles[i].conn
                                                  /\ handles'[i].owner = handles[i].owner
                                                  /\ handles'[i].savepoints = handles[i].savepoints
                                                  /\ handles'[i].done = handles[i].done,
           open' \subseteq open, draining' \subseteq draining \cup open,
           \A d \in Calls : CallRests(d), \A i \in Ids : ClosedRests(i) /\ PlaceRests(i)
    PROVE  \A i \in Ids : HandleRests(i)
  <1>1. PooledInv
    BY DEF HistoryInv
  <1>2. ASSUME NEW i \in Ids
        PROVE  HandleRests(i)
    BY <1>1, StepRests, SilentAlone
  <1>3. QED
    BY <1>2

\* The sweeper task.
LEMMA SweepGoes ==
    ASSUME HistoryInv, PooledInv', Sweep
    PROVE  Goes
  <1>1. PooledInv /\ PooledSweep({}) /\ told' = told /\ durable' = durable /\ pc' = pc
        /\ handles' = handles /\ draining' = draining
    BY DEF HistoryInv, Sweep
  <1>2. \A i \in Ids : HandleRests(i)
    <2>1. \A d \in Calls : CallRests(d)
      BY <1>1 DEF CallRests
    <2>2. {} \subseteq open /\ {} \cap Expired = {}
      OBVIOUS
    <2>3. \A d \in Calls : pc'[d] = pc[d] \/ ~(pc'[d].at = "finish" /\ pc'[d].id \in Expired)
      BY <1>1
    <2>4. QED
      BY <1>1, <2>1, <2>2, <2>3, SilentAlone, SweepRests
  <1>3. \A d \in Calls : CallSound(d)'
    <2>1. Expired \subseteq {i \in Ids : handles[i] # None /\ Reached(i)}
      BY <1>1 DEF Expired, PooledInv, TypeOK, Reached
    <2>2. QED
      BY <1>1, <2>1, RollBackEachSpares, StillCallsSound DEF PooledSweep
  <1>4. QED
    BY <1>1, <1>2, <1>3, SilentAlone, StepGoes

\* Closing the pool, and steps that change nothing.
LEMMA ClosePoolGoes ==
    ASSUME HistoryInv, PooledInv', UNCHANGED << conns, handles, table, draining, durable, told, pc >>
    PROVE  Goes
  <1>1. \A i \in Ids : ClosedRests(i) /\ PlaceRests(i)
    BY DEF ClosedRests, PlaceRests, Place, table
  <1>2. \A d \in Calls : CallRests(d)
    BY DEF CallRests
  <1>3. \A i \in Ids : HandleRests(i)
    BY <1>1, <1>2, SilentRests DEF table
  <1>4. \A d \in Calls : CallSound(d)'
    BY StillCallsSound
  <1>5. QED
    BY <1>3, <1>4, SilentAlone, StepGoes

\* The shutdown takes the table.
LEMMA ReleaseHandlesGoes ==
    ASSUME HistoryInv, PooledInv', ReleaseHandles
    PROVE  Goes
  <1>1. /\ conns' = conns /\ handles' = handles /\ closed' = closed /\ durable' = durable
        /\ told' = told /\ pc' = pc /\ draining' = open /\ open' = {}
    BY DEF ReleaseHandles
  <1>2. \A i \in Ids : ClosedRests(i) /\ PlaceRests(i)
    BY <1>1 DEF ClosedRests, PlaceRests, Place
  <1>3. \A d \in Calls : CallRests(d)
    BY <1>1 DEF CallRests
  <1>4. \A i \in Ids : HandleRests(i)
    BY <1>1, <1>2, <1>3, SilentRests
  <1>5. \A d \in Calls : CallSound(d)'
    BY <1>1, StillCallsSound
  <1>6. QED
    BY <1>1, <1>4, <1>5, SilentAlone, StepGoes

\* The shutdown rolls a handle back.
LEMMA ReleaseHandleGoes ==
    ASSUME HistoryInv, PooledInv', NEW j \in Ids, ReleaseHandle(j)
    PROVE  Goes
  <1>1. /\ j \in draining /\ RollBackEach({j}) /\ draining' = draining \ {j}
        /\ NoteClosed({j}, "rolled_back") /\ handles' = handles /\ open' = open
        /\ durable' = durable /\ told' = told /\ pc' = pc
    BY DEF ReleaseHandle
  <1>2. /\ PooledInv /\ handles[j] # None /\ Reached(j) /\ Undecided(j)
        /\ j \notin open /\ closed[j] = "none"
    BY <1>1 DEF HistoryInv, PooledInv, TypeOK, Reached, Undecided, HandleOK
  <1>3. \A i \in Ids : ClosedRests(i)
    <2>1. closed \in [Ids -> ClosedStates]
      BY <1>2 DEF PooledInv, TypeOK
    <2>2. /\ closed'[j] = "rolled_back"
          /\ \A i \in Ids \ {j} : closed'[i] = closed[i] \/ (closed[i] # "none" /\ closed'[i] = "forgotten")
      BY <1>1, <2>1, NoteClosedIs
    <2>3. QED
      BY <1>1, <1>2, <2>2 DEF ClosedRests
  <1>4. {j} \subseteq {i \in Ids : handles[i] # None /\ Reached(i)}
    BY <1>2
  <1>5. ASSUME NEW i \in Ids
        PROVE  PlaceRests(i)
    <2>1. Reached(i)' => Reached(i) /\ handles[i] # None
      BY <1>1, <1>2, NoneAssumption DEF Reached, PooledInv, TypeOK, CallOK
    <2>2. Reached(i)' => IF i = j THEN Place(i)' \in Ending(Place(i)) ELSE Place(i)' = Place(i)
      BY <1>1, <1>2, <1>4, <2>1, RollBackEachRests
    <2>3. ~Undecided(j)'
      <3>1. \A d \in Calls : pc[d].at = "finish" => pc[d].id # j
        BY <1>1, <1>2 DEF PooledInv, EndingOK, EndingStages
      <3>2. QED
        BY <1>1, <1>2, <3>1 DEF Undecided
    <2>4. QED
      BY <2>2, <2>3 DEF PlaceRests, Ending
  <1>6. \A d \in Calls : CallRests(d)
    BY <1>1 DEF CallRests
  <1>7. \A i \in Ids : HandleRests(i)
    BY <1>1, <1>3, <1>5, <1>6, SilentRests
  <1>8. \A d \in Calls : CallSound(d)'
    BY <1>1, <1>2, <1>4, RollBackEachSpares, StillCallsSound
  <1>9. QED
    BY <1>1, <1>7, <1>8, SilentAlone, StepGoes

\* A connection is lost.
LEMMA LoseConnectionGoes ==
    ASSUME HistoryInv, PooledInv', NEW k \in Slots, LoseConnection(k)
    PROVE  Goes
  <1>1. /\ conns' = [conns EXCEPT ![k] = Dead] /\ handles' = handles /\ open' = open
        /\ closed' = closed /\ draining' = draining /\ durable' = durable /\ told' = told /\ pc' = pc
    BY DEF LoseConnection, table
  <1>2. \A l \in Slots : conns'[l] \in {conns[l], Dead}
    BY <1>1 DEF HistoryInv, PooledInv, TypeOK
  <1>3. \A d \in Calls : pc[d].conn # None => pc[d].conn \in Slots
    BY DEF HistoryInv, PooledInv, TypeOK, Call
  <1>4. ASSUME NEW i \in Ids
        PROVE  ClosedRests(i) /\ PlaceRests(i)
    <2>1. Reached(i) => handles[i] # None
      BY NoneAssumption DEF Reached, HistoryInv, PooledInv, TypeOK, CallOK
    <2>2. handles[i] # None => handles[i].conn \in Slots
      BY DEF HistoryInv, PooledInv, TypeOK, PooledHandle
    <2>3. Reached(i)' => Reached(i)
      BY <1>1 DEF Reached
    <2>4. QED
      BY <1>1, <1>2, <2>1, <2>2, <2>3 DEF ClosedRests, PlaceRests, Place
  <1>5. \A d \in Calls : CallRests(d)
    BY <1>1 DEF CallRests
  <1>6. \A i \in Ids : HandleRests(i)
    BY <1>1, <1>4, <1>5, SilentRests
  <1>7. \A d \in Calls : CallSound(d)'
    BY <1>1, <1>2, <1>3, StillCallsSound
  <1>8. QED
    BY <1>1, <1>6, <1>7, SilentAlone, StepGoes

\* A deadline passes.
LEMMA DeadlineGoes ==
    ASSUME HistoryInv, PooledInv', NEW j \in Ids, DeadlinePasses(j)
    PROVE  Goes
  <1>1. /\ j \in open /\ handles' = [handles EXCEPT ![j].due = TRUE] /\ conns' = conns /\ open' = open
        /\ closed' = closed /\ draining' = draining /\ durable' = durable /\ told' = told /\ pc' = pc
    BY DEF DeadlinePasses, table
  <1>2. handles[j] \in PooledHandle /\ handles \in [Ids -> PooledHandle \cup {None}]
    BY <1>1 DEF HistoryInv, PooledInv, TypeOK
  <1>3. handles'[j] \in PooledHandle
    BY <1>1, <1>2 DEF PooledHandle
  <1>4. \A i \in Ids : /\ handles'[i] = None <=> handles[i] = None
                       /\ handles[i] # None => /\ handles'[i].conn = handles[i].conn
                                               /\ handles'[i].owner = handles[i].owner
                                               /\ handles'[i].savepoints = handles[i].savepoints
                                               /\ handles'[i].done = handles[i].done
    <2>1. ASSUME NEW i \in Ids, i # j
          PROVE  handles'[i] = handles[i]
      BY <1>1, <1>2, <2>1
    <2>2. /\ handles'[j].conn = handles[j].conn /\ handles'[j].owner = handles[j].owner
          /\ handles'[j].savepoints = handles[j].savepoints /\ handles'[j].done = handles[j].done
      BY <1>1, <1>2 DEF PooledHandle
    <2>3. handles[j] # None /\ handles'[j] # None
      BY <1>2, <1>3, NoneAssumption
    <2>4. QED
      BY <2>1, <2>2, <2>3
  <1>5. ASSUME NEW i \in Ids
        PROVE  ClosedRests(i) /\ PlaceRests(i)
    <2>1. Reached(i)' => handles[i] # None
      BY <1>1, NoneAssumption DEF Reached, HistoryInv, PooledInv, TypeOK, CallOK
    <2>2. QED
      BY <1>1, <1>4, <2>1 DEF ClosedRests, PlaceRests, Place
  <1>6. \A d \in Calls : CallRests(d)
    BY <1>1 DEF CallRests
  <1>7. \A i \in Ids : HandleRests(i)
    BY <1>1, <1>4, <1>5, <1>6, SilentRests
  <1>8. \A d \in Calls : CallSound(d)'
    BY <1>1, StillCallsSound
  <1>9. QED
    BY <1>1, <1>7, <1>8, SilentAlone, StepGoes

\* A call that is over.
LEMMA AtRestIs ==
    ASSUME NEW c \in Calls, pc \in [Calls -> Call], Finished(c)
    PROVE  /\ \A d \in Calls \ {c} : pc'[d] = pc[d]
           /\ pc'[c].at = "idle" /\ pc'[c].id = None /\ pc'[c].conn = None
           /\ pc'[c].at \notin WorkStages
           /\ ~Carries(c)' /\ \A d \in Calls : CallRests(d)
  BY DEF Finished, AtRest, CallRests, Carries, WorkStages

\* A call that is over, when it carried nothing that is answered now, leaves
\* the others sound.
LEMMA OverSound ==
    ASSUME HistoryInv, NEW c \in Calls, Finished(c),
           \A d \in Calls \ {c} : pc[d].conn # None => conns'[pc[d].conn] \in {conns[pc[d].conn], Dead},
           \A w \in Writes : told[w].out = "running" /\ ~(Carries(c) /\ pc[c].arg = w)
                                => told'[w] = told[w]
    PROVE  \A d \in Calls : CallSound(d)'
  <1>1. pc \in [Calls -> Call]
    BY DEF HistoryInv, PooledInv, TypeOK
  <1>2. QED
    BY <1>1, AtRestIs, CallsSound

\* A call waits for its handle no longer.
LEMMA LockHandleGoes ==
    ASSUME HistoryInv, PooledInv', NEW c \in Calls, LockHandle(c)
    PROVE  Goes
  <1>1. /\ pc[c].at = "wait" /\ pc' = [pc EXCEPT ![c].at = "inside"] /\ pc \in [Calls -> Call]
        /\ conns' = conns /\ handles' = handles /\ open' = open /\ closed' = closed
        /\ draining' = draining /\ durable' = durable /\ told' = told
    BY DEF LockHandle, Goto, table, HistoryInv, PooledInv, TypeOK
  <1>2. /\ \A d \in Calls \ {c} : pc'[d] = pc[d]
        /\ pc'[c].at = "inside" /\ pc'[c].id = pc[c].id /\ pc'[c].arg = pc[c].arg
        /\ pc'[c].op = pc[c].op /\ pc'[c].conn = pc[c].conn
    BY <1>1 DEF Call
  <1>3. \A d \in Calls : CallRests(d)
    BY <1>2 DEF CallRests
  <1>4. \A i \in Ids : ClosedRests(i) /\ PlaceRests(i)
    BY <1>1 DEF ClosedRests, PlaceRests, Place
  <1>5. \A i \in Ids : HandleRests(i)
    BY <1>1, <1>3, <1>4, SilentRests
  <1>6. Carries(c)' => Carries(c)
    BY <1>1, <1>2 DEF Carries, WorkStages
  <1>7. /\ Carries(c) => told[pc[c].arg].out = "running" /\ told[pc[c].arg].by = pc[c].id
        /\ pc'[c].arg \in Writes => Carries(c)'
    BY <1>1, <1>2 DEF HistoryInv, CallSound, Carries, WorkStages
  <1>8. \A d \in Calls : CallSound(d)'
    BY <1>1, <1>2, <1>6, <1>7, CallsSound
  <1>9. QED
    BY <1>1, <1>5, <1>8, SilentAlone, StepGoes

\* A handle is noted as lost, if the table still has it.
LEMMA LoseGoes ==
    ASSUME HistoryInv, PooledInv', NEW c \in Calls, Lose(c)
    PROVE  Goes
  <1> DEFINE lost == {pc[c].id} \cap open
  <1>1. /\ open' = open \ lost /\ NoteClosed(lost, "lost") /\ Finished(c)
        /\ conns' = conns /\ handles' = handles
        /\ draining' = draining /\ durable' = durable /\ told' = told
    BY DEF Lose
  <1>2. /\ pc \in [Calls -> Call] /\ closed \in [Ids -> ClosedStates] /\ open \subseteq Ids
        /\ \A i \in open : closed[i] = "none"
    BY DEF HistoryInv, PooledInv, TypeOK, HandleOK
  <1>3. \A d \in Calls : CallRests(d)
    BY <1>1, <1>2, AtRestIs
  <1>4. \A i \in Ids : ClosedRests(i)
    <2>1. lost \in SUBSET Ids
      BY <1>2
    <2>2. /\ \A i \in lost : closed'[i] = "lost"
          /\ \A i \in Ids \ lost : \/ closed'[i] = closed[i]
                                   \/ closed[i] # "none" /\ closed'[i] = "forgotten"
      BY <1>1, <1>2, <2>1, NoteClosedIs
    <2>3. QED
      BY <1>1, <1>2, <2>2 DEF ClosedRests
  <1>5. \A i \in Ids : PlaceRests(i)
    BY <1>1 DEF PlaceRests, Place
  <1>6. \A i \in Ids : HandleRests(i)
    BY <1>1, <1>3, <1>4, <1>5, SilentRests
  <1>7. \A d \in Calls : CallSound(d)'
    BY <1>1, OverSound
  <1>8. QED
    BY <1>1, <1>6, <1>7, SilentAlone, StepGoes

\* The end of a handle is noted.
LEMMA NoteFinalGoes ==
    ASSUME HistoryInv, PooledInv', NEW c \in Calls, NoteFinal(c)
    PROVE  Goes
  <1>1. /\ pc[c].at = "note" /\ NoteClosed({pc[c].id}, pc[c].out) /\ Finished(c)
        /\ conns' = conns /\ handles' = handles /\ open' = open
        /\ draining' = draining /\ durable' = durable /\ told' = told
    BY DEF NoteFinal
  <1>2. /\ pc \in [Calls -> Call] /\ closed \in [Ids -> ClosedStates]
        /\ pc[c].id \in Ids /\ closed[pc[c].id] = "none" /\ pc[c].id \notin open
        /\ pc[c].out \in {"committed", "rolled_back", "lost"}
    <2>1. PooledInv /\ CallSound(c) /\ CallOK(c) /\ EndingOK(c)
      BY DEF HistoryInv, PooledInv
    <2>2. pc \in [Calls -> Call] /\ closed \in [Ids -> ClosedStates] /\ pc[c].id \in Ids \cup {None}
      BY <2>1 DEF PooledInv, TypeOK, Call
    <2>3. QED
      BY <1>1, <2>1, <2>2 DEF CallSound, CallOK, EndingOK, EndingStages, OnHandleStages
  <1>3. \A d \in Calls : CallRests(d)
    BY <1>1, <1>2, AtRestIs
  <1>4. \A i \in Ids : ClosedRests(i)
    <2>1. {pc[c].id} \in SUBSET Ids
      BY <1>2
    <2>2. /\ \A i \in {pc[c].id} : closed'[i] = pc[c].out
          /\ \A i \in Ids \ {pc[c].id} : \/ closed'[i] = closed[i]
                                         \/ closed[i] # "none" /\ closed'[i] = "forgotten"
      BY <1>1, <1>2, <2>1, NoteClosedIs
    <2>3. Decided(pc[c].id, pc[c].out)
      BY <1>1 DEF Decided
    <2>4. QED
      BY <1>1, <1>2, <2>2, <2>3 DEF ClosedRests
  <1>5. \A i \in Ids : PlaceRests(i)
    BY <1>1 DEF PlaceRests, Place
  <1>6. \A i \in Ids : HandleRests(i)
    BY <1>1, <1>3, <1>4, <1>5, SilentRests
  <1>7. \A d \in Calls : CallSound(d)'
    BY <1>1, OverSound
  <1>8. QED
    BY <1>1, <1>6, <1>7, SilentAlone, StepGoes

\* The sweep that a call runs first leaves the connections of calls alone.
LEMMA SweepSpares ==
    ASSUME HistoryInv, NEW taken, PooledSweep(taken)
    PROVE  \A d \in Calls : pc[d].conn # None => conns'[pc[d].conn] \in {conns[pc[d].conn], Dead}
  <1>1. Expired \subseteq {i \in Ids : handles[i] # None /\ Reached(i)}
    BY DEF Expired, HistoryInv, PooledInv, TypeOK, Reached
  <1>2. QED
    BY <1>1, RollBackEachSpares DEF PooledSweep, HistoryInv

\* A begin passes its checks.
LEMMA BeginGoes ==
    ASSUME HistoryInv, PooledInv', NEW c \in Calls, Begin(c)
    PROVE  Goes
  <1>1. /\ PooledSweep({}) /\ pc[c].at = "idle"
        /\ pc' = pc \/ pc' = [pc EXCEPT ![c] = [AtRest EXCEPT !.at = "checkout", !.op = "begin"]]
        /\ handles' = handles /\ draining' = draining /\ durable' = durable /\ told' = told
        /\ PooledInv /\ pc \in [Calls -> Call]
    BY DEF Begin, Idling, HistoryInv, PooledInv, TypeOK
  <1>2. /\ \A d \in Calls \ {c} : pc'[d] = pc[d]
        /\ pc'[c] = pc[c] \/ (pc'[c].at = "checkout" /\ pc'[c].id = None)
    BY <1>1 DEF AtRest
  <1>3. \A d \in Calls : CallRests(d)
    BY <1>2 DEF CallRests
  <1>4. \A d \in Calls : pc'[d] = pc[d] \/ ~(pc'[d].at = "finish" /\ pc'[d].id \in Expired)
    BY <1>2
  <1>5. {} \subseteq open /\ {} \cap Expired = {}
    OBVIOUS
  <1>6. \A i \in Ids : HandleRests(i)
    BY <1>1, <1>3, <1>4, <1>5, SilentAlone, SweepRests
  <1>7. ~Carries(c)' /\ pc'[c].at \notin {"insert", "note"} \cup WorkStages
    BY <1>1, <1>2 DEF Carries, WorkStages
  <1>8. \A d \in Calls : CallSound(d)'
    BY <1>1, <1>2, <1>7, SweepSpares, CallsSound
  <1>9. QED
    BY <1>1, <1>6, <1>8, SilentAlone, StepGoes

\* A commit or a rollback takes its handle out of the table.
LEMMA FinishTransactionGoes ==
    ASSUME HistoryInv, PooledInv', NEW c \in Calls, NEW id \in Ids, NEW op \in FinishOps,
           FinishTransaction(c, id, op)
    PROVE  Goes
  <1>1. PICK taken : /\ PooledSweep(taken) /\ taken \subseteq open /\ taken \cap Expired = {}
                     /\ \/ pc' = pc
                        \/ /\ pc' = [pc EXCEPT ![c] = [AtRest EXCEPT !.at = "finish", !.op = op, !.id = id]]
                           /\ id \in open \ Expired
    <2>1. CASE Serves(open \ Expired, id, c)
      BY <2>1 DEF FinishTransaction, Serves
    <2>2. CASE ~Serves(open \ Expired, id, c)
      BY <2>2 DEF FinishTransaction
    <2>3. QED
      BY <2>1, <2>2
  <1>2. /\ pc[c].at = "idle" /\ handles' = handles /\ draining' = draining /\ durable' = durable
        /\ told' = told /\ PooledInv /\ pc \in [Calls -> Call]
    BY DEF FinishTransaction, Idling, HistoryInv, PooledInv, TypeOK
  <1>3. /\ \A d \in Calls \ {c} : pc'[d] = pc[d]
        /\ pc'[c] = pc[c] \/ (pc'[c].at = "finish" /\ pc'[c].id \in open \ Expired)
    BY <1>1, <1>2 DEF AtRest
  <1>4. \A d \in Calls : CallRests(d)
    BY <1>3 DEF CallRests
  <1>5. \A d \in Calls : pc'[d] = pc[d] \/ ~(pc'[d].at = "finish" /\ pc'[d].id \in Expired)
    BY <1>3
  <1>6. \A i \in Ids : HandleRests(i)
    BY <1>1, <1>2, <1>4, <1>5, SilentAlone, SweepRests
  <1>7. ~Carries(c)' /\ pc'[c].at \notin {"insert", "note"} \cup WorkStages
    BY <1>2, <1>3 DEF Carries, WorkStages
  <1>8. \A d \in Calls : CallSound(d)'
    BY <1>1, <1>2, <1>3, <1>7, SweepSpares, CallsSound
  <1>9. QED
    BY <1>2, <1>6, <1>8, SilentAlone, StepGoes

\* A statement is handed to a call, for a handle or for none.
LEMMA IssuedSafely ==
    ASSUME HistoryInv, NEW arg \in Unissued, NEW id \in Ids \cup {None}, NEW p,
           NEW out \in {"running", "failed"}, out = "running" \/ id = None,
           told' = [told EXCEPT ![arg] = [out |-> out, by |-> id, for |-> p]], durable' = durable,
           id # None => handles[id] # None /\ handles[id].owner = p
    PROVE  /\ \A w \in Writes : ToldAlone(w)'
           /\ \A i \in Ids : ToldRests(i)
           /\ \A i \in Ids : handles[i] = None => \A w \in Writes : told'[w].by # i
           /\ told'[arg].out = out /\ told'[arg].by = id
           /\ \A w \in Writes : told[w].out = "running" => told'[w] = told[w]
  <1>1. /\ arg \in Writes /\ told[arg].out = "none" /\ told \in [Writes -> Told]
        /\ told[arg].by = None /\ arg \notin durable
    BY DEF Unissued, HistoryInv, ToldAlone, PooledInv, TypeOK
  <1>2. /\ told'[arg] = [out |-> out, by |-> id, for |-> p]
        /\ \A w \in Writes \ {arg} : told'[w] = told[w]
    BY <1>1
  <1>3. \A w \in Writes : ToldAlone(w)'
    BY <1>1, <1>2 DEF HistoryInv, ToldAlone
  <1>4. \A i \in Ids : i # None
    BY NoneAssumption
  <1>5. ASSUME NEW i \in Ids
        PROVE  ToldRests(i)
    <2>1. \A w \in IssuedIn(i) : told'[w] = told[w]
      BY <1>1, <1>2, <1>4 DEF IssuedIn
    <2>2. ASSUME NEW w \in Writes, told'[w].by = i, told[w].by # i
          PROVE  told'[w].out = "running" /\ told'[w].for = handles[i].owner /\ w \notin durable'
      <3>1. w = arg
        BY <1>2, <2>2
      <3>2. id = i /\ told'[w].out = out /\ told'[w].for = p
        BY <1>2, <2>2, <3>1
      <3>3. QED
        BY <1>1, <1>4, <3>1, <3>2
    <2>3. QED
      BY <2>1, <2>2 DEF ToldRests
  <1>6. \A i \in Ids : handles[i] = None => \A w \in Writes : told'[w].by # i
    BY <1>2, <1>4 DEF HistoryInv, HandleSound, IssuedIn
  <1>7. QED
    BY <1>1, <1>2, <1>3, <1>5, <1>6

\* A call on a handle finds it in the table.
LEMMA LookUpGoes ==
    ASSUME HistoryInv, PooledInv', NEW c \in Calls, NEW id \in Ids, NEW op \in HandleOps,
           NEW arg \in Arguments(op), LookUp(c, id, op, arg)
    PROVE  Goes
  <1> DEFINE waiting == [AtRest EXCEPT !.at = "wait", !.op = op, !.id = id, !.arg = arg]
             issued == [out |-> "running", by |-> id, for |-> PrincipalOf[c]]
  <1>1. /\ PooledSweep({}) /\ pc[c].at = "idle" /\ handles' = handles /\ draining' = draining
        /\ durable' = durable /\ PooledInv /\ pc \in [Calls -> Call]
    BY DEF LookUp, Idling, HistoryInv, PooledInv, TypeOK
  <1>2. \/ pc' = pc /\ told' = told
        \/ /\ Serves(open', id, c) /\ pc' = [pc EXCEPT ![c] = waiting]
           /\ told' = IF arg \in Writes THEN [told EXCEPT ![arg] = issued] ELSE told
    BY DEF LookUp
  <1>3. open' \subseteq open /\ \A i \in open : handles[i] # None
    BY <1>1 DEF PooledSweep, PooledInv, TypeOK
  <1>4. /\ arg \in Writes => op \in {"run", "copy_in"} /\ arg \in Unissued
        /\ op \in {"run", "copy_in"} => arg \in Writes
    BY NoneAssumption, ArgumentsAssumption DEF Arguments, Unissued, HandleOps
  <1>5. /\ \A d \in Calls \ {c} : pc'[d] = pc[d]
        /\ pc'[c] = pc[c] \/ pc'[c] = waiting
    BY <1>1, <1>2
  <1>6. /\ waiting.at = "wait" /\ waiting.id = id /\ waiting.op = op /\ waiting.arg = arg
    BY DEF AtRest
  <1>7. /\ \A w \in Writes : ToldAlone(w)'
        /\ \A i \in Ids : ToldRests(i)
        /\ \A i \in Ids : handles[i] = None => \A w \in Writes : told'[w].by # i
        /\ \A w \in Writes : told[w].out = "running" => told'[w] = told[w]
    <2>1. CASE told' = told
      BY <1>1, <2>1, SilentAlone
    <2>2. CASE told' # told
      <3>1. arg \in Unissued /\ told' = [told EXCEPT ![arg] = issued] /\ Serves(open', id, c)
        BY <1>2, <1>4, <2>2
      <3>2. handles[id] # None /\ handles[id].owner = PrincipalOf[c]
        BY <1>3, <3>1 DEF Serves
      <3>3. QED
        BY <1>1, <3>1, <3>2, IssuedSafely
    <2>3. QED
      BY <2>1, <2>2
  <1>8. Carries(c)' => /\ told'[pc'[c].arg].out = "running" /\ told'[pc'[c].arg].by = pc'[c].id
                       /\ told[pc'[c].arg].out # "running"
    <2> SUFFICES ASSUME Carries(c)'
                 PROVE  /\ told'[pc'[c].arg].out = "running" /\ told'[pc'[c].arg].by = pc'[c].id
                        /\ told[pc'[c].arg].out # "running"
      OBVIOUS
    <2>1. pc'[c] # pc[c]
      BY <1>1 DEF Carries, WorkStages
    <2>2. pc'[c] = waiting
      BY <1>5, <2>1
    <2>3. op \in {"run", "copy_in"}
      BY <1>6, <2>2 DEF Carries, HandleOps, WorkStages
    <2>4. arg \in Writes /\ arg \in Unissued /\ told' = [told EXCEPT ![arg] = issued]
      BY <1>2, <1>4, <2>1, <2>3
    <2>5. told[arg].out = "none" /\ told'[arg] = issued
      BY <2>4 DEF Unissued, HistoryInv, PooledInv, TypeOK
    <2>6. QED
      BY <1>6, <2>2, <2>5
  <1> HIDE DEF waiting, issued
  <1>9. \A d \in Calls : CallRests(d)
    <2>1. pc'[c] = waiting => CallRests(c)
      <3>1. CASE id \in open
        BY <1>6, <3>1 DEF CallRests
      <3>2. CASE id \notin open
        BY <1>1, <1>2, <1>3, <1>5, <3>2 DEF CallRests, Serves
      <3>3. QED
        BY <3>1, <3>2
    <2>2. QED
      BY <1>5, <2>1 DEF CallRests
  <1>10. \A d \in Calls : pc'[d] = pc[d] \/ ~(pc'[d].at = "finish" /\ pc'[d].id \in Expired)
    BY <1>5, <1>6
  <1>11. {} \subseteq open /\ {} \cap Expired = {}
    OBVIOUS
  <1>12. \A i \in Ids : HandleRests(i)
    BY <1>1, <1>7, <1>9, <1>10, <1>11, SweepRests
  <1>13. /\ pc'[c].at \notin {"insert", "note"}
         /\ pc'[c].at \in WorkStages /\ pc'[c].arg \in Writes => Carries(c)'
    BY <1>1, <1>4, <1>5, <1>6 DEF Carries, WorkStages
  <1>14. \A d \in Calls : CallSound(d)'
    BY <1>1, <1>5, <1>7, <1>8, <1>13, SweepSpares, CallsSound
  <1>15. QED
    BY <1>1, <1>7, <1>12, <1>14, StepGoes

\* A step on a place of the pool no handle in reach has.
LEMMA OwnPlaceRests ==
    ASSUME PooledInv, NEW k \in Slots,
           \A i \in Ids : Reached(i) /\ handles[i] # None => handles[i].conn # k,
           \A j \in Slots \ {k} : conns'[j] = conns[j],
           handles' = handles, open' = open, draining' = draining,
           \A d \in Calls : pc'[d].id \in {None, pc[d].id}
    PROVE  \A i \in Ids : PlaceRests(i)
  <1>1. ASSUME NEW i \in Ids, Reached(i)'
        PROVE  Place(i)' = Place(i)
    <2>1. Reached(i) /\ handles[i] # None
      BY <1>1, NoneAssumption DEF Reached, PooledInv, TypeOK, CallOK
    <2>2. handles[i].conn \in Slots \ {k}
      BY <2>1 DEF PooledInv, TypeOK, PooledHandle
    <2>3. QED
      BY <2>2 DEF Place
  <1>2. QED
    BY <1>1 DEF PlaceRests

\* A call without a handle takes a connection.
LEMMA TakeGoes ==
    ASSUME HistoryInv, PooledInv', NEW c \in Calls, NEW op \in LaneOps,
           NEW arg \in LaneArguments(op), Take(c, op, arg)
    PROVE  Goes
  <1> DEFINE using(k) == [AtRest EXCEPT !.at = "using", !.op = op, !.conn = k, !.arg = arg]
             issued(out) == [out |-> out, by |-> None, for |-> PrincipalOf[c]]
             telling(out) == told' = IF arg \in Writes THEN [told EXCEPT ![arg] = issued(out)] ELSE told
  <1>1. /\ pc[c].at = "idle" /\ handles' = handles /\ draining' = draining /\ open' = open
        /\ closed' = closed /\ durable' = durable /\ PooledInv
        /\ pc \in [Calls -> Call] /\ conns \in [Slots -> Sessions]
    BY DEF Take, Idling, HistoryInv, PooledInv, TypeOK, table
  <1>2. \/ telling("failed") /\ conns' = conns /\ pc' = pc
        \/ /\ telling("running")
           /\ \E k \in Available : conns' = [conns EXCEPT ![k] = Idle] /\ pc' = [pc EXCEPT ![c] = using(k)]
    BY RecycledIdle DEF Take
  <1>3. /\ arg \in Writes => arg \in Unissued /\ op \in {"write", "write_outside", "dry_run"}
        /\ op \in {"run", "copy_in", "write", "write_outside", "dry_run"} => arg \in Writes
    BY NoneAssumption DEF LaneArguments, Unissued, LaneOps
  <1>4. /\ \A w \in Writes : ToldAlone(w)'
        /\ \A i \in Ids : ToldRests(i)
        /\ \A i \in Ids : handles[i] = None => \A w \in Writes : told'[w].by # i
        /\ \A w \in Writes : told[w].out = "running" => told'[w] = told[w]
        /\ arg \in Writes /\ telling("running") => told'[arg].out = "running" /\ told'[arg].by = None
    <2>1. PICK out \in {"running", "failed"} : telling(out)
      BY <1>2
    <2>2. CASE arg \notin Writes
      <3>1. told' = told
        BY <2>1, <2>2
      <3>2. QED
        BY <1>1, <2>2, <3>1, SilentAlone
    <2>3. CASE arg \in Writes
      <3>1. arg \in Unissued /\ told' = [told EXCEPT ![arg] = issued(out)]
        BY <1>3, <2>1, <2>3
      <3>2. /\ \A w \in Writes : ToldAlone(w)'
            /\ \A i \in Ids : ToldRests(i)
            /\ \A i \in Ids : handles[i] = None => \A w \in Writes : told'[w].by # i
            /\ told'[arg].out = out /\ told'[arg].by = None
            /\ \A w \in Writes : told[w].out = "running" => told'[w] = told[w]
        BY <1>1, <3>1, IssuedSafely
      <3>3. telling("running") => told'[arg].out = "running"
        BY <2>3 DEF HistoryInv, PooledInv, TypeOK
      <3>4. QED
        BY <3>2, <3>3
    <2>4. QED
      BY <2>2, <2>3
  <1>5. CASE conns' = conns /\ pc' = pc
    <2>1. \A i \in Ids : ClosedRests(i) /\ PlaceRests(i)
      BY <1>1, <1>5 DEF ClosedRests, PlaceRests, Place
    <2>2. \A d \in Calls : CallRests(d)
      BY <1>5 DEF CallRests
    <2>3. \A i \in Ids : HandleRests(i)
      BY <1>1, <1>4, <2>1, <2>2, StepRests
    <2>4. ~Carries(c)' /\ pc'[c].at \notin {"insert", "note"} \cup WorkStages
      BY <1>1, <1>5 DEF Carries, WorkStages
    <2>5. \A d \in Calls : CallSound(d)'
      BY <1>4, <1>5, <2>4, CallsSound
    <2>6. QED
      BY <1>1, <1>4, <2>3, <2>5, StepGoes
  <1>6. CASE ~(conns' = conns /\ pc' = pc)
    <2>1. PICK k \in Available : conns' = [conns EXCEPT ![k] = Idle] /\ pc' = [pc EXCEPT ![c] = using(k)]
      BY <1>2, <1>6
    <2>2. telling("running")
      BY <1>2, <1>6
    <2>3. k \in Slots /\ ~Taken(k) /\ k # None
      BY NoneAssumption DEF Available
    <2>4. /\ \A d \in Calls : pc[d].conn # k
          /\ \A i \in Ids : Reached(i) /\ handles[i] # None => handles[i].conn # k
      BY <2>3 DEF Taken, Referenced, Reached
    <2>5. /\ \A d \in Calls \ {c} : pc'[d] = pc[d]
          /\ pc'[c].at = "using" /\ pc'[c].id = None /\ pc'[c].op = op /\ pc'[c].arg = arg
          /\ \A j \in Slots \ {k} : conns'[j] = conns[j]
      BY <1>1, <2>1 DEF AtRest
    <2> HIDE DEF using, issued, telling
    <2>6. \A d \in Calls : CallRests(d)
      BY <2>5 DEF CallRests
    <2>7. \A i \in Ids : ClosedRests(i)
      BY <1>1 DEF ClosedRests
    <2>8. \A d \in Calls : pc'[d].id \in {None, pc[d].id}
      BY <2>5
    <2>9. \A i \in Ids : PlaceRests(i)
      BY <1>1, <2>3, <2>4, <2>5, <2>8, OwnPlaceRests
    <2>10. \A i \in Ids : HandleRests(i)
      BY <1>1, <1>4, <2>6, <2>7, <2>9, StepRests
    <2>11. Carries(c)' => /\ told'[pc'[c].arg].out = "running" /\ told'[pc'[c].arg].by = pc'[c].id
                          /\ told[pc'[c].arg].out # "running"
      BY <1>3, <1>4, <2>2, <2>5 DEF Carries, Unissued, WorkStages
    <2>12. \A d \in Calls : pc[d].conn # None => conns'[pc[d].conn] = conns[pc[d].conn]
      BY <1>1, <2>4, <2>5 DEF Call
    <2>13. pc'[c].arg \in Writes => Carries(c)'
      BY <1>3, <2>5 DEF Carries, WorkStages
    <2>14. \A d \in Calls : CallSound(d)'
      BY <1>4, <2>5, <2>11, <2>12, <2>13, CallsSound
    <2>15. QED
      BY <1>1, <1>4, <2>10, <2>14, StepGoes
  <1>7. QED
    BY <1>5, <1>6

\* BEGIN on a connection out of the pool.
LEMMA BeginsOpened ==
    ASSUME NEW r \in Then(Track(Idle), LAMBDA t : BeginBlock(t, "write")), r.out = "ok"
    PROVE  r.st = Opened("write")
  <1> DEFINE F(t) == BeginBlock(t, "write")
  <1>1. PICK q \in Track(Idle) :
           r \in (IF q.out = "ok" THEN {[x EXCEPT !.kept = @ \cup q.kept] : x \in F(q.st)} ELSE {q})
    <2>1. r \in Then(Track(Idle), F)
      OBVIOUS
    <2> HIDE DEF F
    <2>2. QED
      BY <2>1 DEF Then
  <1>2. q = Reply(Idle, "ok") \/ q = Reply(Idle, "refused")
    BY TrackIs
  <1>3. q = Reply(Idle, "ok")
    BY <1>1, <1>2 DEF Reply
  <1>4. PICK x \in BeginBlock(Idle, "write") : r = [x EXCEPT !.kept = @ \cup {}]
    BY <1>1, <1>3 DEF Reply
  <1>5. x \in BareOr({Opened("write")}, Parked)
    BY ParkedSessions, BeginBlockOpens
  <1>6. r = x
    BY <1>4, <1>5 DEF BareOr, Bare
  <1>7. QED
    BY <1>5, <1>6 DEF BareOr

\* A step of a call on a connection of its own, with nothing said of any write.
LEMMA OwnPlaceGoes ==
    ASSUME HistoryInv, PooledInv', NEW c \in Calls, NEW k \in Slots,
           \A i \in Ids : Reached(i) /\ handles[i] # None => handles[i].conn # k,
           \A d \in Calls \ {c} : pc[d].conn # k,
           \A j \in Slots \ {k} : conns'[j] = conns[j],
           handles' = handles, open' = open, closed' = closed, draining' = draining,
           durable' = durable, told' = told,
           \A d \in Calls \ {c} : pc'[d] = pc[d],
           pc'[c].id = None, pc'[c].at \in {"idle", "insert"},
           pc'[c].at = "insert" => conns'[pc'[c].conn] \in {Opened("write"), Dead}
    PROVE  Goes
  <1>1. PooledInv
    BY DEF HistoryInv
  <1>2. \A d \in Calls : CallRests(d)
    BY DEF CallRests
  <1>3. \A i \in Ids : ClosedRests(i)
    BY DEF ClosedRests
  <1>4. \A d \in Calls : pc'[d].id \in {None, pc[d].id}
    OBVIOUS
  <1>5. \A i \in Ids : PlaceRests(i)
    BY <1>1, <1>4, OwnPlaceRests
  <1>6. \A i \in Ids : HandleRests(i)
    BY <1>2, <1>3, <1>5, SilentRests
  <1>7. \A d \in Calls \ {c} : pc[d].conn # None => conns'[pc[d].conn] = conns[pc[d].conn]
    BY <1>1 DEF PooledInv, TypeOK, Call
  <1>8. \A d \in Calls : CallSound(d)'
    <2>1. ~Carries(c)' /\ pc'[c].at \notin WorkStages
      BY DEF Carries, WorkStages
    <2>2. QED
      BY <1>7, <2>1, CallsSound
  <1>9. QED
    BY <1>6, <1>8, SilentAlone, StepGoes

\* A begin gets a connection with a block, or none.
LEMMA OpenBlockGoes ==
    ASSUME HistoryInv, PooledInv', NEW c \in Calls, OpenBlock(c)
    PROVE  Goes
  <1>1. /\ pc[c].at = "checkout" /\ handles' = handles /\ open' = open /\ closed' = closed
        /\ draining' = draining /\ durable' = durable /\ told' = told
        /\ PooledInv /\ pc \in [Calls -> Call] /\ CallOK(c) /\ conns \in [Slots -> Sessions]
    BY DEF OpenBlock, table, HistoryInv, PooledInv, TypeOK
  <1>2. pc[c].id = None /\ pc[c].conn = None
    BY <1>1 DEF CallOK, OnHandleStages
  <1>3. CASE Finished(c) /\ UNCHANGED conns
    <2>1. \A d \in Calls : CallRests(d)
      BY <1>1, <1>3, AtRestIs
    <2>2. \A i \in Ids : ClosedRests(i) /\ PlaceRests(i)
      BY <1>1, <1>3 DEF ClosedRests, PlaceRests, Place
    <2>3. \A i \in Ids : HandleRests(i)
      BY <1>1, <2>1, <2>2, SilentRests
    <2>4. \A d \in Calls : CallSound(d)'
      BY <1>1, <1>3, OverSound
    <2>5. QED
      BY <1>1, <2>3, <2>4, SilentAlone, StepGoes
  <1>4. CASE ~(Finished(c) /\ UNCHANGED conns)
    <2>1. PICK k \in Available : \E s \in Recycled(k) :
             \E r \in Then(Track(s), LAMBDA t : BeginBlock(t, "write")) :
             /\ conns' = [conns EXCEPT ![k] = r.st]
             /\ IF r.out = "ok"
                THEN pc' = [pc EXCEPT ![c].at = "insert", ![c].conn = k]
                ELSE Finished(c)
      BY <1>4 DEF OpenBlock
    <2>2. PICK r \in Then(Track(Idle), LAMBDA t : BeginBlock(t, "write")) :
             /\ conns' = [conns EXCEPT ![k] = r.st]
             /\ IF r.out = "ok"
                THEN pc' = [pc EXCEPT ![c].at = "insert", ![c].conn = k]
                ELSE Finished(c)
      BY <2>1, RecycledIdle
    <2>3. k \in Slots /\ ~Taken(k)
      BY DEF Available
    <2>4. /\ \A d \in Calls : pc[d].conn # k
          /\ \A i \in Ids : Reached(i) /\ handles[i] # None => handles[i].conn # k
      BY <2>3 DEF Taken, Referenced, Reached
    <2>5. conns'[k] = r.st /\ \A j \in Slots \ {k} : conns'[j] = conns[j]
      BY <1>1, <2>2, <2>3
    <2>6. /\ \A d \in Calls \ {c} : pc'[d] = pc[d]
          /\ pc'[c].id = None /\ pc'[c].at \in {"idle", "insert"}
          /\ pc'[c].at = "insert" => conns'[pc'[c].conn] \in {Opened("write"), Dead}
      <3>1. CASE r.out = "ok"
        <4>1. /\ \A d \in Calls \ {c} : pc'[d] = pc[d]
              /\ pc'[c].at = "insert" /\ pc'[c].conn = k /\ pc'[c].id = None
          BY <1>1, <1>2, <2>2, <3>1 DEF Call
        <4>2. r.st = Opened("write")
          BY <3>1, BeginsOpened
        <4>3. QED
          BY <2>5, <4>1, <4>2
      <3>2. CASE r.out # "ok"
        BY <1>1, <2>2, <3>2, AtRestIs
      <3>3. QED
        BY <3>1, <3>2
    <2>7. QED
      BY <1>1, <2>3, <2>4, <2>5, <2>6, OwnPlaceGoes
  <1>5. QED
    BY <1>3, <1>4

\* begin's new handle.
LEMMA NewHandleGoes ==
    ASSUME HistoryInv, PooledInv', NEW c \in Calls, pc[c].at = "insert", NEW i \in Fresh,
           NEW h \in PooledHandle, h.conn = pc[c].conn, h.savepoints = << >>, h.done = {},
           handles' = [handles EXCEPT ![i] = h], open' = open \cup {i},
           conns' = conns, closed' = closed, draining' = draining, durable' = durable,
           told' = told, Finished(c)
    PROVE  Goes
  <1>1. /\ i \in Ids /\ handles[i] = None /\ h # None /\ handles'[i] = h
        /\ \A j \in Ids \ {i} : handles'[j] = handles[j]
        /\ PooledInv /\ pc \in [Calls -> Call]
    BY NoneAssumption DEF Fresh, HistoryInv, PooledInv, TypeOK
  <1>2. \A d \in Calls : CallRests(d)
    BY <1>1, AtRestIs
  <1>3. ASSUME NEW j \in Ids, j # i
        PROVE  HandleRests(j)
    <2>1. ClosedRests(j)
      BY DEF ClosedRests
    <2>2. PlaceRests(j)
      BY <1>1, <1>3 DEF PlaceRests, Place
    <2>3. /\ ToldRests(j) /\ (handles[j] = None => \A w \in Writes : told'[w].by # j)
          /\ durable \subseteq durable' /\ \A w \in durable' \ durable : told[w].by # j
      BY SilentAlone
    <2>4. handles'[j] = handles[j] /\ (j \in open' => j \in open) /\ (j \in draining' => j \in draining \cup open)
      BY <1>1, <1>3
    <2>5. QED
      BY <1>1, <1>2, <2>1, <2>2, <2>3, <2>4, StepRests
  <1>4. /\ \A w \in Writes : told'[w].by # i
        /\ closed'[i] = "none" /\ \A d \in Calls : pc'[d].id # i
    <2>1. \A d \in Calls : pc[d].id # i
      BY <1>1, NoneAssumption DEF PooledInv, CallOK
    <2>2. \A d \in Calls : pc'[d].id # i
      BY <1>1, <2>1, NoneAssumption, AtRestIs
    <2>3. QED
      BY <1>1, <2>2 DEF PooledInv, HandleOK, HistoryInv, HandleSound, IssuedIn
  <1>5. IssuedIn(i)' = {} /\ DoneIn(i)' = {}
    BY <1>4 DEF IssuedIn, DoneIn
  <1>6. OpenWork(i)'
    <2>1. Place(i)' \in {Opened("write"), Dead}
      <3>1. conns[pc[c].conn] \in {Opened("write"), Dead}
        BY DEF HistoryInv, CallSound
      <3>2. QED
        BY <1>1, <3>1 DEF Place
    <2>2. Mirrors(h, Opened("write")) /\ Mirrors(h, Dead)
      BY StackBegun, MirrorsRests
    <2>3. \A W : Opened("write") \in Within(W, Cursors) /\ Dead \in Within(W, Cursors)
      BY OpenedWithin, NothingWithin
    <2>4. QED
      BY <1>1, <1>5, <2>1, <2>2, <2>3 DEF OpenWork
  <1>7. HandleSound(i)'
    <2>1. ~Decided(i, "committed")' /\ ~Decided(i, "rolled_back")'
      BY <1>4 DEF Decided
    <2>2. handles'[i] # None /\ handles'[i].done = {}
      BY <1>1
    <2>3. QED
      BY <1>5, <1>6, <2>1, <2>2 DEF HandleSound
  <1>8. Promised!Step(i)
    <2>1. PhaseOf(i) = "fresh" /\ PhaseOf(i)' = "open"
      BY <1>1 DEF PhaseOf
    <2>2. Promised!Keeps(i)
      BY <1>1, <1>4 DEF Promised!Keeps, Promised!Sends, Promised!Gains
    <2>3. QED
      BY <1>1, <2>1, <2>2 DEF Promised!Step, Promised!Begin
  <1>9. \A d \in Calls : CallSound(d)'
    BY OverSound
  <1>10. QED
    BY <1>3, <1>7, <1>8, <1>9, SilentAlone, StepGoes

\* begin puts its handle into the table, or finds that it has been overtaken.
LEMMA InsertHandleGoes ==
    ASSUME HistoryInv, PooledInv', NEW c \in Calls, InsertHandle(c)
    PROVE  Goes
  <1> DEFINE k == pc[c].conn
             new == [conn |-> k, owner |-> PrincipalOf[c], savepoints |-> << >>,
                     done |-> {}, due |-> FALSE]
  <1>1. /\ pc[c].at = "insert" /\ Finished(c) /\ closed' = closed
        /\ draining' = draining /\ durable' = durable /\ told' = told
        /\ PooledInv /\ pc \in [Calls -> Call] /\ CallOK(c) /\ conns \in [Slots -> Sessions]
    BY DEF InsertHandle, HistoryInv, PooledInv, TypeOK
  <1>2. k \in Slots /\ k # None
    BY <1>1 DEF CallOK, Call
  <1>3. CASE OpenFor(open, PrincipalOf[c]) # {}
    <2>1. handles' = handles /\ open' = open /\ \E s \in RollBackQuietly(conns[k]) : conns' = [conns EXCEPT ![k] = s]
      BY <1>3 DEF InsertHandle
    <2>2. \A j \in Slots \ {k} : conns'[j] = conns[j]
      BY <1>1, <2>1
    <2>3. /\ \A i \in Ids : Reached(i) /\ handles[i] # None => handles[i].conn # k
          /\ \A d \in Calls \ {c} : pc[d].conn # k
      BY <1>1, <1>2 DEF PooledInv, Sharing
    <2>4. /\ \A d \in Calls \ {c} : pc'[d] = pc[d]
          /\ pc'[c].at = "idle" /\ pc'[c].id = None
      BY <1>1, AtRestIs
    <2> HIDE DEF k
    <2>5. QED
      BY <1>1, <1>2, <2>1, <2>2, <2>3, <2>4, OwnPlaceGoes
  <1>4. CASE OpenFor(open, PrincipalOf[c]) = {}
    <2>1. PICK i \in Fresh : /\ handles' = [handles EXCEPT ![i] = new]
                             /\ open' = open \cup {i} /\ conns' = conns
      BY <1>4 DEF InsertHandle
    <2>2. new \in PooledHandle
      BY <1>2, PrincipalOfAssumption DEF PooledHandle
    <2>3. new.conn = pc[c].conn /\ new.savepoints = << >> /\ new.done = {}
      OBVIOUS
    <2> HIDE DEF new, k
    <2>4. QED
      BY <1>1, <2>1, <2>2, <2>3, NewHandleGoes
  <1>5. QED
    BY <1>3, <1>4

\* What a call without a handle makes durable: its own write, as it says.
KeptFor(op, arg, r) ==
    /\ op \in {"read", "catalog", "dry_run"} => r.kept = {}
    /\ op \in {"write", "write_outside"} =>
        /\ r.kept = {} \/ r.kept = {arg}
        /\ r.out = "ok" => r.kept = {arg}
        /\ r.out \notin {"ok", "unknown", "error"} => r.kept = {}

\* A call without a handle on a connection out of the pool.
LEMMA OnTakenKept ==
    ASSUME NEW s \in Parked, NEW op \in LaneOps, NEW arg, ArgumentOK(op, arg),
           NEW r \in OnTaken(s, op, arg)
    PROVE  KeptFor(op, arg, r)
  <1> DEFINE l == [NewLane EXCEPT !.s = s]
  <1>1. l \in QuietLane /\ l \in RestingLane
    BY NewLaneRests DEF RestingLane, QuietLane, LaneType, NewLane, Parked
  <1>2. CASE op = "read"
    <2>1. PICK x \in ReadWhole(l) : r = [x EXCEPT !.st = x.st.s]
      BY <1>2 DEF OnTaken, OfSession
    <2> HIDE DEF l
    <2>2. QED
      BY <1>1, <1>2, <2>1, ReadWholeBare DEF Bare, KeptFor
  <1>3. CASE op = "catalog"
    <2>1. PICK x \in CatalogOnLane(l) : r = [x EXCEPT !.st = x.st.s]
      BY <1>3 DEF OnTaken, OfSession
    <2> HIDE DEF l
    <2>2. QED
      BY <1>1, <1>3, <2>1, CatalogBare DEF Bare, KeptFor
  <1>4. CASE op \in {"write", "write_outside"}
    <2>1. arg \in Writes /\ \E outside \in BOOLEAN : r \in Autocommit(s, arg, outside)
      BY <1>4 DEF OnTaken, ArgumentOK
    <2>2. r \in Alone(arg)
      BY <2>1, AutocommitKeeps
    <2>3. QED
      BY <1>4, <2>2 DEF Alone, KeptFor
  <1>5. CASE op = "dry_run"
    <2>1. arg \in Writes /\ r \in RunThenRollback(s, arg)
      BY <1>5 DEF OnTaken, ArgumentOK
    <2>2. QED
      BY <1>5, <2>1, RunThenRollbackKeeps DEF Bare, KeptFor
  <1>6. QED
    BY <1>2, <1>3, <1>4, <1>5 DEF LaneOps

\* The same with track() before it.
LEMMA TrackedKept ==
    ASSUME NEW s \in Parked, NEW op \in LaneOps, NEW arg, ArgumentOK(op, arg),
           NEW r \in Then(Track(s), LAMBDA t : OnTaken(t, op, arg))
    PROVE  KeptFor(op, arg, r)
  <1> DEFINE F(t) == OnTaken(t, op, arg)
  <1>1. PICK q \in Track(s) :
           r \in (IF q.out = "ok" THEN {[x EXCEPT !.kept = @ \cup q.kept] : x \in F(q.st)} ELSE {q})
    <2>1. r \in Then(Track(s), F)
      OBVIOUS
    <2> HIDE DEF F
    <2>2. QED
      BY <2>1 DEF Then
  <1>2. q = Reply(s, "ok") \/ q = Reply(s, "refused")
    BY TrackIs
  <1>3. CASE q = Reply(s, "refused")
    <2>1. r = Reply(s, "refused")
      BY <1>1, <1>3 DEF Reply
    <2>2. QED
      BY <2>1 DEF Reply, KeptFor
  <1>4. CASE q = Reply(s, "ok")
    <2>1. PICK x \in OnTaken(s, op, arg) : r = [x EXCEPT !.kept = @ \cup {}]
      BY <1>1, <1>4 DEF Reply
    <2>2. KeptFor(op, arg, x) /\ x \in Replies(Sessions)
      BY OnTakenKept, OnTakenKeeps
    <2>3. r = x
      BY <2>1, <2>2 DEF Replies
    <2>4. QED
      BY <2>2, <2>3
  <1>5. QED
    BY <1>2, <1>3, <1>4

\* A call without a handle does its work and gives its connection back.
LEMMA UseGoes ==
    ASSUME HistoryInv, PooledInv', NEW c \in Calls, Use(c)
    PROVE  Goes
  <1> DEFINE k == pc[c].conn
             arg == pc[c].arg
             op == pc[c].op
             answer(r) == IF op = "dry_run" THEN "undone"
                          ELSE AnswerOf(IF r.out = "refused" THEN "error" ELSE r.out)
  <1>1. /\ pc[c].at = "using" /\ Finished(c) /\ handles' = handles /\ open' = open /\ closed' = closed
        /\ draining' = draining
        /\ PooledInv /\ pc \in [Calls -> Call] /\ CallOK(c) /\ conns \in [Slots -> Sessions]
        /\ told \in [Writes -> Told] /\ durable \subseteq Writes
    BY DEF Use, table, HistoryInv, PooledInv, TypeOK
  <1>2. /\ k \in Slots /\ k # None /\ pc[c].id = None /\ conns[k] \in Parked /\ op \in LaneOps
        /\ ArgumentOK(op, arg)
    BY <1>1 DEF CallOK, Call, OnHandleStages
  <1>3. PICK r \in Then(Track(conns[k]), LAMBDA s : OnTaken(s, op, arg)) :
           /\ conns' = [conns EXCEPT ![k] = r.st]
           /\ durable' = durable \cup r.kept
           /\ told' = IF arg \in Writes THEN [told EXCEPT ![arg].out = answer(r)] ELSE told
    BY DEF Use
  <1>4. KeptFor(op, arg, r)
    BY <1>2, <1>3, TrackedKept
  <1>5. /\ arg \in Writes <=> op \in {"write", "write_outside", "dry_run"}
        /\ arg \in Writes <=> Carries(c)
        /\ arg \in Writes => told[arg].out = "running" /\ told[arg].by = None
    <2>1. op \in {"write", "write_outside", "dry_run"} <=> Carries(c)
      BY <1>1, <1>2 DEF Carries, LaneOps, WorkStages
    <2>2. Carries(c) => told[arg].out = "running" /\ told[arg].by = None
      BY <1>2 DEF HistoryInv, CallSound
    <2>3. arg \in Writes => Carries(c)
      BY <1>1 DEF HistoryInv, CallSound, WorkStages
    <2>4. QED
      BY <1>2, <2>1, <2>2, <2>3 DEF ArgumentOK
  <1>6. arg \in Writes => arg \notin durable
    BY <1>5 DEF HistoryInv, ToldAlone
  <1>7. /\ arg \notin Writes => told' = told /\ durable' = durable
        /\ arg \in Writes => /\ told' = [told EXCEPT ![arg].out = answer(r)]
                             /\ durable' = durable \/ durable' = durable \cup {arg}
        /\ durable \subseteq durable'
    BY <1>2, <1>3, <1>4, <1>5 DEF KeptFor, LaneOps
  <1>8. arg \in Writes => /\ answer(r) = "done" => arg \in durable'
                          /\ answer(r) \in {"running", "undone"} => arg \notin durable'
                          /\ answer(r) # "none"
    BY <1>3, <1>4, <1>5, <1>6 DEF KeptFor, AnswerOf
  <1> HIDE DEF k, op, answer
  <1>9. /\ \A w \in Writes \ {arg} : told'[w] = told[w]
        /\ arg \in Writes => told'[arg].out = answer(r) /\ told'[arg].by = None
    BY <1>1, <1>5, <1>7 DEF Told
  <1>10. \A w \in Writes : ToldAlone(w)'
    <2>1. ASSUME NEW w \in Writes, w # arg
          PROVE  ToldAlone(w)'
      <3>1. told'[w] = told[w] /\ (w \in durable' <=> w \in durable) /\ ToldAlone(w)
        BY <1>7, <1>9, <2>1 DEF HistoryInv
      <3>2. QED
        BY <3>1 DEF ToldAlone
    <2>2. ASSUME NEW w \in Writes, w = arg
          PROVE  ToldAlone(w)'
      <3>1. /\ told'[w].out = answer(r) /\ answer(r) # "none"
            /\ answer(r) = "done" => w \in durable'
            /\ answer(r) \in {"running", "undone"} => w \notin durable'
        BY <1>8, <1>9, <2>2
      <3>2. QED
        BY <3>1 DEF ToldAlone
    <2>3. QED
      BY <2>1, <2>2
  <1>11. ASSUME NEW i \in Ids
         PROVE  /\ ToldRests(i)
                /\ handles[i] = None => \A w \in Writes : told'[w].by # i
                /\ \A w \in durable' \ durable : told[w].by # i
    <2>1. i # None
      BY NoneAssumption
    <2>2. \A w \in Writes : told'[w].by = i => told'[w] = told[w]
      BY <1>5, <1>9, <2>1
    <2>3. \A w \in IssuedIn(i) : told'[w] = told[w]
      BY <1>5, <1>9, <2>1 DEF IssuedIn
    <2>4. ToldRests(i)
      BY <2>2, <2>3 DEF ToldRests
    <2>5. handles[i] = None => \A w \in Writes : told'[w].by # i
      BY <2>2 DEF HistoryInv, HandleSound, IssuedIn
    <2>6. \A w \in durable' \ durable : told[w].by # i
      BY <1>5, <1>7, <2>1
    <2>7. QED
      BY <2>4, <2>5, <2>6
  <1>12. \A j \in Slots \ {k} : conns'[j] = conns[j]
    BY <1>1, <1>3
  <1>13. /\ \A i \in Ids : Reached(i) /\ handles[i] # None => handles[i].conn # k
         /\ \A d \in Calls \ {c} : pc[d].conn # k
    BY <1>1, <1>2 DEF PooledInv, Sharing, k
  <1>14. /\ \A d \in Calls \ {c} : pc'[d] = pc[d]
         /\ pc'[c].id = None /\ \A d \in Calls : CallRests(d)
    BY <1>1, AtRestIs
  <1>15. \A i \in Ids : PlaceRests(i)
    <2>1. \A d \in Calls : pc'[d].id \in {None, pc[d].id}
      BY <1>14
    <2>2. QED
      BY <1>1, <1>2, <1>12, <1>13, <2>1, OwnPlaceRests
  <1>16. \A i \in Ids : ClosedRests(i)
    BY <1>1 DEF ClosedRests
  <1>17. \A i \in Ids : HandleRests(i)
    BY <1>1, <1>7, <1>11, <1>14, <1>15, <1>16, StepRests
  <1>18. \A d \in Calls : CallSound(d)'
    <2>1. \A d \in Calls \ {c} : pc[d].conn # None => conns'[pc[d].conn] \in {conns[pc[d].conn], Dead}
      BY <1>1, <1>12, <1>13 DEF Call
    <2>2. \A w \in Writes : told[w].out = "running" /\ ~(Carries(c) /\ pc[c].arg = w) => told'[w] = told[w]
      BY <1>5, <1>9
    <2>3. QED
      BY <1>1, <2>1, <2>2, OverSound
  <1>19. QED
    BY <1>7, <1>10, <1>17, <1>18, StepGoes

\* A COMMIT of the block of a handle would keep what the handle remembers.
LEMMA MirrorsPending ==
    ASSUME NEW h, NEW s \in Sessions, Mirrors(h, s), s.alive, ~s.failed
    PROVE  Pending(s) = h.done
  <1>1. PICK F \in Stacks : Stack(h, F) /\ s \in Based("write", F)
    BY DEF Mirrors
  <1>2. s.frames = F /\ s \in Session
    BY <1>1 DEF Based, Sessions
  <1>3. QED
    BY <1>1, <1>2, PendingBelow DEF Stack

\* What pooled_finish sends.
EndingBlock(s, op) == Then(Track(s), LAMBDA t : FinishBlock(t, StatementOf(op)))

\* What pooled_finish may get from the server for a block whose work is K.
LEMMA FinishAnswers ==
    ASSUME NEW s \in Sessions, s.alive, NEW K \in SUBSET Writes, ~s.failed => Pending(s) = K,
           NEW op \in Ops \cup {"begin", "none"}, NEW r \in EndingBlock(s, op)
    PROVE  /\ r.st \in Ending(s) \cup {s}
           /\ r.kept = {} \/ (r.kept = K /\ r.st \in {Idle, Dead})
           /\ r.out = "refused" => r.kept = {}
           /\ r.out # "refused" => /\ r.st \in Ending(s)
                                   /\ FinalState(r, op) = "committed" => r.kept = K /\ r.st \in {Idle, Dead}
                                   /\ FinalState(r, op) = "rolled_back" => r.kept = {}
                                   /\ FinalState(r, op) \in {"committed", "rolled_back", "lost"}
  <1> DEFINE F(t) == FinishBlock(t, StatementOf(op))
  <1>1. PICK q \in Track(s) :
           r \in (IF q.out = "ok" THEN {[x EXCEPT !.kept = @ \cup q.kept] : x \in F(q.st)} ELSE {q})
    <2>1. r \in Then(Track(s), F)
      BY DEF EndingBlock
    <2> HIDE DEF F
    <2>2. QED
      BY <2>1 DEF Then
  <1>2. q = Reply(s, "ok") \/ q = Reply(s, "refused")
    BY TrackIs
  <1>3. CASE q = Reply(s, "refused")
    <2>1. r = Reply(s, "refused")
      BY <1>1, <1>3 DEF Reply
    <2>2. r.st = s /\ r.out = "refused" /\ r.kept = {}
      BY <2>1 DEF Reply
    <2>3. QED
      BY <2>2
  <1>4. CASE q = Reply(s, "ok")
    <2>1. PICK x \in FinishBlock(s, StatementOf(op)) : r = [x EXCEPT !.kept = @ \cup {}]
      BY <1>1, <1>4 DEF Reply
    <2>2. /\ x \in Replies(Parked)
          /\ op = "commit" => x \in Kept(K)
          /\ op # "commit" => x.kept = {}
      <3>1. CASE op = "commit"
        BY <3>1, CommitKeeps DEF StatementOf, Kept
      <3>2. CASE op # "commit"
        BY <3>2, RollbackKeeps DEF StatementOf, Bare, Replies
      <3>3. QED
        BY <3>1, <3>2
    <2>3. r = x
      BY <2>1, <2>2 DEF Replies
    <2>4. r.st \in Ending(s) /\ (r.st \notin {Idle, Dead} => r.kept = {} /\ r.out # "ok")
      BY <2>3, FinishBlockEnds
    <2>5. ~Dead.alive
      BY DEF Dead
    <2>6. FinalState(r, op) \in {"committed", "rolled_back", "lost"}
      BY DEF FinalState, StateOf
    <2>7. FinalState(r, op) = "committed" => r.out = "ok" /\ op = "commit"
      BY DEF FinalState, StateOf
    <2>8. FinalState(r, op) = "rolled_back" => (r.out = "ok" /\ op # "commit") \/ (r.out # "ok" /\ r.st.alive)
      BY DEF FinalState, StateOf
    <2>9. op = "commit" => /\ r.kept = {} \/ r.kept = K
                           /\ r.out = "ok" => r.kept = K
                           /\ r.out \notin {"ok", "unknown"} => r.kept = {}
                           /\ r.out = "unknown" => r.st = Dead
      BY <2>2, <2>3 DEF Kept
    <2>10. op # "commit" => r.kept = {}
      BY <2>2, <2>3
    <2>11. QED
      BY <2>4, <2>5, <2>6, <2>7, <2>8, <2>9, <2>10
  <1>5. QED
    BY <1>2, <1>3, <1>4

\* What a call with the mutex of a handle, or with its end, does on the handle's
\* connection, nobody else notices.
LEMMA HandlePlaceSpares ==
    ASSUME PooledInv, NEW i \in Ids, Reached(i), handles[i] # None, NEW s,
           conns' = [conns EXCEPT ![handles[i].conn] = s], open' = open, draining' = draining,
           \A j \in Ids : /\ handles'[j] = None <=> handles[j] = None
                          /\ handles[j] # None => handles'[j].conn = handles[j].conn,
           \A d \in Calls : pc'[d].id \in {None, pc[d].id}
    PROVE  /\ Place(i)' = s
           /\ \A j \in Ids \ {i} : PlaceRests(j)
           /\ \A d \in Calls : pc[d].conn # None => conns'[pc[d].conn] = conns[pc[d].conn]
  <1>1. handles[i].conn \in Slots /\ conns \in [Slots -> Sessions]
    BY DEF PooledInv, TypeOK, PooledHandle
  <1>2. Place(i)' = s
    BY <1>1 DEF Place
  <1>3. ASSUME NEW j \in Ids \ {i}, Reached(j)'
        PROVE  Place(j)' = Place(j)
    <2>1. Reached(j) /\ handles[j] # None
      BY <1>3, NoneAssumption DEF Reached, PooledInv, TypeOK, CallOK
    <2>2. handles[j].conn \in Slots /\ handles[j].conn # handles[i].conn
      BY <1>3, <2>1 DEF PooledInv, TypeOK, PooledHandle, Sharing
    <2>3. QED
      BY <1>1, <2>1, <2>2 DEF Place
  <1>4. \A d \in Calls : pc[d].conn # None => pc[d].conn \in Slots /\ pc[d].conn # handles[i].conn
    BY DEF PooledInv, Sharing, TypeOK, Call
  <1>5. QED
    BY <1>1, <1>2, <1>3, <1>4 DEF PlaceRests

\* The end of a block, as a handle sees it: the call c that has handle i to end
\* leaves its session as st, with kept durable, and notes state.
LEMMA EndedGoes ==
    ASSUME HistoryInv, PooledInv', NEW c \in Calls, NEW i \in Ids, pc[c].id = i, pc[c].at = "finish",
           handles[i] # None, i \notin open, i \notin draining, closed[i] = "none", Reached(i), Undecided(i),
           \A d \in Calls \ {c} : ~(pc[d].at \in {"finish", "note"} /\ pc[d].id = i),
           OpenWork(i), handles[i].done = DoneIn(i),
           handles' = handles, open' = open, closed' = closed, draining' = draining, told' = told,
           NEW st, NEW out, NEW kept, NEW state,
           conns' = [conns EXCEPT ![handles[i].conn] = st], durable' = durable \cup kept,
           IF out = "refused" THEN Finished(c)
           ELSE pc' = [pc EXCEPT ![c].at = "note", ![c].out = state],
           st \in Ending(Place(i)) \cup {Place(i)},
           kept = {} \/ (kept = DoneIn(i) /\ st \in {Idle, Dead}),
           out = "refused" => kept = {},
           out # "refused" =>
                /\ st \in Ending(Place(i)) \/ ~st.alive
                /\ state = "committed" => kept = DoneIn(i) /\ st \in {Idle, Dead}
                /\ state = "rolled_back" => kept = {}
                /\ state \in {"committed", "rolled_back", "lost"}
    PROVE  Goes
  <1>1. /\ PooledInv /\ pc \in [Calls -> Call] /\ pc[c] \in Call /\ CallOK(c)
        /\ conns \in [Slots -> Sessions] /\ Place(i) \in Sessions /\ durable \subseteq Writes
    BY DEF HistoryInv, PooledInv, TypeOK, PooledHandle, Place
  <1>2. /\ \A d \in Calls \ {c} : pc'[d] = pc[d]
        /\ IF out = "refused" THEN pc'[c].at = "idle" /\ pc'[c].id = None
           ELSE pc'[c].at = "note" /\ pc'[c].id = i /\ pc'[c].out = state
    BY <1>1, AtRestIs DEF Call
  <1>3. /\ Place(i)' = st
        /\ \A j \in Ids \ {i} : PlaceRests(j)
        /\ \A d \in Calls : pc[d].conn # None => conns'[pc[d].conn] = conns[pc[d].conn]
    <2>1. \A d \in Calls : pc'[d].id \in {None, pc[d].id}
      BY <1>2
    <2>2. QED
      BY <1>1, <2>1, HandlePlaceSpares
  <1>4. \A d \in Calls : CallSound(d)'
    <2>1. ~Carries(c)' /\ pc'[c].at \notin WorkStages /\ pc'[c].at # "insert"
      BY <1>2 DEF Carries, WorkStages
    <2>2. QED
      BY <1>2, <1>3, <2>1, CallsSound
  <1>5. IssuedIn(i) \cap durable = {} /\ DoneIn(i) \subseteq IssuedIn(i)
    BY DEF OpenWork, DoneIn, IssuedIn
  <1>6. \A w \in durable' \ durable : told[w].by = i /\ told[w].out = "done"
    BY DEF DoneIn
  <1>7. \A w \in Writes : ToldAlone(w)'
    <2>1. i # None
      BY NoneAssumption
    <2>2. QED
      BY <1>6, <2>1 DEF HistoryInv, ToldAlone
  <1>8. \A j \in Ids : /\ ToldRests(j) /\ ClosedRests(j)
                       /\ handles[j] = None => \A w \in Writes : told'[w].by # j
    BY DEF ToldRests, ClosedRests, IssuedIn, HistoryInv, HandleSound
  <1>9. ~Undecided(i)'
    BY <1>2 DEF Undecided
  <1>10. ASSUME NEW j \in Ids, j # i
         PROVE  HandleRests(j)
    <2>1. \A d \in Calls : CallRests(d) \/ (pc[d].id # j /\ pc'[d].id # j)
      BY <1>2, <1>10, NoneAssumption DEF CallRests
    <2>2. PlaceRests(j) /\ ToldRests(j) /\ ClosedRests(j)
      BY <1>3, <1>8, <1>10
    <2>3. durable \subseteq durable' /\ \A w \in durable' \ durable : told[w].by # j
      BY <1>6, <1>10
    <2>4. QED
      BY <1>1, <1>8, <2>1, <2>2, <2>3, StepRests
  <1>11. CASE out = "refused"
    <2>1. \A d \in Calls : CallRests(d)
      BY <1>2, <1>11 DEF CallRests
    <2>2. PlaceRests(i)
      BY <1>3, <1>9 DEF PlaceRests, Ending
    <2>3. durable' = durable
      BY <1>11
    <2>4. HandleRests(i)
      BY <1>1, <1>8, <2>1, <2>2, <2>3, StepRests
    <2>5. QED
      BY <1>4, <1>7, <1>10, <2>3, <2>4, StepGoes
  <1>12. CASE out # "refused"
    <2>1. DoneIn(i)' = DoneIn(i) /\ IssuedIn(i)' = IssuedIn(i) /\ Sent(i)' = Sent(i)
      BY DEF DoneIn, IssuedIn, Sent
    <2>2. HandleSound(i)'
      <3>1. OpenWork(i)' \/ Settled(i)'
        <4>1. CASE st \in Stays("none")
          BY <1>3, <1>9, <4>1 DEF Settled
        <4>2. CASE st \notin Stays("none")
          <5>1. st \in Sessions
            BY <1>1, ErroredParked, ParkedSessions DEF Ending
          <5>2. st \in Ending(Place(i)) /\ kept = {}
            BY <1>12, <4>2, <5>1, IdleStays, DeadStays DEF Sessions, Stays
          <5>3. st = Errored(Place(i))
            BY <4>2, <5>2, IdleStays, DeadStays DEF Ending
          <5>4. Mirrors(handles[i], st) /\ st \in Within(Sent(i), Cursors)
            BY <5>3, MirrorsRests, ErroredWithin DEF OpenWork
          <5>5. IssuedIn(i)' \cap durable' = {}
            BY <1>5, <2>1, <5>2
          <5>6. QED
            BY <1>3, <2>1, <5>4, <5>5 DEF OpenWork
        <4>3. QED
          BY <4>1, <4>2
      <3>2. \A v \in {"committed", "rolled_back"} : Decided(i, v)' => state = v
        BY <1>2, <1>12 DEF Decided
      <3>3. state = "committed" => DoneIn(i)' \subseteq durable' /\ Place(i)' \in Stays("none")
        BY <1>3, <1>12, <2>1, IdleStays, DeadStays
      <3>4. state = "rolled_back" => IssuedIn(i)' \cap durable' = {}
        BY <1>5, <1>12, <2>1
      <3>5. \A w \in IssuedIn(i)' : told'[w].for = handles'[i].owner
        BY <2>1 DEF HistoryInv, HandleSound
      <3>6. QED
        BY <2>1, <3>1, <3>2, <3>3, <3>4, <3>5 DEF HandleSound
    <2>3. Promised!Step(i)
      <3>1. PhaseOf(i) = "leaving" /\ PhaseOf(i)' = "leaving"
        BY DEF PhaseOf
      <3>2. Promised!Sends(i) /\ DoneIn(i)' = DoneIn(i)
        BY <2>1 DEF Promised!Sends, IssuedIn
      <3>3. CASE kept = {}
        BY <3>1, <3>2, <3>3 DEF Promised!Step, Promised!Rest, Promised!Keeps, Promised!Gains, DoneIn
      <3>4. CASE kept = DoneIn(i)
        <4>1. Promised!Gains(i) = DoneIn(i)
          BY <1>5, <2>1, <3>4 DEF Promised!Gains, DoneIn, IssuedIn
        <4>2. QED
          BY <3>1, <3>2, <4>1 DEF Promised!Step, Promised!Commit, Promised!InReach, DoneIn
      <3>5. QED
        BY <3>3, <3>4
    <2>4. QED
      BY <1>4, <1>7, <1>10, <2>2, <2>3, StepGoes
  <1>13. QED
    BY <1>11, <1>12

\* The block of a handle is ended, or left to the pool by a call cancelled
\* before its statement.
LEMMA EndBlockGoes ==
    ASSUME HistoryInv, PooledInv', NEW c \in Calls, EndBlock(c)
    PROVE  Goes
  <1> DEFINE i == pc[c].id
             s == conns[handles[i].conn]
             op == pc[c].op
  <1>1. /\ PooledInv /\ pc \in [Calls -> Call] /\ pc[c] \in Call /\ CallOK(c) /\ pc[c].at = "finish"
        /\ EndingOK(c) /\ conns \in [Slots -> Sessions]
        /\ handles' = handles /\ open' = open /\ closed' = closed /\ draining' = draining /\ told' = told
    BY DEF EndBlock, table, HistoryInv, PooledInv, TypeOK
  <1>2. /\ i \in Ids /\ handles[i] # None /\ Reached(i) /\ Undecided(i)
        /\ i \notin open /\ i \notin draining /\ closed[i] = "none"
        /\ \A d \in Calls \ {c} : ~(pc[d].at \in {"finish", "note"} /\ pc[d].id = i)
    BY <1>1 DEF Call, CallOK, OnHandleStages, EndingStages, EndingOK, Reached, Undecided
  <1>3. s \in Sessions
    BY <1>1, <1>2 DEF PooledInv, TypeOK, PooledHandle
  <1>4. /\ OpenWork(i) /\ handles[i].done = DoneIn(i) /\ s = Place(i)
        /\ IssuedIn(i) \cap durable = {} /\ DoneIn(i) \subseteq IssuedIn(i)
    BY <1>2 DEF HistoryInv, HandleSound, Settled, OpenWork, Place, DoneIn, IssuedIn
  <1>5. PICK st, out, kept, state :
           /\ conns' = [conns EXCEPT ![handles[i].conn] = st] /\ durable' = durable \cup kept
           /\ IF out = "refused" THEN Finished(c)
              ELSE pc' = [pc EXCEPT ![c].at = "note", ![c].out = state]
           /\ st \in Ending(s) \cup {s}
           /\ kept = {} \/ (kept = DoneIn(i) /\ st \in {Idle, Dead})
           /\ out = "refused" => kept = {}
           /\ out # "refused" =>
                /\ st \in Ending(s) \/ ~st.alive
                /\ state = "committed" => kept = DoneIn(i) /\ st \in {Idle, Dead}
                /\ state = "rolled_back" => kept = {}
                /\ state \in {"committed", "rolled_back", "lost"}
    <2>1. CASE ~s.alive
      <3>1. /\ conns' = conns /\ durable' = durable
            /\ pc' = [pc EXCEPT ![c].at = "note", ![c].out = "lost"]
        BY <2>1 DEF EndBlock
      <3>2. conns' = [conns EXCEPT ![handles[i].conn] = s]
        BY <1>1, <3>1
      <3>3. \E st, out, kept, state :
               st = s /\ out = "error" /\ kept = {} /\ state = "lost"
        OBVIOUS
      <3> HIDE DEF s, i
      <3>4. QED
        BY <2>1, <3>1, <3>2, <3>3
    <2>2. CASE s.alive
      <3>1. PICK r \in EndingBlock(s, op) :
               /\ conns' = [conns EXCEPT ![handles[i].conn] = r.st]
               /\ durable' = durable \cup r.kept
               /\ IF r.out = "refused" THEN Finished(c)
                  ELSE pc' = [pc EXCEPT ![c].at = "note", ![c].out = FinalState(r, op)]
        BY <2>2 DEF EndBlock, EndingBlock
      <3>2. ~s.failed => Pending(s) = DoneIn(i)
        BY <1>3, <1>4, <2>2, MirrorsPending DEF OpenWork
      <3> DEFINE K == DoneIn(i)
      <3>10. K \in SUBSET Writes /\ op \in Ops \cup {"begin", "none"}
        BY <1>1 DEF Call, DoneIn
      <3> HIDE DEF s, K, op
      <3>3. ~s.failed => Pending(s) = K
        BY <3>2 DEF K
      <3>4. /\ r.st \in Ending(s) \cup {s}
            /\ r.kept = {} \/ (r.kept = K /\ r.st \in {Idle, Dead})
            /\ r.out = "refused" => r.kept = {}
            /\ r.out # "refused" => /\ r.st \in Ending(s)
                                    /\ FinalState(r, op) = "committed" => r.kept = K /\ r.st \in {Idle, Dead}
                                    /\ FinalState(r, op) = "rolled_back" => r.kept = {}
                                    /\ FinalState(r, op) \in {"committed", "rolled_back", "lost"}
        <4>1. s \in Sessions /\ s.alive /\ (~s.failed => Pending(s) = K)
          BY <1>3, <2>2, <3>3
        <4>2. r \in EndingBlock(s, op)
          OBVIOUS
        <4>3. QED
          BY ONLY <3>10, <4>1, <4>2, FinishAnswers
      <3>5. PICK st, out, kept, state :
               st = r.st /\ out = r.out /\ kept = r.kept /\ state = FinalState(r, op)
        OBVIOUS
      <3> HIDE DEF i
      <3>6. /\ conns' = [conns EXCEPT ![handles[i].conn] = st] /\ durable' = durable \cup kept
            /\ IF out = "refused" THEN Finished(c)
               ELSE pc' = [pc EXCEPT ![c].at = "note", ![c].out = state]
        BY <3>1, <3>5
      <3>9. K = DoneIn(i)
        BY DEF K
      <3>7. /\ st \in Ending(s) \cup {s}
            /\ kept = {} \/ (kept = DoneIn(i) /\ st \in {Idle, Dead})
            /\ out = "refused" => kept = {}
            /\ out # "refused" =>
                /\ st \in Ending(s) \/ ~st.alive
                /\ state = "committed" => kept = DoneIn(i) /\ st \in {Idle, Dead}
                /\ state = "rolled_back" => kept = {}
                /\ state \in {"committed", "rolled_back", "lost"}
        <4>1. st = r.st /\ out = r.out /\ kept = r.kept /\ state = FinalState(r, op) /\ K = DoneIn(i)
          BY <3>5, <3>9
        <4>2. /\ st \in Ending(s) \cup {s}
              /\ kept = {} \/ (kept = K /\ st \in {Idle, Dead})
              /\ out = "refused" => kept = {}
          BY ONLY <3>4, <4>1
        <4>3. out # "refused" =>
                /\ st \in Ending(s)
                /\ state = "committed" => kept = K /\ st \in {Idle, Dead}
                /\ state = "rolled_back" => kept = {}
                /\ state \in {"committed", "rolled_back", "lost"}
          BY ONLY <3>4, <4>1
        <4>4. QED
          BY ONLY <3>9, <4>2, <4>3
      <3>8. QED
        BY <3>6, <3>7
    <2>3. QED
      BY <2>1, <2>2
  <1>6. PICK id : id = i
    OBVIOUS
  <1> HIDE DEF i, s, op
  <1>7. QED
    BY <1>1, <1>2, <1>4, <1>5, <1>6, EndedGoes DEF i, s

\* What a call of handle i in it is told leaves its work as D.
LEMMA WorkTold ==
    ASSUME HistoryInv, NEW c \in Calls, NEW i \in Ids, pc[c].id = i, pc[c].at = "inside",
           NEW D \in SUBSET Writes, NEW out \in HandleAnswers, Tell(c, out, DoneIn(i) \ D),
           durable' = durable,
           pc[c].arg \in Writes => D = IF out = "ok" THEN DoneIn(i) \cup {pc[c].arg} ELSE DoneIn(i),
           pc[c].arg \notin Writes => D \subseteq DoneIn(i),
           D # DoneIn(i) => IssuedIn(i) \cap durable = {}
    PROVE  /\ DoneIn(i)' = D
           /\ IssuedIn(i)' \subseteq IssuedIn(i) /\ Sent(i) \subseteq Sent(i)'
           /\ pc[c].arg \in Writes /\ out # "refused" => pc[c].arg \in Sent(i)'
           /\ \A w \in IssuedIn(i)' : told'[w].for = told[w].for
           /\ \A w \in Writes : /\ told[w].by # i => told'[w] = told[w]
                                /\ told'[w].by \in {told[w].by, None}
                                /\ ToldAlone(w)'
                                /\ told[w].out = "running" /\ ~(Carries(c) /\ pc[c].arg = w)
                                      => told'[w] = told[w]
  <1> DEFINE arg == pc[c].arg
  <1>1. /\ told \in [Writes -> Told] /\ i # None
        /\ \A w \in Writes : ToldAlone(w) /\ (w \in DoneIn(i) <=> told[w].by = i /\ told[w].out = "done")
    BY NoneAssumption DEF HistoryInv, PooledInv, TypeOK, DoneIn
  <1>2. arg \in Writes => Carries(c) /\ told[arg].out = "running" /\ told[arg].by = i
    BY DEF HistoryInv, CallSound, WorkStages
  <1>3. /\ AnswerOf(out) \in {"done", "failed", "none"}
        /\ AnswerOf(out) = "done" <=> out = "ok"
        /\ AnswerOf(out) = "none" <=> out = "refused"
    BY DEF AnswerOf, HandleAnswers
  <1>4. \A w \in Writes :
           told'[w] = IF w = arg
                      THEN IF out = "refused" THEN [out |-> "none", by |-> None, for |-> None]
                           ELSE [told[w] EXCEPT !.out = AnswerOf(out)]
                      ELSE IF w \in DoneIn(i) \ D THEN [told[w] EXCEPT !.out = "undone"] ELSE told[w]
    BY DEF Tell
  <1> HIDE DEF arg
  <1>5. ASSUME arg \in Writes, out # "refused"
        PROVE  /\ told'[arg].out = AnswerOf(out) /\ told'[arg].by = i
               /\ told'[arg].for = told[arg].for
    <2>1. told[arg] \in Told /\ told'[arg] = [told[arg] EXCEPT !.out = AnswerOf(out)]
      BY <1>1, <1>4, <1>5
    <2>2. QED
      BY <1>2, <1>5, <2>1 DEF Told
  <1>6. ASSUME arg \in Writes, out = "refused"
        PROVE  told'[arg].out = "none" /\ told'[arg].by = None
    <2>1. told'[arg] = [out |-> "none", by |-> None, for |-> None]
      BY <1>4, <1>6
    <2>2. QED
      BY <2>1
  <1>7. ASSUME NEW w \in Writes, w # arg, w \in DoneIn(i) \ D
        PROVE  /\ told'[w].out = "undone" /\ told'[w].by = i /\ told'[w].for = told[w].for
               /\ told[w].by = i /\ told[w].out = "done"
    <2>1. told[w] \in Told /\ told'[w] = [told[w] EXCEPT !.out = "undone"]
      BY <1>1, <1>4, <1>7
    <2>2. QED
      BY <1>1, <1>7, <2>1 DEF Told
  <1>8. ASSUME NEW w \in Writes, w # arg, w \notin DoneIn(i) \ D
        PROVE  told'[w] = told[w]
    BY <1>4, <1>8
  <1>9. arg \notin DoneIn(i)
    BY <1>2 DEF DoneIn
  <1>10. \A w \in Writes : w \in DoneIn(i)' <=> told'[w].by = i /\ told'[w].out = "done"
    BY DEF DoneIn
  <1>11. ASSUME NEW w \in Writes
         PROVE  w \in DoneIn(i)' <=> w \in D
    <2>1. CASE w = arg
      BY <1>1, <1>3, <1>5, <1>6, <1>9, <1>10, <2>1 DEF arg
    <2>2. CASE w # arg /\ w \in DoneIn(i) \ D
      BY <1>7, <1>10, <2>2
    <2>3. CASE w # arg /\ w \notin DoneIn(i) \ D
      <3>1. w \in D => w \in DoneIn(i)
        BY <2>3 DEF arg
      <3>2. QED
        BY <1>1, <1>8, <1>10, <2>3, <3>1
    <2>4. QED
      BY <2>1, <2>2, <2>3
  <1>12. DoneIn(i)' = D
    BY <1>11 DEF DoneIn
  <1>13. ASSUME NEW w \in Writes
         PROVE  /\ told[w].by # i => told'[w] = told[w]
                /\ told'[w].by = told[w].by \/ (told'[w].by = None /\ told'[w].out = "none" /\ w = arg)
                /\ told'[w].by = i => told'[w].for = told[w].for /\ told[w].by = i
                /\ told'[w].out = "running" => told'[w] = told[w]
                /\ told[w].out = "running" /\ w # arg => told'[w] = told[w]
    <2>1. CASE w = arg
      BY <1>1, <1>2, <1>3, <1>5, <1>6, <2>1
    <2>2. CASE w # arg /\ w \in DoneIn(i) \ D
      BY <1>7, <2>2
    <2>3. CASE w # arg /\ w \notin DoneIn(i) \ D
      BY <1>8, <2>3
    <2>4. QED
      BY <2>1, <2>2, <2>3
  <1>14. IssuedIn(i)' \subseteq IssuedIn(i) /\ \A w \in IssuedIn(i)' : told'[w].for = told[w].for
    BY <1>13 DEF IssuedIn
  <1>15. Sent(i) \subseteq Sent(i)'
    <2>1. arg \notin Sent(i)
      BY <1>2 DEF Sent
    <2>2. QED
      BY <1>13, <2>1 DEF Sent
  <1>16. arg \in Writes /\ out # "refused" => arg \in Sent(i)'
    BY <1>3, <1>5 DEF Sent
  <1>17. ASSUME NEW w \in Writes
         PROVE  ToldAlone(w)'
    <2>1. CASE w = arg
      <3>1. w \notin durable /\ durable' = durable
        BY <1>1, <1>2, <2>1 DEF ToldAlone
      <3>2. \/ told'[w].out = "none" /\ told'[w].by = None
            \/ told'[w].out \in {"done", "failed"} /\ told'[w].by = i
        BY <1>3, <1>5, <1>6, <2>1
      <3>3. QED
        BY <1>1, <3>1, <3>2 DEF ToldAlone
    <2>2. CASE w # arg /\ w \in DoneIn(i) \ D
      <3>1. told'[w].out = "undone" /\ told'[w].by = i /\ w \in IssuedIn(i)
        BY <1>7, <2>2 DEF IssuedIn
      <3>2. w \notin durable'
        BY <2>2, <3>1
      <3>3. QED
        BY <1>1, <3>1, <3>2 DEF ToldAlone
    <2>3. CASE w # arg /\ w \notin DoneIn(i) \ D
      <3>1. told'[w] = told[w] /\ durable' = durable /\ ToldAlone(w)
        BY <1>1, <1>8, <2>3
      <3>2. QED
        BY <3>1 DEF ToldAlone
    <2>4. QED
      BY <2>1, <2>2, <2>3
  <1>18. \A w \in Writes : told[w].out = "running" /\ ~(Carries(c) /\ arg = w) => told'[w] = told[w]
    BY <1>2, <1>13
  <1>19. QED
    BY <1>12, <1>13, <1>14, <1>15, <1>16, <1>17, <1>18 DEF arg

\* No session holds anything but writes and cursors.
LEMMA SessionsWithin == Sessions \subseteq Within(Writes, Cursors)
  <1> SUFFICES ASSUME NEW s \in Sessions
               PROVE  Pending(s) \subseteq Writes /\ Portals(s) \subseteq Cursors
    BY DEF Within
  <1>1. s.frames \in Seq(Frame)
    BY DEF Sessions, Session
  <1>2. \A j \in DOMAIN s.frames : s.frames[j] \in Frame
    BY <1>1
  <1>3. QED
    BY <1>2 DEF Pending, Portals, Frame

\* A call leaves its handle sound and keeps what it promised.
LEMMA WorkedSound ==
    ASSUME HistoryInv, NEW i \in Ids, handles[i] # None, Reached(i),
           NEW s \in Sessions, NEW h \in PooledHandle, NEW D \in SUBSET Writes,
           Place(i)' = s, handles'[i] = h, h.owner = handles[i].owner, h.done = D,
           durable' = durable, closed' = closed, Undecided(i)' => Undecided(i),
           \A state \in {"committed", "rolled_back"} : Decided(i, state)' => Decided(i, state),
           DoneIn(i)' = D, IssuedIn(i)' \subseteq IssuedIn(i),
           \A w \in IssuedIn(i)' : told'[w].for = told[w].for,
           Place(i) \in Stays("none") => s \in Stays("none") /\ D = DoneIn(i),
           OpenWork(i) => Mirrors(h, s) /\ s \in Within(Sent(i)', Cursors)
    PROVE  HandleSound(i)'
  <1>1. /\ handles[i].done = DoneIn(i)
        /\ \A w \in IssuedIn(i) : told[w].for = handles[i].owner
        /\ OpenWork(i) \/ Settled(i)
        /\ Decided(i, "committed") => DoneIn(i) \subseteq durable /\ Place(i) \in Stays("none")
        /\ Decided(i, "rolled_back") => IssuedIn(i) \cap durable = {}
    BY DEF HistoryInv, HandleSound
  <1>2. handles'[i] # None
    BY NoneAssumption
  <1>3. OpenWork(i)' \/ Settled(i)'
    <2>1. CASE OpenWork(i)
      <3>1. Mirrors(handles'[i], Place(i)') /\ Place(i)' \in Within(Sent(i)', Cursors)
        BY <2>1
      <3>2. IssuedIn(i)' \cap durable' = {}
        BY <2>1 DEF OpenWork
      <3>3. QED
        BY <3>1, <3>2 DEF OpenWork
    <2>2. CASE Settled(i)
      BY <2>2 DEF Settled
    <2>3. QED
      BY <1>1, <2>1, <2>2
  <1>4. Decided(i, "committed")' => DoneIn(i)' \subseteq durable' /\ Place(i)' \in Stays("none")
    BY <1>1
  <1>5. Decided(i, "rolled_back")' => IssuedIn(i)' \cap durable' = {}
    BY <1>1
  <1>6. \A w \in IssuedIn(i)' : told'[w].for = handles'[i].owner
    BY <1>1
  <1>7. handles'[i].done = DoneIn(i)'
    OBVIOUS
  <1>8. QED
    BY <1>2, <1>3, <1>4, <1>5, <1>6, <1>7 DEF HandleSound

LEMMA WorkedPromised ==
    ASSUME HistoryInv, NEW i \in Ids, handles[i] # None, handles'[i] # None, Reached(i),
           durable' = durable, closed' = closed, open' = open,
           DoneIn(i)' \subseteq IssuedIn(i)', IssuedIn(i)' \subseteq IssuedIn(i),
           Place(i) \in Stays("none") => DoneIn(i)' = DoneIn(i)
    PROVE  Promised!Step(i)
  <1>1. PhaseOf(i)' = PhaseOf(i) /\ PhaseOf(i) # "fresh"
    BY DEF PhaseOf, HistoryInv, PooledInv, TypeOK, ClosedStates
  <1>2. Promised!Sends(i) /\ Promised!Gains(i) = {}
    BY DEF Promised!Sends, Promised!Gains, DoneIn, IssuedIn
  <1>3. CASE Place(i) \in Stays("none")
    BY <1>1, <1>2, <1>3 DEF Promised!Step, Promised!Rest, Promised!Keeps, DoneIn
  <1>4. CASE Place(i) \notin Stays("none")
    <2>1. ~Decided(i, "committed") /\ IssuedIn(i) \cap durable = {}
      BY <1>4 DEF HistoryInv, HandleSound, Settled, OpenWork
    <2>2. PhaseOf(i) # "committed"
      BY <2>1 DEF PhaseOf, Decided
    <2>3. DoneIn(i) \subseteq IssuedIn(i)
      BY DEF DoneIn, IssuedIn
    <2>4. (DoneIn(i) \cup DoneIn(i)') \cap durable' = {}
      BY <2>1, <2>3
    <2>5. QED
      BY <1>1, <1>2, <2>2, <2>4 DEF Promised!Step, Promised!Work, DoneIn
  <1>5. QED
    BY <1>3, <1>4

\* What the answer r leaves of handle i, its session and its record of writes.
WorkAnswered(c, i, r) ==
    /\ handles[i] # None /\ Reached(i)
    /\ r.st.s \in Sessions /\ r.st.h \in PooledHandle /\ r.kept = {} /\ r.out \in HandleAnswers
    /\ r.st.h.conn = handles[i].conn /\ r.st.h.owner = handles[i].owner
    /\ pc[c].arg \in Writes =>
           r.st.h.done = IF r.out = "ok" THEN DoneIn(i) \cup {pc[c].arg} ELSE DoneIn(i)
    /\ pc[c].arg \notin Writes => r.st.h.done \subseteq DoneIn(i)
    /\ r.st.h.done # DoneIn(i) => IssuedIn(i) \cap durable = {}
    /\ Place(i) \in Stays("none") => r.st.s \in Stays("none") /\ r.st.h.done = DoneIn(i)
    /\ OpenWork(i) => Mirrors(r.st.h, r.st.s)
    /\ OpenWork(i) /\ r.out = "refused" => r.st.s = Place(i)
    /\ OpenWork(i) => \A W \in SUBSET Writes :
           /\ Sent(i) \subseteq W
           /\ pc[c].arg \in Writes => pc[c].arg \in W
           => r.st.s \in Within(W, Cursors)

\* What a call on handle i gets for its handle and session.
LEMMA WorkAnswers ==
    ASSUME SAVEPOINT_NAME \notin Names, HistoryInv, NEW c \in Calls, NEW i \in Ids, pc[c].id = i,
           pc[c].at = "inside",
           NEW r \in OnHandle([s |-> Place(i), h |-> handles[i]], pc[c].op, pc[c].arg)
    PROVE  WorkAnswered(c, i, r)
  <1> DEFINE op == pc[c].op
             arg == pc[c].arg
             h == handles[i]
             x == [s |-> Place(i), h |-> h]
             X(b) == OnBlocks(b, HandleOf(h.conn, h.owner))
  <1>1. /\ pc[c] \in Call /\ CallOK(c) /\ h # None /\ h \in PooledHandle /\ Reached(i)
        /\ op \in HandleOps /\ ArgumentOK(op, arg) /\ Place(i) \in Sessions
    BY DEF HistoryInv, PooledInv, TypeOK, Call, CallOK, OnHandleStages, Reached, Place, PooledHandle
  <1>2. /\ x \in OnPlace /\ x.s = Place(i) /\ x.h = h
    BY <1>1 DEF OnPlace
  <1>3. arg \in Writes <=> op \in Statements
    BY <1>1, ArgumentsAssumption
    DEF HistoryInv, CallSound, WorkStages, Carries, Statements, ArgumentOK, HandleOps
  <1>4. /\ h.done = DoneIn(i) /\ (OpenWork(i) \/ Place(i) \in Stays("none"))
        /\ OpenWork(i) => Mirrors(h, Place(i)) /\ Place(i) \in Within(Sent(i), Cursors) /\ IssuedIn(i) \cap durable = {}
    BY <1>1 DEF HistoryInv, HandleSound, OpenWork, Settled
  <1>5. r \in OnHandle(x, op, arg)
    OBVIOUS
  <1> HIDE DEF x, op, arg
  <1>6. ASSUME NEW b, Place(i) \in Stays(b)
        PROVE  r.st.s \in Stays(b) /\ r.st.h \in HandleOf(h.conn, h.owner)
    <2>1. x \in X(b)
      BY <1>1, <1>6 DEF OnBlocks, HandleOf, x
    <2>2. r \in Replies(X(b))
      BY <1>1, <1>5, <2>1, OnHandleKeeps
    <2>3. QED
      BY <2>2 DEF Replies, OnBlocks
  <1>7. /\ r.st.s \in Sessions /\ r.st.h \in PooledHandle
        /\ r.st.h.conn = h.conn /\ r.st.h.owner = h.owner
    <2>1. PICK b : Place(i) \in Stays(b)
      BY <1>1, ParkedSessions DEF Sessions
    <2>2. QED
      BY <1>6, <2>1, ParkedSessions DEF HandleOf
  <1>8. ASSUME NEW W \in SUBSET Writes, Place(i) \in Within(W, Cursors), arg \in Writes => arg \in W
        PROVE  /\ r.st.s \in Within(W, Cursors) /\ r.kept = {} /\ r.out \in HandleAnswers
               /\ r.out = "refused" => r.st = x
               /\ r.st.h.done = IF r.out = "ok" THEN DoneAfter(h, op, arg) ELSE h.done
    BY <1>1, <1>2, <1>3, <1>5, <1>8, OnHandleHolds
  <1>9. /\ r.kept = {} /\ r.out \in HandleAnswers
        /\ r.out = "refused" => r.st = x
        /\ r.st.h.done = IF r.out = "ok" THEN DoneAfter(h, op, arg) ELSE h.done
    <2>1. Place(i) \in Within(Writes, Cursors)
      BY <1>1, SessionsWithin
    <2>2. QED
      BY <1>8, <2>1
  <1>10. arg \in Writes => r.st.h.done = IF r.out = "ok" THEN DoneIn(i) \cup {arg} ELSE DoneIn(i)
    BY <1>3, <1>4, <1>9 DEF DoneAfter
  <1>11. ASSUME Place(i) \in Stays("none")
         PROVE  r.st.s \in Stays("none") /\ r.st.h.done = DoneIn(i)
    <2>1. r.out = "ok" => op = "status"
      BY <1>1, <1>2, <1>5, <1>11, OnHandleLoose
    <2>2. op = "status" => DoneAfter(h, op, arg) = h.done
      BY DEF DoneAfter, Statements
    <2>3. QED
      BY <1>4, <1>6, <1>9, <1>11, <2>1, <2>2
  <1>12. ASSUME OpenWork(i)
         PROVE  /\ Mirrors(r.st.h, r.st.s)
                /\ op \notin Statements /\ r.out = "ok" => DoneAfter(h, op, arg) \subseteq h.done
    BY <1>1, <1>2, <1>4, <1>5, <1>12, OnHandleMirrors
  <1>13. arg \notin Writes => r.st.h.done \subseteq DoneIn(i)
    BY <1>3, <1>4, <1>9, <1>11, <1>12
  <1>14. r.st.h.done # DoneIn(i) => IssuedIn(i) \cap durable = {}
    BY <1>4, <1>11
  <1>15. ASSUME OpenWork(i), NEW W \in SUBSET Writes, Sent(i) \subseteq W, arg \in Writes => arg \in W
         PROVE  r.st.s \in Within(W, Cursors)
    BY <1>4, <1>8, <1>15, WithinGrows
  <1>16. r.out = "refused" => r.st.s = Place(i)
    BY <1>2, <1>9
  <1>17. QED
    BY <1>1, <1>7, <1>9, <1>10, <1>11, <1>12, <1>13, <1>14, <1>15, <1>16 DEF arg, WorkAnswered

\* A call that has the mutex of its handle does its work.
LEMMA HandleWorkGoes ==
    ASSUME SAVEPOINT_NAME \notin Names, HistoryInv, PooledInv', NEW c \in Calls, NEW i \in Ids,
           pc[c].id = i, Work(c)
    PROVE  Goes
  <1>1. /\ PooledInv /\ pc \in [Calls -> Call] /\ pc[c] \in Call /\ pc[c].at = "inside"
        /\ conns \in [Slots -> Sessions] /\ handles \in [Ids -> PooledHandle \cup {None}]
        /\ open' = open /\ closed' = closed /\ draining' = draining
    BY DEF Work, table, HistoryInv, PooledInv, TypeOK
  <1>2. PICK r \in OnHandle([s |-> Place(i), h |-> handles[i]], pc[c].op, pc[c].arg) :
            /\ conns' = [conns EXCEPT ![handles[i].conn] = r.st.s]
            /\ handles' = [handles EXCEPT ![i] = r.st.h]
            /\ durable' = durable \cup r.kept
            /\ Tell(c, r.out, handles[i].done \ r.st.h.done)
            /\ IF r.out = "lost" THEN Goto(c, "lose") ELSE Finished(c)
    BY DEF Work, Place
  <1>3. /\ handles[i] # None /\ Reached(i)
        /\ r.st.s \in Sessions /\ r.st.h \in PooledHandle /\ r.kept = {} /\ r.out \in HandleAnswers
        /\ r.st.h.conn = handles[i].conn /\ r.st.h.owner = handles[i].owner
        /\ pc[c].arg \in Writes =>
               r.st.h.done = IF r.out = "ok" THEN DoneIn(i) \cup {pc[c].arg} ELSE DoneIn(i)
        /\ pc[c].arg \notin Writes => r.st.h.done \subseteq DoneIn(i)
        /\ r.st.h.done # DoneIn(i) => IssuedIn(i) \cap durable = {}
        /\ Place(i) \in Stays("none") => r.st.s \in Stays("none") /\ r.st.h.done = DoneIn(i)
        /\ OpenWork(i) => Mirrors(r.st.h, r.st.s)
        /\ OpenWork(i) /\ r.out = "refused" => r.st.s = Place(i)
        /\ OpenWork(i) => \A W \in SUBSET Writes :
               Sent(i) \subseteq W /\ (pc[c].arg \in Writes => pc[c].arg \in W) => r.st.s \in Within(W, Cursors)
    <2>1. WorkAnswered(c, i, r)
      BY <1>1, WorkAnswers
    <2>2. QED
      BY ONLY <2>1 DEF WorkAnswered
  <1> DEFINE s == r.st.s
             h == r.st.h
             D == h.done
  <1>4. /\ durable' = durable /\ handles[i].done = DoneIn(i) /\ D \in SUBSET Writes
        /\ Tell(c, r.out, DoneIn(i) \ D)
    BY <1>2, <1>3 DEF HistoryInv, HandleSound, PooledHandle
  <1>5. /\ handles'[i] = h /\ h # None
        /\ \A j \in Ids \ {i} : handles'[j] = handles[j]
        /\ conns' = [conns EXCEPT ![handles[i].conn] = s]
    BY <1>1, <1>2, <1>3, NoneAssumption
  <1> HIDE DEF s, h, D
  <1>6. /\ DoneIn(i)' = D
        /\ IssuedIn(i)' \subseteq IssuedIn(i) /\ Sent(i) \subseteq Sent(i)'
        /\ pc[c].arg \in Writes /\ r.out # "refused" => pc[c].arg \in Sent(i)'
        /\ \A w \in IssuedIn(i)' : told'[w].for = told[w].for
        /\ \A w \in Writes : /\ told[w].by # i => told'[w] = told[w]
                             /\ told'[w].by \in {told[w].by, None}
                             /\ ToldAlone(w)'
                             /\ told[w].out = "running" /\ ~(Carries(c) /\ pc[c].arg = w)
                                   => told'[w] = told[w]
    <2>1. /\ pc[c].arg \in Writes => D = IF r.out = "ok" THEN DoneIn(i) \cup {pc[c].arg} ELSE DoneIn(i)
          /\ pc[c].arg \notin Writes => D \subseteq DoneIn(i)
          /\ D # DoneIn(i) => IssuedIn(i) \cap durable = {}
      BY <1>3 DEF D, h
    <2>2. r.out \in HandleAnswers
      BY <1>3
    <2>3. QED
      BY <1>1, <1>4, <2>1, <2>2, WorkTold
  <1>7. /\ \A d \in Calls \ {c} : pc'[d] = pc[d]
        /\ pc'[c].at \in {"idle", "lose"} /\ pc'[c].id \in {None, i}
    BY <1>1, <1>2 DEF Goto, Finished, AtRest, Call
  <1>8. \A d \in Calls : CallRests(d)
    BY <1>7 DEF CallRests
  <1>9. /\ Place(i)' = s
        /\ \A j \in Ids \ {i} : PlaceRests(j)
        /\ \A d \in Calls : pc[d].conn # None => conns'[pc[d].conn] = conns[pc[d].conn]
    <2>1. \A j \in Ids : /\ handles'[j] = None <=> handles[j] = None
                         /\ handles[j] # None => handles'[j].conn = handles[j].conn
      BY <1>3, <1>5 DEF h
    <2>2. \A d \in Calls : pc'[d].id \in {None, pc[d].id}
      BY <1>7
    <2>3. QED
      BY <1>1, <1>3, <1>5, <2>1, <2>2, HandlePlaceSpares
  <1>10. \A d \in Calls : CallSound(d)'
    <2>1. ~Carries(c)' /\ pc'[c].at \notin WorkStages /\ pc'[c].at \notin {"insert", "note"}
      BY <1>7 DEF Carries, WorkStages
    <2>2. QED
      BY <1>6, <1>7, <1>9, <2>1, CallsSound
  <1>11. ASSUME NEW j \in Ids, j # i
         PROVE  HandleRests(j)
    <2>1. j # None
      BY NoneAssumption
    <2>2. \A w \in Writes : told'[w].by = j => told[w].by = j
      BY <1>6, <2>1
    <2>3. ToldRests(j)
      BY <1>6, <1>11, <2>2 DEF ToldRests, IssuedIn
    <2>4. handles[j] = None => \A w \in Writes : told'[w].by # j
      BY <2>2 DEF HistoryInv, HandleSound, IssuedIn
    <2>5. ClosedRests(j) /\ PlaceRests(j)
      BY <1>1, <1>9, <1>11 DEF ClosedRests
    <2>6. QED
      BY <1>1, <1>4, <1>5, <1>8, <1>11, <2>3, <2>4, <2>5, StepRests
  <1>12. /\ Undecided(i)' => Undecided(i)
         /\ \A state \in {"committed", "rolled_back"} : Decided(i, state)' => Decided(i, state)
    BY <1>1, <1>7 DEF Undecided, Decided
  <1>13. OpenWork(i) => Mirrors(h, s) /\ s \in Within(Sent(i)', Cursors)
    <2>1. CASE r.out # "refused" \/ pc[c].arg \notin Writes
      <3>1. Sent(i)' \in SUBSET Writes
        BY DEF Sent
      <3>2. pc[c].arg \in Writes => pc[c].arg \in Sent(i)'
        BY <1>6, <2>1
      <3>3. QED
        BY <1>3, <1>6, <3>1, <3>2 DEF s, h
    <2>2. CASE r.out = "refused"
      <3>1. OpenWork(i) => s \in Within(Sent(i), Cursors)
        BY <1>3, <2>2 DEF OpenWork, s
      <3>2. QED
        BY <1>3, <1>6, <3>1, WithinGrows DEF s, h
    <2>3. QED
      BY <2>1, <2>2
  <1>14. HandleSound(i)'
    <2>1. /\ s \in Sessions /\ h \in PooledHandle /\ h.owner = handles[i].owner /\ h.done = D
          /\ Place(i) \in Stays("none") => s \in Stays("none") /\ D = DoneIn(i)
      BY <1>3 DEF s, h, D
    <2>2. QED
      BY <1>1, <1>3, <1>4, <1>5, <1>6, <1>9, <1>12, <1>13, <2>1, WorkedSound
  <1>15. Promised!Step(i)
    <2>1. DoneIn(i)' \subseteq IssuedIn(i)'
      BY DEF DoneIn, IssuedIn
    <2>2. Place(i) \in Stays("none") => DoneIn(i)' = DoneIn(i)
      BY <1>3, <1>6 DEF D, h
    <2>3. QED
      BY <1>1, <1>3, <1>4, <1>5, <1>6, <2>1, <2>2, WorkedPromised
  <1>16. QED
    BY <1>4, <1>6, <1>10, <1>11, <1>14, <1>15, StepGoes

LEMMA WorkGoes ==
    ASSUME SAVEPOINT_NAME \notin Names, HistoryInv, PooledInv', NEW c \in Calls, Work(c)
    PROVE  Goes
  <1>1. pc[c].id \in Ids
    BY DEF Work, HistoryInv, PooledInv, TypeOK, Call, CallOK, OnHandleStages
  <1>2. QED
    BY <1>1, HandleWorkGoes

-------------------------------------------------------------------------------
(* Theorems about the history                                              *)

\* Every step of the engine keeps the history sound and the promises.
LEMMA StepsGo ==
    ASSUME SAVEPOINT_NAME \notin Names, HistoryInv, PooledInv', Next
    PROVE  Goes
  <1>1. ASSUME NEW c \in Calls, Start(c)
        PROVE  Goes
    <2>1. ASSUME NEW id \in Ids, NEW op \in Ops \cap HandleOps, NEW arg \in Arguments(op),
                 LookUp(c, id, op, arg)
          PROVE  Goes
      BY <2>1, LookUpGoes
    <2>2. ASSUME NEW id \in Ids, NEW op \in Ops \cap FinishOps, FinishTransaction(c, id, op)
          PROVE  Goes
      BY <2>2, FinishTransactionGoes
    <2>3. ASSUME NEW op \in Ops \cap LaneOps, NEW arg \in LaneArguments(op), Take(c, op, arg)
          PROVE  Goes
      BY <2>3, TakeGoes
    <2>4. QED
      BY <1>1, <2>1, <2>2, <2>3, BeginGoes DEF Start
  <1>2. ASSUME NEW c \in Calls, GoOn(c)
        PROVE  Goes
    BY <1>2, OpenBlockGoes, InsertHandleGoes, LockHandleGoes, WorkGoes, LoseGoes, EndBlockGoes,
       NoteFinalGoes, UseGoes DEF GoOn
  <1>3. CASE Shutdown
    BY <1>3, ReleaseHandlesGoes, ReleaseHandleGoes, ClosePoolGoes DEF Shutdown, ClosePool
  <1>4. QED
    BY <1>1, <1>2, <1>3, SweepGoes, LoseConnectionGoes, DeadlineGoes DEF Next

\* Nothing has been sent and nobody has been told anything.
LEMMA HistoryStarts == Init => HistoryInv /\ Promised!Init
  <1> SUFFICES ASSUME Init
               PROVE  HistoryInv /\ Promised!Init
    OBVIOUS
  <1>1. PooledInv
    BY StartKeeps
  <1>2. \A i \in Ids : i # None /\ IssuedIn(i) = {} /\ DoneIn(i) = {} /\ handles[i] = None
    BY NoneAssumption DEF Init, IssuedIn, DoneIn
  <1>3. \A w \in Writes : ToldAlone(w)
    BY DEF Init, ToldAlone
  <1>4. \A c \in Calls : CallSound(c)
    BY DEF Init, CallSound, Carries, WorkStages, AtRest
  <1>5. Promised!Init
    <2>1. \A i \in Ids : PhaseOf(i) = "fresh"
      BY <1>2 DEF PhaseOf
    <2>2. \A i \in Ids : /\ {w \in Writes : told[w].by = i} = {}
                         /\ {w \in Writes : told[w].by = i /\ told[w].out = "done"} = {}
      BY <1>2 DEF IssuedIn, DoneIn
    <2>3. QED
      BY <2>1, <2>2 DEF Promised!Init, Init
  <1>6. QED
    BY <1>1, <1>2, <1>3, <1>4, <1>5 DEF HistoryInv, HandleSound

LEMMA HistoryStep ==
    ASSUME SAVEPOINT_NAME \notin Names
    PROVE  HistoryInv /\ PooledInv' /\ [Next]_vars => HistoryInv' /\ [Promised!Next]_(Promised!vars)
  <1>1. HistoryInv /\ PooledInv' /\ Next => HistoryInv' /\ Promised!Next
    BY StepsGo DEF Goes
  <1>2. HistoryInv /\ PooledInv' /\ UNCHANGED vars => HistoryInv'
    BY ClosePoolGoes DEF Goes, vars, table
  <1>3. UNCHANGED vars => UNCHANGED Promised!vars
    BY DEF vars, Promised!vars, PhaseOf
  <1>4. QED
    BY <1>1, <1>2, <1>3

\* What the callers were told, what the blocks of the handles hold and what
\* the server has kept agree in every state.
THEOREM PooledHistory ==
    ASSUME SAVEPOINT_NAME \notin Names
    PROVE  Spec => []HistoryInv
  <1>1. Init => HistoryInv
    BY HistoryStarts
  <1>2. HistoryInv /\ PooledInv' /\ [Next]_vars => HistoryInv'
    BY HistoryStep
  <1>3. QED
    BY <1>1, <1>2, PooledInvariant, PTL DEF Spec

(***************************************************************************)
(* The block of an open handle holds the writes of its own caller and no   *)
(* others (engine.rs: a connection goes back to the pool without a block). *)
(***************************************************************************)
THEOREM OwnWritesOnly ==
    ASSUME SAVEPOINT_NAME \notin Names
    PROVE  Spec => []BlocksHoldOwnWrites
  <1>1. HistoryInv => BlocksHoldOwnWrites
    <2> SUFFICES ASSUME HistoryInv, NEW i \in open
                 PROVE  /\ conns[handles[i].conn].block \in {"none", "write"}
                        /\ \A w \in Pending(conns[handles[i].conn]) :
                              told[w].by = i /\ told[w].for = handles[i].owner
      BY DEF BlocksHoldOwnWrites
    <2>1. /\ i \in Ids /\ handles[i] # None /\ Reached(i) /\ Undecided(i)
          /\ Place(i) \in Sessions /\ Place(i) \in Stays("write")
      BY DEF HistoryInv, PooledInv, TypeOK, HandleOK, Reached, Undecided, Place, PooledHandle
    <2>2. OpenWork(i) /\ \A w \in IssuedIn(i) : told[w].for = handles[i].owner
      BY <2>1 DEF HistoryInv, HandleSound, Settled
    <2>3. \A w \in Pending(Place(i)) : w \in IssuedIn(i)
      BY <2>2 DEF OpenWork, Within, Sent, IssuedIn
    <2>4. Place(i).block \in {"none", "write"}
      BY <2>1 DEF Stays, SessionOK
    <2>5. QED
      BY <2>2, <2>3, <2>4 DEF Place, IssuedIn
  <1>2. QED
    BY <1>1, PooledHistory, PTL

\* A write outside any handle that was answered as done is durable, and a dry
\* run that was answered keeps nothing (autocommit_on and dry_run_on, engine.rs).
THEOREM LanesAnswerTruly ==
    ASSUME SAVEPOINT_NAME \notin Names
    PROVE  Spec => []LanesKeepTheirWord
  <1>1. HistoryInv => LanesKeepTheirWord
    BY DEF HistoryInv, ToldAlone, LanesKeepTheirWord
  <1>2. QED
    BY <1>1, PooledHistory, PTL

\* The engine implements Transactions: handles open, end once and as noted, and
\* what their callers were told is done becomes durable together or not at all.
THEOREM PooledPromisesKept ==
    ASSUME SAVEPOINT_NAME \notin Names
    PROVE  Spec => HandlesKeepPromises
  <1>1. Init => Promised!Init
    BY HistoryStarts
  <1>2. HistoryInv /\ PooledInv' /\ [Next]_vars => [Promised!Next]_(Promised!vars)
    BY HistoryStep
  <1>3. QED
    BY <1>1, <1>2, PooledHistory, PooledInvariant, PTL DEF Spec, HandlesKeepPromises, Promised!Spec
=============================================================================
