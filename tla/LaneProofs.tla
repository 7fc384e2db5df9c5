------------------------------ MODULE LaneProofs ------------------------------
(***************************************************************************)
(* What the commands of PgSession and the functions of Lane preserve, for  *)
(* every value of the constants, and what Handle adds to them.  The        *)
(* invariants of both engines rest on these lemmas.                        *)
(***************************************************************************)
EXTENDS Handle, SequenceTheorems, TLAPS

\* A session with its parts in agreement.
SessionOK(s) ==
    /\ s \in Session
    /\ s.block = "none" <=> s.frames = << >>
    /\ s.failed => s.block # "none"
    /\ ~s.alive => s.block = "none"

\* The sessions that hold a block b for as long as they live.
Stays(b) == {s \in Session : SessionOK(s) /\ (s.alive => s.block = b)}

Outcomes == {"ok", "aborted", "error", "never_sent", "rolled_back", "unknown",
             "refused", "second", "finished", "lost"}

\* A reply whose session, lane or engine is in S.
Replies(S) == [st : S, out : Outcomes, kept : SUBSET Writes]

\* One that is in S when the answer is "ok" and in T when it is not.
RepliesOr(S, T) ==
    {r \in Replies(S \cup T) : IF r.out = "ok" THEN r.st \in S ELSE r.st \in T}

-------------------------------------------------------------------------------
(* Commands                                                                *)

\* What a function returns is a reply over the states it may leave.
LEMMA ReplyType ==
    ASSUME NEW S, NEW st \in S, NEW out \in Outcomes
    PROVE  Reply(st, out) \in Replies(S)
  BY DEF Replies, Reply

\* A function that leaves S when it succeeds and T when it fails.
LEMMA ReplyOrType ==
    ASSUME NEW S, NEW T, NEW st, NEW out \in Outcomes,
           out = "ok" => st \in S, out # "ok" => st \in T
    PROVE  Reply(st, out) \in RepliesOr(S, T)
  BY DEF RepliesOr, Replies, Reply

\* The writes two commands of one call commit add up in the reply.
LEMMA AddKept ==
    ASSUME NEW S, NEW T, NEW q \in Replies(S), NEW r \in Replies(T)
    PROVE  [q EXCEPT !.kept = @ \cup r.kept] \in Replies(S)
  BY DEF Replies

\* A session outside a block has no savepoint frames.
LEMMA NoFrames == << >> \in Seq(Frame)
  OBVIOUS

\* SAVEPOINT and BEGIN push a frame, and the stack is then not empty.
LEMMA AppendFrame ==
    ASSUME NEW frames \in Seq(Frame), NEW frame \in Frame
    PROVE  Append(frames, frame) \in Seq(Frame) /\ Append(frames, frame) # << >>
  <1>1. Append(frames, frame) \in Seq(Frame)
    OBVIOUS
  <1>2. Len(Append(frames, frame)) = Len(frames) + 1 /\ Len(frames) \in Nat
    OBVIOUS
  <1>3. QED
    BY <1>1, <1>2

\* A lost connection satisfies every claim about the block of a living one.
LEMMA DeadStays == \A b : Dead \in Stays(b)
  BY NoFrames DEF Stays, SessionOK, Session, Dead

\* A fresh connection is outside any block.
LEMMA IdleStays == Idle \in Stays("none")
  BY NoFrames DEF Stays, SessionOK, Session, Idle

\* BEGIN and SAVEPOINT open a frame in which nothing is done yet.
LEMMA NewFrameType ==
    ASSUME NEW name \in Names \cup {SAVEPOINT_NAME, "block"}
    PROVE  NewFrame(name) \in Frame
  BY DEF NewFrame, Frame

\* A successful BEGIN leaves the session in the block it asked for.
LEMMA OpenedStays ==
    ASSUME NEW mode \in {"read", "write"}
    PROVE  Opened(mode) \in Stays(mode)
  <1>1. << NewFrame("block") >> \in Seq(Frame)
    BY NewFrameType
  <1>2. QED
    BY <1>1 DEF Stays, SessionOK, Session, Opened

\* A server error fails the block but does not end it.
LEMMA ErroredStays ==
    ASSUME NEW b, NEW s \in Stays(b)
    PROVE  Errored(s) \in Stays(b)
  BY DEF Stays, SessionOK, Session, Errored

\* A command that fails, times out or loses the connection ends no block.
LEMMA CommandStays ==
    ASSUME NEW b, NEW s \in Stays(b), NEW good \in Stays(b)
    PROVE  Command(s, good) \subseteq Replies(Stays(b))
  BY ErroredStays, DeadStays, ReplyType DEF Command, Interrupted, Broken, Outcomes

\* A command that needs a block leaves the session in the block it is in.
LEMMA BlockCommandStays ==
    ASSUME NEW b, NEW s \in Stays(b), NEW good,
           s.block # "none" => good \in Stays(b)
    PROVE  BlockCommand(s, good) \subseteq Replies(Stays(b))
  BY CommandStays, ReplyType DEF BlockCommand, Outcomes

\* A statement inside a block, whatever its outcome, leaves the block open.
LEMMA StatementStays ==
    ASSUME NEW b, NEW s \in Stays(b), NEW good \in Stays(b)
    PROVE  Statement(s, good) \subseteq Replies(Stays(b))
  BY CommandStays, ErroredStays, ReplyType DEF Statement, Outcomes

\* SAVEPOINT keeps the session in its block.
LEMMA SavepointStays ==
    ASSUME NEW b, NEW s \in Stays(b), NEW name \in Names \cup {SAVEPOINT_NAME}
    PROVE  Savepoint(s, name) \subseteq Replies(Stays(b))
  <1> DEFINE good == [s EXCEPT !.frames = Append(@, NewFrame(name))]
  <1>1. s.block # "none" => good \in Stays(b)
    BY SMTT(30), NewFrameType DEF Stays, SessionOK, Session
  <1>2. QED
    BY <1>1, BlockCommandStays DEF Savepoint

\* RELEASE merges the innermost frame into the one below it, never emptying
\* the stack.
LEMMA ReleasedFrames ==
    ASSUME NEW frames \in Seq(Frame), Len(frames) >= 2
    PROVE  Released(frames) \in Seq(Frame) /\ Released(frames) # << >>
  <1> DEFINE n == Len(frames)
             below == [frames[n-1] EXCEPT !.done = @ \cup frames[n].done,
                                          !.portals = @ \cup frames[n].portals]
             above == SubSeq(frames, 1, n - 2)
  <1>1. n \in Nat /\ n - 1 \in 1 .. n /\ n \in 1 .. n
    OBVIOUS
  <1>2. frames[n-1] \in Frame /\ frames[n] \in Frame
    BY <1>1
  <1>3. below \in Frame
    BY <1>2 DEF Frame
  <1>4. above \in Seq(Frame)
    BY <1>1
  <1>5. Released(frames) = Append(above, below)
    BY DEF Released
  <1>6. Append(above, below) \in Seq(Frame) /\ Append(above, below) # << >>
    <2> HIDE DEF above, below
    <2>1. QED
      BY <1>3, <1>4, AppendFrame
  <1>7. QED
    BY <1>5, <1>6

\* RELEASE SAVEPOINT keeps the session in its block.
LEMMA ReleaseStays ==
    ASSUME NEW b, NEW s \in Stays(b)
    PROVE  Release(s) \subseteq Replies(Stays(b))
  <1>1. CASE Len(s.frames) < 2
    BY <1>1, ErroredStays, ReplyType DEF Release, Outcomes
  <1>2. CASE ~(Len(s.frames) < 2)
    <2>1. s.frames \in Seq(Frame) /\ Len(s.frames) >= 2
      BY <1>2 DEF Stays, SessionOK, Session
    <2>2. [s EXCEPT !.frames = Released(@)] \in Stays(b)
      BY <2>1, ReleasedFrames DEF Stays, SessionOK, Session
    <2>3. QED
      BY <1>2, <2>2, BlockCommandStays DEF Release
  <1>3. QED
    BY <1>1, <1>2

\* A savepoint that is found lies above the frame of the block itself.
LEMMA InnermostFrame ==
    ASSUME NEW frames \in Seq(Frame), NEW name, Innermost(frames, name) # 0
    PROVE  Innermost(frames, name) \in 2 .. Len(frames)
  BY DEF Innermost

\* ROLLBACK TO SAVEPOINT keeps the session in its block: it undoes, it never
\* ends.
LEMMA RollbackToSavepointStays ==
    ASSUME NEW b, NEW s \in Stays(b), NEW name \in Names \cup {SAVEPOINT_NAME}
    PROVE  RollbackToSavepoint(s, name) \subseteq Replies(Stays(b))
  <1> DEFINE at == Innermost(s.frames, name)
             good == [s EXCEPT !.failed = FALSE,
                               !.frames = Append(SubSeq(@, 1, at - 1), NewFrame(name))]
  <1>1. CASE at = 0
    BY <1>1, ErroredStays, ReplyType DEF RollbackToSavepoint, Outcomes
  <1>2. CASE at # 0
    <2>1. s.frames \in Seq(Frame)
      BY DEF Stays, Session
    <2>2. at \in 2 .. Len(s.frames)
      BY <1>2, <2>1, InnermostFrame
    <2>3. SubSeq(s.frames, 1, at - 1) \in Seq(Frame)
      BY <2>1, <2>2
    <2>4. /\ Append(SubSeq(s.frames, 1, at - 1), NewFrame(name)) \in Seq(Frame)
          /\ Append(SubSeq(s.frames, 1, at - 1), NewFrame(name)) # << >>
      BY <2>3, NewFrameType
    <2>5. s.frames # << >>
      BY <2>1, <2>2
    <2>6. good \in Stays(b)
      BY <2>4, <2>5 DEF Stays, SessionOK, Session
    <2>7. QED
      BY <1>2, <2>6, CommandStays DEF RollbackToSavepoint
  <1>3. QED
    BY <1>1, <1>2

\* Work recorded in the innermost frame leaves the block open.
LEMMA AddingStays ==
    ASSUME NEW b, NEW s \in Stays(b), s.block # "none",
           NEW done \in SUBSET Writes, NEW portals \in SUBSET Cursors
    PROVE  Adding(s, done, portals) \in Stays(b)
  <1> DEFINE n == Len(s.frames)
             top == [s.frames[n] EXCEPT !.done = @ \cup done, !.portals = @ \cup portals]
             frames == [s.frames EXCEPT ![n] = top]
  <1>1. s.frames \in Seq(Frame) /\ s.frames # << >>
    BY DEF Stays, SessionOK, Session
  <1>2. n \in 1 .. Len(s.frames) /\ s.frames[n] \in Frame
    BY <1>1
  <1>3. top \in Frame
    BY <1>2 DEF Frame
  <1>4. frames \in Seq(Frame) /\ frames # << >>
    <2> HIDE DEF top
    <2>1. Len(frames) = Len(s.frames) /\ frames \in Seq(Frame)
      BY <1>1, <1>2, <1>3
    <2>2. QED
      BY <2>1, <1>1, <1>2
  <1>5. Adding(s, done, portals) = [s EXCEPT !.frames = frames]
    BY DEF Adding, Stays, Session
  <1>6. QED
    BY <1>4, <1>5 DEF Stays, SessionOK, Session

\* A read keeps the session in its block.
LEMMA RunReadStays ==
    ASSUME NEW b, NEW s \in Stays(b)
    PROVE  RunRead(s) \subseteq Replies(Stays(b))
  BY StatementStays DEF RunRead

\* A write keeps the session in its block.
LEMMA RunWriteStays ==
    ASSUME NEW b, NEW s \in Stays(b), NEW w \in Writes
    PROVE  RunWrite(s, w) \subseteq Replies(Stays(b))
  BY StatementStays, AddingStays, ErroredStays, ReplyType DEF RunWrite, Outcomes

\* DECLARE keeps the session in its block.
LEMMA DeclareCursorStays ==
    ASSUME NEW b, NEW s \in Stays(b), NEW k \in Cursors
    PROVE  DeclareCursor(s, k) \subseteq Replies(Stays(b))
  BY StatementStays, AddingStays DEF DeclareCursor

\* FETCH keeps the session in its block.
LEMMA FetchForwardStays ==
    ASSUME NEW b, NEW s \in Stays(b), NEW k
    PROVE  FetchForward(s, k) \subseteq Replies(Stays(b))
  BY StatementStays, ErroredStays, ReplyType DEF FetchForward, Outcomes

\* Closing portals removes them from every frame and drops no frame.
LEMMA WithoutFrames ==
    ASSUME NEW frames \in Seq(Frame), NEW K
    PROVE  /\ Without(frames, K) \in Seq(Frame)
           /\ Without(frames, K) = << >> <=> frames = << >>
  <1>1. DOMAIN frames = 1 .. Len(frames) /\ Len(frames) \in Nat
    OBVIOUS
  <1>2. ASSUME NEW i \in DOMAIN frames
        PROVE  [name |-> frames[i].name, done |-> frames[i].done,
                portals |-> frames[i].portals \ K] \in Frame
    <2>1. frames[i] \in Frame
      BY <1>1
    <2>2. QED
      BY <2>1 DEF Frame
  <1>3. Without(frames, K) \in [1 .. Len(frames) -> Frame]
    BY <1>1, <1>2 DEF Without
  <1>4. Without(frames, K) \in Seq(Frame) /\ Len(Without(frames, K)) = Len(frames)
    BY <1>1, <1>3
  <1>5. QED
    BY <1>4

\* CLOSE keeps the session in its block.
LEMMA ClosePortalsStays ==
    ASSUME NEW b, NEW s \in Stays(b), NEW K
    PROVE  ClosePortals(s, K) \subseteq Replies(Stays(b))
  <1>1. s.frames \in Seq(Frame)
    BY DEF Stays, Session
  <1>2. [s EXCEPT !.frames = Without(@, K)] \in Stays(b)
    BY <1>1, WithoutFrames DEF Stays, SessionOK, Session
  <1>3. QED
    BY <1>2, CommandStays, ErroredStays, ReplyType DEF ClosePortals, Outcomes

\* What a COMMIT would make durable are writes.
LEMMA PendingType ==
    ASSUME NEW b, NEW s \in Stays(b)
    PROVE  Pending(s) \subseteq Writes
  <1> SUFFICES ASSUME NEW w \in Pending(s)
               PROVE  w \in Writes
    OBVIOUS
  <1>1. PICK i \in DOMAIN s.frames : w \in s.frames[i].done
    BY DEF Pending
  <1>2. s.frames[i] \in Frame
    BY DEF Stays, Session
  <1>3. QED
    BY <1>1, <1>2 DEF Frame

-------------------------------------------------------------------------------
(* Blocks: how one begins, how one ends, and what runs inside              *)

\* The sessions on which no block would swallow a statement.
Parked == {s \in Session : SessionOK(s) /\ ~Working(s)}

\* Parked or not, every session in order stays in its block.
Sessions == {s \in Session : SessionOK(s)}

\* Dead, fresh and failed sessions hold no working block; every session is in
\* the block it says.
LEMMA ParkedSessions ==
    /\ Idle \in Parked /\ Dead \in Parked /\ Parked \subseteq Sessions
    /\ \A b : Stays(b) \subseteq Sessions
    /\ \A s \in Sessions : s \in Stays(s.block)
    /\ \A s \in Sessions : s.failed \/ ~s.alive => s \in Parked
  BY DeadStays, IdleStays DEF Parked, Sessions, Stays, SessionOK, Working, Idle, Dead

\* After a server error no block works, whichever block it was.
LEMMA ErroredParked ==
    ASSUME NEW s \in Sessions
    PROVE  Errored(s) \in Parked
  BY DEF Sessions, Parked, SessionOK, Session, Working, Errored

\* BEGIN opens the block or leaves the session with none that works.
LEMMA BeginBlockBegins ==
    ASSUME NEW s \in Parked, NEW mode \in {"read", "write"}
    PROVE  BeginBlock(s, mode) \subseteq RepliesOr(Stays(mode), Parked)
  <1>1. /\ s \in Sessions /\ Errored(s) \in Parked /\ Dead \in Parked
        /\ Opened(mode) \in Stays(mode) /\ Opened(mode) \in Sessions
        /\ Errored(Opened(mode)) \in Parked
    BY ParkedSessions, ErroredParked, OpenedStays
  <1>2. /\ "ok" \in Outcomes /\ "aborted" \in Outcomes /\ "error" \in Outcomes
    BY DEF Outcomes
  <1>3. CASE s.failed
    BY <1>2, <1>3, ReplyOrType DEF BeginBlock
  <1>4. CASE ~s.failed
    <2>1. s.block = "none"
      BY <1>1, <1>4 DEF Parked, Working, Sessions, SessionOK
    <2>2. Command(s, Opened(mode)) \subseteq RepliesOr(Stays(mode), Parked)
      BY <1>1, <1>2, ReplyOrType DEF Command, Interrupted, Broken
    <2>3. QED
      BY <1>1, <1>2, <1>4, <2>1, <2>2, ReplyOrType DEF BeginBlock
  <1>5. QED
    BY <1>3, <1>4

\* ROLLBACK leaves no working block, even when it fails: the session is then
\* lost or failed.
LEMMA RollbackParks ==
    ASSUME NEW s \in Sessions
    PROVE  Rollback(s) \subseteq Replies(Parked)
  BY ReplyType, ErroredParked, ParkedSessions
  DEF Rollback, Command, Interrupted, Broken, Outcomes

\* roll_back_quietly (engine.rs) leaves no working block.
LEMMA RollBackQuietlyParks ==
    ASSUME NEW s \in Sessions
    PROVE  RollBackQuietly(s) \subseteq Parked
  BY RollbackParks, ParkedSessions DEF RollBackQuietly, Replies

\* commit_checked (engine.rs) leaves no working block, whether it committed,
\* aborted or failed.
LEMMA CommitCheckedParks ==
    ASSUME NEW s \in Sessions
    PROVE  CommitChecked(s) \subseteq Replies(Parked)
  <1>1. Pending(s) \subseteq Writes
    BY PendingType, ParkedSessions
  <1>2. LostCommit(s) \subseteq Replies(Parked)
    BY <1>1, ParkedSessions DEF LostCommit, Replies, Outcomes
  <1>3. SendCommit(s) \subseteq Replies(Parked)
    BY <1>1, <1>2, ParkedSessions, ErroredParked, ReplyType
    DEF SendCommit, Interrupted, Replies, Outcomes
  <1>4. QED
    BY <1>3, ParkedSessions, ReplyType DEF CommitChecked, Outcomes

\* finish_block (engine.rs) ends the block on both of its branches.
LEMMA FinishBlockParks ==
    ASSUME NEW s \in Sessions, NEW statement
    PROVE  FinishBlock(s, statement) \subseteq Replies(Parked)
  <1>1. \A r \in CommitChecked(s) : RollBackQuietly(r.st) \subseteq Parked
    BY CommitCheckedParks, RollBackQuietlyParks, ParkedSessions DEF Replies
  <1>2. \A r \in CommitChecked(s) : \A t \in RollBackQuietly(r.st) :
            Reply(t, r.out) \in Replies(Parked)
    BY <1>1, CommitCheckedParks, ReplyType DEF Replies
  <1>3. QED
    BY <1>2, CommitCheckedParks, RollbackParks DEF FinishBlock

\* settle_transaction (engine.rs) commits or rolls back, and ends the block
\* either way.
LEMMA SettleTransactionParks ==
    ASSUME NEW s \in Sessions, NEW out \in Outcomes
    PROVE  SettleTransaction(s, out) \subseteq Replies(Parked)
  BY CommitCheckedParks, RollBackQuietlyParks, ReplyType DEF SettleTransaction

\* A write run alone opens no block that outlives it.
LEMMA RunAloneParks ==
    ASSUME NEW s \in Parked, NEW w \in Writes
    PROVE  RunAlone(s, w) \subseteq Replies(Parked)
  <1>1. CASE s.failed
    BY <1>1, ReplyType DEF RunAlone, RunWrite, Statement, Outcomes
  <1>2. CASE ~s.failed /\ ~s.alive
    BY <1>2, ReplyType DEF RunAlone, RunWrite, Statement, Command, Outcomes
  <1>3. CASE ~s.failed /\ s.alive
    <2>1. s.block = "none"
      BY <1>3 DEF Parked, Working
    <2>2. /\ [st |-> s, out |-> "ok", kept |-> {w}] \in Replies(Parked)
          /\ [st |-> Dead, out |-> "error", kept |-> {w}] \in Replies(Parked)
      BY ParkedSessions DEF Replies, Outcomes
    <2>3. /\ Reply(s, "error") \in Replies(Parked)
          /\ Reply(Dead, "error") \in Replies(Parked)
      BY ParkedSessions, ReplyType DEF Outcomes
    <2>4. QED
      BY <1>3, <2>1, <2>2, <2>3 DEF RunAlone
  <1>4. QED
    BY <1>1, <1>2, <1>3

\* rollback_savepoint (engine.rs) keeps the session in its block.
LEMMA RollbackSavepointStays ==
    ASSUME NEW b, NEW s \in Stays(b)
    PROVE  RollbackSavepoint(s) \subseteq Stays(b)
  <1>1. RollbackToSavepoint(s, SAVEPOINT_NAME) \subseteq Replies(Stays(b))
    BY RollbackToSavepointStays
  <1>2. \A q \in Replies(Stays(b)) : Release(q.st) \subseteq Replies(Stays(b))
    BY ReleaseStays DEF Replies
  <1>3. Then(RollbackToSavepoint(s, SAVEPOINT_NAME), Release) \subseteq Replies(Stays(b))
    BY <1>1, <1>2, AddKept DEF Then
  <1>4. QED
    BY <1>3 DEF RollbackSavepoint, Replies

\* The end of guarded (engine.rs), release or roll back, keeps the block.
LEMMA UnguardStays ==
    ASSUME NEW b, NEW r \in Replies(Stays(b))
    PROVE  Unguard(r) \subseteq Replies(Stays(b))
  <1>1. r.st \in Stays(b) /\ r.out \in Outcomes
    BY DEF Replies
  <1>2. QED
    BY <1>1, ReleaseStays, RollbackSavepointStays, ReplyType DEF Unguard

\* A read under guarded keeps the session in its block.
LEMMA GuardedReadStays ==
    ASSUME NEW b, NEW s \in Stays(b)
    PROVE  Guarded(s, RunRead) \subseteq Replies(Stays(b))
  <1>1. \A q \in Replies(Stays(b)) : RunRead(q.st) \subseteq Replies(Stays(b))
    BY RunReadStays DEF Replies
  <1>2. QED
    BY <1>1, SavepointStays, UnguardStays, AddKept DEF Guarded, Then

\* A write under guarded keeps the session in its block.
LEMMA GuardedWriteStays ==
    ASSUME NEW b, NEW s \in Stays(b), NEW w \in Writes
    PROVE  Guarded(s, LAMBDA t : RunWrite(t, w)) \subseteq Replies(Stays(b))
  <1>1. \A q \in Replies(Stays(b)) : RunWrite(q.st, w) \subseteq Replies(Stays(b))
    BY RunWriteStays DEF Replies
  <1>2. QED
    BY <1>1, SavepointStays, UnguardStays, AddKept DEF Guarded, Then

\* A write in autocommit, wrapped in a block of its own or not, leaves no
\* working block.
LEMMA AutocommitParks ==
    ASSUME NEW s \in Parked, NEW w \in Writes, NEW outside
    PROVE  Autocommit(s, w, outside) \subseteq Replies(Parked)
  <1>1. CASE Prefixed /\ ~outside
    <2> DEFINE F(t) == UNION {SettleTransaction(r.st, r.out) : r \in RunWrite(t, w)}
    <2>1. ASSUME NEW q \in BeginBlock(s, "write"), q.out = "ok"
          PROVE  F(q.st) \subseteq Replies(Parked)
      <3>1. q.st \in Stays("write")
        BY <2>1, BeginBlockBegins DEF RepliesOr
      <3>2. RunWrite(q.st, w) \subseteq Replies(Sessions)
        BY <3>1, RunWriteStays, ParkedSessions DEF Replies
      <3>3. QED
        BY <3>2, SettleTransactionParks DEF Replies
    <2>2. \A q \in BeginBlock(s, "write") : q.out # "ok" => q \in Replies(Parked)
      BY BeginBlockBegins DEF RepliesOr, Replies
    <2>3. Then(BeginBlock(s, "write"), F) \subseteq Replies(Parked)
      <3> HIDE DEF F
      <3>1. BeginBlock(s, "write") \subseteq Replies(Stays("write") \cup Parked)
        BY BeginBlockBegins DEF RepliesOr
      <3>2. QED
        BY <2>1, <2>2, <3>1, AddKept DEF Then
    <2>4. QED
      BY <1>1, <2>3 DEF Autocommit
  <1>2. QED
    BY <1>1, RunAloneParks DEF Autocommit

\* A DECLARE under guarded keeps the session in its block.
LEMMA GuardedDeclareStays ==
    ASSUME NEW b, NEW s \in Stays(b), NEW k \in Cursors
    PROVE  Guarded(s, LAMBDA t : DeclareCursor(t, k)) \subseteq Replies(Stays(b))
  <1>1. \A q \in Replies(Stays(b)) : DeclareCursor(q.st, k) \subseteq Replies(Stays(b))
    BY DeclareCursorStays DEF Replies
  <1>2. QED
    BY <1>1, SavepointStays, UnguardStays, AddKept DEF Guarded, Then

\* A FETCH under guarded keeps the session in its block.
LEMMA GuardedFetchStays ==
    ASSUME NEW b, NEW s \in Stays(b), NEW k \in Cursors
    PROVE  Guarded(s, LAMBDA t : FetchForward(t, k)) \subseteq Replies(Stays(b))
  <1>1. \A q \in Replies(Stays(b)) : FetchForward(q.st, k) \subseteq Replies(Stays(b))
    BY FetchForwardStays DEF Replies
  <1>2. QED
    BY <1>1, SavepointStays, UnguardStays, AddKept DEF Guarded, Then

\* run_and_rollback (engine.rs) ends the block it opens on every path.
LEMMA RunThenRollbackParks ==
    ASSUME NEW s \in Parked, NEW w \in Writes
    PROVE  RunThenRollback(s, w) \subseteq Replies(Parked)
  <1> DEFINE G(t) == Guarded(t, LAMBDA u : RunWrite(u, w))
             out(g, r) == IF r.st.alive /\ r.out # "ok" THEN r.out ELSE g.out
             F(t) == UNION {{Reply(r.st, out(g, r)) : r \in Rollback(g.st)} : g \in G(t)}
  <1>1. ASSUME NEW q \in BeginBlock(s, "write"), q.out = "ok"
        PROVE  F(q.st) \subseteq Replies(Parked)
    <2>1. q.st \in Stays("write")
      BY <1>1, BeginBlockBegins DEF RepliesOr
    <2>2. G(q.st) \subseteq Replies(Sessions)
      <3>1. G(q.st) \subseteq Replies(Stays("write"))
        BY <2>1, GuardedWriteStays
      <3>2. Replies(Stays("write")) \subseteq Replies(Sessions)
        BY ParkedSessions DEF Replies
      <3>3. QED
        BY <3>1, <3>2
    <2>3. ASSUME NEW g \in Replies(Sessions)
          PROVE  {Reply(r.st, out(g, r)) : r \in Rollback(g.st)} \subseteq Replies(Parked)
      <3>1. g.out \in Outcomes /\ Rollback(g.st) \subseteq Replies(Parked)
        BY RollbackParks DEF Replies
      <3>2. ASSUME NEW r \in Replies(Parked)
            PROVE  Reply(r.st, out(g, r)) \in Replies(Parked)
        <4>1. r.st \in Parked /\ out(g, r) \in Outcomes
          BY <3>1 DEF Replies
        <4>2. QED
          BY <4>1, ReplyType
      <3>3. QED
        BY <3>1, <3>2
    <2>4. QED
      <3> HIDE DEF G, out
      <3>1. QED
        BY <2>2, <2>3
  <1>2. BeginBlock(s, "write") \subseteq Replies(Stays("write") \cup Parked)
    BY BeginBlockBegins DEF RepliesOr
  <1>3. \A q \in BeginBlock(s, "write") : q.out # "ok" => q \in Replies(Parked)
    BY BeginBlockBegins DEF RepliesOr, Replies
  <1>4. Then(BeginBlock(s, "write"), F) \subseteq Replies(Parked)
    <2> HIDE DEF F
    <2>1. QED
      BY <1>1, <1>2, <1>3, AddKept DEF Then
  <1>5. QED
    BY <1>4 DEF RunThenRollback

-------------------------------------------------------------------------------
(* Replies that make nothing durable                                       *)

\* Replies that made nothing durable.
Bare(S) == [st : S, out : Outcomes, kept : {{}}]

\* The same, in S when the answer is "ok" and in T when it is not.
BareOr(S, T) == {r \in Bare(S \cup T) : IF r.out = "ok" THEN r.st \in S ELSE r.st \in T}

\* A reply that carries no writes.
LEMMA BareType ==
    ASSUME NEW S, NEW T, NEW st, NEW out \in Outcomes
    PROVE  /\ st \in S => Reply(st, out) \in Bare(S)
           /\ (IF out = "ok" THEN st \in S ELSE st \in T) => Reply(st, out) \in BareOr(S, T)
  BY DEF Bare, BareOr, Reply

\* Two commands that make nothing durable make nothing durable together.
LEMMA BareThen ==
    ASSUME NEW S, NEW T, NEW S2, NEW q \in BareOr(S, T)
    PROVE  /\ q.out = "ok" => q.st \in S
           /\ q.out # "ok" => q \in BareOr(S2, T)
           /\ \A x \in BareOr(S2, T) : [x EXCEPT !.kept = @ \cup q.kept] \in BareOr(S2, T)
  BY DEF Bare, BareOr

-------------------------------------------------------------------------------
(* What the block on a session holds, frame by frame *)

\* A session that works in the block b over the frames F.
At(b, F) == {s \in Stays(b) : s.alive /\ ~s.failed /\ s.frames = F}

\* One that has set the engine's own savepoint over F, if it lives.
Above(b, F) ==
    {s \in Stays(b) : s.alive =>
        \E f \in Frame : f.name = SAVEPOINT_NAME /\ s.frames = Append(F, f)}

\* One over F, or one whose block has failed with that savepoint still set.
Based(b, F) ==
    {s \in Stays(b) : s.alive =>
        \/ s.frames = F
        \/ s.failed /\ \E f \in Frame : f.name = SAVEPOINT_NAME /\ s.frames = Append(F, f)}

\* The frame f with more work in it.
Grown(f, done, portals) == [f EXCEPT !.done = @ \cup done, !.portals = @ \cup portals]

Blocks == {"read", "write"}
Stacks == {F \in Seq(Frame) : F # << >>}

\* A frame put on top of a stack is found on top of it, over what was there.
LEMMA AppendStack ==
    ASSUME NEW F \in Seq(Frame), NEW f \in Frame
    PROVE  /\ Append(F, f) \in Stacks
           /\ Len(Append(F, f)) = Len(F) + 1
           /\ Append(F, f)[Len(F) + 1] = f
           /\ \A i \in 1 .. Len(F) : Append(F, f)[i] = F[i]
           /\ SubSeq(Append(F, f), 1, Len(F)) = F
  <1>1. /\ Append(F, f) \in Seq(Frame)
        /\ Len(Append(F, f)) = Len(F) + 1
        /\ \A i \in 1 .. Len(F) : Append(F, f)[i] = F[i]
        /\ Append(F, f)[Len(F) + 1] = f
    BY AppendProperties
  <1>2. Append(F, f) # << >>
    BY AppendProperties
  <1>3. SubSeq(Append(F, f), 1, Len(F)) = F
    <2> DEFINE G == SubSeq(Append(F, f), 1, Len(F))
    <2>1. /\ G \in Seq(Frame) /\ Len(G) = Len(F)
          /\ \A i \in 1 .. Len(F) : G[i] = F[i]
      BY <1>1
    <2>2. QED
      BY <2>1, SeqEqual
  <1>4. QED
    BY <1>1, <1>2, <1>3 DEF Stacks

\* RELEASE of the savepoint on top of F folds its work into the frame below.
LEMMA ReleasedOn ==
    ASSUME NEW F \in Stacks, NEW g \in Frame
    PROVE  /\ Released(Append(F, g)) \in Stacks
           /\ Len(Released(Append(F, g))) = Len(F)
           /\ \A i \in 1 .. Len(F) - 1 : Released(Append(F, g))[i] = F[i]
           /\ Released(Append(F, g))[Len(F)] = Grown(F[Len(F)], g.done, g.portals)
           /\ g.done = {} /\ g.portals = {} => Released(Append(F, g)) = F
  <1> DEFINE n == Len(F)
             A == Append(F, g)
             low == SubSeq(A, 1, n - 1)
             top == Grown(F[n], g.done, g.portals)
  <1>1. n \in Nat /\ n >= 1 /\ F \in Seq(Frame)
    BY DEF Stacks
  <1>2. Len(A) = n + 1 /\ A[n] = F[n] /\ A[n + 1] = g /\ \A i \in 1 .. n : A[i] = F[i]
    BY <1>1, AppendStack
  <1>3. A \in Seq(Frame)
    BY <1>1, AppendStack DEF Stacks
  <1>4. low \in Seq(Frame) /\ Len(low) = n - 1 /\ \A i \in 1 .. n - 1 : low[i] = F[i]
    <2> HIDE DEF A
    <2>1. n - 1 \in Int /\ 1 \in Int /\ n - 1 - 1 + 1 = n - 1
      BY <1>1
    <2>2. \A i \in 1 .. n - 1 : A[i] \in Frame /\ A[i] = F[i] /\ 1 + i - 1 = i
      BY <1>1, <1>2, <1>3
    <2>3. /\ low \in Seq(Frame)
          /\ Len(low) = IF 1 <= n - 1 THEN n - 1 - 1 + 1 ELSE 0
          /\ \A i \in 1 .. n - 1 - 1 + 1 : low[i] = A[1 + i - 1]
      BY <2>1, <2>2, SubSeqProperties
    <2>4. QED
      BY <1>1, <2>1, <2>2, <2>3
  <1>5. F[n] \in Frame
    BY <1>1
  <1>6. top \in Frame
    BY <1>5 DEF Grown, Frame
  <1>7. Released(A) = Append(low, top)
    <2> HIDE DEF A
    <2>1. Len(A) - 1 = n /\ Len(A) - 2 = n - 1
      BY <1>1, <1>2
    <2>2. QED
      BY <1>2, <2>1 DEF Released, Grown
  <1> HIDE DEF low, top, A
  <1>8. /\ Released(A) \in Stacks /\ Len(Released(A)) = n
        /\ \A i \in 1 .. n - 1 : Released(A)[i] = F[i]
        /\ Released(A)[n] = top
    BY <1>1, <1>4, <1>6, <1>7, AppendStack
  <1>9. g.done = {} /\ g.portals = {} => Released(A) = F
    <2> SUFFICES ASSUME g.done = {}, g.portals = {}
                 PROVE  Released(A) = F
      OBVIOUS
    <2>1. top = F[n]
      BY <1>5 DEF top, Grown, Frame
    <2>2. \A i \in 1 .. n : Released(A)[i] = F[i]
      BY <1>1, <1>8, <2>1
    <2>3. QED
      BY <1>1, <1>8, <2>2, SeqEqual DEF Stacks
  <1>10. QED
    BY <1>8, <1>9 DEF A, top

\* A block that fails, or dies, is still over the frames it was over.
LEMMA BasedSessions ==
    ASSUME NEW b \in Blocks, NEW F \in Stacks
    PROVE  /\ At(b, F) \subseteq Based(b, F)
           /\ Dead \in Based(b, F) /\ Dead \in Above(b, F)
           /\ \A s \in Based(b, F) : Errored(s) \in Based(b, F)
           /\ \A s \in Above(b, F) : Errored(s) \in Based(b, F) /\ Errored(s) \in Above(b, F)
  <1>1. \A s \in Stays(b) : Errored(s) \in Stays(b)
    BY ErroredStays
  <1>2. Dead \in Stays(b) /\ ~Dead.alive
    BY DeadStays DEF Dead
  <1>3. \A s \in Stays(b) : s.alive =>
            /\ Errored(s).alive /\ Errored(s).failed /\ Errored(s).frames = s.frames
    BY DEF Errored, Blocks, Stays, Session
  <1>4. \A s \in Stays(b) : ~s.alive => ~Errored(s).alive
    BY DEF Errored, Stays, Session
  <1>5. QED
    BY <1>1, <1>2, <1>3, <1>4 DEF At, Above, Based

\* SAVEPOINT puts an empty frame on top, or the block fails as it was.
LEMMA SavepointBased ==
    ASSUME NEW b \in Blocks, NEW F \in Stacks, NEW s \in Based(b, F),
           NEW name \in Names \cup {SAVEPOINT_NAME}
    PROVE  Savepoint(s, name) \subseteq BareOr(At(b, Append(F, NewFrame(name))), Based(b, F))
  <1> DEFINE good == [s EXCEPT !.frames = Append(@, NewFrame(name))]
             S == At(b, Append(F, NewFrame(name)))
             T == Based(b, F)
  <1>1. s \in Session /\ s \in Stays(b)
    BY DEF Based, Stays
  <1>2. s.alive /\ ~s.failed => good \in S
    <2> SUFFICES ASSUME s.alive, ~s.failed
                 PROVE  good \in S
      OBVIOUS
    <2>1. s.frames = F /\ s.block = b
      BY <1>1 DEF Based, Stays
    <2>2. Append(F, NewFrame(name)) \in Stacks
      BY NewFrameType, AppendStack DEF Stacks
    <2>3. good \in Stays(b)
      BY <1>1, <2>1, <2>2 DEF Stays, SessionOK, Session, Stacks, Blocks
    <2>4. QED
      BY <1>1, <2>1, <2>3 DEF At, Session
  <1>3. s \in T /\ Errored(s) \in T /\ Dead \in T
    BY BasedSessions
  <1>4. "ok" \in Outcomes /\ "error" \in Outcomes /\ "aborted" \in Outcomes
    BY DEF Outcomes
  <1> HIDE DEF good, S, T
  <1>5. /\ Reply(s, "aborted") \in BareOr(S, T) /\ Reply(s, "error") \in BareOr(S, T)
        /\ Reply(Errored(s), "error") \in BareOr(S, T) /\ Reply(Dead, "error") \in BareOr(S, T)
        /\ s.alive /\ ~s.failed => Reply(good, "ok") \in BareOr(S, T)
    BY <1>2, <1>3, <1>4, BareType
  <1>6. BlockCommand(s, good) \subseteq BareOr(S, T)
    BY <1>5 DEF BlockCommand, Command, Interrupted, Broken
  <1>7. QED
    BY <1>6 DEF Savepoint, good, S, T

\* A statement over the engine's own savepoint.
LEMMA StatementAbove ==
    ASSUME NEW b \in Blocks, NEW F \in Stacks, NEW f \in Frame, f.name = SAVEPOINT_NAME,
           NEW s \in At(b, Append(F, f)), NEW S, NEW good \in S
    PROVE  /\ Statement(s, good) \subseteq BareOr(S, Above(b, F))
           /\ Reply(Errored(s), "error") \in BareOr(S, Above(b, F))
  <1>1. s \in Above(b, F)
    BY DEF At, Above
  <1>2. Errored(s) \in Above(b, F) /\ Dead \in Above(b, F)
    BY <1>1, BasedSessions
  <1>3. "ok" \in Outcomes /\ "error" \in Outcomes /\ "aborted" \in Outcomes
    BY DEF Outcomes
  <1>4. /\ Reply(s, "aborted") \in BareOr(S, Above(b, F))
        /\ Reply(s, "error") \in BareOr(S, Above(b, F))
        /\ Reply(Errored(s), "error") \in BareOr(S, Above(b, F))
        /\ Reply(Dead, "error") \in BareOr(S, Above(b, F))
        /\ Reply(good, "ok") \in BareOr(S, Above(b, F))
    BY <1>1, <1>2, <1>3, BareType
  <1>5. QED
    BY <1>4 DEF Statement, Command, Interrupted, Broken

\* What a statement does under the engine's own savepoint goes to its frame.
LEMMA AddingAbove ==
    ASSUME NEW b \in Blocks, NEW F \in Stacks, NEW f \in Frame, f.name = SAVEPOINT_NAME,
           NEW s \in At(b, Append(F, f)),
           NEW done \in SUBSET Writes, NEW portals \in SUBSET Cursors
    PROVE  /\ Grown(f, done, portals) \in Frame
           /\ Grown(f, done, portals).name = SAVEPOINT_NAME
           /\ Adding(s, done, portals) \in At(b, Append(F, Grown(f, done, portals)))
  <1> DEFINE n == Len(s.frames)
             g == Grown(f, done, portals)
             H == [s.frames EXCEPT ![n] = g]
  <1>1. /\ s \in Session /\ s \in Stays(b) /\ s.alive /\ ~s.failed /\ s.frames = Append(F, f)
        /\ s.block = b /\ b # "none"
    BY DEF At, Stays, Blocks
  <1>2. g \in Frame /\ g.name = SAVEPOINT_NAME
    BY DEF Grown, Frame
  <1>3. F \in Seq(Frame)
    BY DEF Stacks
  <1>4. /\ s.frames \in Seq(Frame) /\ n = Len(F) + 1 /\ s.frames[n] = f
        /\ \A i \in 1 .. Len(F) : s.frames[i] = F[i]
    BY <1>1, <1>3, AppendStack DEF Stacks
  <1>5. n \in 1 .. Len(s.frames)
    BY <1>3, <1>4
  <1>6. Adding(s, done, portals) = [s EXCEPT !.frames = H]
    BY ZenonT(60), <1>1, <1>4, <1>5 DEF Adding, Grown, Session
  <1> HIDE DEF g, H
  <1>7. H = Append(F, g)
    <2>1. /\ H \in Seq(Frame) /\ Len(H) = n
          /\ \A i \in 1 .. n : H[i] = IF i = n THEN g ELSE s.frames[i]
      BY <1>2, <1>4, <1>5, ExceptSeq DEF H
    <2>2. /\ Append(F, g) \in Seq(Frame) /\ Len(Append(F, g)) = n /\ Append(F, g)[n] = g
          /\ \A i \in 1 .. Len(F) : Append(F, g)[i] = F[i]
      BY <1>2, <1>3, <1>4, AppendStack DEF Stacks
    <2>3. \A i \in 1 .. n : H[i] = Append(F, g)[i]
      BY <1>3, <1>4, <2>1, <2>2
    <2>4. QED
      BY <2>1, <2>2, <2>3, SeqEqual
  <1>8. Adding(s, done, portals) \in Stays(b)
    BY <1>1, AddingStays
  <1>9. QED
    BY <1>1, <1>2, <1>6, <1>7, <1>8 DEF At, Session, g

\* RELEASE of the engine's own savepoint gives its work to the frame below.
LEMMA ReleaseAbove ==
    ASSUME NEW b \in Blocks, NEW F \in Stacks, NEW f \in Frame, f.name = SAVEPOINT_NAME,
           NEW s \in At(b, Append(F, f))
    PROVE  Release(s) \subseteq BareOr(At(b, Released(Append(F, f))), Based(b, F))
  <1> DEFINE good == [s EXCEPT !.frames = Released(@)]
             S == At(b, Released(Append(F, f)))
             T == Based(b, F)
  <1>1. /\ s \in Session /\ s \in Stays(b) /\ s.alive /\ ~s.failed /\ s.frames = Append(F, f)
        /\ s.block = b /\ b # "none"
    BY DEF At, Stays, Blocks
  <1>2. good \in S
    <2>1. Released(s.frames) \in Seq(Frame) /\ Released(s.frames) # << >>
      BY <1>1, ReleasedOn DEF Stacks
    <2>2. good \in Stays(b)
      BY <1>1, <2>1 DEF Stays, SessionOK, Session
    <2>3. QED
      BY <1>1, <2>2 DEF At, Session
  <1>3. Errored(s) \in T /\ Dead \in T
    BY <1>1, BasedSessions DEF Above
  <1>4. "ok" \in Outcomes /\ "error" \in Outcomes
    BY DEF Outcomes
  <1> HIDE DEF good, S, T
  <1>5. /\ Reply(Errored(s), "error") \in BareOr(S, T)
        /\ Reply(Dead, "error") \in BareOr(S, T)
        /\ Reply(good, "ok") \in BareOr(S, T)
    BY <1>2, <1>3, <1>4, BareType
  <1>6. BlockCommand(s, good) \subseteq BareOr(S, T)
    BY <1>1, <1>5 DEF BlockCommand, Command, Interrupted, Broken
  <1>7. QED
    BY <1>5, <1>6 DEF Release, good, S, T

\* Named(F, name): the places of the savepoint of that name nobody is above.
Named(F, name) == {i \in 2 .. Len(F) : /\ F[i].name = name
                                       /\ \A j \in i + 1 .. Len(F) : F[j].name # name}

\* ROLLBACK TO looks for the topmost savepoint of a name.
LEMMA InnermostNamed ==
    ASSUME NEW F, NEW name
    PROVE  /\ Named(F, name) = {} => Innermost(F, name) = 0
           /\ \A i : Named(F, name) = {i} => Innermost(F, name) = i
           /\ \A G : Named(F, name) = Named(G, name) => Innermost(F, name) = Innermost(G, name)
  <1>1. \A G : Innermost(G, name) = IF Named(G, name) = {} THEN 0
                                    ELSE CHOOSE i \in Named(G, name) : TRUE
    BY DEF Innermost, Named
  <1>2. ASSUME NEW i, Named(F, name) = {i}
        PROVE  Innermost(F, name) = i
    <2>1. Innermost(F, name) = CHOOSE j \in {i} : TRUE
      BY <1>1, <1>2
    <2>2. QED
      BY <2>1
  <1>3. QED
    BY <1>1, <1>2

\* The savepoint just set is the topmost of its name.
LEMMA InnermostTop ==
    ASSUME NEW F \in Stacks, NEW f \in Frame
    PROVE  Innermost(Append(F, f), f.name) = Len(F) + 1
  <1> DEFINE A == Append(F, f)
             n == Len(F)
  <1>1. n \in Nat /\ n >= 1 /\ F \in Seq(Frame)
    BY DEF Stacks
  <1>2. Len(A) = n + 1 /\ A[n + 1] = f
    BY <1>1, AppendStack
  <1> HIDE DEF A, n
  <1>3. n + 1 \in Named(A, f.name)
    BY <1>1, <1>2 DEF Named
  <1>4. \A i \in Named(A, f.name) : i = n + 1
    BY <1>1, <1>2 DEF Named
  <1>5. Named(A, f.name) = {n + 1}
    BY <1>3, <1>4
  <1>6. QED
    BY <1>5, InnermostNamed DEF A, n

\* A savepoint of another name on top hides none below it.
LEMMA InnermostBelow ==
    ASSUME NEW F \in Stacks, NEW f \in Frame, NEW name, f.name # name
    PROVE  Innermost(Append(F, f), name) = Innermost(F, name)
  <1> DEFINE A == Append(F, f)
             n == Len(F)
  <1>1. n \in Nat /\ n >= 1 /\ F \in Seq(Frame)
    BY DEF Stacks
  <1>2. Len(A) = n + 1 /\ A[n + 1] = f /\ \A i \in 1 .. n : A[i] = F[i]
    BY <1>1, AppendStack
  <1> HIDE DEF A
  <1>3. \A i \in Named(A, name) : i \in Named(F, name)
    BY <1>1, <1>2 DEF Named
  <1>4. \A i \in Named(F, name) : i \in Named(A, name)
    BY <1>1, <1>2 DEF Named
  <1>5. QED
    BY <1>3, <1>4, InnermostNamed DEF A

\* rollback_savepoint (engine.rs) takes the engine's own savepoint off, with
\* what was done above it, or leaves it on a failed block.
LEMMA RollbackSavepointBased ==
    ASSUME NEW b \in Blocks, NEW F \in Stacks, NEW s \in Above(b, F)
    PROVE  RollbackSavepoint(s) \subseteq Based(b, F)
  <1> DEFINE T == Based(b, F)
             f == NewFrame(SAVEPOINT_NAME)
             S == At(b, Append(F, f))
  <1>1. s \in Session /\ s \in Stays(b)
    BY DEF Above, Stays
  <1>2. f \in Frame /\ f.name = SAVEPOINT_NAME
    BY NewFrameType DEF NewFrame
  <1>3. Errored(s) \in T /\ Dead \in T
    BY BasedSessions
  <1>4. ~s.alive => Errored(s) = s /\ s \in T
    BY <1>1 DEF Errored, Stays, SessionOK, Based
  <1>5. "ok" \in Outcomes /\ "error" \in Outcomes
    BY DEF Outcomes
  <1>6. /\ Reply(Errored(s), "error") \in BareOr(S, T)
        /\ Reply(Dead, "error") \in BareOr(S, T)
        /\ ~s.alive => Reply(s, "error") \in BareOr(S, T)
    <2> HIDE DEF S, T
    <2>1. QED
      BY <1>3, <1>4, <1>5, BareType
  <1>7. RollbackToSavepoint(s, SAVEPOINT_NAME) \subseteq BareOr(S, T)
    <2>1. CASE ~s.alive
      <3>1. s.frames = << >>
        BY <1>1, <2>1 DEF Stays, SessionOK
      <3>2. Named(s.frames, SAVEPOINT_NAME) = {}
        BY <3>1 DEF Named
      <3>3. Innermost(s.frames, SAVEPOINT_NAME) = 0
        BY <3>2, InnermostNamed
      <3>4. QED
        BY <1>6, <3>3 DEF RollbackToSavepoint
    <2>2. CASE s.alive
      <3>1. PICK g \in Frame : g.name = SAVEPOINT_NAME /\ s.frames = Append(F, g)
        BY <2>2 DEF Above
      <3>2. Innermost(s.frames, SAVEPOINT_NAME) = Len(F) + 1
        BY <3>1, InnermostTop
      <3>3. SubSeq(s.frames, 1, Len(F) + 1 - 1) = F
        BY <3>1, AppendStack DEF Stacks
      <3> DEFINE good == [s EXCEPT !.failed = FALSE,
                                   !.frames = Append(SubSeq(@, 1, Len(F) + 1 - 1), f)]
      <3>4. good \in S
        <4>1. Append(F, f) \in Seq(Frame) /\ Append(F, f) # << >>
          BY <1>2, AppendStack DEF Stacks
        <4>2. s.block = b /\ b # "none"
          BY <1>1, <2>2 DEF Stays, Blocks
        <4>3. good \in Stays(b)
          BY <1>1, <2>2, <3>3, <4>1, <4>2 DEF Stays, SessionOK, Session
        <4>4. QED
          BY <1>1, <2>2, <3>3, <4>3 DEF At, Session
      <3> HIDE DEF good, S, T
      <3>5. Reply(good, "ok") \in BareOr(S, T)
        BY <1>5, <3>4, BareType
      <3>6. Command(s, good) \subseteq BareOr(S, T)
        BY <1>6, <3>5 DEF Command, Interrupted, Broken
      <3>7. Len(F) + 1 # 0
        BY DEF Stacks
      <3>8. QED
        BY <3>2, <3>6, <3>7 DEF RollbackToSavepoint, good, f
    <2>3. QED
      BY <2>1, <2>2
  <1>8. \A t \in S : Release(t) \subseteq BareOr(T, T)
    <2>1. f.done = {} /\ f.portals = {}
      BY DEF NewFrame
    <2>2. Released(Append(F, f)) = F
      BY <1>2, <2>1, ReleasedOn
    <2>3. \A t \in S : Release(t) \subseteq BareOr(At(b, F), T)
      BY <1>2, <2>2, ReleaseAbove
    <2>4. BareOr(At(b, F), T) \subseteq BareOr(T, T)
      BY BasedSessions DEF BareOr, Bare
    <2>5. QED
      BY <2>3, <2>4
  <1> HIDE DEF S, T
  <1>9. Then(RollbackToSavepoint(s, SAVEPOINT_NAME), Release) \subseteq BareOr(T, T)
    BY <1>7, <1>8, BareThen DEF Then
  <1>10. \A r \in BareOr(T, T) : r.st \in T
    BY DEF BareOr
  <1>11. QED
    BY <1>9, <1>10 DEF RollbackSavepoint, T

\* The end of guarded.
LEMMA UnguardBased ==
    ASSUME NEW b \in Blocks, NEW F \in Stacks, NEW f \in Frame, f.name = SAVEPOINT_NAME,
           NEW r \in BareOr(At(b, Append(F, f)), Above(b, F))
    PROVE  Unguard(r) \subseteq BareOr(At(b, Released(Append(F, f))), Based(b, F))
  <1>1. CASE r.out = "ok"
    <2>1. r.st \in At(b, Append(F, f))
      BY <1>1 DEF BareOr
    <2>2. QED
      BY <1>1, <2>1, ReleaseAbove DEF Unguard
  <1>2. CASE r.out # "ok"
    <2>1. r.st \in Above(b, F) /\ r.out \in Outcomes
      BY <1>2 DEF BareOr, Bare
    <2>2. RollbackSavepoint(r.st) \subseteq Based(b, F)
      BY <2>1, RollbackSavepointBased
    <2>3. \A t \in Based(b, F) :
              Reply(t, r.out) \in BareOr(At(b, Released(Append(F, f))), Based(b, F))
      BY <1>2, <2>1, BareType
    <2>4. QED
      BY <1>2, <2>2, <2>3 DEF Unguard
  <1>3. QED
    BY <1>1, <1>2

\* The frames F after a guarded statement that did this work.
Top(F, done, portals) == Released(Append(F, Grown(NewFrame(SAVEPOINT_NAME), done, portals)))

\* Only the frame on top differs, by the work done.
LEMMA TopFrames ==
    ASSUME NEW F \in Stacks, NEW done \in SUBSET Writes, NEW portals \in SUBSET Cursors
    PROVE  /\ Top(F, done, portals) \in Stacks
           /\ Len(Top(F, done, portals)) = Len(F)
           /\ \A i \in 1 .. Len(F) - 1 : Top(F, done, portals)[i] = F[i]
           /\ Top(F, done, portals)[Len(F)] = Grown(F[Len(F)], done, portals)
           /\ Top(F, {}, {}) = F
  <1> DEFINE f(D, P) == Grown(NewFrame(SAVEPOINT_NAME), D, P)
  <1>1. ASSUME NEW D \in SUBSET Writes, NEW P \in SUBSET Cursors
        PROVE  f(D, P) \in Frame /\ f(D, P).done = D /\ f(D, P).portals = P
    BY DEF Grown, NewFrame, Frame
  <1>2. {} \in SUBSET Writes /\ {} \in SUBSET Cursors
    OBVIOUS
  <1> HIDE DEF f
  <1>3. Released(Append(F, f({}, {}))) = F
    BY <1>1, <1>2, ReleasedOn
  <1>4. /\ Released(Append(F, f(done, portals))) \in Stacks
        /\ Len(Released(Append(F, f(done, portals)))) = Len(F)
        /\ \A i \in 1 .. Len(F) - 1 : Released(Append(F, f(done, portals)))[i] = F[i]
        /\ Released(Append(F, f(done, portals)))[Len(F)] = Grown(F[Len(F)], done, portals)
    BY <1>1, ReleasedOn
  <1>5. QED
    BY <1>3, <1>4 DEF Top, f

\* The statements the engine guards, over the engine's own savepoint.
LEMMA RunsAbove ==
    ASSUME NEW b \in Blocks, NEW F \in Stacks, NEW s \in At(b, Append(F, NewFrame(SAVEPOINT_NAME)))
    PROVE  /\ RunRead(s) \subseteq
                  BareOr(At(b, Append(F, Grown(NewFrame(SAVEPOINT_NAME), {}, {}))), Above(b, F))
           /\ \A w \in Writes : RunWrite(s, w) \subseteq
                  BareOr(At(b, Append(F, Grown(NewFrame(SAVEPOINT_NAME), {w}, {}))), Above(b, F))
           /\ \A k \in Cursors : DeclareCursor(s, k) \subseteq
                  BareOr(At(b, Append(F, Grown(NewFrame(SAVEPOINT_NAME), {}, {k}))), Above(b, F))
           /\ \A k : FetchForward(s, k) \subseteq
                  BareOr(At(b, Append(F, Grown(NewFrame(SAVEPOINT_NAME), {}, {}))), Above(b, F))
  <1> DEFINE f == NewFrame(SAVEPOINT_NAME)
  <1>1. f \in Frame /\ f.name = SAVEPOINT_NAME /\ Grown(f, {}, {}) = f
    <2>1. f \in Frame
      BY NewFrameType
    <2>2. QED
      BY <2>1 DEF NewFrame, Grown
  <1>2. s \in Session /\ s.block = b /\ b # "none" /\ s.alive
    BY DEF At, Stays, Blocks
  <1>3. s \in At(b, Append(F, Grown(f, {}, {})))
    BY <1>1
  <1> HIDE DEF f
  <1>4. s \in At(b, Append(F, f))
    BY DEF f
  <1>5. RunRead(s) \subseteq BareOr(At(b, Append(F, Grown(f, {}, {}))), Above(b, F))
    BY <1>1, <1>3, <1>4, StatementAbove DEF RunRead
  <1>6. ASSUME NEW w \in Writes
        PROVE  RunWrite(s, w) \subseteq BareOr(At(b, Append(F, Grown(f, {w}, {}))), Above(b, F))
    <2>1. Adding(s, {w}, {}) \in At(b, Append(F, Grown(f, {w}, {})))
      BY <1>1, <1>4, AddingAbove
    <2>2. QED
      BY <1>1, <1>2, <1>4, <2>1, StatementAbove DEF RunWrite
  <1>7. ASSUME NEW k \in Cursors
        PROVE  DeclareCursor(s, k)
                   \subseteq BareOr(At(b, Append(F, Grown(f, {}, {k}))), Above(b, F))
    <2>1. Adding(s, {}, {k}) \in At(b, Append(F, Grown(f, {}, {k})))
      BY <1>1, <1>4, AddingAbove
    <2>2. QED
      BY <1>1, <1>2, <1>4, <2>1, StatementAbove DEF DeclareCursor
  <1>8. ASSUME NEW k
        PROVE  FetchForward(s, k) \subseteq BareOr(At(b, Append(F, Grown(f, {}, {}))), Above(b, F))
    BY <1>1, <1>3, <1>4, StatementAbove DEF FetchForward
  <1>9. QED
    BY <1>5, <1>6, <1>7, <1>8 DEF f

\* A guarded statement does its work in the innermost frame or none at all.
LEMMA GuardedBased ==
    ASSUME NEW b \in Blocks, NEW F \in Stacks, NEW s \in Based(b, F)
    PROVE  /\ Guarded(s, RunRead) \subseteq BareOr(At(b, F), Based(b, F))
           /\ \A w \in Writes : Guarded(s, LAMBDA t : RunWrite(t, w)) \subseteq
                  BareOr(At(b, Top(F, {w}, {})), Based(b, F))
           /\ \A k \in Cursors : Guarded(s, LAMBDA t : DeclareCursor(t, k)) \subseteq
                  BareOr(At(b, Top(F, {}, {k})), Based(b, F))
           /\ \A k : Guarded(s, LAMBDA t : FetchForward(t, k)) \subseteq
                  BareOr(At(b, F), Based(b, F))
  <1> DEFINE f(D, P) == Grown(NewFrame(SAVEPOINT_NAME), D, P)
             A == At(b, Append(F, NewFrame(SAVEPOINT_NAME)))
  <1>1. Savepoint(s, SAVEPOINT_NAME) \subseteq BareOr(A, Based(b, F))
    BY SavepointBased
  <1>2. ASSUME NEW D \in SUBSET Writes, NEW P \in SUBSET Cursors,
               NEW r \in BareOr(At(b, Append(F, f(D, P))), Above(b, F))
        PROVE  Unguard(r) \subseteq BareOr(At(b, Top(F, D, P)), Based(b, F))
    <2>1. f(D, P) \in Frame /\ f(D, P).name = SAVEPOINT_NAME
      BY DEF Grown, NewFrame, Frame
    <2>2. QED
      BY <2>1, UnguardBased DEF Top
  <1>3. Top(F, {}, {}) = F
    BY TopFrames
  <1>4. {} \in SUBSET Writes /\ {} \in SUBSET Cursors
    OBVIOUS
  <1> HIDE DEF f
  <1>5. ASSUME NEW q \in BareOr(A, Based(b, F)), q.out = "ok"
        PROVE  /\ \A r \in RunRead(q.st) : Unguard(r) \subseteq BareOr(At(b, F), Based(b, F))
               /\ \A w \in Writes : \A r \in RunWrite(q.st, w) :
                     Unguard(r) \subseteq BareOr(At(b, Top(F, {w}, {})), Based(b, F))
               /\ \A k \in Cursors : \A r \in DeclareCursor(q.st, k) :
                     Unguard(r) \subseteq BareOr(At(b, Top(F, {}, {k})), Based(b, F))
               /\ \A k : \A r \in FetchForward(q.st, k) :
                     Unguard(r) \subseteq BareOr(At(b, F), Based(b, F))
    <2>1. q.st \in A
      BY <1>5, BareThen
    <2>2. /\ RunRead(q.st) \subseteq BareOr(At(b, Append(F, f({}, {}))), Above(b, F))
          /\ \A w \in Writes :
                RunWrite(q.st, w) \subseteq BareOr(At(b, Append(F, f({w}, {}))), Above(b, F))
          /\ \A k \in Cursors :
                DeclareCursor(q.st, k) \subseteq BareOr(At(b, Append(F, f({}, {k}))), Above(b, F))
          /\ \A k : FetchForward(q.st, k) \subseteq BareOr(At(b, Append(F, f({}, {}))), Above(b, F))
      BY <2>1, RunsAbove DEF f
    <2>3. \A r \in RunRead(q.st) : Unguard(r) \subseteq BareOr(At(b, F), Based(b, F))
      BY <1>2, <1>3, <1>4, <2>2
    <2>4. ASSUME NEW w \in Writes, NEW r \in RunWrite(q.st, w)
          PROVE  Unguard(r) \subseteq BareOr(At(b, Top(F, {w}, {})), Based(b, F))
      BY <1>2, <1>4, <2>2
    <2>5. ASSUME NEW k \in Cursors, NEW r \in DeclareCursor(q.st, k)
          PROVE  Unguard(r) \subseteq BareOr(At(b, Top(F, {}, {k})), Based(b, F))
      BY <1>2, <1>4, <2>2
    <2>6. ASSUME NEW k, NEW r \in FetchForward(q.st, k)
          PROVE  Unguard(r) \subseteq BareOr(At(b, F), Based(b, F))
      BY <1>2, <1>3, <1>4, <2>2
    <2>7. QED
      BY <2>3, <2>4, <2>5, <2>6
  <1> HIDE DEF A
  <1>6. ASSUME NEW S, NEW q \in BareOr(A, Based(b, F))
        PROVE  /\ q.out # "ok" => q \in BareOr(S, Based(b, F))
               /\ \A x \in BareOr(S, Based(b, F)) :
                     [x EXCEPT !.kept = @ \cup q.kept] \in BareOr(S, Based(b, F))
    BY BareThen
  <1>7. Guarded(s, RunRead) \subseteq BareOr(At(b, F), Based(b, F))
    <2> DEFINE G(t) == UNION {Unguard(r) : r \in RunRead(t)}
    <2>1. \A q \in BareOr(A, Based(b, F)) :
              q.out = "ok" => G(q.st) \subseteq BareOr(At(b, F), Based(b, F))
      BY <1>5
    <2> HIDE DEF G
    <2>2. Then(Savepoint(s, SAVEPOINT_NAME), G) \subseteq BareOr(At(b, F), Based(b, F))
      BY <1>1, <1>6, <2>1 DEF Then
    <2>3. QED
      BY <2>2 DEF Guarded, G
  <1>8. ASSUME NEW w \in Writes
        PROVE  Guarded(s, LAMBDA t : RunWrite(t, w)) \subseteq
                   BareOr(At(b, Top(F, {w}, {})), Based(b, F))
    <2> DEFINE G(t) == UNION {Unguard(r) : r \in RunWrite(t, w)}
    <2>1. \A q \in BareOr(A, Based(b, F)) :
              q.out = "ok" => G(q.st) \subseteq BareOr(At(b, Top(F, {w}, {})), Based(b, F))
      BY <1>5
    <2> HIDE DEF G
    <2> DEFINE U == BareOr(At(b, Top(F, {w}, {})), Based(b, F))
    <2>2. /\ \A q \in BareOr(A, Based(b, F)) : q.out # "ok" => q \in U
          /\ \A q \in BareOr(A, Based(b, F)), x \in U : [x EXCEPT !.kept = @ \cup q.kept] \in U
      BY <1>6
    <2> HIDE DEF U
    <2>3. \A q \in BareOr(A, Based(b, F)) : q.out = "ok" => G(q.st) \subseteq U
      BY <2>1 DEF U
    <2>4. Then(Savepoint(s, SAVEPOINT_NAME), G) \subseteq U
      BY <1>1, <2>2, <2>3 DEF Then
    <2>5. QED
      BY <2>4 DEF Guarded, G, U
  <1>9. ASSUME NEW k \in Cursors
        PROVE  Guarded(s, LAMBDA t : DeclareCursor(t, k)) \subseteq
                   BareOr(At(b, Top(F, {}, {k})), Based(b, F))
    <2> DEFINE G(t) == UNION {Unguard(r) : r \in DeclareCursor(t, k)}
    <2>1. \A q \in BareOr(A, Based(b, F)) :
              q.out = "ok" => G(q.st) \subseteq BareOr(At(b, Top(F, {}, {k})), Based(b, F))
      BY <1>5
    <2> HIDE DEF G
    <2> DEFINE U == BareOr(At(b, Top(F, {}, {k})), Based(b, F))
    <2>2. /\ \A q \in BareOr(A, Based(b, F)) : q.out # "ok" => q \in U
          /\ \A q \in BareOr(A, Based(b, F)), x \in U : [x EXCEPT !.kept = @ \cup q.kept] \in U
      BY <1>6
    <2> HIDE DEF U
    <2>3. \A q \in BareOr(A, Based(b, F)) : q.out = "ok" => G(q.st) \subseteq U
      BY <2>1 DEF U
    <2>4. Then(Savepoint(s, SAVEPOINT_NAME), G) \subseteq U
      BY <1>1, <2>2, <2>3 DEF Then
    <2>5. QED
      BY <2>4 DEF Guarded, G, U
  <1>10. ASSUME NEW k
         PROVE  Guarded(s, LAMBDA t : FetchForward(t, k)) \subseteq BareOr(At(b, F), Based(b, F))
    <2> DEFINE G(t) == UNION {Unguard(r) : r \in FetchForward(t, k)}
    <2>1. \A q \in BareOr(A, Based(b, F)) :
              q.out = "ok" => G(q.st) \subseteq BareOr(At(b, F), Based(b, F))
      BY <1>5
    <2> HIDE DEF G
    <2>2. Then(Savepoint(s, SAVEPOINT_NAME), G) \subseteq BareOr(At(b, F), Based(b, F))
      BY <1>1, <1>6, <2>1 DEF Then
    <2>3. QED
      BY <2>2 DEF Guarded, G
  <1>11. QED
    BY <1>7, <1>8, <1>9, <1>10

\* ROLLBACK TO of a savepoint of the user's.
LEMMA RollbackToBased ==
    ASSUME NEW b \in Blocks, NEW F \in Stacks, NEW s \in Based(b, F),
           NEW name \in Names, name # SAVEPOINT_NAME, NEW at, at = Innermost(F, name), at # 0
    PROVE  RollbackToSavepoint(s, name) \subseteq
               BareOr(At(b, Append(SubSeq(F, 1, at - 1), NewFrame(name))), Based(b, F))
  <1> DEFINE H == Append(SubSeq(F, 1, at - 1), NewFrame(name))
             S == At(b, H)
             T == Based(b, F)
  <1>1. s \in Session /\ s \in Stays(b) /\ F \in Seq(Frame)
    BY DEF Based, Stays, Stacks
  <1>2. at \in 2 .. Len(F)
    BY <1>1, InnermostFrame
  <1>3. s \in T /\ Errored(s) \in T /\ Dead \in T
    BY BasedSessions
  <1>4. "ok" \in Outcomes /\ "error" \in Outcomes
    BY DEF Outcomes
  <1>5. /\ Reply(s, "error") \in BareOr(S, T) /\ Reply(Dead, "error") \in BareOr(S, T)
        /\ Reply(Errored(s), "error") \in BareOr(S, T)
    <2> HIDE DEF S, T
    <2>1. QED
      BY <1>3, <1>4, BareType
  <1>6. CASE ~s.alive
    <2>1. Command(s, [s EXCEPT !.failed = FALSE,
                               !.frames = Append(SubSeq(@, 1, Innermost(s.frames, name) - 1),
                                                 NewFrame(name))]) = {Reply(s, "error")}
      BY <1>6 DEF Command
    <2>2. QED
      BY <1>5, <2>1 DEF RollbackToSavepoint
  <1>7. CASE s.alive
    <2> DEFINE good == [s EXCEPT !.failed = FALSE,
                                 !.frames = Append(SubSeq(@, 1, at - 1), NewFrame(name))]
    <2>1. /\ Innermost(s.frames, name) = at
          /\ SubSeq(s.frames, 1, at - 1) = SubSeq(F, 1, at - 1)
      <3>1. CASE s.frames = F
        BY <3>1
      <3>2. CASE s.frames # F
        <4>1. PICK f \in Frame : f.name = SAVEPOINT_NAME /\ s.frames = Append(F, f)
          BY <1>7, <3>2 DEF Based
        <4>2. Innermost(s.frames, name) = at
          BY <4>1, InnermostBelow
        <4>3. /\ Append(F, f) \in Seq(Frame) /\ Len(Append(F, f)) = Len(F) + 1
              /\ \A i \in 1 .. Len(F) : Append(F, f)[i] = F[i]
          BY <1>1, AppendStack DEF Stacks
        <4> DEFINE A == Append(F, f)
        <4> HIDE DEF A
        <4>4. /\ A \in Seq(Frame) /\ Len(A) = Len(F) + 1 /\ \A i \in 1 .. Len(F) : A[i] = F[i]
          BY <4>3 DEF A
        <4>5. /\ at - 1 \in Nat /\ at - 1 <= Len(F) /\ Len(F) \in Nat
              /\ \A i \in 1 .. at - 1 : A[i] \in Frame /\ F[i] \in Frame /\ A[i] = F[i]
          BY <1>1, <1>2, <4>4
        <4>6. SubSeq(A, 1, at - 1) = SubSeq(F, 1, at - 1)
          <5> DEFINE n == at - 1
          <5>1. n \in Int /\ 1 \in Int /\ (\A i \in 1 .. n : 1 + i - 1 = i) /\ n - 1 + 1 = n
            BY <4>5
          <5> HIDE DEF n
          <5>2. ASSUME NEW G, \A i \in 1 .. n : G[i] \in Frame
                PROVE  /\ SubSeq(G, 1, n) \in Seq(Frame)
                       /\ Len(SubSeq(G, 1, n)) = IF 1 <= n THEN n ELSE 0
                       /\ \A i \in 1 .. n : SubSeq(G, 1, n)[i] = G[i]
            BY <5>1, <5>2, SubSeqProperties
          <5>3. \A i \in 1 .. n : A[i] \in Frame /\ F[i] \in Frame /\ A[i] = F[i]
            BY <4>5 DEF n
          <5>4. /\ SubSeq(A, 1, n) \in Seq(Frame) /\ SubSeq(F, 1, n) \in Seq(Frame)
                /\ Len(SubSeq(A, 1, n)) = Len(SubSeq(F, 1, n))
                /\ Len(SubSeq(A, 1, n)) \in {n, 0} /\ (Len(SubSeq(A, 1, n)) <= n \/ n < 0)
                /\ \A i \in 1 .. n : SubSeq(A, 1, n)[i] = SubSeq(F, 1, n)[i]
            BY <5>1, <5>2, <5>3
          <5>5. \A i \in 1 .. Len(SubSeq(A, 1, n)) : SubSeq(A, 1, n)[i] = SubSeq(F, 1, n)[i]
            BY <4>5, <5>1, <5>2, <5>3, <5>4 DEF n
          <5>6. SubSeq(A, 1, n) = SubSeq(F, 1, n)
            BY <5>4, <5>5, <5>2, <5>3, SeqEqual
          <5>7. QED
            BY <5>6 DEF n
        <4>7. QED
          BY <4>1, <4>2, <4>6 DEF A
      <3>3. QED
        BY <3>1, <3>2
    <2>2. good \in S
      <3>1. SubSeq(F, 1, at - 1) \in Seq(Frame)
        BY <1>1, <1>2
      <3>2. H \in Seq(Frame) /\ H # << >>
        <4> HIDE DEF H
        <4>1. QED
          BY <3>1, NewFrameType, AppendProperties DEF H
      <3>3. s.block = b /\ b # "none"
        BY <1>1, <1>7 DEF Stays, Blocks
      <3>4. good = [s EXCEPT !.failed = FALSE, !.frames = H]
        BY <1>1, <2>1 DEF Session
      <3> HIDE DEF H
      <3>5. [s EXCEPT !.failed = FALSE, !.frames = H] \in Stays(b)
        BY <1>1, <1>7, <3>2, <3>3 DEF Stays, SessionOK, Session
      <3>6. QED
        BY <1>1, <1>7, <3>4, <3>5 DEF At, Session
    <2> HIDE DEF good, S, T
    <2>3. Reply(good, "ok") \in BareOr(S, T)
      BY <1>4, <2>2, BareType
    <2>4. Command(s, good) \subseteq BareOr(S, T)
      BY <1>5, <2>3 DEF Command, Interrupted, Broken
    <2>5. QED
      BY <2>1, <2>4 DEF RollbackToSavepoint, good, S, T
  <1>8. QED
    BY <1>6, <1>7

-------------------------------------------------------------------------------
(* What the end of a block keeps *)

\* The writes done in the frames F up to the n-th.
Below(F, n) == UNION {F[i].done : i \in 1 .. n}

\* The writes of n frames are those of n - 1 and of the n-th.
LEMMA BelowFrames ==
    ASSUME NEW F \in Seq(Frame), NEW n \in 0 .. Len(F)
    PROVE  /\ Below(F, n) \subseteq Writes
           /\ \A m \in 0 .. n : Below(F, m) \subseteq Below(F, n)
           /\ n > 0 => Below(F, n) = Below(F, n - 1) \cup F[n].done
           /\ \A G : (\A i \in 1 .. n : G[i] = F[i]) => Below(G, n) = Below(F, n)
  <1>1. Below(F, n) \subseteq Writes
    <2> SUFFICES ASSUME NEW w \in Below(F, n)
                 PROVE  w \in Writes
      OBVIOUS
    <2>1. PICK i \in 1 .. n : w \in F[i].done
      BY DEF Below
    <2>2. F[i] \in Frame
      OBVIOUS
    <2>3. QED
      BY <2>1, <2>2 DEF Frame
  <1>2. \A m \in 0 .. n : Below(F, m) \subseteq Below(F, n)
    <2> SUFFICES ASSUME NEW m \in 0 .. n, NEW w \in Below(F, m)
                 PROVE  w \in Below(F, n)
      OBVIOUS
    <2>1. PICK i \in 1 .. m : w \in F[i].done
      BY DEF Below
    <2>2. i \in 1 .. n
      OBVIOUS
    <2>3. QED
      BY <2>1, <2>2 DEF Below
  <1>3. n > 0 => Below(F, n) = Below(F, n - 1) \cup F[n].done
    <2> SUFFICES ASSUME n > 0
                 PROVE  Below(F, n) = Below(F, n - 1) \cup F[n].done
      OBVIOUS
    <2>1. \A i : i \in 1 .. n <=> i \in 1 .. n - 1 \/ i = n
      OBVIOUS
    <2>2. QED
      BY <2>1 DEF Below
  <1>4. \A G : (\A i \in 1 .. n : G[i] = F[i]) => Below(G, n) = Below(F, n)
    BY DEF Below
  <1>5. QED
    BY <1>1, <1>2, <1>3, <1>4

\* What a COMMIT would keep are the writes of all frames.
LEMMA PendingBelow ==
    ASSUME NEW F \in Stacks, NEW s \in Session, s.frames = F
    PROVE  Pending(s) = Below(F, Len(F))
  <1>1. DOMAIN F = 1 .. Len(F)
    BY DEF Stacks
  <1>2. QED
    BY <1>1 DEF Pending, Below

\* What a COMMIT may answer, and what of K it keeps for each answer.
Kept(K) ==
    {r \in Replies(Parked) :
        /\ r.kept = {} \/ r.kept = K
        /\ r.out = "ok" => r.kept = K
        /\ r.out \notin {"ok", "unknown"} => r.kept = {}
        /\ r.out = "unknown" => r.st = Dead}

\* commit_checked and finish_block (engine.rs) keep the block's writes or none,
\* and say so unless the outcome is unknown.
LEMMA CommitKeeps ==
    ASSUME NEW s \in Sessions, NEW K, s.alive /\ ~s.failed => Pending(s) = K
    PROVE  CommitChecked(s) \subseteq Kept(K) /\ FinishBlock(s, "COMMIT") \subseteq Kept(K)
  <1>1. ASSUME NEW r \in CommitChecked(s)
        PROVE  r \in Kept(K)
    <2>1. r \in Replies(Parked)
      BY CommitCheckedParks
    <2>2. CASE \/ r = Reply(s, "never_sent") \/ r = Reply(s, "aborted")
               \/ r = Reply(Dead, "never_sent")
      BY <2>1, <2>2 DEF Kept, Reply
    <2>3. CASE s.alive /\ ~s.failed /\ r \in SendCommit(s)
      BY <2>1, <2>3 DEF Kept, Reply, SendCommit, Interrupted, LostCommit
    <2>4. QED
      BY <2>2, <2>3 DEF CommitChecked
  <1>2. ASSUME NEW r \in FinishBlock(s, "COMMIT")
        PROVE  r \in Kept(K)
    <2>1. r \in Replies(Parked)
      BY FinishBlockParks
    <2>2. PICK c \in CommitChecked(s) :
             r \in (IF c.out \in {"aborted", "error"}
                    THEN {Reply(t, c.out) : t \in RollBackQuietly(c.st)} ELSE {c})
      BY DEF FinishBlock
    <2>3. QED
      BY <1>1, <2>1, <2>2 DEF Kept, Reply
  <1>3. QED
    BY <1>1, <1>2

\* A ROLLBACK keeps nothing.
LEMMA RollbackKeeps ==
    ASSUME NEW s \in Sessions
    PROVE  /\ Rollback(s) \subseteq Bare(Parked)
           /\ FinishBlock(s, "ROLLBACK") \subseteq Bare(Parked)
           /\ \A K : Bare(Parked) \cap {r \in Replies(Parked) : r.out \notin {"ok", "unknown"}}
                        \subseteq Kept(K)
  <1>1. Rollback(s) \subseteq Replies(Parked)
    BY RollbackParks
  <1>2. \A r \in Rollback(s) : r.kept = {}
    BY DEF Rollback, Command, Interrupted, Broken, Reply
  <1>3. Rollback(s) \subseteq Bare(Parked)
    BY <1>1, <1>2 DEF Bare, Replies
  <1>4. QED
    BY <1>3 DEF FinishBlock, Bare, Kept

\* A statement in autocommit keeps its write if it is answered as done.
Alone(w) ==
    {r \in Replies(Parked) :
        /\ r.kept = {} \/ r.kept = {w}
        /\ r.out = "ok" => r.kept = {w}
        /\ r.out \notin {"ok", "unknown", "error"} => r.kept = {}}

\* A statement outside a block keeps its write when it is answered as done.
LEMMA RunAloneKeeps ==
    ASSUME NEW s \in Parked, NEW w \in Writes
    PROVE  RunAlone(s, w) \subseteq Alone(w)
  <1> SUFFICES ASSUME NEW r \in RunAlone(s, w)
               PROVE  r \in Alone(w)
    OBVIOUS
  <1>1. r \in Replies(Parked)
    BY RunAloneParks
  <1>2. CASE s.failed
    BY <1>1, <1>2 DEF RunAlone, RunWrite, Statement, Reply, Alone
  <1>3. CASE ~s.failed /\ ~s.alive
    BY <1>1, <1>3 DEF RunAlone, RunWrite, Statement, Command, Reply, Alone
  <1>4. CASE ~s.failed /\ s.alive
    <2>1. s.block = "none"
      BY <1>4 DEF Parked, Working
    <2>2. QED
      BY <1>1, <1>4, <2>1 DEF RunAlone, Reply, Alone
  <1>5. QED
    BY <1>2, <1>3, <1>4

\* BEGIN on a session between blocks gives the block its first frame.
LEMMA BeginBlockOpens ==
    ASSUME NEW s \in Parked, NEW mode \in {"read", "write"}
    PROVE  BeginBlock(s, mode) \subseteq BareOr({Opened(mode)}, Parked)
  <1>1. /\ s \in Sessions /\ Errored(s) \in Parked /\ Dead \in Parked
        /\ Opened(mode) \in Stays(mode) /\ Opened(mode) \in Sessions
        /\ Errored(Opened(mode)) \in Parked
    BY ParkedSessions, ErroredParked, OpenedStays
  <1>2. /\ "ok" \in Outcomes /\ "aborted" \in Outcomes /\ "error" \in Outcomes
    BY DEF Outcomes
  <1>3. s.failed \/ s.block = "none" \/ ~s.alive
    BY DEF Parked, Working
  <1>4. ~s.alive => s.block = "none"
    BY <1>1 DEF Sessions, SessionOK
  <1> DEFINE S == {Opened(mode)}
  <1>5. Opened(mode) \in S
    OBVIOUS
  <1> HIDE DEF S
  <1>6. /\ Reply(s, "aborted") \in BareOr(S, Parked) /\ Reply(s, "error") \in BareOr(S, Parked)
        /\ Reply(Errored(s), "error") \in BareOr(S, Parked)
        /\ Reply(Dead, "error") \in BareOr(S, Parked)
        /\ Reply(Errored(Opened(mode)), "error") \in BareOr(S, Parked)
        /\ Reply(Opened(mode), "ok") \in BareOr(S, Parked)
    BY <1>1, <1>2, <1>5, BareType
  <1>7. BeginBlock(s, mode) \subseteq BareOr(S, Parked)
    BY <1>3, <1>4, <1>6 DEF BeginBlock, Command, Interrupted, Broken
  <1>8. QED
    BY <1>7 DEF S

\* The block just begun, with one write in it.
LEMMA OpenedFrames ==
    ASSUME NEW mode \in {"read", "write"}
    PROVE  /\ << NewFrame("block") >> \in Stacks /\ Len(<< NewFrame("block") >>) = 1
           /\ << NewFrame("block") >>[1] = NewFrame("block")
           /\ Opened(mode) \in At(mode, << NewFrame("block") >>)
  <1>1. NewFrame("block") \in Frame
    BY NewFrameType
  <1>2. << NewFrame("block") >> \in Seq(Frame) /\ << NewFrame("block") >> # << >>
    BY <1>1
  <1>3. Opened(mode) \in Stays(mode)
    BY OpenedStays
  <1>4. QED
    BY <1>2, <1>3 DEF Stacks, At, Opened

\* A write in a block just begun is all that the block would keep.
LEMMA OpenedWrite ==
    ASSUME NEW w \in Writes
    PROVE  /\ \A r \in RunWrite(Opened("write"), w) :
                 /\ r.out = "ok" => r.st = Adding(Opened("write"), {w}, {})
                 /\ r.kept = {}
           /\ Pending(Adding(Opened("write"), {w}, {})) = {w}
           /\ Adding(Opened("write"), {w}, {}) \in Sessions
  <1> DEFINE s == Opened("write")
             F == << NewFrame("block") >>
             a == Adding(s, {w}, {})
  <1>1. /\ s.block = "write" /\ s.alive /\ ~s.failed /\ s.frames = F /\ Len(F) = 1
        /\ F \in Seq(Frame) /\ F[1] = NewFrame("block") /\ F[1].done = {}
    BY OpenedFrames DEF Opened, Stacks, NewFrame
  <1>2. s \in Stays("write")
    BY OpenedStays
  <1>3. a \in Sessions
    BY <1>1, <1>2, AddingStays, ParkedSessions
  <1>4. a.frames = [F EXCEPT ![1] = Grown(F[1], {w}, {})]
    <2>1. Len(s.frames) = 1 /\ 1 \in DOMAIN s.frames
      BY <1>1
    <2>2. a = [s EXCEPT !.frames = [s.frames EXCEPT ![1] = Grown(s.frames[1], {w}, {})]]
      BY <1>2, <2>1 DEF Adding, Grown, Stays, Session
    <2>3. QED
      BY <1>1, <1>2, <2>2 DEF Stays, Session
  <1>5. DOMAIN a.frames = {1} /\ a.frames[1].done = {w}
    <2>1. DOMAIN F = {1}
      OBVIOUS
    <2>2. F[1] \in Frame
      BY <1>1
    <2>3. Grown(F[1], {w}, {}).done = {w}
      BY <1>1, <2>2 DEF Grown, Frame
    <2> HIDE DEF F
    <2>4. QED
      BY <1>4, <2>1, <2>3
  <1>6. Pending(a) = {w}
    <2> HIDE DEF a
    <2>1. QED
      BY <1>5 DEF Pending
  <1>7. ASSUME NEW r \in RunWrite(s, w)
        PROVE  (r.out = "ok" => r.st = a) /\ r.kept = {}
    <2> HIDE DEF a
    <2>1. r \in Statement(s, a)
      <3>1. a = Adding(s, {w}, {})
        BY DEF a
      <3> HIDE DEF s
      <3>2. QED
        BY <1>1, <3>1 DEF RunWrite
    <2> HIDE DEF s
    <2>2. QED
      BY <1>1, <2>1 DEF Statement, Command, Interrupted, Broken, Reply
  <1>8. QED
    BY <1>3, <1>6, <1>7

\* autocommit and copy_in_on outside a handle (engine.rs).
LEMMA AutocommitKeeps ==
    ASSUME NEW s \in Parked, NEW w \in Writes, NEW outside
    PROVE  Autocommit(s, w, outside) \subseteq Alone(w)
  <1>1. CASE Prefixed /\ ~outside
    <2> DEFINE F(t) == UNION {SettleTransaction(r.st, r.out) : r \in RunWrite(t, w)}
               a == Adding(Opened("write"), {w}, {})
    <2>1. Kept({w}) \subseteq Alone(w)
      BY DEF Kept, Alone
    <2>2. F(Opened("write")) \subseteq Alone(w)
      <3> SUFFICES ASSUME NEW r \in RunWrite(Opened("write"), w),
                          NEW x \in SettleTransaction(r.st, r.out)
                   PROVE  x \in Alone(w)
        OBVIOUS
      <3>1. CASE r.out = "ok"
        <4>1. CommitChecked(a) \subseteq Kept({w})
          BY OpenedWrite, CommitKeeps
        <4>2. r.st = a
          BY <3>1, OpenedWrite
        <4>3. QED
          BY <2>1, <3>1, <4>1, <4>2 DEF SettleTransaction
      <3>2. CASE r.out # "ok"
        <4>1. r \in Replies(Stays("write"))
          BY OpenedStays, RunWriteStays
        <4>2. r.out \in Outcomes /\ r.st \in Sessions
          BY <4>1, ParkedSessions DEF Replies
        <4>3. x \in Replies(Parked)
          BY <4>2, SettleTransactionParks
        <4>4. PICK t \in RollBackQuietly(r.st) : x = Reply(t, r.out)
          BY <3>2 DEF SettleTransaction
        <4>5. QED
          BY <3>2, <4>3, <4>4 DEF Reply, Alone
      <3>3. QED
        BY <3>1, <3>2
    <2>3. \A x \in Alone(w), q \in BareOr({Opened("write")}, Parked) :
              [x EXCEPT !.kept = @ \cup q.kept] \in Alone(w)
      BY DEF Alone, Replies, BareOr, Bare
    <2>4. \A q \in BareOr({Opened("write")}, Parked) : q.out # "ok" => q \in Alone(w)
      BY DEF Alone, Replies, BareOr, Bare
    <2>5. \A q \in BareOr({Opened("write")}, Parked) : q.out = "ok" => q.st = Opened("write")
      BY DEF BareOr, Bare
    <2> HIDE DEF F
    <2>6. Then(BeginBlock(s, "write"), F) \subseteq Alone(w)
      BY SMTT(30), <2>2, <2>3, <2>4, <2>5, BeginBlockOpens DEF Then
    <2>7. QED
      BY <1>1, <2>6 DEF Autocommit, F
  <1>2. QED
    BY <1>1, RunAloneKeeps DEF Autocommit

\* run_and_rollback (engine.rs) keeps nothing.
LEMMA RunThenRollbackKeeps ==
    ASSUME NEW s \in Parked, NEW w \in Writes
    PROVE  RunThenRollback(s, w) \subseteq Bare(Parked)
  <1> DEFINE G(t) == Guarded(t, LAMBDA u : RunWrite(u, w))
             out(g, r) == IF r.st.alive /\ r.out # "ok" THEN r.out ELSE g.out
             F(t) == UNION {{Reply(r.st, out(g, r)) : r \in Rollback(g.st)} : g \in G(t)}
  <1>1. \A t : \A x \in F(t) : x.kept = {}
    <2> HIDE DEF out, G
    <2>1. QED
      BY DEF Reply
  <1> HIDE DEF F
  <1>2. RunThenRollback(s, w) = Then(BeginBlock(s, "write"), F)
    BY DEF RunThenRollback, F, out, G
  <1>3. \A q \in BeginBlock(s, "write") : q.kept = {}
    BY BeginBlockOpens DEF BareOr, Bare
  <1>4. ASSUME NEW x \in RunThenRollback(s, w)
        PROVE  x.kept = {}
    <2>1. PICK q \in BeginBlock(s, "write") :
             x \in (IF q.out = "ok" THEN {[y EXCEPT !.kept = @ \cup q.kept] : y \in F(q.st)}
                    ELSE {q})
      BY <1>2 DEF Then
    <2>2. CASE q.out = "ok"
      <3>1. PICK y \in F(q.st) : x = [y EXCEPT !.kept = @ \cup q.kept]
        BY <2>1, <2>2
      <3>2. x.kept = y.kept \cup q.kept
        <4>1. PICK g \in G(q.st) : \E r \in Rollback(g.st) : y = Reply(r.st, out(g, r))
          BY DEF F
        <4>2. PICK r \in Rollback(g.st) : y = Reply(r.st, out(g, r))
          BY <4>1
        <4> HIDE DEF out
        <4>3. QED
          BY <3>1, <4>2 DEF Reply
      <3>3. QED
        BY <1>1, <1>3, <3>1, <3>2
    <2>3. QED
      BY <1>3, <2>1, <2>2
  <1>5. QED
    BY <1>4, RunThenRollbackParks DEF Bare, Replies

-------------------------------------------------------------------------------
(* Handles                                                                 *)

\* A call refused, or cancelled before its statement, changes nothing.
LEMMA RefuseType ==
    ASSUME NEW S, NEW p \in S
    PROVE  Refuse(p) \subseteq Replies(S) /\ Track(p) \subseteq Replies(S)
  BY ReplyType DEF Refuse, Track, Outcomes

\* A savepoint the handle finds by name is one of its own.
LEMMA LastNamedSavepoint ==
    ASSUME NEW savepoints \in Seq(SavepointType), NEW name, LastNamed(savepoints, name) # 0
    PROVE  LastNamed(savepoints, name) \in 1 .. Len(savepoints)
  BY DEF LastNamed

\* The frames F the server holds for the handle h: one for the block, one for
\* each savepoint, in order, with the writes the caller was answered as done.
Stack(h, F) ==
    /\ Len(F) = Len(h.savepoints) + 1
    /\ \A j \in 1 .. Len(h.savepoints) : /\ F[j + 1].name = h.savepoints[j].name
                                         /\ h.savepoints[j].sofar = Below(F, j)
    /\ h.done = Below(F, Len(F))
    /\ \A i \in 1 .. Len(F) : F[i].portals = {}

\* The session s holds what the handle h remembers, or has failed on its way.
Mirrors(h, s) == \E F \in Stacks : Stack(h, F) /\ s \in Based("write", F)

\* A block just begun.
LEMMA StackBegun ==
    ASSUME NEW h, h.savepoints = << >>, h.done = {}
    PROVE  Mirrors(h, Opened("write"))
  <1> DEFINE F == << NewFrame("block") >>
  <1>1. F \in Stacks /\ Len(F) = 1 /\ F[1] = NewFrame("block") /\ Opened("write") \in At("write", F)
    BY OpenedFrames
  <1>2. Opened("write") \in Based("write", F)
    BY <1>1, BasedSessions DEF Blocks
  <1>3. Len(h.savepoints) = 0
    OBVIOUS
  <1>4. 1 .. 1 = {1} /\ 1 .. 0 = {}
    OBVIOUS
  <1> HIDE DEF F
  <1>5. Below(F, 1) = {}
    BY <1>1, <1>4 DEF Below, NewFrame
  <1>6. Stack(h, F)
    BY <1>1, <1>3, <1>4, <1>5 DEF Stack, NewFrame
  <1>7. QED
    BY <1>1, <1>2, <1>6 DEF Mirrors

\* A statement that was acknowledged joins the innermost frame.
LEMMA StackWrote ==
    ASSUME NEW h, NEW h2, NEW F \in Stacks, NEW w \in Writes, Stack(h, F),
           h.savepoints \in Seq(SavepointType),
           h2.savepoints = h.savepoints, h2.done = h.done \cup {w}
    PROVE  Stack(h2, Top(F, {w}, {}))
  <1> DEFINE n == Len(F)
             G == Top(F, {w}, {})
  <1>1. n \in Nat /\ n >= 1 /\ F \in Seq(Frame)
    BY DEF Stacks
  <1>2. /\ G \in Seq(Frame) /\ Len(G) = n
        /\ \A i \in 1 .. n - 1 : G[i] = F[i]
        /\ G[n] = Grown(F[n], {w}, {})
    BY TopFrames DEF Stacks
  <1>3. F[n] \in Frame
    BY <1>1
  <1>4. G[n].name = F[n].name /\ G[n].done = F[n].done \cup {w} /\ G[n].portals = F[n].portals
    BY ZenonT(60), <1>2, <1>3 DEF Grown, Frame
  <1> HIDE DEF G, n
  <1>5. \A i \in 1 .. n : G[i].name = F[i].name /\ G[i].portals = F[i].portals
    BY <1>1, <1>2, <1>4
  <1>6. \A m \in 0 .. n - 1 : Below(G, m) = Below(F, m)
    <2> SUFFICES ASSUME NEW m \in 0 .. n - 1
                 PROVE  Below(G, m) = Below(F, m)
      OBVIOUS
    <2>1. \A i \in 1 .. m : G[i] = F[i]
      BY <1>1, <1>2
    <2>2. m \in 0 .. Len(F)
      BY <1>1 DEF n
    <2>3. QED
      BY <1>1, <2>1, <2>2, BelowFrames
  <1>7. Below(G, n) = Below(F, n) \cup {w}
    <2>1. n \in 0 .. Len(F) /\ n \in 0 .. Len(G) /\ n > 0 /\ n - 1 \in 0 .. n - 1
      BY <1>1, <1>2 DEF n
    <2>2. Below(F, n) = Below(F, n - 1) \cup F[n].done
      BY <1>1, <2>1, BelowFrames
    <2>3. Below(G, n) = Below(G, n - 1) \cup G[n].done
      BY <1>2, <2>1, BelowFrames
    <2>4. QED
      BY <1>4, <1>6, <2>1, <2>2, <2>3
  <1>8. n = Len(h.savepoints) + 1 /\ Len(h.savepoints) \in Nat
    BY DEF Stack, n
  <1>9. \A j \in 1 .. Len(h.savepoints) : j \in 0 .. n - 1 /\ j + 1 \in 1 .. n
    BY <1>8
  <1>10. Stack(h2, G)
    BY <1>2, <1>5, <1>6, <1>7, <1>8, <1>9 DEF Stack, n
  <1>11. QED
    BY <1>10 DEF G

\* SAVEPOINT puts a frame on top for the mark the handle makes.
LEMMA StackMarked ==
    ASSUME NEW h, NEW h2, NEW F \in Stacks, NEW name \in Names, Stack(h, F),
           h.savepoints \in Seq(SavepointType), h.done \subseteq Writes,
           h2.savepoints = Append(h.savepoints, [name |-> name, sofar |-> h.done]),
           h2.done = h.done
    PROVE  Stack(h2, Append(F, NewFrame(name)))
  <1> DEFINE n == Len(F)
             f == NewFrame(name)
             G == Append(F, f)
             mark == [name |-> name, sofar |-> h.done]
             S == h.savepoints
             S2 == h2.savepoints
  <1>1. n \in Nat /\ n >= 1 /\ F \in Seq(Frame)
    BY DEF Stacks
  <1>2. f \in Frame /\ f.name = name /\ f.done = {} /\ f.portals = {}
    BY NewFrameType DEF NewFrame
  <1>3. /\ G \in Seq(Frame) /\ Len(G) = n + 1 /\ G[n + 1] = f
        /\ \A i \in 1 .. n : G[i] = F[i]
    <2> HIDE DEF f
    <2>1. QED
      BY <1>1, <1>2, AppendStack DEF Stacks
  <1>4. mark \in SavepointType /\ mark.name = name /\ mark.sofar = h.done
    BY DEF SavepointType
  <1> HIDE DEF mark, f, G
  <1>5. /\ S2 = Append(S, mark) /\ S \in Seq(SavepointType)
    BY DEF mark
  <1>6. /\ Len(S2) = Len(S) + 1 /\ S2[Len(S) + 1] = mark /\ Len(S) \in Nat
        /\ \A j \in 1 .. Len(S) : S2[j] = S[j]
    <2> HIDE DEF S, S2
    <2>1. QED
      BY <1>4, <1>5, AppendProperties
  <1>7. /\ n = Len(S) + 1 /\ h.done = Below(F, n)
        /\ \A j \in 1 .. Len(S) : F[j + 1].name = S[j].name /\ S[j].sofar = Below(F, j)
        /\ \A i \in 1 .. n : F[i].portals = {}
    BY DEF Stack
  <1> HIDE DEF S, S2, n
  <1>8. \A m \in 0 .. n : Below(G, m) = Below(F, m)
    <2> SUFFICES ASSUME NEW m \in 0 .. n
                 PROVE  Below(G, m) = Below(F, m)
      OBVIOUS
    <2>1. m \in 0 .. Len(F) /\ \A i \in 1 .. m : G[i] = F[i]
      BY SMTT(30), <1>1, <1>3 DEF n
    <2>2. QED
      BY <1>1, <2>1, BelowFrames
  <1>9. Below(G, n + 1) = Below(F, n)
    <2>1. n + 1 \in 0 .. Len(G) /\ n + 1 > 0 /\ n + 1 - 1 = n /\ n \in 0 .. n
      BY <1>1, <1>3
    <2>2. Below(G, n + 1) = Below(G, n) \cup G[n + 1].done
      BY <1>3, <2>1, BelowFrames
    <2>3. QED
      BY <1>2, <1>3, <1>8, <2>1, <2>2
  <1>10. ASSUME NEW j \in 1 .. Len(S2)
         PROVE  G[j + 1].name = S2[j].name /\ S2[j].sofar = Below(G, j)
    <2>1. CASE j = n
      BY <1>1, <1>2, <1>3, <1>4, <1>6, <1>7, <1>8, <2>1
    <2>2. CASE j # n
      <3>1. j \in 1 .. Len(S) /\ j + 1 \in 1 .. n /\ j \in 0 .. n
        BY <1>6, <1>7, <2>2
      <3>2. QED
        BY <1>3, <1>6, <1>7, <1>8, <3>1
    <2>3. QED
      BY <2>1, <2>2
  <1>11. \A i \in 1 .. n + 1 : G[i].portals = {}
    <2>1. \A i \in 1 .. n : G[i].portals = {}
      BY <1>3, <1>7
    <2>2. \A i \in 1 .. n + 1 : i \in 1 .. n \/ i = n + 1
      BY <1>1
    <2>3. QED
      BY <1>2, <1>3, <2>1, <2>2
  <1>12. Stack(h2, G)
    BY <1>1, <1>3, <1>6, <1>7, <1>9, <1>10, <1>11 DEF Stack, S2
  <1>13. QED
    BY <1>12 DEF G, f

\* LastNamed(savepoints, name) is to the handle what Innermost is to the server.
LEMMA LastNamedIs ==
    ASSUME NEW savepoints \in Seq(SavepointType), NEW name,
           NEW at, at = LastNamed(savepoints, name), at # 0
    PROVE  /\ at \in 1 .. Len(savepoints)
           /\ savepoints[at].name = name
           /\ \A j \in at + 1 .. Len(savepoints) : savepoints[j].name # name
  <1> DEFINE last == {i \in DOMAIN savepoints :
                        /\ savepoints[i].name = name
                        /\ \A j \in i + 1 .. Len(savepoints) : savepoints[j].name # name}
  <1>1. at = IF last = {} THEN 0 ELSE CHOOSE i \in last : TRUE
    BY DEF LastNamed
  <1>2. \A i \in last : /\ i \in 1 .. Len(savepoints)
                        /\ savepoints[i].name = name
                        /\ \A j \in i + 1 .. Len(savepoints) : savepoints[j].name # name
    OBVIOUS
  <1> HIDE DEF last
  <1>3. at \in last
    BY <1>1
  <1>4. QED
    BY <1>2, <1>3

\* rollback_to finds on the server the savepoint it found in the handle, and
\* leaves both with what was done when it was set.
LEMMA StackUndone ==
    ASSUME NEW h, NEW name \in Names, NEW F \in Stacks, Stack(h, F),
           h.savepoints \in Seq(SavepointType), h.done \subseteq Writes,
           NEW at, at \in 1 .. Len(h.savepoints), h.savepoints[at].name = name,
           \A j \in at + 1 .. Len(h.savepoints) : h.savepoints[j].name # name,
           NEW h2, h2.savepoints = SubSeq(h.savepoints, 1, at), h2.done = h.savepoints[at].sofar
    PROVE  /\ Innermost(F, name) = at + 1
           /\ Append(SubSeq(F, 1, at), NewFrame(name)) \in Stacks
           /\ Stack(h2, Append(SubSeq(F, 1, at), NewFrame(name)))
           /\ h2.done \subseteq h.done
  <1> DEFINE n == Len(F)
             f == NewFrame(name)
             L == SubSeq(F, 1, at)
             G == Append(L, f)
             S == h.savepoints
             S2 == h2.savepoints
  <1>1. n \in Nat /\ n >= 1 /\ F \in Seq(Frame)
    BY DEF Stacks
  <1>2. f \in Frame /\ f.name = name /\ f.done = {} /\ f.portals = {}
    BY NewFrameType DEF NewFrame
  <1>3. /\ n = Len(S) + 1 /\ h.done = Below(F, n) /\ Len(S) \in Nat
        /\ \A j \in 1 .. Len(S) : F[j + 1].name = S[j].name /\ S[j].sofar = Below(F, j)
        /\ \A i \in 1 .. n : F[i].portals = {}
    BY DEF Stack
  <1>4. /\ at \in 1 .. Len(S) /\ S[at].name = name
        /\ \A j \in at + 1 .. Len(S) : S[j].name # name
    OBVIOUS
  <1>5. at \in Nat /\ at >= 1 /\ at < n
    BY <1>3, <1>4
  <1>6. Innermost(F, name) = at + 1
    <2>1. at + 1 \in Named(F, name)
      <3>1. \A j \in at + 1 + 1 .. n : j - 1 \in at + 1 .. Len(S) /\ (j - 1) + 1 = j
        BY <1>3, <1>5
      <3>2. \A j \in at + 1 + 1 .. n : F[j].name # name
        <4> SUFFICES ASSUME NEW j \in at + 1 + 1 .. n
                     PROVE  F[j].name # name
          OBVIOUS
        <4>1. j - 1 \in 1 .. Len(S) /\ F[(j - 1) + 1].name = S[j - 1].name
          BY <1>3, <1>5, <3>1
        <4>2. QED
          BY <1>4, <3>1, <4>1
      <3>3. F[at + 1].name = name /\ at + 1 \in 2 .. n
        BY <1>3, <1>4, <1>5
      <3>4. QED
        BY <3>2, <3>3 DEF Named
    <2>2. ASSUME NEW i \in Named(F, name)
          PROVE  i = at + 1
      <3>1. i \in 2 .. n /\ F[i].name = name /\ \A j \in i + 1 .. n : F[j].name # name
        BY DEF Named
      <3>2. i - 1 \in 1 .. Len(S) /\ (i - 1) + 1 = i /\ i \in Nat
        BY <1>3, <3>1
      <3>3. S[i - 1].name = name
        BY <1>3, <3>1, <3>2
      <3>4. ~(i - 1 \in at + 1 .. Len(S))
        BY <1>4, <3>3
      <3>5. F[at + 1].name = name /\ at + 1 \in 2 .. n
        BY <1>3, <1>4, <1>5
      <3>6. ~(at + 1 \in i + 1 .. n)
        BY <3>1, <3>5
      <3>7. QED
        BY <1>3, <1>5, <3>2, <3>4, <3>6
    <2>3. Named(F, name) = {at + 1}
      BY <2>1, <2>2
    <2>4. QED
      BY <2>3, InnermostNamed
  <1>7. L \in Seq(Frame) /\ Len(L) = at /\ \A i \in 1 .. at : L[i] = F[i]
    BY <1>1, <1>5
  <1>8. S2 \in Seq(SavepointType) /\ Len(S2) = at /\ \A i \in 1 .. at : S2[i] = S[i]
    <2>1. S \in Seq(SavepointType) /\ S2 = SubSeq(S, 1, at)
      OBVIOUS
    <2> HIDE DEF S, S2
    <2>2. QED
      BY <1>4, <2>1
  <1>9. /\ G \in Stacks /\ G \in Seq(Frame) /\ Len(G) = at + 1 /\ G[at + 1] = f
        /\ \A i \in 1 .. at : G[i] = F[i]
    <2> HIDE DEF L, f
    <2>1. /\ G \in Stacks /\ Len(G) = Len(L) + 1 /\ G[Len(L) + 1] = f
          /\ \A i \in 1 .. Len(L) : G[i] = L[i]
      BY <1>2, <1>7, AppendStack
    <2> HIDE DEF G
    <2>2. QED
      BY <1>7, <2>1 DEF Stacks
  <1>10. h2.done = Below(F, at) /\ h2.done \subseteq h.done
    <2>1. at \in 0 .. n /\ n \in 0 .. Len(F)
      BY <1>1, <1>5
    <2>2. Below(F, at) \subseteq Below(F, n)
      BY <1>1, <2>1, BelowFrames
    <2>3. QED
      BY <1>3, <1>4, <2>2
  <1> HIDE DEF G, L, f, S, S2, n
  <1>11. \A m \in 0 .. at : Below(G, m) = Below(F, m)
    <2> SUFFICES ASSUME NEW m \in 0 .. at
                 PROVE  Below(G, m) = Below(F, m)
      OBVIOUS
    <2>1. m \in 0 .. Len(F) /\ \A i \in 1 .. m : G[i] = F[i]
      BY <1>1, <1>5, <1>9 DEF n
    <2>2. QED
      BY <1>1, <2>1, BelowFrames
  <1>12. Below(G, at + 1) = Below(F, at)
    <2>1. at + 1 \in 0 .. Len(G) /\ at + 1 > 0 /\ at + 1 - 1 = at /\ at \in 0 .. at
      BY <1>5, <1>9
    <2>2. Below(G, at + 1) = Below(G, at) \cup G[at + 1].done
      BY <1>9, <2>1, BelowFrames
    <2>3. QED
      BY <1>2, <1>9, <1>11, <2>1, <2>2
  <1>13. ASSUME NEW j \in 1 .. at
         PROVE  G[j + 1].name = S2[j].name /\ S2[j].sofar = Below(G, j)
    <2>1. j \in 1 .. Len(S) /\ j \in 0 .. at
      BY <1>4
    <2>2. S2[j].sofar = Below(G, j)
      BY <1>3, <1>8, <1>11, <2>1
    <2>3. CASE j = at
      BY <1>2, <1>4, <1>8, <1>9, <2>2, <2>3
    <2>4. CASE j # at
      <3>1. j + 1 \in 1 .. at
        BY <1>5, <2>4
      <3>2. QED
        BY <1>3, <1>8, <1>9, <2>1, <2>2, <3>1
    <2>5. QED
      BY <2>3, <2>4
  <1>14. \A i \in 1 .. at + 1 : G[i].portals = {}
    BY <1>2, <1>3, <1>5, <1>9
  <1>15. Stack(h2, G)
    BY <1>8, <1>9, <1>10, <1>12, <1>13, <1>14 DEF Stack, S2
  <1>16. QED
    BY <1>6, <1>9, <1>10, <1>15 DEF G, L, f

-------------------------------------------------------------------------------
(* What a session may still make durable                                   *)

\* The sessions whose blocks hold none but the writes W and the cursors K.
Within(W, K) == {s \in Sessions : Pending(s) \subseteq W /\ Portals(s) \subseteq K}

\* Replies of a session that holds none but those; they keep nothing.
Held(W, K) == [st : Within(W, K), out : {"ok", "aborted", "error"}, kept : {{}}]

\* A reply that leaves the session within W.
LEMMA ReplyHeld ==
    ASSUME NEW W, NEW K, NEW st \in Within(W, K), NEW out \in {"ok", "aborted", "error"}
    PROVE  Reply(st, out) \in Held(W, K)
  BY DEF Held, Reply

\* Two such replies, one after the other.
LEMMA HeldThen ==
    ASSUME NEW W, NEW K, NEW q \in Held(W, K)
    PROVE  /\ q.st \in Within(W, K)
           /\ \A x \in Held(W, K) : [x EXCEPT !.kept = @ \cup q.kept] \in Held(W, K)
  BY DEF Held

\* A session outside a block holds nothing.
LEMMA NothingWithin ==
    ASSUME NEW W, NEW K
    PROVE  Dead \in Within(W, K) /\ Idle \in Within(W, K) /\ Stays("none") \subseteq Within(W, K)
  <1>1. ASSUME NEW s \in Stays("none")
        PROVE  s \in Within(W, K)
    <2>1. s \in Sessions /\ s.frames = << >>
      BY ParkedSessions DEF Stays, SessionOK
    <2>2. DOMAIN s.frames = {}
      BY <2>1
    <2>3. QED
      BY <2>1, <2>2 DEF Within, Pending, Portals
  <1>2. QED
    BY <1>1, DeadStays, IdleStays

\* Sessions with the same frames hold the same.
LEMMA SameFramesWithin ==
    ASSUME NEW W, NEW K, NEW s \in Within(W, K), NEW t \in Sessions, t.frames = s.frames
    PROVE  t \in Within(W, K)
  BY DEF Within, Pending, Portals

\* A server error takes nothing out of a block and adds nothing to it.
LEMMA ErroredWithin ==
    ASSUME NEW W, NEW K, NEW s \in Within(W, K)
    PROVE  Errored(s) \in Within(W, K)
  <1>1. Errored(s) \in Sessions
    BY ErroredParked, ParkedSessions DEF Within
  <1>2. Errored(s).frames = s.frames
    BY DEF Errored, Within, Sessions, Session
  <1>3. QED
    BY <1>1, <1>2, SameFramesWithin

\* Commands that add no write.
LEMMA CommandWithin ==
    ASSUME NEW W, NEW K, NEW s \in Within(W, K), NEW good
    PROVE  /\ good \in Within(W, K) => Command(s, good) \subseteq Held(W, K)
           /\ (s.block # "none" => good \in Within(W, K))
                  => BlockCommand(s, good) \subseteq Held(W, K)
           /\ good \in Within(W, K) => Statement(s, good) \subseteq Held(W, K)
  <1>1. /\ Errored(s) \in Within(W, K) /\ Dead \in Within(W, K) /\ s \in Within(W, K)
    BY ErroredWithin, NothingWithin
  <1>2. good \in Within(W, K) => Command(s, good) \subseteq Held(W, K)
    BY <1>1, ReplyHeld DEF Command, Interrupted, Broken
  <1>3. QED
    BY <1>1, <1>2, ReplyHeld DEF BlockCommand, Statement

\* A session with other frames of the same block.
LEMMA FramesWithin ==
    ASSUME NEW W, NEW K, NEW s \in Within(W, K), s.block # "none", NEW F \in Stacks,
           \A i \in 1 .. Len(F) : F[i].done \subseteq W /\ F[i].portals \subseteq K
    PROVE  /\ [s EXCEPT !.frames = F] \in Within(W, K)
           /\ [s EXCEPT !.failed = FALSE, !.frames = F] \in Within(W, K)
  <1> DEFINE a == [s EXCEPT !.frames = F]
             b == [s EXCEPT !.failed = FALSE, !.frames = F]
  <1>1. /\ s \in Session /\ SessionOK(s) /\ F \in Seq(Frame) /\ F # << >>
        /\ DOMAIN F = 1 .. Len(F)
    BY DEF Within, Sessions, Stacks
  <1>2. a \in Session /\ b \in Session /\ a.frames = F /\ b.frames = F
    BY <1>1 DEF Session
  <1>3. SessionOK(a) /\ SessionOK(b)
    BY <1>1, <1>2 DEF SessionOK, Session
  <1> HIDE DEF a, b
  <1>4. a \in Within(W, K) /\ b \in Within(W, K)
    BY <1>1, <1>2, <1>3 DEF Within, Sessions, Pending, Portals
  <1>5. QED
    BY <1>4 DEF a, b

\* The frames of a block with nothing in it but W and K.
LEMMA WithinFrames ==
    ASSUME NEW W, NEW K, NEW s \in Within(W, K)
    PROVE  /\ s.frames \in Seq(Frame)
           /\ \A i \in 1 .. Len(s.frames) :
                 s.frames[i].done \subseteq W /\ s.frames[i].portals \subseteq K
           /\ s.block # "none" => s.frames \in Stacks
  <1>1. s.frames \in Seq(Frame) /\ SessionOK(s)
    BY DEF Within, Sessions, Session
  <1>2. DOMAIN s.frames = 1 .. Len(s.frames)
    BY <1>1
  <1>3. QED
    BY <1>1, <1>2 DEF Within, Pending, Portals, SessionOK, Stacks

\* SAVEPOINT opens an empty frame.
LEMMA SavepointWithin ==
    ASSUME NEW W, NEW K, NEW s \in Within(W, K), NEW name \in Names \cup {SAVEPOINT_NAME}
    PROVE  Savepoint(s, name) \subseteq Held(W, K)
  <1> DEFINE f == NewFrame(name)
             F == s.frames
             G == Append(F, f)
  <1>1. F \in Seq(Frame) /\ \A i \in 1 .. Len(F) : F[i].done \subseteq W /\ F[i].portals \subseteq K
    BY WithinFrames
  <1>2. f \in Frame /\ f.done = {} /\ f.portals = {}
    BY NewFrameType DEF NewFrame
  <1> HIDE DEF F, f
  <1>3. /\ G \in Stacks /\ Len(G) = Len(F) + 1 /\ G[Len(F) + 1] = f
        /\ \A i \in 1 .. Len(F) : G[i] = F[i]
    BY <1>1, <1>2, AppendStack
  <1>4. Len(F) \in Nat
    BY <1>1
  <1>5. \A i \in 1 .. Len(G) : i \in 1 .. Len(F) \/ i = Len(F) + 1
    BY <1>3, <1>4
  <1>6. \A i \in 1 .. Len(G) : G[i].done \subseteq W /\ G[i].portals \subseteq K
    BY <1>1, <1>2, <1>3, <1>5
  <1> HIDE DEF G
  <1>7. s.block # "none" => [s EXCEPT !.frames = G] \in Within(W, K)
    BY <1>3, <1>6, FramesWithin
  <1>8. [s EXCEPT !.frames = Append(@, NewFrame(name))] = [s EXCEPT !.frames = G]
    BY DEF G, F, f
  <1>9. QED
    BY <1>7, <1>8, CommandWithin DEF Savepoint

\* RELEASE moves work from one frame to another.
LEMMA ReleaseWithin ==
    ASSUME NEW W, NEW K, NEW s \in Within(W, K)
    PROVE  Release(s) \subseteq Held(W, K)
  <1> DEFINE F == s.frames
             n == Len(F)
             low == SubSeq(F, 1, n - 2)
             top == [F[n-1] EXCEPT !.done = @ \cup F[n].done, !.portals = @ \cup F[n].portals]
             G == Append(low, top)
  <1>1. /\ F \in Seq(Frame) /\ n \in Nat
        /\ \A i \in 1 .. n : F[i].done \subseteq W /\ F[i].portals \subseteq K
    BY WithinFrames
  <1>2. ASSUME n >= 2, s.block # "none"
        PROVE  [s EXCEPT !.frames = G] \in Within(W, K)
    <2>1. n \in 1 .. n /\ n - 1 \in 1 .. n
      BY <1>1, <1>2
    <2>2. F[n] \in Frame /\ F[n-1] \in Frame
      BY <1>1, <2>1
    <2>3. top \in Frame /\ top.done \subseteq W /\ top.portals \subseteq K
      BY <1>1, <2>1, <2>2 DEF Frame
    <2>4. low \in Seq(Frame) /\ Len(low) = n - 2 /\ \A i \in 1 .. n - 2 : low[i] = F[i]
      <3> HIDE DEF F, n
      <3>1. n - 2 \in Int /\ 1 \in Int /\ n - 2 - 1 + 1 = n - 2
        BY <1>1
      <3>2. \A i \in 1 .. n - 2 : F[i] \in Frame /\ 1 + i - 1 = i
        BY <1>1 DEF n
      <3>3. /\ low \in Seq(Frame)
            /\ Len(low) = IF 1 <= n - 2 THEN n - 2 - 1 + 1 ELSE 0
            /\ \A i \in 1 .. n - 2 - 1 + 1 : low[i] = F[1 + i - 1]
        BY <3>1, <3>2, SubSeqProperties
      <3>4. QED
        BY <1>1, <1>2, <3>1, <3>2, <3>3
    <2> HIDE DEF low, top
    <2>5. /\ G \in Stacks /\ Len(G) = Len(low) + 1 /\ G[Len(low) + 1] = top
          /\ \A i \in 1 .. Len(low) : G[i] = low[i]
      BY <2>3, <2>4, AppendStack
    <2> HIDE DEF G
    <2>6. \A i \in 1 .. Len(G) : i \in 1 .. n - 2 \/ i = n - 1
      BY <1>1, <1>2, <2>4, <2>5
    <2>7. \A i \in 1 .. n - 2 : i \in 1 .. n
      BY <1>1, <1>2
    <2>8. \A i \in 1 .. Len(G) : G[i].done \subseteq W /\ G[i].portals \subseteq K
      <3>1. \A i \in 1 .. n - 2 : G[i] = F[i]
        BY <2>4, <2>5
      <3>2. G[n - 1] = top
        <4>1. Len(low) + 1 = n - 1
          BY <1>1, <2>4
        <4>2. QED
          BY <2>5, <4>1
      <3> HIDE DEF F, n
      <3>3. QED
        BY <1>1, <2>3, <2>6, <2>7, <3>1, <3>2
    <2>9. QED
      BY <1>2, <2>5, <2>8, FramesWithin
  <1>3. [s EXCEPT !.frames = Released(@)] = [s EXCEPT !.frames = G]
    BY DEF Released
  <1>4. CASE n < 2
    BY <1>4, ErroredWithin, ReplyHeld DEF Release
  <1>5. CASE ~(n < 2)
    <2>1. n >= 2
      BY <1>1, <1>5
    <2> HIDE DEF G
    <2>2. QED
      BY <1>2, <1>3, <1>5, <2>1, CommandWithin DEF Release
  <1>6. QED
    BY <1>4, <1>5

\* ROLLBACK TO drops work.
LEMMA RollbackToWithin ==
    ASSUME NEW W, NEW K, NEW s \in Within(W, K), NEW name \in Names \cup {SAVEPOINT_NAME}
    PROVE  RollbackToSavepoint(s, name) \subseteq Held(W, K)
  <1> DEFINE F == s.frames
             at == Innermost(F, name)
             low == SubSeq(F, 1, at - 1)
             f == NewFrame(name)
             G == Append(low, f)
  <1>1. /\ F \in Seq(Frame) /\ Len(F) \in Nat
        /\ \A i \in 1 .. Len(F) : F[i].done \subseteq W /\ F[i].portals \subseteq K
    BY WithinFrames
  <1>2. at = 0 \/ at \in 2 .. Len(F)
    BY InnermostFrame, <1>1
  <1>3. ASSUME at # 0
        PROVE  [s EXCEPT !.failed = FALSE, !.frames = G] \in Within(W, K)
    <2>1. at \in 2 .. Len(F)
      BY <1>2, <1>3
    <2> HIDE DEF at, F
    <2>2. low \in Seq(Frame) /\ Len(low) = at - 1 /\ \A i \in 1 .. at - 1 : low[i] = F[i]
      BY <1>1, <2>1
    <2>3. f \in Frame /\ f.done = {} /\ f.portals = {}
      BY NewFrameType DEF NewFrame
    <2> HIDE DEF low, f
    <2>4. /\ G \in Stacks /\ Len(G) = Len(low) + 1 /\ G[Len(low) + 1] = f
          /\ \A i \in 1 .. Len(low) : G[i] = low[i]
      BY <2>2, <2>3, AppendStack
    <2> HIDE DEF G
    <2>5. \A i \in 1 .. Len(G) : i \in 1 .. at - 1 \/ i = Len(low) + 1
      BY <2>1, <2>2, <2>4
    <2>6. \A i \in 1 .. at - 1 : i \in 1 .. Len(F)
      BY <1>1, <2>1
    <2>7. \A i \in 1 .. Len(G) : G[i].done \subseteq W /\ G[i].portals \subseteq K
      BY <1>1, <2>2, <2>3, <2>4, <2>5, <2>6
    <2>8. s.block # "none"
      <3>1. F # << >>
        BY <1>1, <2>1
      <3>2. QED
        BY <3>1 DEF Within, Sessions, SessionOK, F
    <2>9. QED
      BY <2>4, <2>7, <2>8, FramesWithin
  <1>4. CASE at = 0
    BY <1>4, ErroredWithin, ReplyHeld DEF RollbackToSavepoint
  <1>5. CASE at # 0
    <2> HIDE DEF G
    <2>1. Command(s, [s EXCEPT !.failed = FALSE, !.frames = G]) \subseteq Held(W, K)
      BY <1>3, <1>5, CommandWithin
    <2>2. RollbackToSavepoint(s, name) = Command(s, [s EXCEPT !.failed = FALSE, !.frames = G])
      BY <1>5 DEF RollbackToSavepoint, G
    <2>3. QED
      BY <2>1, <2>2
  <1>6. QED
    BY <1>4, <1>5

\* A statement adds its own write to the innermost frame.
LEMMA RunWriteWithin ==
    ASSUME NEW W, NEW K, NEW s \in Within(W, K), NEW w \in Writes, w \in W
    PROVE  RunWrite(s, w) \subseteq Held(W, K)
  <1> DEFINE F == s.frames
             n == Len(F)
             top == Grown(F[n], {w}, {})
             G == [F EXCEPT ![n] = top]
  <1>1. /\ F \in Seq(Frame) /\ n \in Nat
        /\ \A i \in 1 .. n : F[i].done \subseteq W /\ F[i].portals \subseteq K
    BY WithinFrames
  <1>2. ASSUME s.block # "none"
        PROVE  Adding(s, {w}, {}) \in Within(W, K)
    <2>1. F \in Stacks
      BY <1>2, WithinFrames
    <2>2. n \in 1 .. n
      BY <1>1, <2>1 DEF Stacks
    <2>3. F[n] \in Frame
      BY <1>1, <2>2
    <2>4. top \in Frame /\ top.done = F[n].done \cup {w} /\ top.portals = F[n].portals
      BY <2>3 DEF Grown, Frame
    <2>5. top.done \subseteq W /\ top.portals \subseteq K
      BY <1>1, <2>2, <2>4
    <2>6. Adding(s, {w}, {}) = [s EXCEPT !.frames = G]
      <3>1. s \in Session
        BY DEF Within, Sessions
      <3>2. QED
        BY ZenonT(60), <3>1, <2>2, <2>3 DEF Adding, Grown, Session
    <2> HIDE DEF F, top, n
    <2>7. G \in Stacks /\ Len(G) = n /\ \A i \in 1 .. n : G[i] = IF i = n THEN top ELSE F[i]
      <3>1. F \in Seq(Frame) /\ Len(F) = n /\ n \in 1 .. n /\ F # << >>
        BY <1>1, <2>1, <2>2 DEF n, Stacks
      <3>2. QED
        BY <2>4, <3>1 DEF Stacks
    <2>8. \A i \in 1 .. Len(G) : G[i].done \subseteq W /\ G[i].portals \subseteq K
      BY <1>1, <2>5, <2>7
    <2> HIDE DEF G
    <2>9. [s EXCEPT !.frames = G] \in Within(W, K)
      BY <1>2, <2>7, <2>8, FramesWithin
    <2>10. QED
      BY <2>6, <2>9
  <1>3. QED
    BY <1>2, CommandWithin, ErroredWithin, ReplyHeld DEF RunWrite

\* Replies without writes may follow one another.
LEMMA BareSteps ==
    ASSUME NEW S, NEW q \in Bare(S)
    PROVE  /\ q.st \in S
           /\ \A T : S \subseteq T => q \in Bare(T)
           /\ \A T : \A x \in Bare(T) : [x EXCEPT !.kept = @ \cup q.kept] \in Bare(T)
           /\ \A T : \A x \in Replies(T) : [x EXCEPT !.kept = @ \cup q.kept] = x
  BY DEF Bare, Replies

\* What is within the writes V is within any more.
LEMMA WithinGrows ==
    ASSUME NEW V, NEW W, NEW K, V \subseteq W
    PROVE  Within(V, K) \subseteq Within(W, K) /\ Held(V, K) \subseteq Held(W, K)
  BY DEF Within, Held

\* rollback_savepoint (engine.rs) adds nothing to the block.
LEMMA RollbackSavepointWithin ==
    ASSUME NEW W, NEW K, NEW s \in Within(W, K)
    PROVE  RollbackSavepoint(s) \subseteq Within(W, K)
  <1>1. RollbackToSavepoint(s, SAVEPOINT_NAME) \subseteq Held(W, K)
    BY RollbackToWithin
  <1>2. \A q \in Held(W, K) : Release(q.st) \subseteq Held(W, K)
    BY ReleaseWithin, HeldThen
  <1>3. Then(RollbackToSavepoint(s, SAVEPOINT_NAME), Release) \subseteq Held(W, K)
    BY <1>1, <1>2, HeldThen DEF Then
  <1>4. QED
    BY <1>3, HeldThen DEF RollbackSavepoint

\* The end of guarded (engine.rs) adds nothing to the block.
LEMMA UnguardWithin ==
    ASSUME NEW W, NEW K, NEW r \in Held(W, K)
    PROVE  Unguard(r) \subseteq Held(W, K)
  <1>1. r.st \in Within(W, K) /\ r.out \in {"ok", "aborted", "error"}
    BY DEF Held
  <1>2. QED
    BY <1>1, ReleaseWithin, RollbackSavepointWithin, ReplyHeld DEF Unguard

\* A statement under guarded adds its own write to the block and nothing else.
LEMMA GuardedWriteWithin ==
    ASSUME NEW W, NEW K, NEW s \in Within(W, K), NEW w \in Writes, w \in W
    PROVE  Guarded(s, LAMBDA t : RunWrite(t, w)) \subseteq Held(W, K)
  <1>1. \A q \in Held(W, K) : RunWrite(q.st, w) \subseteq Held(W, K)
    BY RunWriteWithin, HeldThen
  <1>2. Savepoint(s, SAVEPOINT_NAME) \subseteq Held(W, K)
    BY SavepointWithin
  <1>3. QED
    BY <1>1, <1>2, UnguardWithin, HeldThen DEF Guarded, Then

\* A block just begun holds nothing.
LEMMA OpenedWithin ==
    ASSUME NEW W, NEW K
    PROVE  Opened("write") \in Within(W, K)
  <1> DEFINE F == << NewFrame("block") >>
  <1>1. F \in Stacks /\ Len(F) = 1 /\ F[1] = NewFrame("block") /\ Opened("write") \in At("write", F)
    BY OpenedFrames
  <1>2. Opened("write") \in Sessions /\ Opened("write").frames = F
    BY <1>1, ParkedSessions DEF At
  <1>3. DOMAIN F = {1}
    BY <1>1 DEF Stacks
  <1> HIDE DEF F
  <1>4. QED
    BY <1>1, <1>2, <1>3 DEF Within, Pending, Portals, NewFrame

-------------------------------------------------------------------------------
(* The cursors of a block                                                  *)

\* The sessions of a read transaction with the cursors C, while it works.
Holding(C) == {s \in Stays("read") : Working(s) => Portals(s) = C}

\* The sessions of a write handle: no cursor is declared in its block.
WriteBlock == Stays("write") \cap Within(Writes, {})

\* A lost or failed read transaction has no cursor to disagree about.
LEMMA HoldingEnds ==
    ASSUME NEW C, NEW s \in Stays("read")
    PROVE  /\ Dead \in Holding(C) /\ Errored(s) \in Holding(C)
           /\ ~Working(s) => s \in Holding(C)
  <1>1. Dead \in Stays("read") /\ Errored(s) \in Stays("read")
    BY DeadStays, ErroredStays
  <1>2. ~Working(Dead) /\ ~Working(Errored(s))
    BY DEF Working, Dead, Errored, Stays, Session
  <1>3. QED
    BY <1>1, <1>2 DEF Holding

\* The cursors of a session, read off its frames.
Carried(F) == UNION {F[i].portals : i \in DOMAIN F}

\* A cursor declared under guarded joins those of the block.
LEMMA TopCarries ==
    ASSUME NEW F \in Stacks, NEW k \in Cursors
    PROVE  Carried(Top(F, {}, {k})) = Carried(F) \cup {k}
  <1> DEFINE G == Top(F, {}, {k})
             n == Len(F)
  <1>1. F \in Seq(Frame) /\ n \in Nat /\ n >= 1 /\ DOMAIN F = 1 .. n
    BY DEF Stacks
  <1>2. /\ G \in Stacks /\ Len(G) = n /\ \A i \in 1 .. n - 1 : G[i] = F[i]
        /\ G[n] = Grown(F[n], {}, {k})
    BY TopFrames
  <1> HIDE DEF G
  <1>3. DOMAIN G = 1 .. n
    BY <1>2 DEF Stacks
  <1>4. F[n] \in Frame
    BY <1>1
  <1>5. G[n].portals = F[n].portals \cup {k}
    BY <1>2, <1>4 DEF Grown, Frame
  <1> HIDE DEF n
  <1>6. n \in 1 .. n /\ \A i \in 1 .. n : i = n \/ i \in 1 .. n - 1
    BY <1>1
  <1>7. \A p : (\E i \in 1 .. n : p \in G[i].portals)
                 <=> (\E i \in 1 .. n : p \in F[i].portals) \/ p = k
    BY <1>2, <1>5, <1>6
  <1>8. QED
    BY <1>1, <1>3, <1>7 DEF Carried, G

\* The sessions over frames with the cursors C hold those cursors.
LEMMA BasedHolding ==
    ASSUME NEW F \in Stacks
    PROVE  /\ At("read", F) \subseteq Holding(Carried(F))
           /\ Based("read", F) \subseteq Holding(Carried(F))
  BY DEF At, Based, Holding, Working, Portals, Carried

\* The page of a shared transaction and the DECLARE of a paged read.
GuardedFetch(s, k) == Guarded(s, LAMBDA t : FetchForward(t, k))
GuardedDeclare(s, k) == Guarded(s, LAMBDA t : DeclareCursor(t, k))

\* A guarded read or page leaves the cursors of its block alone; a guarded
\* DECLARE adds its own cursor, or none when it fails.
LEMMA GuardedHolding ==
    ASSUME NEW C, NEW s \in Holding(C)
    PROVE  /\ Guarded(s, RunRead) \subseteq Replies(Holding(C))
           /\ \A k : GuardedFetch(s, k) \subseteq Replies(Holding(C))
           /\ \A k \in Cursors :
                 GuardedDeclare(s, k) \subseteq RepliesOr(Holding(C \cup {k}), Holding(C))
  <1>1. s \in Stays("read") /\ s \in Session /\ SessionOK(s)
    BY DEF Holding, Stays
  <1>2. CASE Working(s)
    <2> DEFINE F == s.frames
    <2>1. F \in Stacks /\ s \in Based("read", F) /\ "read" \in Blocks
      BY <1>1, <1>2 DEF Based, Blocks, Working, SessionOK, Session, Stacks
    <2>2. Carried(F) = C
      BY <1>2 DEF Holding, Portals, Carried
    <2> HIDE DEF F
    <2>3. BareOr(At("read", F), Based("read", F)) \subseteq Replies(Holding(C))
      BY <2>1, <2>2, BasedHolding DEF BareOr, Bare, Replies
    <2>4. ASSUME NEW k \in Cursors
          PROVE  BareOr(At("read", Top(F, {}, {k})), Based("read", F))
                     \subseteq RepliesOr(Holding(C \cup {k}), Holding(C))
      <3>1. Top(F, {}, {k}) \in Stacks
        BY <2>1, TopFrames
      <3>2. At("read", Top(F, {}, {k})) \subseteq Holding(C \cup {k})
        BY <2>1, <2>2, <3>1, BasedHolding, TopCarries
      <3>3. Based("read", F) \subseteq Holding(C)
        BY <2>1, <2>2, BasedHolding
      <3>4. QED
        BY <3>2, <3>3 DEF BareOr, Bare, RepliesOr, Replies
    <2>5. Guarded(s, RunRead) \subseteq BareOr(At("read", F), Based("read", F))
      BY ONLY <2>1, GuardedBased
    <2>6. \A k : GuardedFetch(s, k) \subseteq BareOr(At("read", F), Based("read", F))
      BY ONLY <2>1, GuardedBased DEF GuardedFetch
    <2>7. \A k \in Cursors : GuardedDeclare(s, k)
                     \subseteq BareOr(At("read", Top(F, {}, {k})), Based("read", F))
      BY ONLY <2>1, GuardedBased DEF GuardedDeclare
    <2>8. QED
      BY <2>3, <2>4, <2>5, <2>6, <2>7
  <1>3. CASE ~Working(s)
    <2>1. s.failed \/ s.block = "none"
      BY <1>1, <1>3 DEF Working, SessionOK
    <2>2. \A q \in Savepoint(s, SAVEPOINT_NAME) : q \in {Reply(s, "aborted"), Reply(s, "error")}
      BY <2>1 DEF Savepoint, BlockCommand
    <2>3. Reply(s, "aborted") \in Replies(Holding(C)) /\ Reply(s, "error") \in Replies(Holding(C))
      BY ReplyType DEF Outcomes
    <2>4. \A q \in Savepoint(s, SAVEPOINT_NAME) :
              q.out # "ok" /\ q.st = s /\ q \in Replies(Holding(C))
      <3>1. \A q \in {Reply(s, "aborted"), Reply(s, "error")} : q.out # "ok" /\ q.st = s
        BY DEF Reply
      <3>2. QED
        BY ONLY <2>2, <2>3, <3>1
    <2>5. \A D : \A q \in Savepoint(s, SAVEPOINT_NAME) : q \in RepliesOr(D, Holding(C))
      BY <2>4 DEF Replies, RepliesOr
    <2>6. QED
      BY <2>4, <2>5 DEF GuardedFetch, GuardedDeclare, Guarded, Then
  <1>4. QED
    BY <1>2, <1>3

\* CLOSE takes its cursors off every frame and leaves the others, or fails the
\* block.
LEMMA ClosePortalsHolding ==
    ASSUME NEW C, NEW s \in Holding(C), NEW K
    PROVE  ClosePortals(s, K) \subseteq Replies(Holding(C \ K))
  <1> DEFINE good == [s EXCEPT !.frames = Without(@, K)]
  <1>1. s \in Stays("read") /\ s \in Session /\ s.frames \in Seq(Frame)
    BY DEF Holding, Stays, Session
  <1>2. CASE K = {}
    <2>1. C \ K = C
      BY <1>2
    <2>2. QED
      BY <1>2, <2>1, ReplyType DEF ClosePortals, Outcomes
  <1>3. CASE K # {}
    <2>1. good \in Holding(C \ K)
      <3>1. good \in Stays("read")
        BY <1>1, WithoutFrames DEF Stays, SessionOK, Session
      <3>2. good.frames = Without(s.frames, K) /\ (Working(good) => Working(s))
        BY <1>1 DEF Working, Session
      <3>3. Portals(good) = Portals(s) \ K
        <4>1. DOMAIN Without(s.frames, K) = DOMAIN s.frames
          BY DEF Without
        <4>2. \A i \in DOMAIN s.frames : Without(s.frames, K)[i].portals = s.frames[i].portals \ K
          BY DEF Without
        <4>3. QED
          BY <3>2, <4>1, <4>2 DEF Portals
      <3>4. QED
        BY <3>1, <3>2, <3>3 DEF Holding
    <2>2. Errored(s) \in Holding(C \ K) /\ Dead \in Holding(C \ K)
      BY <1>1, HoldingEnds
    <2>3. s.failed \/ ~s.alive => s \in Holding(C \ K)
      BY <1>1, HoldingEnds DEF Working
    <2> HIDE DEF good
    <2>4. /\ Reply(Errored(s), "error") \in Replies(Holding(C \ K))
          /\ Reply(Dead, "error") \in Replies(Holding(C \ K))
          /\ Reply(good, "ok") \in Replies(Holding(C \ K))
          /\ s.failed \/ ~s.alive => /\ Reply(s, "aborted") \in Replies(Holding(C \ K))
                                     /\ Reply(s, "error") \in Replies(Holding(C \ K))
      BY <2>1, <2>2, <2>3, ReplyType DEF Outcomes
    <2>5. QED
      BY <1>3, <2>4 DEF ClosePortals, Command, Interrupted, Broken, good
  <1>4. QED
    BY <1>2, <1>3

\* FETCH leaves the cursors of its block alone, or fails the block.
LEMMA FetchForwardHolding ==
    ASSUME NEW C, NEW s \in Holding(C), NEW k
    PROVE  FetchForward(s, k) \subseteq Replies(Holding(C))
  <1>1. Errored(s) \in Holding(C) /\ Dead \in Holding(C)
    BY HoldingEnds DEF Holding
  <1>2. QED
    BY <1>1, ReplyType
    DEF FetchForward, Statement, Command, Interrupted, Broken, Outcomes

\* A read transaction begins without a cursor.
LEMMA BeginBlockHolding ==
    ASSUME NEW s \in Parked
    PROVE  BeginBlock(s, "read") \subseteq RepliesOr(Holding({}), Parked)
  <1> DEFINE F == << NewFrame("block") >>
  <1>1. F \in Stacks /\ Len(F) = 1 /\ F[1] = NewFrame("block") /\ Opened("read") \in At("read", F)
    BY OpenedFrames
  <1>2. DOMAIN F = {1}
    BY <1>1 DEF Stacks
  <1> HIDE DEF F
  <1>3. Carried(F) = {}
    BY <1>1, <1>2 DEF Carried, NewFrame
  <1>4. Opened("read") \in Holding({})
    BY <1>1, <1>3, BasedHolding
  <1>5. BeginBlock(s, "read") \subseteq BareOr({Opened("read")}, Parked)
    BY BeginBlockOpens
  <1>6. QED
    BY <1>4, <1>5 DEF BareOr, Bare, RepliesOr, Replies

\* The commands of an open handle declare no cursor.
LEMMA WriteBlockCommands ==
    ASSUME NEW s \in WriteBlock
    PROVE  /\ \A name \in Names \cup {SAVEPOINT_NAME} :
                 /\ Savepoint(s, name) \subseteq Replies(WriteBlock)
                 /\ RollbackToSavepoint(s, name) \subseteq Replies(WriteBlock)
           /\ \A w \in Writes : Guarded(s, LAMBDA t : RunWrite(t, w)) \subseteq Replies(WriteBlock)
           /\ Command(s, s) \subseteq Replies(WriteBlock)
           /\ Errored(s) \in WriteBlock
  <1>1. s \in Stays("write") /\ s \in Within(Writes, {})
    BY DEF WriteBlock
  <1>2. Replies(Stays("write")) \cap Held(Writes, {}) \subseteq Replies(WriteBlock)
    BY DEF Replies, Held, WriteBlock
  <1>3. ASSUME NEW name \in Names \cup {SAVEPOINT_NAME}
        PROVE  /\ Savepoint(s, name) \subseteq Replies(WriteBlock)
               /\ RollbackToSavepoint(s, name) \subseteq Replies(WriteBlock)
    BY <1>1, <1>2, SavepointStays, RollbackToSavepointStays, SavepointWithin, RollbackToWithin
  <1>4. ASSUME NEW w \in Writes
        PROVE  Guarded(s, LAMBDA t : RunWrite(t, w)) \subseteq Replies(WriteBlock)
    <2>1. Guarded(s, LAMBDA t : RunWrite(t, w)) \subseteq Replies(Stays("write"))
      BY <1>1, GuardedWriteStays
    <2>2. Guarded(s, LAMBDA t : RunWrite(t, w)) \subseteq Held(Writes, {})
      BY <1>1, GuardedWriteWithin
    <2>3. QED
      BY <1>2, <2>1, <2>2
  <1>5. Command(s, s) \subseteq Replies(WriteBlock)
    BY <1>1, <1>2, CommandStays, CommandWithin
  <1>6. Errored(s) \in WriteBlock
    BY <1>1, ErroredStays, ErroredWithin DEF WriteBlock
  <1>7. QED
    BY <1>3, <1>4, <1>5, <1>6

\* The block of a handle begins without a cursor.
LEMMA BeginBlockWrites ==
    ASSUME NEW s \in Parked
    PROVE  /\ BeginBlock(s, "write") \subseteq RepliesOr(WriteBlock, Parked)
           /\ Dead \in WriteBlock /\ Opened("write") \in WriteBlock
  <1>1. Opened("write") \in WriteBlock
    BY OpenedStays, OpenedWithin DEF WriteBlock
  <1>2. Dead \in WriteBlock
    BY DeadStays, NothingWithin DEF WriteBlock
  <1>3. BeginBlock(s, "write") \subseteq BareOr({Opened("write")}, Parked)
    BY BeginBlockOpens
  <1>4. QED
    BY <1>1, <1>2, <1>3 DEF BareOr, Bare, RepliesOr, Replies

-------------------------------------------------------------------------------
(* Lanes                                                                   *)

\* A lane inside its read transaction, with the cursors it has registered.
ReadingLane == {l \in LaneType : l.inRead /\ l.s \in Holding(l.cursors)}

\* A lane between transactions.
RestingLane == {l \in LaneType : ~l.inRead /\ l.cursors = {} /\ l.s \in Parked}

\* The lane of an open write handle.
HeldLane == {l \in LaneType : ~l.inRead /\ l.cursors = {} /\ l.s \in WriteBlock}

QuietLane == ReadingLane \cup RestingLane

\* A lane over a fresh connection holds nothing.
LEMMA NewLaneRests == NewLane \in RestingLane
  BY ParkedSessions DEF NewLane, RestingLane, LaneType, Parked

\* Commands that leave the cursors C in the block, and a lane that has them.
LEMMA OnReadingLane ==
    ASSUME NEW l \in ReadingLane, NEW C \in SUBSET Cursors
    PROVE  /\ \A s \in Holding(C) : [l EXCEPT !.s = s, !.cursors = C] \in ReadingLane
           /\ \A R : R \subseteq Replies(Holding(l.cursors))
                      => OnLane(l, R) \subseteq Replies(ReadingLane)
  <1>1. ASSUME NEW D \in SUBSET Cursors, NEW s \in Holding(D)
        PROVE  [l EXCEPT !.s = s, !.cursors = D] \in ReadingLane
    BY DEF ReadingLane, LaneType, Holding, Stays
  <1>2. /\ l \in LaneType /\ l.cursors \in SUBSET Cursors
        /\ \A s : [l EXCEPT !.s = s] = [l EXCEPT !.s = s, !.cursors = l.cursors]
    BY DEF ReadingLane, LaneType
  <1>3. ASSUME NEW r \in Replies(Holding(l.cursors))
        PROVE  [r EXCEPT !.st = [l EXCEPT !.s = r.st]] \in Replies(ReadingLane)
    <2>1. [l EXCEPT !.s = r.st] \in ReadingLane
      BY <1>1, <1>2 DEF Replies
    <2>2. QED
      BY <2>1 DEF Replies
  <1>4. QED
    BY <1>1, <1>3 DEF OnLane

\* The session of a lane in its read transaction.
LEMMA ReadingSessions ==
    ASSUME NEW l \in ReadingLane
    PROVE  /\ l \in LaneType /\ l.s \in Holding(l.cursors) /\ l.s \in Stays("read")
           /\ l.cursors \in SUBSET Cursors
  BY DEF ReadingLane, LaneType, Holding

\* Commands that leave no working block keep a resting lane resting.
LEMMA OnRestingLane ==
    ASSUME NEW l \in RestingLane, NEW R, R \subseteq Replies(Parked)
    PROVE  OnLane(l, R) \subseteq Replies(RestingLane)
  BY DEF OnLane, Replies, RestingLane, LaneType, Parked

\* Commands that stay in the write block keep a lane a handle's.
LEMMA OnHeldLane ==
    ASSUME NEW l \in HeldLane, NEW R, R \subseteq Replies(WriteBlock)
    PROVE  OnLane(l, R) \subseteq Replies(HeldLane)
  BY DEF OnLane, Replies, HeldLane, LaneType, WriteBlock, Stays

\* The session of a lane outside a handle is in order.
LEMMA QuietSessions ==
    ASSUME NEW l \in QuietLane
    PROVE  l.s \in Sessions
  BY ParkedSessions, ReadingSessions DEF QuietLane, RestingLane

\* rollback_all (engine.rs) ends the read transaction with every cursor in it.
LEMMA RollbackAllRests ==
    ASSUME NEW l \in QuietLane
    PROVE  RollbackAll(l) \subseteq Replies(RestingLane)
  <1>1. CASE l.inRead
    <2>1. Rollback(l.s) \subseteq Replies(Parked)
      BY RollbackParks, QuietSessions
    <2>2. \A r \in Replies(Parked) :
              [r EXCEPT !.st = [ForgetState(l) EXCEPT !.s = r.st]] \in Replies(RestingLane)
      BY DEF QuietLane, ReadingLane, RestingLane, LaneType, ForgetState, Replies, Parked
    <2>3. QED
      BY <1>1, <2>1, <2>2 DEF RollbackAll, OnLane
  <1>2. CASE ~l.inRead
    <2>1. ForgetState(l) \in RestingLane
      BY <1>2 DEF QuietLane, ReadingLane, RestingLane, LaneType, ForgetState
    <2>2. QED
      BY <1>2, <2>1, ReplyType DEF RollbackAll, Outcomes
  <1>3. QED
    BY <1>1, <1>2 DEF QuietLane, ReadingLane, RestingLane

\* finish_if_idle (engine.rs) keeps lane and session in agreement.
LEMMA FinishIfIdleQuiet ==
    ASSUME NEW l \in QuietLane
    PROVE  FinishIfIdle(l) \subseteq Replies(QuietLane)
  <1>1. RollbackAll(l) \subseteq Replies(QuietLane)
    BY RollbackAllRests DEF QuietLane, Replies
  <1>2. QED
    BY <1>1, ReplyType DEF FinishIfIdle, Outcomes

\* close_cursors (engine.rs) leaves the read transaction open.
LEMMA CloseCursorsReading ==
    ASSUME NEW l \in ReadingLane, NEW K
    PROVE  CloseCursors(l, K) \subseteq Replies(ReadingLane)
  <1>1. ClosePortals(l.s, K) \subseteq Replies(Holding(l.cursors \ K))
    BY ReadingSessions, ClosePortalsHolding
  <1>2. ASSUME NEW r \in Replies(Holding(l.cursors \ K))
        PROVE  [l EXCEPT !.cursors = @ \ K, !.s = r.st] \in ReadingLane
    BY DEF Replies, ReadingLane, LaneType, Holding, Stays
  <1>3. QED
    BY <1>1, <1>2, ReplyType DEF CloseCursors, Outcomes

\* sweep_expired (engine.rs) keeps lane and session in agreement, whatever
\* expires.
LEMMA SweepExpiredQuiet ==
    ASSUME NEW l \in QuietLane
    PROVE  SweepExpired(l) \subseteq Replies(QuietLane)
  <1>1. CASE l \in ReadingLane
    BY <1>1, CloseCursorsReading DEF SweepExpired, QuietLane, Replies
  <1>2. CASE l \in RestingLane
    <2>1. \A r \in ClosePortals(l.s, {}) : r.st = l.s
      BY DEF ClosePortals, Reply
    <2>2. [l EXCEPT !.cursors = @ \ {}, !.s = l.s] \in QuietLane
      BY <1>2 DEF QuietLane, RestingLane, LaneType
    <2>3. CloseCursors(l, {}) \subseteq Replies(QuietLane)
      BY <2>1, <2>2, ReplyType DEF CloseCursors, Outcomes
    <2>4. SUBSET l.cursors = {{}}
      BY <1>2 DEF RestingLane
    <2>5. QED
      BY <2>3, <2>4 DEF SweepExpired
  <1>3. QED
    BY <1>1, <1>2 DEF QuietLane

\* begin_read (engine.rs) leaves a read transaction when it succeeds and none
\* when it does not.
LEMMA BeginReadReads ==
    ASSUME NEW l \in QuietLane
    PROVE  BeginRead(l) \subseteq RepliesOr(ReadingLane, RestingLane)
  <1>1. CASE l.inRead
    <2>1. l \in ReadingLane
      BY <1>1 DEF QuietLane, RestingLane
    <2>2. QED
      BY <1>1, <2>1, ReplyOrType DEF BeginRead, Outcomes
  <1>2. CASE ~l.inRead
    <2>1. l \in RestingLane
      BY <1>2 DEF QuietLane, ReadingLane
    <2>2. BeginBlock(l.s, "read") \subseteq RepliesOr(Holding({}), Parked)
      BY <2>1, BeginBlockHolding DEF RestingLane
    <2>3. ASSUME NEW r \in RepliesOr(Holding({}), Parked)
          PROVE  Reply([l EXCEPT !.s = r.st, !.inRead = (r.out = "ok")], r.out)
                     \in RepliesOr(ReadingLane, RestingLane)
      <3> DEFINE m == [l EXCEPT !.s = r.st, !.inRead = (r.out = "ok")]
      <3>1. r.out \in Outcomes
        BY DEF RepliesOr, Replies
      <3>2. r.out = "ok" => m \in ReadingLane
        BY <2>1 DEF RepliesOr, ReadingLane, RestingLane, LaneType, Holding, Stays
      <3>3. r.out # "ok" => m \in RestingLane
        BY <2>1 DEF RepliesOr, RestingLane, LaneType, Parked
      <3>4. QED
        BY <3>1, <3>2, <3>3, ReplyOrType
    <2>4. QED
      BY <1>2, <2>2, <2>3 DEF BeginRead
  <1>3. QED
    BY <1>1, <1>2 DEF QuietLane, ReadingLane, RestingLane

\* The settling of a read, commit, rollback or keep, keeps lane and session in
\* agreement.
LEMMA SettleLaneQuiet ==
    ASSUME NEW l \in ReadingLane, NEW out \in Outcomes
    PROVE  SettleLane(l, out) \subseteq Replies(QuietLane)
  <1>1. RollbackAll(l) \subseteq Replies(QuietLane)
    BY RollbackAllRests DEF QuietLane, Replies
  <1>2. FinishIfIdle(l) \subseteq Replies(QuietLane)
    BY FinishIfIdleQuiet DEF QuietLane
  <1>3. ~l.s.alive => Reply(ForgetState(l), "ok") \in Replies(QuietLane)
    <2>1. ~l.s.alive => ForgetState(l) \in RestingLane
      BY ParkedSessions, ReadingSessions
      DEF RestingLane, LaneType, ForgetState, Stays, Sessions
    <2>2. QED
      BY <2>1, ReplyType DEF QuietLane, Outcomes
  <1>4. QED
    BY <1>1, <1>2, <1>3, ReplyType DEF SettleLane, Replies

\* read_through_cursor (engine.rs) stays in the read transaction, and what it
\* registers is what it has declared: the lane has no cursor k before.
LEMMA ReadThroughCursorReads ==
    ASSUME NEW l \in ReadingLane, NEW k \in Cursors, k \notin l.cursors
    PROVE  ReadThroughCursor(l, k) \subseteq Replies(ReadingLane)
  <1> DEFINE F(m) == KeepCursor(m, k) \cup OnLane(m, ClosePortals(m.s, {k}))
             C == l.cursors
             M == {[l EXCEPT !.s = s] : s \in Holding(C \cup {k})}
             R == OnLane(l, GuardedDeclare(l.s, k))
  <1>1. /\ l \in LaneType /\ l.s \in Holding(C) /\ C \in SUBSET Cursors
        /\ C \cup {k} \in SUBSET Cursors /\ (C \cup {k}) \ {k} = C
    BY ReadingSessions
  <1>2. R \subseteq RepliesOr(M, ReadingLane)
    <2>1. GuardedDeclare(l.s, k) \subseteq RepliesOr(Holding(C \cup {k}), Holding(C))
      BY <1>1, GuardedHolding
    <2>2. ASSUME NEW r \in RepliesOr(Holding(C \cup {k}), Holding(C))
          PROVE  [r EXCEPT !.st = [l EXCEPT !.s = r.st]] \in RepliesOr(M, ReadingLane)
      <3> DEFINE m == [l EXCEPT !.s = r.st]
                 x == [r EXCEPT !.st = m]
      <3>1. x = [st |-> m, out |-> r.out, kept |-> r.kept]
        BY DEF RepliesOr, Replies
      <3>2. r.out \in Outcomes /\ r.kept \in SUBSET Writes
        BY DEF RepliesOr, Replies
      <3>3. r.out = "ok" => m \in M
        BY DEF RepliesOr
      <3>4. r.out # "ok" => m \in ReadingLane
        BY <1>1 DEF RepliesOr, ReadingLane, LaneType, Holding, Stays
      <3> HIDE DEF m, M
      <3>5. x \in RepliesOr(M, ReadingLane)
        <4> HIDE DEF x
        <4>1. QED
          BY <3>1, <3>2, <3>3, <3>4 DEF RepliesOr, Replies
      <3>6. QED
        BY <3>5 DEF m
    <2>3. QED
      <3> HIDE DEF M
      <3>1. QED
        BY <2>1, <2>2 DEF OnLane
  <1>3. ASSUME NEW m \in M
        PROVE  F(m) \subseteq Replies(ReadingLane)
    <2>1. m.s \in Holding(C \cup {k}) /\ m.cursors = C
      BY <1>1 DEF LaneType
    <2>2. ASSUME NEW D \in SUBSET Cursors, NEW s \in Holding(D)
          PROVE  [m EXCEPT !.s = s, !.cursors = D] \in ReadingLane
      <3>1. [m EXCEPT !.s = s, !.cursors = D] = [l EXCEPT !.s = s, !.cursors = D]
        BY <1>1 DEF LaneType
      <3>2. QED
        BY <3>1, OnReadingLane
    <2>3. Guarded(m.s, RunRead) \subseteq Replies(Holding(C \cup {k}))
      BY <2>1, GuardedHolding
    <2>4. ASSUME NEW r \in Replies(Holding(C \cup {k}))
          PROVE  Reply([m EXCEPT !.s = r.st, !.cursors = @ \cup {k}], "ok")
                     \in Replies(ReadingLane)
      <3>1. [m EXCEPT !.s = r.st, !.cursors = @ \cup {k}]
                = [m EXCEPT !.s = r.st, !.cursors = C \cup {k}]
        BY <2>1
      <3>2. r.st \in Holding(C \cup {k})
        BY DEF Replies
      <3>3. QED
        BY <1>1, <2>2, <3>1, <3>2, ReplyType DEF Outcomes
    <2>5. KeepCursor(m, k) \subseteq Replies(ReadingLane)
      BY <2>3, <2>4 DEF KeepCursor
    <2>6. ClosePortals(m.s, {k}) \subseteq Replies(Holding(C))
      BY <1>1, <2>1, ClosePortalsHolding
    <2>7. ASSUME NEW r \in Replies(Holding(C))
          PROVE  [r EXCEPT !.st = [m EXCEPT !.s = r.st]] \in Replies(ReadingLane)
      <3>1. [m EXCEPT !.s = r.st] = [m EXCEPT !.s = r.st, !.cursors = C]
        BY <1>1, <2>1 DEF LaneType
      <3>2. [m EXCEPT !.s = r.st] \in ReadingLane
        BY <1>1, <2>2, <3>1 DEF Replies
      <3>3. QED
        BY <3>2 DEF Replies
    <2>8. OnLane(m, ClosePortals(m.s, {k})) \subseteq Replies(ReadingLane)
      BY <2>6, <2>7 DEF OnLane
    <2>9. QED
      BY <2>5, <2>8
  <1>4. Then(R, F) \subseteq Replies(ReadingLane)
    <2> HIDE DEF F, R, M
    <2>1. \A q \in R : q.out = "ok" => F(q.st) \subseteq Replies(ReadingLane)
      BY <1>2, <1>3 DEF RepliesOr
    <2>2. \A q \in R : q.out # "ok" => q \in Replies(ReadingLane)
      BY <1>2 DEF RepliesOr, Replies
    <2>3. \A q \in R : q \in Replies(M \cup ReadingLane)
      BY <1>2 DEF RepliesOr
    <2>4. QED
      BY <2>1, <2>2, <2>3, AddKept DEF Then
  <1>5. QED
    BY <1>4 DEF ReadThroughCursor, GuardedDeclare

\* The tail of a read in a transaction: settle_lane after the replies R.
LEMMA SettledQuiet ==
    ASSUME NEW R, R \subseteq Replies(ReadingLane)
    PROVE  UNION {SettleLane(r.st, r.out) : r \in R} \subseteq Replies(QuietLane)
  BY SettleLaneQuiet DEF Replies

\* Sweeping and beginning a read register no cursor.
LEMMA CursorsShrink ==
    ASSUME NEW l \in LaneType
    PROVE  /\ \A r \in SweepExpired(l) : r.st.cursors \subseteq l.cursors
           /\ \A r \in BeginRead(l) : r.st.cursors = l.cursors
  <1>1. ASSUME NEW K, NEW x \in CloseCursors(l, K)
        PROVE  x.st.cursors \subseteq l.cursors
    <2>1. PICK r \in ClosePortals(l.s, K) :
              x = Reply([l EXCEPT !.cursors = @ \ K, !.s = r.st], "ok")
      BY DEF CloseCursors
    <2>2. QED
      BY <2>1 DEF Reply, LaneType
  <1>2. ASSUME NEW x \in BeginRead(l)
        PROVE  x.st.cursors = l.cursors
    <2>1. CASE l.inRead
      BY <2>1 DEF BeginRead, Reply
    <2>2. CASE ~l.inRead
      <3>1. PICK r \in BeginBlock(l.s, "read") :
                x = Reply([l EXCEPT !.s = r.st, !.inRead = (r.out = "ok")], r.out)
        BY <2>2 DEF BeginRead
      <3>2. x.st = [l EXCEPT !.s = r.st, !.inRead = (r.out = "ok")]
        BY <3>1 DEF Reply
      <3>3. QED
        BY <3>2 DEF LaneType
    <2>3. QED
      BY <2>1, <2>2
  <1>3. QED
    BY <1>1, <1>2 DEF SweepExpired

\* A paged read, from the cursor cap to its settling, keeps lane and session
\* in agreement; its cursor gets an identifier no open cursor has.
LEMMA ReadPagedQuiet ==
    ASSUME NEW l \in QuietLane, NEW k \in Cursors, k \notin l.cursors
    PROVE  ReadPaged(l, k) \subseteq Replies(QuietLane)
  <1> DEFINE Page(n) == UNION {SettleLane(r.st, r.out) : r \in ReadThroughCursor(n, k)}
             F(m) == IF Cardinality(m.cursors) >= CursorCap THEN {Reply(m, "error")}
                     ELSE Then(BeginRead(m), Page)
  <1>0. QuietLane \subseteq LaneType
    BY DEF QuietLane, ReadingLane, RestingLane
  <1>1. ASSUME NEW m \in QuietLane, k \notin m.cursors
        PROVE  Then(BeginRead(m), Page) \subseteq Replies(QuietLane)
    <2>1. BeginRead(m) \subseteq RepliesOr(ReadingLane, RestingLane)
      BY BeginReadReads
    <2>2. \A n \in ReadingLane : k \notin n.cursors => Page(n) \subseteq Replies(QuietLane)
      BY ReadThroughCursorReads, SettledQuiet
    <2> HIDE DEF Page
    <2>3. \A q \in BeginRead(m) : q \in Replies(QuietLane) /\ k \notin q.st.cursors
      BY <1>0, <1>1, <2>1, CursorsShrink DEF RepliesOr, Replies, QuietLane
    <2>4. \A q \in BeginRead(m) : q.out = "ok" => Page(q.st) \subseteq Replies(QuietLane)
      BY <2>1, <2>2, <2>3 DEF RepliesOr
    <2>5. QED
      BY <2>3, <2>4, AddKept DEF Then
  <1>2. \A q \in Replies(QuietLane) :
            k \notin q.st.cursors => F(q.st) \subseteq Replies(QuietLane)
    <2> HIDE DEF Page
    <2>1. QED
      BY SMTT(30), <1>1, ReplyType DEF Replies, Outcomes
  <1>3. Then(SweepExpired(l), F) \subseteq Replies(QuietLane)
    <2> HIDE DEF F
    <2>1. \A q \in SweepExpired(l) : q \in Replies(QuietLane) /\ k \notin q.st.cursors
      BY <1>0, SweepExpiredQuiet, CursorsShrink
    <2>2. QED
      BY <1>2, <2>1, AddKept DEF Then
  <1>4. QED
    BY <1>3 DEF ReadPaged

\* A whole read keeps lane and session in agreement.
LEMMA ReadWholeQuiet ==
    ASSUME NEW l \in QuietLane
    PROVE  ReadWhole(l) \subseteq Replies(QuietLane)
  <1> DEFINE Rows(n) == UNION {SettleLane(r.st, r.out) : r \in OnLane(n, Guarded(n.s, RunRead))}
             F(m) == Then(BeginRead(m), Rows)
  <1>1. ASSUME NEW m \in QuietLane
        PROVE  F(m) \subseteq Replies(QuietLane)
    <2>1. BeginRead(m) \subseteq RepliesOr(ReadingLane, RestingLane)
      BY BeginReadReads
    <2>2. \A n \in ReadingLane : Rows(n) \subseteq Replies(QuietLane)
      <3>1. \A n \in ReadingLane : OnLane(n, Guarded(n.s, RunRead)) \subseteq Replies(ReadingLane)
        BY GuardedHolding, OnReadingLane, ReadingSessions
      <3>2. QED
        BY <3>1, SettledQuiet
    <2> HIDE DEF Rows
    <2>3. \A q \in BeginRead(m) : q \in Replies(QuietLane)
      BY <2>1 DEF RepliesOr, Replies, QuietLane
    <2>4. \A q \in BeginRead(m) : q.out = "ok" => Rows(q.st) \subseteq Replies(QuietLane)
      BY <2>1, <2>2 DEF RepliesOr
    <2>5. QED
      BY <2>3, <2>4, AddKept DEF Then
  <1>2. Then(SweepExpired(l), F) \subseteq Replies(QuietLane)
    <2> HIDE DEF F
    <2>1. \A q \in Replies(QuietLane) : F(q.st) \subseteq Replies(QuietLane)
      BY <1>1 DEF Replies
    <2>2. QED
      BY <2>1, SweepExpiredQuiet, AddKept DEF Then
  <1>3. QED
    BY <1>2 DEF ReadWhole

\* A catalog read keeps lane and session in agreement.
LEMMA CatalogOnLaneQuiet ==
    ASSUME NEW l \in QuietLane
    PROVE  CatalogOnLane(l) \subseteq Replies(QuietLane)
  <1>1. CASE l.inRead
    <2>1. l \in ReadingLane
      BY <1>1 DEF QuietLane, RestingLane
    <2>2. OnLane(l, Guarded(l.s, RunRead)) \subseteq Replies(ReadingLane)
      BY <2>1, GuardedHolding, OnReadingLane, ReadingSessions
    <2>3. QED
      BY <1>1, <2>2, SettledQuiet, ReadWholeQuiet DEF CatalogOnLane
  <1>2. CASE ~l.inRead
    <2>1. l \in RestingLane
      BY <1>2 DEF QuietLane, ReadingLane
    <2>2. RunRead(l.s) \subseteq Replies(Parked)
      <3>1. l.s \in Parked /\ Errored(l.s) \in Parked /\ Dead \in Parked
        BY <2>1, ErroredParked, ParkedSessions DEF RestingLane
      <3>2. QED
        BY <3>1, ReplyType
        DEF RunRead, Statement, Command, Interrupted, Broken, Outcomes
    <2>3. OnLane(l, RunRead(l.s)) \subseteq Replies(QuietLane)
      BY <2>1, <2>2, OnRestingLane DEF QuietLane, Replies
    <2>4. QED
      BY <1>2, <2>3, ReadWholeQuiet DEF CatalogOnLane
  <1>3. QED
    BY <1>1, <1>2

\* The tail of close_cursor and of the last page of fetch.
LEMMA ClosedThenIdleQuiet ==
    ASSUME NEW l \in ReadingLane, NEW K
    PROVE  Then(CloseCursors(l, K), FinishIfIdle) \subseteq Replies(QuietLane)
  <1>1. CloseCursors(l, K) \subseteq Replies(ReadingLane)
    BY CloseCursorsReading
  <1>2. CloseCursors(l, K) \subseteq Replies(QuietLane)
    BY <1>1 DEF Replies, QuietLane
  <1>3. \A q \in CloseCursors(l, K) : FinishIfIdle(q.st) \subseteq Replies(QuietLane)
    BY <1>2, FinishIfIdleQuiet DEF Replies
  <1>4. QED
    BY <1>2, <1>3, AddKept DEF Then

\* A fetch, shared or alone in its transaction, keeps lane and session in
\* agreement.
LEMMA FetchOnLaneQuiet ==
    ASSUME NEW l \in ReadingLane, NEW k \in Cursors
    PROVE  FetchOnLane(l, k) \subseteq Replies(QuietLane)
  <1> DEFINE shared == l.cursors # {k}
             page == IF shared THEN Guarded(l.s, LAMBDA s : FetchForward(s, k))
                     ELSE FetchForward(l.s, k)
  <1>1. OnLane(l, page) \subseteq Replies(ReadingLane)
    <2>1. l.s \in Holding(l.cursors) /\ l.cursors \in SUBSET Cursors
      BY ReadingSessions
    <2>2. GuardedFetch(l.s, k) \subseteq Replies(Holding(l.cursors))
      BY <2>1, GuardedHolding
    <2>3. FetchForward(l.s, k) \subseteq Replies(Holding(l.cursors))
      BY <2>1, FetchForwardHolding
    <2>4. page \subseteq Replies(Holding(l.cursors))
      BY <2>2, <2>3 DEF GuardedFetch
    <2>5. QED
      BY <2>1, <2>4, OnReadingLane
  <1>2. ASSUME NEW m \in ReadingLane, NEW out \in Outcomes
        PROVE  FetchFailed(m, k, shared, out) \subseteq Replies(QuietLane)
    <2>1. CloseCursors(m, {k}) \subseteq Replies(QuietLane)
      BY CloseCursorsReading DEF Replies, QuietLane
    <2>2. RollbackAll(m) \subseteq Replies(QuietLane)
      BY RollbackAllRests DEF Replies, QuietLane
    <2>3. \A r \in Replies(QuietLane) : Reply(r.st, out) \in Replies(QuietLane)
      BY ReplyType DEF Replies
    <2> HIDE DEF shared
    <2>4. QED
      BY <2>1, <2>2, <2>3 DEF FetchFailed
  <1>3. ASSUME NEW m \in ReadingLane
        PROVE  {Reply(m, "ok")} \cup Then(CloseCursors(m, {k}), FinishIfIdle)
                   \subseteq Replies(QuietLane)
    BY ClosedThenIdleQuiet, ReplyType DEF QuietLane, Outcomes
  <1>4. QED
    <2> HIDE DEF shared, page
    <2>1. FetchOnLane(l, k) =
              UNION {IF r.out = "ok"
                     THEN {Reply(r.st, "ok")} \cup Then(CloseCursors(r.st, {k}), FinishIfIdle)
                     ELSE FetchFailed(r.st, k, shared, r.out) : r \in OnLane(l, page)}
      BY DEF FetchOnLane, shared, page
    <2>2. ASSUME NEW r \in OnLane(l, page)
          PROVE  /\ FetchFailed(r.st, k, shared, r.out) \subseteq Replies(QuietLane)
                 /\ {Reply(r.st, "ok")} \cup Then(CloseCursors(r.st, {k}), FinishIfIdle)
                        \subseteq Replies(QuietLane)
      <3>1. r.st \in ReadingLane /\ r.out \in Outcomes
        BY <1>1 DEF Replies
      <3>2. QED
        BY <3>1, <1>2, <1>3
    <2>3. QED
      BY <2>1, <2>2
-------------------------------------------------------------------------------
(* Reads make nothing durable                                              *)

\* The cursor sweep and the end of a read without cursors keep no writes, and
\* do nothing on the lane of a handle.
LEMMA SweepsKeepNothing ==
    ASSUME NEW l
    PROVE  /\ \A r \in SweepExpired(l) : r.kept = {}
           /\ \A r \in FinishIfIdle(l) : r.kept = {}
           /\ \A r \in RollbackAll(l) : r.kept = {}
           /\ l \in HeldLane => SweepExpired(l) \subseteq Replies({l})
           /\ l \in HeldLane => FinishIfIdle(l) \subseteq Replies({l})
  <1>1. \A r \in SweepExpired(l) : r.kept = {}
    <2>1. ASSUME NEW K, NEW x \in CloseCursors(l, K)
          PROVE  x.kept = {}
      <3>1. PICK r \in ClosePortals(l.s, K) :
               x = Reply([l EXCEPT !.cursors = @ \ K, !.s = r.st], "ok")
        BY DEF CloseCursors
      <3> DEFINE m == [l EXCEPT !.cursors = @ \ K, !.s = r.st]
      <3> HIDE DEF m
      <3>2. x = Reply(m, "ok")
        BY <3>1 DEF m
      <3>3. QED
        BY <3>2 DEF Reply
    <2>2. QED
      BY <2>1 DEF SweepExpired
  <1>2. \A r \in Rollback(l.s) : r = [st |-> r.st, out |-> r.out, kept |-> {}]
    BY DEF Rollback, Command, Interrupted, Broken, Reply
  <1>3. \A r \in OnLane(ForgetState(l), Rollback(l.s)) : r.kept = {}
    BY <1>2 DEF OnLane
  <1>4. \A r \in RollbackAll(l) : r.kept = {}
    BY <1>3 DEF RollbackAll, Reply
  <1>5. \A r \in FinishIfIdle(l) : r.kept = {}
    BY <1>4 DEF FinishIfIdle, Reply
  <1>6. ASSUME l \in HeldLane
        PROVE  SweepExpired(l) \subseteq Replies({l}) /\ FinishIfIdle(l) \subseteq Replies({l})
    <2>1. l.cursors = {} /\ ~l.inRead /\ l \in LaneType
      BY <1>6 DEF HeldLane
    <2>2. \A r \in ClosePortals(l.s, {}) : r.st = l.s
      BY DEF ClosePortals, Reply
    <2>3. [l EXCEPT !.cursors = @ \ {}, !.s = l.s] = l
      BY <2>1 DEF LaneType
    <2>4. l \in {l} /\ "ok" \in Outcomes
      BY DEF Outcomes
    <2>5. Reply(l, "ok") \in Replies({l})
      BY <2>4, ReplyType
    <2>6. CloseCursors(l, {}) \subseteq Replies({l})
      BY <2>2, <2>3, <2>5 DEF CloseCursors
    <2>7. SUBSET l.cursors = {{}}
      BY <2>1
    <2>8. QED
      BY <2>1, <2>5, <2>6, <2>7 DEF SweepExpired, FinishIfIdle
  <1>7. QED
    BY <1>1, <1>4, <1>5, <1>6

\* A guarded read keeps nothing.
LEMMA GuardedReadBare ==
    ASSUME NEW s \in Stays("read")
    PROVE  Guarded(s, RunRead) \subseteq Bare(Stays("read"))
  <1> DEFINE F == IF s.alive THEN s.frames ELSE << NewFrame("block") >>
  <1>1. F \in Stacks
    BY OpenedFrames DEF Stays, Session, SessionOK, Stacks
  <1>2. s \in Based("read", F)
    BY DEF Based
  <1> HIDE DEF F
  <1>3. Guarded(s, RunRead) \subseteq BareOr(At("read", F), Based("read", F))
    BY <1>1, <1>2, GuardedBased DEF Blocks
  <1>4. \A r \in Guarded(s, RunRead) : r.kept = {}
    BY <1>3 DEF BareOr, Bare
  <1>5. QED
    BY <1>4, GuardedReadStays DEF Replies, Bare

\* The end of a read keeps nothing.
LEMMA SettledBare ==
    ASSUME NEW l \in ReadingLane
    PROVE  UNION {SettleLane(r.st, r.out) : r \in OnLane(l, Guarded(l.s, RunRead))} \subseteq Bare(QuietLane)
  <1>1. OnLane(l, Guarded(l.s, RunRead)) \subseteq Replies(ReadingLane)
    BY GuardedHolding, OnReadingLane, ReadingSessions
  <1>2. ASSUME NEW r \in Replies(ReadingLane), NEW x \in SettleLane(r.st, r.out)
        PROVE  x \in Bare(QuietLane)
    <2>1. r.st \in ReadingLane /\ r.out \in Outcomes
      BY DEF Replies
    <2>2. x \in Replies(QuietLane)
      BY <2>1, SettleLaneQuiet
    <2>3. x.kept = {}
      BY DEF SettleLane, Reply
    <2>4. QED
      BY <2>2, <2>3 DEF Bare, Replies
  <1>3. QED
    BY <1>1, <1>2

\* read_on_lane without an owner (engine.rs) keeps nothing.
LEMMA ReadWholeBare ==
    ASSUME NEW l \in QuietLane
    PROVE  ReadWhole(l) \subseteq Bare(QuietLane)
  <1> DEFINE Rows(n) == UNION {SettleLane(r.st, r.out) : r \in OnLane(n, Guarded(n.s, RunRead))}
             F(m) == Then(BeginRead(m), Rows)
  <1>1. ASSUME NEW m \in QuietLane
        PROVE  F(m) \subseteq Bare(QuietLane)
    <2>1. BeginRead(m) \subseteq RepliesOr(ReadingLane, RestingLane)
      BY BeginReadReads
    <2>2. \A q \in BeginRead(m) : q.kept = {}
      <3>1. \A q \in BeginRead(m) : \E st, out : q = Reply(st, out)
        BY DEF BeginRead
      <3>2. QED
        BY <3>1 DEF Reply
    <2>3. \A n \in ReadingLane : Rows(n) \subseteq Bare(QuietLane)
      BY SettledBare
    <2> HIDE DEF Rows
    <2>4. \A q \in BeginRead(m) : q \in Bare(QuietLane)
      BY <2>1, <2>2 DEF RepliesOr, Replies, Bare, QuietLane
    <2>5. \A q \in BeginRead(m) : q.out = "ok" => Rows(q.st) \subseteq Bare(QuietLane)
      BY <2>1, <2>3 DEF RepliesOr
    <2>6. QED
      BY <2>4, <2>5, BareSteps DEF Then
  <1>2. Then(SweepExpired(l), F) \subseteq Bare(QuietLane)
    <2> HIDE DEF F
    <2>1. SweepExpired(l) \subseteq Bare(QuietLane)
      BY SweepExpiredQuiet, SweepsKeepNothing DEF Bare, Replies
    <2>2. \A q \in SweepExpired(l) : F(q.st) \subseteq Bare(QuietLane)
      BY <1>1, <2>1, BareSteps
    <2>3. QED
      BY <2>1, <2>2, BareSteps DEF Then
  <1>3. QED
    BY <1>2 DEF ReadWhole

\* catalog_on_lane (engine.rs) keeps nothing, on a lane without a transaction.
LEMMA CatalogBare ==
    ASSUME NEW l \in RestingLane
    PROVE  CatalogOnLane(l) \subseteq Bare(QuietLane)
  <1>1. l \in QuietLane /\ ~l.inRead /\ l.s \in Parked
    BY DEF QuietLane, RestingLane
  <1>2. ASSUME ~Prefixed, NEW x \in CatalogOnLane(l)
        PROVE  x.kept = {}
    <2>1. PICK r \in RunRead(l.s) : x = [r EXCEPT !.st = [l EXCEPT !.s = r.st]]
      BY <1>1, <1>2 DEF CatalogOnLane, OnLane
    <2>2. \E st, out : r = Reply(st, out)
      BY DEF RunRead, Statement, Command, Interrupted, Broken
    <2>3. QED
      BY <2>1, <2>2 DEF Reply
  <1>3. QED
    BY <1>1, <1>2, ReadWholeBare, CatalogOnLaneQuiet DEF CatalogOnLane, Bare, Replies

-------------------------------------------------------------------------------
(* Where the end of a block leaves its session                             *)

\* The session of a block that has ended, or whose end was interrupted.
Ending(s) == {Idle, Dead, Errored(s)}

\* roll_back_quietly leaves no block, or the one that was there, failed.
LEMMA RollBackQuietlyEnds ==
    ASSUME NEW s \in Sessions
    PROVE  /\ RollBackQuietly(s) \subseteq Ending(s)
           /\ RollBackQuietly(Errored(s)) \subseteq Ending(s)
  <1>1. ASSUME NEW t \in Sessions
        PROVE  RollBackQuietly(t) \subseteq {Idle, Dead, Errored(t)} \cup (IF t.alive THEN {} ELSE {t})
    BY DEF RollBackQuietly, Rollback, Command, Interrupted, Broken, Reply
  <1>2. Errored(s) \in Sessions /\ Errored(Errored(s)) = Errored(s) /\ Errored(s).alive = s.alive
    BY ErroredParked, ParkedSessions DEF Errored, Sessions, Session
  <1>3. ~s.alive => Errored(s) = s
    BY DEF Errored, Sessions, SessionOK
  <1>4. QED
    BY <1>1, <1>2, <1>3 DEF Ending

\* finish_block (engine.rs) leaves a session without a block, or in its old one,
\* and then nothing became durable and the caller knows that it did not end.
LEMMA FinishBlockEnds ==
    ASSUME NEW s \in Sessions, s.alive, NEW statement, NEW r \in FinishBlock(s, statement)
    PROVE  /\ r.st \in Ending(s)
           /\ r.st \notin {Idle, Dead} => r.kept = {} /\ r.out # "ok"
  <1>1. CASE statement # "COMMIT"
    <2>1. r \in Rollback(s)
      BY <1>1 DEF FinishBlock
    <2>2. QED
      BY <2>1 DEF Rollback, Command, Interrupted, Broken, Reply, Ending
  <1>2. CASE statement = "COMMIT"
    <2>1. PICK q \in CommitChecked(s) :
             r \in (IF q.out \in {"aborted", "error"}
                    THEN {Reply(t, q.out) : t \in RollBackQuietly(q.st)} ELSE {q})
      BY <1>2 DEF FinishBlock
    <2>2. /\ q.st \in {Idle, Dead, s, Errored(s)}
          /\ q.st \in {s, Errored(s)} => q.out \in {"aborted", "error"} \/ q.st \in {Idle, Dead}
      BY DEF CommitChecked, SendCommit, LostCommit, Interrupted, Reply
    <2>3. Idle \in Sessions /\ Dead \in Sessions
      BY ParkedSessions
    <2>4. Errored(Idle) = Idle /\ Errored(Dead) = Dead
      BY DEF Errored, Idle, Dead
    <2>5. RollBackQuietly(Idle) \subseteq Ending(Idle) /\ RollBackQuietly(Dead) \subseteq Ending(Dead)
      BY <2>3, RollBackQuietlyEnds
    <2>6. CASE q.out \in {"aborted", "error"}
      <3>1. PICK t \in RollBackQuietly(q.st) : r = Reply(t, q.out)
        BY <2>1, <2>6
      <3>2. t \in Ending(s)
        BY <2>2, <2>4, <2>5, <3>1, RollBackQuietlyEnds DEF Ending
      <3>3. r.st = t /\ r.out = q.out /\ r.kept = {}
        BY <3>1 DEF Reply
      <3>4. QED
        BY <2>6, <3>2, <3>3
    <2>7. CASE q.out \notin {"aborted", "error"}
      BY <2>1, <2>2, <2>7 DEF Ending
    <2>8. QED
      BY <2>6, <2>7
  <1>3. QED
    BY <1>1, <1>2

-------------------------------------------------------------------------------
(***************************************************************************)
(* The promises of Transactions, of any handles and any state of theirs,   *)
(* amount to all or nothing.                                               *)
(***************************************************************************)
Of(ids, writes, at, sent, told, kept) == INSTANCE Transactions
    WITH Ids <- ids, Writes <- writes, phase <- at, issued <- sent, done <- told, durable <- kept

(***************************************************************************)
(* Any engine that implements Transactions makes the acknowledged work of  *)
(* a handle durable whole or not at all, and what a status call reports of *)
(* an ended handle is true of it.  AllOrNothing is not inductive alone:    *)
(* that what is kept is what was done says nothing of work that would be   *)
(* done later, unless work is sent.                                        *)
(***************************************************************************)
THEOREM EveryHandleAllOrNothing ==
    ASSUME NEW CONSTANT I, NEW CONSTANT W,
           NEW VARIABLE phase, NEW VARIABLE issued, NEW VARIABLE done, NEW VARIABLE durable
    PROVE  Of(I, W, phase, issued, done, durable)!Spec
           => []Of(I, W, phase, issued, done, durable)!AllOrNothing
  <1> DEFINE
    Abstract == Of(I, W, phase, issued, done, durable)!AllOrNothing
    Outcome == Abstract /\ \A i \in I : done[i] \subseteq issued[i]
    KeptIn(i) == issued[i] \cap durable
    Keeps(i) == Of(I, W, phase, issued, done, durable)!Keeps(i)
    Step(i) == Of(I, W, phase, issued, done, durable)!Step(i)
  <1>1. Of(I, W, phase, issued, done, durable)!Init => Outcome
    BY DEF Of!Init, Of!AllOrNothing, Of!Kept
  <1>2. ASSUME NEW i \in I, Outcome, durable \subseteq durable', Keeps(i)
        PROVE  KeptIn(i)' = KeptIn(i) /\ done'[i] = done[i] /\ done'[i] \subseteq issued'[i]
    BY <1>2 DEF Of!AllOrNothing, Of!Kept, Of!Keeps, Of!Sends, Of!Gains
  <1>3. ASSUME Outcome, Of(I, W, phase, issued, done, durable)!Next
        PROVE  Outcome'
    <2>1. durable \subseteq durable' /\ \A i \in I : Step(i)
      BY <1>3 DEF Of!Next
    <2>2. ASSUME NEW i \in I
          PROVE  /\ KeptIn(i)' = {} \/ KeptIn(i)' = done'[i]
                 /\ phase'[i] = "committed" => KeptIn(i)' = done'[i]
                 /\ phase'[i] \in {"fresh", "open", "rolled_back", "expired"} => KeptIn(i)' = {}
                 /\ done'[i] \subseteq issued'[i]
      <3>0. /\ KeptIn(i) = {} \/ KeptIn(i) = done[i]
            /\ phase[i] = "committed" => KeptIn(i) = done[i]
            /\ phase[i] \in {"fresh", "open", "rolled_back", "expired"} => KeptIn(i) = {}
            /\ done[i] \subseteq issued[i]
        BY <1>3 DEF Of!AllOrNothing, Of!Kept
      <3>1. CASE Keeps(i) /\ (\/ Of(I, W, phase, issued, done, durable)!Rest(i)
                              \/ Of(I, W, phase, issued, done, durable)!Begin(i)
                              \/ Of(I, W, phase, issued, done, durable)!Leave(i)
                              \/ Of(I, W, phase, issued, done, durable)!Forget(i))
        <4>1. KeptIn(i)' = KeptIn(i) /\ done'[i] = done[i] /\ done'[i] \subseteq issued'[i]
          BY <1>2, <1>3, <2>1, <3>1
        <4>2. QED
          BY <3>0, <3>1, <4>1 DEF Of!Rest, Of!Begin, Of!Leave, Of!Forget
      <3>2. CASE Of(I, W, phase, issued, done, durable)!Work(i)
        BY <2>1, <3>0, <3>2 DEF Of!Work, Of!Sends, Of!Gains
      <3>3. CASE Of(I, W, phase, issued, done, durable)!Commit(i)
        <4>1. KeptIn(i)' = done'[i]
          BY <2>1, <3>0, <3>3 DEF Of!Commit, Of!InReach, Of!Sends, Of!Gains
        <4>2. QED
          BY <3>3, <4>1 DEF Of!Commit, Of!Sends
      <3>4. CASE Of(I, W, phase, issued, done, durable)!End(i)
        <4>1. Keeps(i)
          BY <3>4 DEF Of!End
        <4>2. KeptIn(i)' = KeptIn(i) /\ done'[i] = done[i] /\ done'[i] \subseteq issued'[i]
          BY <1>2, <1>3, <2>1, <4>1
        <4>3. phase'[i] = "committed" => KeptIn(i)' = done[i]
          BY <2>1, <3>0, <3>4, <4>2 DEF Of!End
        <4>4. phase'[i] \in {"rolled_back", "expired"} => KeptIn(i)' = {}
          BY <2>1, <3>0, <3>4, <4>2 DEF Of!End
        <4>5. phase'[i] \notin {"fresh", "open"}
          BY <3>4 DEF Of!End
        <4>6. QED
          BY <3>0, <4>2, <4>3, <4>4, <4>5
      <3>5. QED
        BY <2>1, <3>1, <3>2, <3>3, <3>4 DEF Of!Step, Of!Rest, Of!Begin, Of!Leave, Of!Forget
    <2>3. QED
      BY <2>2 DEF Of!AllOrNothing, Of!Kept
  <1>4. Outcome /\ UNCHANGED Of(I, W, phase, issued, done, durable)!vars => Outcome'
    BY DEF Of!vars, Of!AllOrNothing, Of!Kept
  <1>5. Outcome => Abstract
    OBVIOUS
  <1>6. QED
    <2> HIDE DEF Outcome, Abstract
    <2>1. Outcome /\ [Of(I, W, phase, issued, done, durable)!Next]_(Of(I, W, phase, issued, done, durable)!vars)
          => Outcome'
      BY <1>3, <1>4
    <2>2. Of(I, W, phase, issued, done, durable)!Spec => []Abstract
      BY <1>1, <1>5, <2>1, PTL DEF Of!Spec
    <2>3. QED
      BY <2>2 DEF Abstract
===============================================================================
