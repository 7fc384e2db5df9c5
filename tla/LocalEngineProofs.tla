--------------------------- MODULE LocalEngineProofs ---------------------------
(***************************************************************************)
(* Theorems about LocalEngine, for every set of tasks, handles, writes,    *)
(* cursors and savepoint names.                                            *)
(***************************************************************************)
EXTENDS LocalEngine, LaneProofs

-------------------------------------------------------------------------------
(* The primary: with a write handle its lane is the handle's, without one  *)
(* it is in a read transaction or between transactions.                    *)

HeldPrimary == {p \in Primary : p.handle # None /\ p.lane \in HeldLane}
QuietPrimary == {p \in Primary : p.handle = None /\ p.lane \in QuietLane}
RestingPrimary == {p \in Primary : p.handle = None /\ p.lane \in RestingLane}
GoodPrimary == HeldPrimary \cup QuietPrimary

\* The primary lane is always there.
LEMMA PrimaryHasLane == \A p \in GoodPrimary : p.lane \in LaneType /\ p.lane # None
  BY NoneAssumption
  DEF GoodPrimary, HeldPrimary, QuietPrimary, HeldLane, QuietLane, ReadingLane, RestingLane

\* A primary lane at rest is one without a handle.
LEMMA RestingIsQuiet == RestingPrimary \subseteq QuietPrimary
  BY DEF RestingPrimary, QuietPrimary, QuietLane

(***************************************************************************)
(* A call that took a live connection for lost, gave its handle up and got *)
(* no new connection.  Nothing is said of the primary it leaves but its    *)
(* type, and nothing of what comes after it.                               *)
(***************************************************************************)
Stranded == IF "stall" \in Faults
            THEN [st : Primary, out : {"stranded"}, kept : SUBSET Writes] ELSE {}
OrStranded(R) == R \cup Stranded

\* Such a reply ends its call, and only a stalled probe brings it about.
LEMMA StrandedReply ==
    ASSUME NEW r \in Stranded
    PROVE  /\ r.out = "stranded" /\ "stall" \in Faults /\ r.kept \subseteq Writes
           /\ \A kept \in SUBSET Writes : [r EXCEPT !.kept = @ \cup kept] \in Stranded
  BY DEF Stranded

\* The writes of two commands of one call add up, as they do in other replies.
LEMMA AddKeptOr ==
    ASSUME NEW S, NEW T, NEW q \in OrStranded(Replies(S)), NEW r \in OrStranded(Replies(T))
    PROVE  [q EXCEPT !.kept = @ \cup r.kept] \in OrStranded(Replies(S))
  <1>1. r.kept \in SUBSET Writes
    BY StrandedReply DEF OrStranded, Replies
  <1>2. CASE q \in Replies(S)
    BY <1>1, <1>2 DEF OrStranded, Replies
  <1>3. CASE q \in Stranded
    BY <1>1, <1>3, StrandedReply DEF OrStranded
  <1>4. QED
    BY <1>2, <1>3 DEF OrStranded

\* A call let in goes on in S, one refused or sent on ends in T.
LEMMA LetIn ==
    ASSUME NEW S, NEW T, S \subseteq T, NEW p \in T
    PROVE  /\ Refuse(p) \subseteq RepliesOr(S, T)
           /\ {Reply(p, "second")} \subseteq RepliesOr(S, T)
           /\ p \in S => Track(p) \subseteq RepliesOr(S, T)
  BY ReplyOrType DEF Refuse, Track, Outcomes

\* The replies of a call that went on, and of one that did not.
LEMMA WentOn ==
    ASSUME NEW S, NEW T, S \subseteq T, NEW q \in RepliesOr(S, T)
    PROVE  /\ q.out = "ok" => q.st \in S
           /\ q \in Replies(T)
           /\ \A x \in Replies(T) : [x EXCEPT !.kept = @ \cup q.kept] \in Replies(T)
           /\ \A x \in RepliesOr(S, T) : [x EXCEPT !.kept = @ \cup q.kept] \in RepliesOr(S, T)
  BY DEF RepliesOr, Replies

\* A reply that ends the call ends every call that goes on from it.
LEMMA EndedEarly ==
    ASSUME NEW S, NEW T, S \subseteq T, NEW q \in Replies(T)
    PROVE  /\ q.out # "ok" => q \in RepliesOr(S, T)
           /\ q.st \in T
           /\ \A x \in RepliesOr(S, T) : [x EXCEPT !.kept = @ \cup q.kept] \in RepliesOr(S, T)
  BY DEF RepliesOr, Replies

\* Lane functions run outside a handle leave the primary without one.
LEMMA OnQuietPrimary ==
    ASSUME NEW p \in Primary, p.handle = None, NEW R, R \subseteq Replies(QuietLane)
    PROVE  OnPrimary(p, R) \subseteq Replies(QuietPrimary)
  BY DEF OnPrimary, Replies, QuietPrimary, Primary, QuietLane, ReadingLane, RestingLane

\* The same for a primary that holds no read transaction.
LEMMA OnRestingPrimary ==
    ASSUME NEW p \in Primary, p.handle = None, NEW R, R \subseteq Replies(RestingLane)
    PROVE  OnPrimary(p, R) \subseteq Replies(RestingPrimary)
  BY DEF OnPrimary, Replies, RestingPrimary, Primary, RestingLane

\* Lane functions that stay in the write block leave the handle its session.
LEMMA OnHeldPrimary ==
    ASSUME NEW p \in Primary, p.handle # None, NEW R, R \subseteq Replies(HeldLane)
    PROVE  OnPrimary(p, R) \subseteq Replies(HeldPrimary)
  BY DEF OnPrimary, Replies, HeldPrimary, Primary, HeldLane

\* A session command of the open handle.
LEMMA OnHeldSession ==
    ASSUME NEW p \in HeldPrimary, NEW R, R \subseteq Replies(WriteBlock)
    PROVE  OnSession(p, R) \subseteq Replies(HeldPrimary)
  BY OnHeldLane, OnHeldPrimary DEF OnSession, HeldPrimary

\* A session command changes nothing of the primary but the session.
LEMMA OnSessionFrame ==
    ASSUME NEW p \in Primary, NEW S, NEW R, R \subseteq Replies(S), NEW q \in OnSession(p, R)
    PROVE  q.st.handle = p.handle /\ q.st.closed = p.closed /\ q.st.ended = p.ended
  <1>1. PICK r \in R : q = [r EXCEPT !.st = [p EXCEPT !.lane = [p.lane EXCEPT !.s = r.st]]]
    BY DEF OnSession, OnPrimary, OnLane, Replies
  <1>2. r \in Replies(S)
    BY <1>1
  <1>3. q.st = [p EXCEPT !.lane = [p.lane EXCEPT !.s = r.st]]
    BY <1>1, <1>2 DEF Replies
  <1>4. QED
    BY <1>3 DEF Primary

\* What parks the lane of a handle makes it rest.
LEMMA HeldLaneRests ==
    ASSUME NEW l \in HeldLane, NEW R, R \subseteq Replies(Parked)
    PROVE  OnLane(l, R) \subseteq Replies(RestingLane)
  BY DEF OnLane, Replies, RestingLane, HeldLane, LaneType, Parked

\* Once its connection is lost, the lane of a handle holds no block.
LEMMA DeadHeldLaneRests ==
    ASSUME NEW l \in HeldLane, ~l.s.alive
    PROVE  l \in RestingLane
  BY DEF HeldLane, RestingLane, WriteBlock, Stays, Parked, Working

-------------------------------------------------------------------------------
(* Ends of a handle                                                        *)

\* note_closed (engine.rs) records a final state and frees the handle slot.
LEMMA CloseCloses ==
    ASSUME NEW p \in Primary, p.handle # None, NEW state \in ClosedStates,
           NEW q \in Close(p, state)
    PROVE  q \in Primary /\ q.handle = None /\ q.lane = p.lane
  <1> DEFINE new(gone) == [i \in Ids |-> IF i = p.handle.id THEN state
                                         ELSE IF i \in gone THEN "forgotten"
                                         ELSE p.closed[i]]
  <1>1. PICK gone : q = [p EXCEPT !.handle = None, !.closed = new(gone)]
    BY DEF Close
  <1>2. new(gone) \in [Ids -> ClosedStates]
    BY DEF Primary, ClosedStates
  <1> HIDE DEF new
  <1>3. QED
    BY <1>1, <1>2 DEF Primary

\* end (engine.rs) also reports the handle to the callers who watch it.
LEMMA EndCloses ==
    ASSUME NEW p \in Primary, p.handle # None, NEW state \in ClosedStates,
           NEW q \in End(p, state)
    PROVE  q \in Primary /\ q.handle = None /\ q.lane = p.lane
  <1> DEFINE e == [p EXCEPT !.ended = @ \cup {p.handle.id}]
  <1>1. p.handle \in WriteHandle
    BY DEF Primary
  <1>2. e \in Primary /\ e.handle = p.handle /\ e.lane = p.lane
    BY <1>1 DEF Primary, WriteHandle
  <1>3. q \in Close(e, state)
    BY DEF End
  <1> HIDE DEF e
  <1>4. QED
    BY <1>2, <1>3, CloseCloses

\* lose (engine.rs) closes the handle, if any, and leaves the lane as it is.
LEMMA LoseCloses ==
    ASSUME NEW p \in GoodPrimary, NEW q \in Lose(p)
    PROVE  q \in Primary /\ q.handle = None /\ q.lane = p.lane
  BY EndCloses DEF Lose, GoodPrimary, HeldPrimary, QuietPrimary, ClosedStates

\* A primary whose connection is gone and whose handle is closed is in order.
LEMMA DeadGoodPrimary ==
    ASSUME NEW p \in GoodPrimary, ~p.lane.s.alive,
           NEW q \in Primary, q.handle = None, q.lane = p.lane
    PROVE  q \in QuietPrimary
  BY DeadHeldLaneRests DEF GoodPrimary, HeldPrimary, QuietPrimary, QuietLane

\* The reconnection of ensure_alive (engine.rs) closes the handle before it asks
\* for the new connection.
LEMMA ReconnectGood ==
    ASSUME NEW p \in GoodPrimary, p.lane.s.alive => "stall" \in Faults
    PROVE  Reconnect(p) \subseteq OrStranded(Replies(GoodPrimary))
  <1> DEFINE fresh(q) == Reply([q EXCEPT !.lane = NewLane], "ok")
             none(q) == Reply(q, NotReplaced(p))
             U == OrStranded(Replies(GoodPrimary))
  <1>1. ASSUME NEW q \in Lose(p)
        PROVE  fresh(q) \in U /\ none(q) \in U
    <2>1. q \in Primary /\ q.handle = None /\ q.lane = p.lane
      BY LoseCloses
    <2>2. [q EXCEPT !.lane = NewLane] \in GoodPrimary
      BY <2>1, NewLaneRests DEF GoodPrimary, QuietPrimary, QuietLane, Primary, RestingLane
    <2>3. fresh(q) \in U
      BY <2>2, ReplyType DEF Outcomes, OrStranded
    <2>4. CASE p.handle # None /\ p.lane.s.alive
      <3>1. none(q) = [st |-> q, out |-> "stranded", kept |-> {}]
        BY <2>4 DEF NotReplaced, Reply
      <3>2. none(q) \in Stranded
        BY <2>1, <2>4, <3>1 DEF Stranded
      <3>3. QED
        BY <2>3, <3>2 DEF OrStranded
    <2>5. CASE ~(p.handle # None /\ p.lane.s.alive)
      <3>1. q \in GoodPrimary
        BY <2>1, <2>5, DeadGoodPrimary DEF Lose, GoodPrimary
      <3>2. none(q) = Reply(q, "error")
        BY <2>5 DEF NotReplaced
      <3>3. QED
        BY <2>3, <3>1, <3>2, ReplyType DEF Outcomes, OrStranded
    <2>6. QED
      BY <2>4, <2>5
  <1> HIDE DEF U, fresh, none
  <1>2. UNION {{fresh(q), none(q)} : q \in Lose(p)} \subseteq U
    BY <1>1
  <1>3. QED
    BY <1>2 DEF Reconnect, U, fresh, none

\* ensure_alive (engine.rs) never lets a handle outlive its session, and lets a
\* block outlive its handle only where it strands it.
LEMMA EnsureAliveGood ==
    ASSUME NEW p \in GoodPrimary
    PROVE  EnsureAlive(p) \subseteq OrStranded(Replies(GoodPrimary))
  <1>1. Reply(p, "ok") \in OrStranded(Replies(GoodPrimary))
    BY ReplyType DEF Outcomes, OrStranded
  <1>2. QED
    BY <1>1, ReconnectGood DEF EnsureAlive

\* expire_write_handle (engine.rs) rolls back a due handle and closes it, in
\* that order, and keeps the engine in order.
LEMMA ExpireWriteHandleGood ==
    ASSUME NEW p \in GoodPrimary
    PROVE  ExpireWriteHandle(p) \subseteq Replies(GoodPrimary)
  <1>1. CASE p.handle = None
    BY <1>1, ReplyType DEF ExpireWriteHandle, Outcomes
  <1>2. CASE p.handle # None
    <2>1. p \in HeldPrimary
      BY <1>2 DEF GoodPrimary, QuietPrimary
    <2>2. ASSUME NEW q \in End(p, "expired")
          PROVE  (IF q.lane.s.alive THEN OnSession(q, Rollback(q.lane.s))
                  ELSE {Reply(q, "ok")}) \subseteq Replies(GoodPrimary)
      <3>1. q \in Primary /\ q.handle = None /\ q.lane = p.lane /\ p.lane \in HeldLane
        BY <2>1, EndCloses DEF HeldPrimary, ClosedStates
      <3>2. OnLane(q.lane, Rollback(q.lane.s)) \subseteq Replies(RestingLane)
        BY <3>1, RollbackParks, ParkedSessions, HeldLaneRests DEF HeldLane, WriteBlock
      <3>3. OnSession(q, Rollback(q.lane.s)) \subseteq Replies(RestingPrimary)
        BY <3>1, <3>2, OnRestingPrimary DEF OnSession
      <3>4. ~q.lane.s.alive => q \in GoodPrimary
        BY <3>1, DeadHeldLaneRests DEF GoodPrimary, QuietPrimary, QuietLane
      <3>5. Replies(RestingPrimary) \subseteq Replies(GoodPrimary)
        BY RestingIsQuiet DEF GoodPrimary, Replies
      <3>6. q.lane.s.alive \/ {Reply(q, "ok")} \subseteq Replies(GoodPrimary)
        BY <3>4, ReplyType DEF Outcomes
      <3>7. QED
        BY <3>3, <3>5, <3>6
    <2>3. QED
      BY <1>2, <2>2, ReplyType DEF ExpireWriteHandle, Outcomes
  <1>3. QED
    BY <1>1, <1>2

-------------------------------------------------------------------------------
(* Calls on the primary                                                    *)

\* The sweep that starts every call outside a handle keeps the primary without
\* one.
LEMMA SettleQuiet ==
    ASSUME NEW p \in QuietPrimary
    PROVE  Settle(p) \subseteq Replies(QuietPrimary)
  <1> DEFINE F(q) == OnPrimary(q, FinishIfIdle(q.lane))
  <1>1. OnPrimary(p, SweepExpired(p.lane)) \subseteq Replies(QuietPrimary)
    BY SweepExpiredQuiet, OnQuietPrimary DEF QuietPrimary
  <1>2. \A q \in QuietPrimary : F(q) \subseteq Replies(QuietPrimary)
    BY FinishIfIdleQuiet, OnQuietPrimary DEF QuietPrimary
  <1>3. \A q \in Replies(QuietPrimary) : F(q.st) \subseteq Replies(QuietPrimary)
    BY <1>2 DEF Replies
  <1> HIDE DEF F
  <1>4. Then(OnPrimary(p, SweepExpired(p.lane)), F) \subseteq Replies(QuietPrimary)
    BY <1>1, <1>3, AddKept DEF Then
  <1>5. QED
    BY <1>4 DEF Settle, F

\* open_handle (engine.rs) takes a fresh id for the write block just begun.
LEMMA OpenHandleHolds ==
    ASSUME NEW p \in Primary, p.lane \in HeldLane
    PROVE  OpenHandle(p) \subseteq Replies(HeldPrimary)
  <1> DEFINE handle(i) == [id |-> i, savepoints |-> << >>, done |-> {}, due |-> FALSE]
  <1>1. ASSUME NEW i \in Ids
        PROVE  [p EXCEPT !.handle = handle(i)] \in HeldPrimary
    <2>1. << >> \in Seq(SavepointType)
      OBVIOUS
    <2>2. handle(i) \in WriteHandle
      BY <2>1 DEF WriteHandle
    <2> HIDE DEF handle
    <2>3. handle(i) # None
      BY <2>2, NoneAssumption
    <2>4. QED
      BY <2>2, <2>3 DEF HeldPrimary, Primary
  <1>2. QED
    BY <1>1, ReplyType DEF OpenHandle, FreshIds, Outcomes

\* BEGIN, then the handle: a failed BEGIN gives no handle.
LEMMA BlockOpens ==
    ASSUME NEW p \in RestingPrimary
    PROVE  Then(OnSession(p, BeginBlock(p.lane.s, "write")), OpenHandle) \subseteq Replies(GoodPrimary)
  <1> DEFINE R == OnSession(p, BeginBlock(p.lane.s, "write"))
  <1>1. BeginBlock(p.lane.s, "write") \subseteq RepliesOr(WriteBlock, Parked)
    BY BeginBlockWrites DEF RestingPrimary, RestingLane
  <1>2. ASSUME NEW r \in RepliesOr(WriteBlock, Parked), r.out = "ok"
        PROVE  /\ [p EXCEPT !.lane = [p.lane EXCEPT !.s = r.st]] \in Primary
               /\ [p EXCEPT !.lane = [p.lane EXCEPT !.s = r.st]].lane \in HeldLane
    BY <1>2 DEF RepliesOr, RestingPrimary, RestingLane, HeldLane, LaneType, Primary, WriteBlock, Stays
  <1>3. ASSUME NEW r \in RepliesOr(WriteBlock, Parked), r.out # "ok"
        PROVE  [p EXCEPT !.lane = [p.lane EXCEPT !.s = r.st]] \in RestingPrimary
    BY <1>3 DEF RepliesOr, RestingPrimary, RestingLane, LaneType, Primary, Parked
  <1>4. ASSUME NEW q \in R
        PROVE  /\ q.out \in Outcomes /\ q.kept \subseteq Writes
               /\ q.out = "ok" => q.st \in Primary /\ q.st.lane \in HeldLane
               /\ q.out # "ok" => q \in Replies(RestingPrimary)
    <2>1. PICK r \in BeginBlock(p.lane.s, "write") :
             q = [r EXCEPT !.st = [p EXCEPT !.lane = [p.lane EXCEPT !.s = r.st]]]
      BY DEF OnSession, OnPrimary, OnLane
    <2>2. r \in RepliesOr(WriteBlock, Parked)
      BY <1>1, <2>1
    <2>3. /\ r.out \in Outcomes /\ r.kept \subseteq Writes /\ q.out = r.out /\ q.kept = r.kept
          /\ q.st = [p EXCEPT !.lane = [p.lane EXCEPT !.s = r.st]]
          /\ q = [st |-> q.st, out |-> q.out, kept |-> q.kept]
      BY <2>1, <2>2 DEF RepliesOr, Replies
    <2>4. QED
      BY <1>2, <1>3, <2>2, <2>3 DEF Replies
  <1>5. Then(R, OpenHandle) \subseteq Replies(GoodPrimary)
    <2> HIDE DEF R
    <2>1. ASSUME NEW q \in R, q.out = "ok", NEW x \in OpenHandle(q.st)
          PROVE  [x EXCEPT !.kept = @ \cup q.kept] \in Replies(GoodPrimary)
      BY <1>4, <2>1, OpenHandleHolds DEF Replies, GoodPrimary
    <2>2. ASSUME NEW q \in R, q.out # "ok"
          PROVE  q \in Replies(GoodPrimary)
      BY <1>4, <2>2, RestingIsQuiet DEF Replies, GoodPrimary
    <2>3. QED
      BY <2>1, <2>2 DEF Then
  <1>6. QED
    BY <1>5

\* The same for a begin that may have been cancelled.
LEMMA StartBlockGood ==
    ASSUME NEW p \in RestingPrimary
    PROVE  StartBlock(p) \subseteq Replies(GoodPrimary)
  <1> DEFINE F(q) == Then(OnSession(q, BeginBlock(q.lane.s, "write")), OpenHandle)
  <1>1. \A q \in Replies(RestingPrimary) :
            F(q.st) \subseteq Replies(GoodPrimary) /\ q \in Replies(GoodPrimary)
    BY BlockOpens, RestingIsQuiet DEF Replies, GoodPrimary
  <1> HIDE DEF F
  <1>2. Then(Track(p), F) \subseteq Replies(GoodPrimary)
    BY <1>1, RefuseType, AddKept DEF Then
  <1>3. QED
    BY <1>2 DEF StartBlock, F

\* begin_transaction (engine.rs), with its early returns, keeps the engine in
\* order.
LEMMA BeginTransactionGood ==
    ASSUME NEW p \in GoodPrimary
    PROVE  BeginTransaction(p) \subseteq OrStranded(Replies(GoodPrimary))
  <1> DEFINE C(c) == IF c.lane.cursors # {} THEN Refuse(c)
                     ELSE Then(OnPrimary(c, RollbackAll(c.lane)), StartBlock)
             B(b) == IF b.handle # None THEN Refuse(b) ELSE Then(Settle(b), C)
             A(a) == Then(ExpireWriteHandle(a), B)
  <1>1. ASSUME NEW c \in QuietPrimary
        PROVE  C(c) \subseteq Replies(GoodPrimary)
    <2>1. OnPrimary(c, RollbackAll(c.lane)) \subseteq Replies(RestingPrimary)
      BY RollbackAllRests, OnRestingPrimary DEF QuietPrimary
    <2>2. \A q \in Replies(RestingPrimary) :
              StartBlock(q.st) \subseteq Replies(GoodPrimary) /\ q \in Replies(GoodPrimary)
      BY StartBlockGood, RestingIsQuiet DEF Replies, GoodPrimary
    <2>3. Then(OnPrimary(c, RollbackAll(c.lane)), StartBlock) \subseteq Replies(GoodPrimary)
      BY <2>1, <2>2, AddKept DEF Then
    <2>4. QED
      BY <2>3, RefuseType DEF GoodPrimary
  <1>2. ASSUME NEW b \in GoodPrimary
        PROVE  B(b) \subseteq Replies(GoodPrimary)
    <2>1. CASE b.handle = None
      <3>1. b \in QuietPrimary
        BY <2>1 DEF GoodPrimary, HeldPrimary
      <3>2. \A q \in Replies(QuietPrimary) :
                C(q.st) \subseteq Replies(GoodPrimary) /\ q \in Replies(GoodPrimary)
        BY <1>1 DEF Replies, GoodPrimary
      <3> HIDE DEF C
      <3>3. Then(Settle(b), C) \subseteq Replies(GoodPrimary)
        BY <3>1, <3>2, SettleQuiet, AddKept DEF Then
      <3>4. QED
        BY <2>1, <3>3
    <2>2. QED
      <3> HIDE DEF C
      <3>1. QED
        BY <2>1, RefuseType
  <1>3. ASSUME NEW a \in GoodPrimary
        PROVE  A(a) \subseteq Replies(GoodPrimary)
    <2> HIDE DEF B
    <2>1. \A q \in Replies(GoodPrimary) : B(q.st) \subseteq Replies(GoodPrimary)
      BY <1>2 DEF Replies
    <2>2. QED
      BY <2>1, ExpireWriteHandleGood, AddKept DEF Then
  <1>4. Then(EnsureAlive(p), A) \subseteq OrStranded(Replies(GoodPrimary))
    <2> HIDE DEF A
    <2>1. \A q \in Replies(GoodPrimary) : A(q.st) \subseteq Replies(GoodPrimary)
      BY <1>3 DEF Replies
    <2>2. QED
      BY <2>1, EnsureAliveGood, AddKept, StrandedReply DEF Then, OrStranded
  <1>5. QED
    BY <1>4 DEF BeginTransaction

\* transaction_status (engine.rs) may close a lost handle, and keeps the
\* engine in order.
LEMMA TransactionStatusGood ==
    ASSUME NEW p \in GoodPrimary
    PROVE  TransactionStatus(p) \subseteq Replies(GoodPrimary)
  <1> DEFINE F(q) == IF q.lane.s.alive THEN {Reply(q, "ok")} ELSE {Reply(r, "ok") : r \in Lose(q)}
  <1>1. ASSUME NEW q \in GoodPrimary
        PROVE  F(q) \subseteq Replies(GoodPrimary)
    <2>1. ~q.lane.s.alive => Lose(q) \subseteq GoodPrimary
      BY LoseCloses, DeadGoodPrimary DEF GoodPrimary
    <2>2. QED
      BY <2>1, ReplyType DEF Outcomes
  <1>2. \A q \in Replies(GoodPrimary) : F(q.st) \subseteq Replies(GoodPrimary)
    BY <1>1 DEF Replies
  <1> HIDE DEF F
  <1>3. Then(ExpireWriteHandle(p), F) \subseteq Replies(GoodPrimary)
    BY <1>2, ExpireWriteHandleGood, AddKept DEF Then
  <1>4. QED
    BY <1>3 DEF TransactionStatus, F

-------------------------------------------------------------------------------
(* Calls inside a handle                                                   *)

\* Renewing a handle, or recording a statement it acknowledged, leaves it its
\* session.
LEMMA TouchHeld ==
    ASSUME NEW p \in HeldPrimary
    PROVE  /\ Touch(p) \in HeldPrimary
           /\ \A w \in Writes : Acknowledge(p, w) \in HeldPrimary
  <1>1. p.handle \in WriteHandle
    BY DEF HeldPrimary, Primary
  <1>2. [p.handle EXCEPT !.due = FALSE] \in WriteHandle
    BY <1>1 DEF WriteHandle
  <1>3. ASSUME NEW q \in HeldPrimary
        PROVE  Touch(q) \in HeldPrimary
    <2>1. q.handle \in WriteHandle
      BY DEF HeldPrimary, Primary
    <2>2. [q.handle EXCEPT !.due = FALSE] \in WriteHandle
      BY <2>1 DEF WriteHandle
    <2>3. [q.handle EXCEPT !.due = FALSE] # None
      BY <2>2, NoneAssumption
    <2>4. QED
      BY <2>2, <2>3 DEF Touch, HeldPrimary, Primary
  <1>4. ASSUME NEW w \in Writes
        PROVE  [p EXCEPT !.handle.done = @ \cup {w}] \in HeldPrimary
    <2>1. [p.handle EXCEPT !.done = @ \cup {w}] \in WriteHandle
      BY <1>1 DEF WriteHandle
    <2>2. [p.handle EXCEPT !.done = @ \cup {w}] # None
      BY <2>1, NoneAssumption
    <2>3. QED
      BY <2>1, <2>2 DEF HeldPrimary, Primary
  <1>5. QED
    BY <1>3, <1>4 DEF Acknowledge

\* A call that holds the handle holds it still after expire_write_handle.
LEMMA HoldsHeld ==
    ASSUME NEW p \in GoodPrimary, NEW id \in Ids, Holds(p, id)
    PROVE  p \in HeldPrimary
  BY DEF Holds, GoodPrimary, QuietPrimary

\* set_savepoint (engine.rs) leaves the handle its session.
LEMMA SetSavepointHeld ==
    ASSUME NEW p \in HeldPrimary, NEW name \in Names
    PROVE  SetSavepoint(p, name) \subseteq Replies(HeldPrimary)
  <1> DEFINE marked(q) == [q EXCEPT !.handle.savepoints =
                               Append(@, [name |-> name, sofar |-> q.handle.done])]
             F(q) == {Reply(Touch(marked(q)), "ok")}
  <1>1. OnSession(p, Savepoint(p.lane.s, name)) \subseteq Replies(HeldPrimary)
    BY WriteBlockCommands, OnHeldSession DEF HeldPrimary, HeldLane
  <1>2. ASSUME NEW q \in HeldPrimary
        PROVE  F(q) \subseteq Replies(HeldPrimary)
    <2> DEFINE mark == [name |-> name, sofar |-> q.handle.done]
    <2>1. q.handle \in WriteHandle
      BY DEF HeldPrimary, Primary
    <2>2. mark \in SavepointType /\ q.handle.savepoints \in Seq(SavepointType)
      BY <2>1 DEF WriteHandle, SavepointType
    <2> HIDE DEF mark
    <2>3. Append(q.handle.savepoints, mark) \in Seq(SavepointType)
      BY <2>2
    <2>4. [q.handle EXCEPT !.savepoints = Append(@, mark)] \in WriteHandle
      BY <2>1, <2>3 DEF WriteHandle
    <2>5. [q.handle EXCEPT !.savepoints = Append(@, mark)] # None
      BY <2>4, NoneAssumption
    <2>6. [q EXCEPT !.handle.savepoints = Append(@, mark)] \in HeldPrimary
      BY <2>4, <2>5 DEF HeldPrimary, Primary
    <2>7. marked(q) \in HeldPrimary
      BY <2>6 DEF mark
    <2> HIDE DEF marked
    <2>8. QED
      BY <2>7, TouchHeld, ReplyType DEF Outcomes
  <1>3. \A q \in Replies(HeldPrimary) : F(q.st) \subseteq Replies(HeldPrimary)
    BY <1>2 DEF Replies
  <1> HIDE DEF F
  <1>4. Then(OnSession(p, Savepoint(p.lane.s, name)), F) \subseteq Replies(HeldPrimary)
    BY <1>1, <1>3, AddKept DEF Then
  <1>5. QED
    BY <1>4 DEF SetSavepoint, F

\* undo_to (engine.rs) leaves the handle its session.
LEMMA UndoToHeld ==
    ASSUME NEW p \in HeldPrimary, NEW name \in Names
    PROVE  UndoTo(p, name) \subseteq Replies(HeldPrimary)
  <1> DEFINE at == LastNamed(p.handle.savepoints, name)
             back(q) == [q EXCEPT !.handle.savepoints = SubSeq(@, 1, at),
                                  !.handle.done = q.handle.savepoints[at].sofar]
             F(q) == {Reply(Touch(back(q)), "ok")}
             R == OnSession(p, RollbackToSavepoint(p.lane.s, name))
  <1>1. R \subseteq Replies(HeldPrimary)
    BY WriteBlockCommands, OnHeldSession DEF HeldPrimary, HeldLane
  <1>2. \A q \in R : q.st.handle = p.handle
    BY WriteBlockCommands, OnSessionFrame DEF HeldPrimary, HeldLane
  <1>3. ASSUME NEW q \in HeldPrimary, q.handle = p.handle, at # 0
        PROVE  F(q) \subseteq Replies(HeldPrimary)
    <2>1. q.handle \in WriteHandle /\ q.handle.savepoints \in Seq(SavepointType)
      BY DEF HeldPrimary, Primary, WriteHandle
    <2>2. at \in 1 .. Len(q.handle.savepoints)
      BY <1>3, <2>1, LastNamedSavepoint
    <2> HIDE DEF at
    <2>3. SubSeq(q.handle.savepoints, 1, at) \in Seq(SavepointType)
      BY <2>1, <2>2
    <2>4. q.handle.savepoints[at].sofar \subseteq Writes
      <3>1. q.handle.savepoints[at] \in SavepointType
        BY <2>1, <2>2
      <3>2. QED
        BY <3>1 DEF SavepointType
    <2>5. [q.handle EXCEPT !.savepoints = SubSeq(@, 1, at),
                           !.done = q.handle.savepoints[at].sofar] \in WriteHandle
      BY <2>1, <2>3, <2>4 DEF WriteHandle
    <2>6. [q.handle EXCEPT !.savepoints = SubSeq(@, 1, at),
                           !.done = q.handle.savepoints[at].sofar] # None
      BY <2>5, NoneAssumption
    <2>7. back(q) \in HeldPrimary
      BY <2>5, <2>6 DEF HeldPrimary, Primary
    <2> HIDE DEF back
    <2>8. QED
      BY <2>7, TouchHeld, ReplyType DEF Outcomes
  <1>4. at # 0 => Then(R, F) \subseteq Replies(HeldPrimary)
    <2>1. \A q \in R : at # 0 => F(q.st) \subseteq Replies(HeldPrimary)
      BY <1>1, <1>2, <1>3 DEF Replies
    <2> HIDE DEF F, R, at
    <2>2. QED
      BY <1>1, <2>1, AddKept DEF Then
  <1>5. QED
    BY <1>4, RefuseType DEF UndoTo

\* A statement in a handle keeps the engine in order, on its lost-connection
\* path too.
LEMMA RunGuardedGood ==
    ASSUME NEW p \in HeldPrimary, NEW w \in Writes
    PROVE  RunGuarded(p, w) \subseteq Replies(GoodPrimary)
  <1> DEFINE G(s) == Guarded(s, LAMBDA t : RunWrite(t, w))
             R == OnSession(p, Then(Command(p.lane.s, p.lane.s), G))
             answer(r) == IF r.st.lane.s.alive
                          THEN {Reply(IF r.out = "ok" THEN Acknowledge(r.st, w) ELSE Touch(r.st),
                                      r.out)}
                          ELSE {Reply(q, r.out) : q \in Lose(r.st)}
  <1>1. R \subseteq Replies(HeldPrimary)
    <2>1. Command(p.lane.s, p.lane.s) \subseteq Replies(WriteBlock)
      BY WriteBlockCommands DEF HeldPrimary, HeldLane
    <2>2. \A s \in WriteBlock : G(s) \subseteq Replies(WriteBlock)
      BY WriteBlockCommands
    <2> HIDE DEF G
    <2>3. \A q \in Replies(WriteBlock) : G(q.st) \subseteq Replies(WriteBlock)
      BY <2>2 DEF Replies
    <2>4. Then(Command(p.lane.s, p.lane.s), G) \subseteq Replies(WriteBlock)
      BY <2>1, <2>3, AddKept DEF Then
    <2>5. QED
      BY <2>4, OnHeldSession
  <1>2. ASSUME NEW r \in Replies(HeldPrimary)
        PROVE  answer(r) \subseteq Replies(GoodPrimary)
    <2>1. r.st \in HeldPrimary /\ r.st \in GoodPrimary /\ r.out \in Outcomes
      BY DEF Replies, GoodPrimary
    <2>2. CASE r.st.lane.s.alive
      BY <2>1, <2>2, TouchHeld, ReplyType DEF GoodPrimary
    <2>3. CASE ~r.st.lane.s.alive
      <3>1. Lose(r.st) \subseteq GoodPrimary
        BY <2>1, <2>3, LoseCloses, DeadGoodPrimary DEF GoodPrimary
      <3>2. QED
        BY <2>1, <2>3, <3>1, ReplyType
    <2>4. QED
      BY <2>2, <2>3
  <1>3. ~p.lane.s.alive => UNION {Refuse(q) : q \in Lose(p)} \subseteq Replies(GoodPrimary)
    BY LoseCloses, DeadGoodPrimary, RefuseType DEF GoodPrimary
  <1>4. UNION {answer(r) : r \in R} \subseteq Replies(GoodPrimary)
    <2> HIDE DEF answer, R
    <2>1. QED
      BY <1>1, <1>2
  <1>5. QED
    BY <1>3, <1>4 DEF RunGuarded

\* The state recorded for a COMMIT that failed is a closed state.
LEMMA FinalClosed ==
    ASSUME NEW r, NEW state \in ClosedStates
    PROVE  Final(r, state) \in ClosedStates
  BY DEF Final, ClosedStates

\* finish (engine.rs) ends the block before the handle is closed, on every
\* outcome.
LEMMA FinishGood ==
    ASSUME NEW p \in HeldPrimary, NEW statement, NEW state \in ClosedStates
    PROVE  Finish(p, statement, state) \subseteq Replies(GoodPrimary)
  <1> DEFINE R == OnSession(p, FinishBlock(p.lane.s, statement))
  <1>1. ASSUME NEW r \in R
        PROVE  {[r EXCEPT !.st = q] : q \in Close(r.st, Final(r, state))}
                   \subseteq Replies(GoodPrimary)
    <2>1. FinishBlock(p.lane.s, statement) \subseteq Replies(Parked)
      BY FinishBlockParks, ParkedSessions DEF HeldPrimary, HeldLane, WriteBlock
    <2>2. OnLane(p.lane, FinishBlock(p.lane.s, statement)) \subseteq Replies(RestingLane)
      BY <2>1, HeldLaneRests DEF HeldPrimary
    <2>3. /\ r \in Replies(Primary) /\ r.st.lane \in RestingLane /\ r.st.handle = p.handle
      <3>1. PICK x \in OnLane(p.lane, FinishBlock(p.lane.s, statement)) :
               r = [x EXCEPT !.st = [p EXCEPT !.lane = x.st]]
        BY DEF OnSession, OnPrimary
      <3>2. x \in Replies(RestingLane)
        BY <2>2, <3>1
      <3>3. [p EXCEPT !.lane = x.st] \in Primary
        BY <3>2 DEF Replies, RestingLane, HeldPrimary, Primary
      <3>4. QED
        BY <3>1, <3>2, <3>3 DEF Replies, HeldPrimary, Primary
    <2>4. r.st \in Primary /\ r.st.handle # None /\ Final(r, state) \in ClosedStates
      BY <2>3, FinalClosed DEF Replies, HeldPrimary
    <2>5. \A q \in Close(r.st, Final(r, state)) : q \in GoodPrimary
      BY <2>3, <2>4, CloseCloses DEF GoodPrimary, QuietPrimary, QuietLane
    <2>6. QED
      BY <2>3, <2>5 DEF Replies
  <1>2. ~p.lane.s.alive => UNION {Refuse(q) : q \in Close(p, "lost")} \subseteq Replies(GoodPrimary)
    <2>1. ~p.lane.s.alive => \A q \in Close(p, "lost") : q \in GoodPrimary
      BY CloseCloses, DeadGoodPrimary DEF GoodPrimary, HeldPrimary, ClosedStates
    <2>2. QED
      BY <2>1, RefuseType
  <1>3. UNION {{[r EXCEPT !.st = q] : q \in Close(r.st, Final(r, state))} : r \in R}
            \subseteq Replies(GoodPrimary)
    <2> HIDE DEF R
    <2>1. QED
      BY <1>1
  <1>4. QED
    BY <1>2, <1>3 DEF Finish

\* copy_in inside a handle keeps the engine in order.
LEMMA CopyInHandleGood ==
    ASSUME NEW p \in GoodPrimary, NEW id \in Ids, NEW w \in Writes
    PROVE  CopyInHandle(p, id, w) \subseteq OrStranded(Replies(GoodPrimary))
  <1> DEFINE C(c) == {Reply(Acknowledge(c, w), "ok")}
             R(b) == OnSession(b, Guarded(b.lane.s, LAMBDA t : RunWrite(t, w)))
             D(b) == Then(R(b), C)
             B(b) == IF ~Holds(b, id) THEN Refuse(b) ELSE Then(Track(b), D)
             A(a) == Then(EnsureAlive(a), B)
  <1>1. ASSUME NEW b \in HeldPrimary
        PROVE  Then(R(b), C) \subseteq Replies(HeldPrimary)
    <2>1. R(b) \subseteq Replies(HeldPrimary)
      BY WriteBlockCommands, OnHeldSession DEF HeldPrimary, HeldLane
    <2>2. ASSUME NEW q \in Replies(HeldPrimary)
          PROVE  C(q.st) \subseteq Replies(HeldPrimary)
      <3>1. q.st \in HeldPrimary
        BY DEF Replies
      <3>2. Acknowledge(q.st, w) \in HeldPrimary
        BY <3>1, TouchHeld
      <3>3. QED
        BY <3>2, ReplyType DEF Outcomes
    <2> HIDE DEF R, C
    <2>3. QED
      BY <2>1, <2>2, AddKept DEF Then
  <1>2. ASSUME NEW b \in GoodPrimary
        PROVE  B(b) \subseteq Replies(GoodPrimary)
    <2>1. \A q \in Replies(HeldPrimary) :
              D(q.st) \subseteq Replies(GoodPrimary) /\ q \in Replies(GoodPrimary)
      BY <1>1 DEF Replies, GoodPrimary
    <2> HIDE DEF D
    <2>2. b \in HeldPrimary => Then(Track(b), D) \subseteq Replies(GoodPrimary)
      BY <2>1, RefuseType, AddKept DEF Then
    <2>3. QED
      BY <2>2, HoldsHeld, RefuseType
  <1>3. \A a \in GoodPrimary : A(a) \subseteq OrStranded(Replies(GoodPrimary))
    <2> HIDE DEF B
    <2>1. \A q \in Replies(GoodPrimary) : B(q.st) \subseteq Replies(GoodPrimary)
      BY <1>2 DEF Replies
    <2>2. QED
      BY <2>1, EnsureAliveGood, AddKept, StrandedReply DEF Then, OrStranded
  <1> HIDE DEF A
  <1>4. Then(ExpireWriteHandle(p), A) \subseteq OrStranded(Replies(GoodPrimary))
    <2>1. \A q \in Replies(GoodPrimary) : A(q.st) \subseteq OrStranded(Replies(GoodPrimary))
      BY <1>3 DEF Replies
    <2>2. \A q \in Replies(GoodPrimary) : q \in OrStranded(Replies(GoodPrimary))
      BY DEF OrStranded
    <2>3. QED
      BY <2>1, <2>2, ExpireWriteHandleGood, AddKeptOr DEF Then
  <1>5. QED
    BY <1>4 DEF CopyInHandle, A

\* What is left of a call on a handle runs with the handle open and not due.
LEMMA ForHandleHolds ==
    ASSUME NEW p \in GoodPrimary, NEW id \in Ids
    PROVE  ForHandle(p, id) \subseteq RepliesOr(HeldPrimary, GoodPrimary)
  <1> DEFINE F(q) == IF Holds(q, id) THEN Track(q) ELSE Refuse(q)
             S == RepliesOr(HeldPrimary, GoodPrimary)
  <1>0. HeldPrimary \subseteq GoodPrimary
    BY DEF GoodPrimary
  <1>1. \A q \in GoodPrimary : F(q) \subseteq S
    BY <1>0, HoldsHeld, LetIn
  <1> HIDE DEF F
  <1>2. \A q \in Replies(GoodPrimary) :
            /\ q.out # "ok" => q \in S
            /\ F(q.st) \subseteq S
            /\ \A x \in S : [x EXCEPT !.kept = @ \cup q.kept] \in S
    BY <1>0, <1>1, EndedEarly
  <1> HIDE DEF S
  <1>3. Then(ExpireWriteHandle(p), F) \subseteq S
    BY <1>2, ExpireWriteHandleGood DEF Then
  <1>4. QED
    BY <1>3 DEF ForHandle, F, S

\* Every call on a handle keeps the engine in order.
LEMMA InHandleGood ==
    ASSUME NEW p \in GoodPrimary, NEW id \in Ids
    PROVE  /\ \A name \in Names :
                 /\ Then(ForHandle(p, id), LAMBDA q : SetSavepoint(q, name)) \subseteq Replies(GoodPrimary)
                 /\ Then(ForHandle(p, id), LAMBDA q : UndoTo(q, name)) \subseteq Replies(GoodPrimary)
           /\ \A w \in Writes :
                 Then(ForHandle(p, id), LAMBDA q : RunGuarded(q, w)) \subseteq Replies(GoodPrimary)
  <1>1. \A q \in RepliesOr(HeldPrimary, GoodPrimary) :
            /\ q.out = "ok" => q.st \in HeldPrimary
            /\ q \in Replies(GoodPrimary)
            /\ \A x \in Replies(GoodPrimary) : [x EXCEPT !.kept = @ \cup q.kept] \in Replies(GoodPrimary)
    BY WentOn DEF GoodPrimary
  <1>2. Replies(HeldPrimary) \subseteq Replies(GoodPrimary)
    BY DEF Replies, GoodPrimary
  <1>3. ASSUME NEW name \in Names
        PROVE  Then(ForHandle(p, id), LAMBDA q : SetSavepoint(q, name)) \subseteq Replies(GoodPrimary)
    BY <1>1, <1>2, SetSavepointHeld, ForHandleHolds DEF Then
  <1>4. ASSUME NEW name \in Names
        PROVE  Then(ForHandle(p, id), LAMBDA q : UndoTo(q, name)) \subseteq Replies(GoodPrimary)
    BY <1>1, <1>2, UndoToHeld, ForHandleHolds DEF Then
  <1>5. ASSUME NEW w \in Writes
        PROVE  Then(ForHandle(p, id), LAMBDA q : RunGuarded(q, w)) \subseteq Replies(GoodPrimary)
    BY <1>1, RunGuardedGood, ForHandleHolds DEF Then
  <1>6. QED
    BY <1>3, <1>4, <1>5

\* The same for commit and rollback.
LEMMA FinishInHandleGood ==
    ASSUME NEW p \in GoodPrimary, NEW id \in Ids,
           NEW statement \in {"COMMIT", "ROLLBACK"}, NEW state \in ClosedStates
    PROVE  Then(ForHandle(p, id), LAMBDA h : FinishOrRefuse(h, statement, state))
               \subseteq Replies(GoodPrimary)
  <1>1. \A r \in Replies(GoodPrimary) :
            [r EXCEPT !.out = IF @ = "refused" THEN @ ELSE "finished"] \in Replies(GoodPrimary)
    BY DEF Replies, Outcomes
  <1>2. \A h \in HeldPrimary : FinishOrRefuse(h, statement, state) \subseteq Replies(GoodPrimary)
    BY <1>1, FinishGood DEF FinishOrRefuse
  <1>3. \A q \in RepliesOr(HeldPrimary, GoodPrimary) :
            /\ q.out = "ok" => q.st \in HeldPrimary
            /\ q \in Replies(GoodPrimary)
            /\ \A x \in Replies(GoodPrimary) : [x EXCEPT !.kept = @ \cup q.kept] \in Replies(GoodPrimary)
    BY WentOn DEF GoodPrimary
  <1>4. QED
    BY <1>2, <1>3, ForHandleHolds DEF Then

-------------------------------------------------------------------------------
(* Calls outside a handle                                                  *)

\* The preamble of a call outside a handle lets it go on only when no handle
\* is open.
LEMMA OutsideHandleQuiet ==
    ASSUME NEW p \in GoodPrimary
    PROVE  /\ OutsideHandle(p) \subseteq OrStranded(Replies(GoodPrimary))
           /\ \A r \in OutsideHandle(p) : r.out = "ok" => r.st \in QuietPrimary
  <1> DEFINE B(b) == IF b.handle # None THEN Refuse(b) ELSE Settle(b)
             A(a) == Then(EnsureAlive(a), B)
             S == OrStranded(RepliesOr(QuietPrimary, GoodPrimary))
  <1>1. \A q \in S, r \in Replies(GoodPrimary) : [q EXCEPT !.kept = @ \cup r.kept] \in S
    BY StrandedReply DEF Replies, RepliesOr, OrStranded
  <1>2. ASSUME NEW b \in GoodPrimary
        PROVE  B(b) \subseteq S
    <2>1. Refuse(b) \subseteq S
      BY ReplyOrType DEF Refuse, Outcomes, OrStranded
    <2>2. b.handle = None => Settle(b) \subseteq S
      BY SettleQuiet DEF GoodPrimary, HeldPrimary, RepliesOr, Replies, OrStranded
    <2>3. QED
      BY <2>1, <2>2
  <1>3. \A q \in OrStranded(Replies(GoodPrimary)) :
            /\ q.out # "ok" => q \in S
            /\ q.out = "ok" => q \in Replies(GoodPrimary)
    BY StrandedReply DEF RepliesOr, Replies, OrStranded
  <1>4. ASSUME NEW a \in GoodPrimary
        PROVE  A(a) \subseteq S
    <2> HIDE DEF B, S
    <2>1. \A q \in Replies(GoodPrimary) : B(q.st) \subseteq S
      BY <1>2 DEF Replies
    <2>2. QED
      BY <1>1, <1>3, <2>1, EnsureAliveGood DEF Then
  <1>5. Then(ExpireWriteHandle(p), A) \subseteq S
    <2> HIDE DEF A, S
    <2>1. \A q \in Replies(GoodPrimary) : A(q.st) \subseteq S
      BY <1>4 DEF Replies
    <2>2. Replies(GoodPrimary) \subseteq OrStranded(Replies(GoodPrimary))
      BY DEF OrStranded
    <2>3. QED
      BY <1>1, <1>3, <2>1, <2>2, ExpireWriteHandleGood DEF Then
  <1>6. OutsideHandle(p) \subseteq S
    BY <1>5 DEF OutsideHandle
  <1>7. QED
    BY <1>6, StrandedReply DEF RepliesOr, Replies, GoodPrimary, OrStranded

\* What a call alone on the connection does there once it is let in.
LEMMA AloneGood ==
    ASSUME NEW q \in RestingPrimary, NEW R, R \subseteq Replies(Parked)
    PROVE  OnSession(q, R) \subseteq Replies(GoodPrimary)
  <1>1. OnSession(q, R) \subseteq Replies(RestingPrimary)
    BY OnRestingLane, OnRestingPrimary DEF OnSession, RestingPrimary
  <1>2. QED
    BY <1>1, RestingIsQuiet DEF Replies, GoodPrimary

\* What is left of a call outside a handle runs on a primary at rest.
LEMMA HereRests ==
    ASSUME NEW p \in GoodPrimary
    PROVE  HereOrSecond(p) \subseteq OrStranded(RepliesOr(RestingPrimary, GoodPrimary))
  <1> DEFINE F(q) == IF q.lane.inRead THEN {Reply(q, "second")} ELSE Track(q)
             S == RepliesOr(RestingPrimary, GoodPrimary)
  <1>0. RestingPrimary \subseteq GoodPrimary /\ QuietPrimary \subseteq GoodPrimary
    BY RestingIsQuiet DEF GoodPrimary
  <1>1. \A q \in QuietPrimary : ~q.lane.inRead => q \in RestingPrimary
    BY DEF QuietPrimary, RestingPrimary, QuietLane, ReadingLane
  <1>2. \A q \in QuietPrimary : F(q) \subseteq S
    BY <1>0, <1>1, LetIn
  <1> HIDE DEF F
  <1>3. \A q \in Replies(GoodPrimary) :
            /\ q.out # "ok" => q \in S
            /\ \A x \in S : [x EXCEPT !.kept = @ \cup q.kept] \in S
    BY <1>0, EndedEarly
  <1> HIDE DEF S
  <1>4. Then(OutsideHandle(p), F) \subseteq OrStranded(S)
    BY <1>2, <1>3, OutsideHandleQuiet, StrandedReply DEF Then, OrStranded
  <1>5. QED
    BY <1>4 DEF HereOrSecond, F, S

\* A write outside a handle keeps the engine in order.
LEMMA RunWriteAloneGood ==
    ASSUME NEW p \in GoodPrimary, NEW w \in Writes, NEW outside \in BOOLEAN
    PROVE  RunWriteAlone(p, w, outside) \subseteq OrStranded(Replies(GoodPrimary))
  <1> DEFINE F(q) == OnSession(q, Autocommit(q.lane.s, w, outside))
  <1>1. \A q \in RestingPrimary : F(q) \subseteq Replies(GoodPrimary)
    BY AutocommitParks, AloneGood DEF RestingPrimary, RestingLane
  <1> HIDE DEF F
  <1>2. \A q \in RepliesOr(RestingPrimary, GoodPrimary) :
            /\ q.out = "ok" => q.st \in RestingPrimary
            /\ q \in Replies(GoodPrimary)
            /\ \A x \in Replies(GoodPrimary) : [x EXCEPT !.kept = @ \cup q.kept] \in Replies(GoodPrimary)
    BY WentOn, RestingIsQuiet DEF GoodPrimary
  <1>3. Then(HereOrSecond(p), F) \subseteq OrStranded(Replies(GoodPrimary))
    BY <1>1, <1>2, HereRests, StrandedReply DEF Then, OrStranded
  <1>4. QED
    BY <1>3 DEF RunWriteAlone, F

\* A dry run keeps the engine in order.
LEMMA RunAndRollbackGood ==
    ASSUME NEW p \in GoodPrimary, NEW w \in Writes
    PROVE  RunAndRollback(p, w) \subseteq OrStranded(Replies(GoodPrimary))
  <1> DEFINE F(q) == OnSession(q, RunThenRollback(q.lane.s, w))
  <1>1. \A q \in RestingPrimary : F(q) \subseteq Replies(GoodPrimary)
    BY RunThenRollbackParks, AloneGood DEF RestingPrimary, RestingLane
  <1> HIDE DEF F
  <1>2. \A q \in RepliesOr(RestingPrimary, GoodPrimary) :
            /\ q.out = "ok" => q.st \in RestingPrimary
            /\ q \in Replies(GoodPrimary)
            /\ \A x \in Replies(GoodPrimary) : [x EXCEPT !.kept = @ \cup q.kept] \in Replies(GoodPrimary)
    BY WentOn, RestingIsQuiet DEF GoodPrimary
  <1>3. Then(HereOrSecond(p), F) \subseteq OrStranded(Replies(GoodPrimary))
    BY <1>1, <1>2, HereRests, StrandedReply DEF Then, OrStranded
  <1>4. QED
    BY <1>3 DEF RunAndRollback, F

\* copy_in outside a handle keeps the engine in order.
LEMMA CopyInAloneGood ==
    ASSUME NEW p \in GoodPrimary, NEW w \in Writes
    PROVE  CopyInAlone(p, w) \subseteq OrStranded(Replies(GoodPrimary))
  <1>1. \A r \in OrStranded(Replies(GoodPrimary)) :
            [r EXCEPT !.out = IF @ = "second" THEN "refused" ELSE @]
                \in OrStranded(Replies(GoodPrimary))
    BY DEF Replies, Outcomes, OrStranded, Stranded
  <1>2. QED
    BY <1>1, RunWriteAloneGood DEF CopyInAlone

\* What is left of a read runs on a primary without a handle.
LEMMA ReadHoldQuiet ==
    ASSUME NEW p \in GoodPrimary
    PROVE  ReadHold(p) \subseteq OrStranded(RepliesOr(QuietPrimary, GoodPrimary))
  <1> DEFINE B(b) == IF b.handle # None THEN {Reply(b, "second")} ELSE Track(b)
             A(a) == Then(EnsureAlive(a), B)
             S == RepliesOr(QuietPrimary, GoodPrimary)
  <1>0. QuietPrimary \subseteq GoodPrimary
    BY DEF GoodPrimary
  <1>1. \A b \in GoodPrimary : b.handle = None => b \in QuietPrimary
    BY DEF GoodPrimary, HeldPrimary
  <1>2. \A b \in GoodPrimary : B(b) \subseteq S
    BY <1>0, <1>1, LetIn
  <1> HIDE DEF B
  <1>3. \A q \in Replies(GoodPrimary) :
            /\ q.out # "ok" => q \in S
            /\ q.st \in GoodPrimary
            /\ \A x \in S : [x EXCEPT !.kept = @ \cup q.kept] \in S
    BY <1>0, EndedEarly
  <1> HIDE DEF S
  <1>4. \A a \in GoodPrimary : A(a) \subseteq OrStranded(S)
    BY <1>2, <1>3, EnsureAliveGood, StrandedReply DEF Then, OrStranded
  <1> HIDE DEF A
  <1>5. Then(ExpireWriteHandle(p), A) \subseteq OrStranded(S)
    <2>1. \A q \in Replies(GoodPrimary), x \in Stranded :
              [x EXCEPT !.kept = @ \cup q.kept] \in Stranded
      BY StrandedReply DEF Replies
    <2>2. QED
      BY <1>3, <1>4, <2>1, ExpireWriteHandleGood DEF Then, OrStranded
  <1>6. QED
    BY <1>5 DEF ReadHold, A, B, S

\* The primaries in order with no cursor that p did not have.
Narrow(p) == {q \in GoodPrimary : q.lane.cursors \subseteq p.lane.cursors}

\* expire_write_handle and ensure_alive (engine.rs) register no cursor.
LEMMA NoCursorBefore ==
    ASSUME NEW p \in GoodPrimary
    PROVE  /\ ExpireWriteHandle(p) \subseteq Replies(Narrow(p))
           /\ EnsureAlive(p) \subseteq OrStranded(Replies(Narrow(p)))
  <1>1. p \in Primary /\ p.lane \in LaneType
    BY DEF GoodPrimary, HeldPrimary, QuietPrimary, HeldLane, QuietLane, ReadingLane, RestingLane
  <1>2. ASSUME NEW x \in ExpireWriteHandle(p)
        PROVE  x.st.lane.cursors = p.lane.cursors
    <2>1. CASE p.handle = None \/ ~p.handle.due
      BY <2>1 DEF ExpireWriteHandle, Reply
    <2>2. CASE p.handle # None /\ p.handle.due
      <3>1. PICK q \in End(p, "expired") :
                x \in IF q.lane.s.alive THEN OnSession(q, Rollback(q.lane.s)) ELSE {Reply(q, "ok")}
        BY <2>2 DEF ExpireWriteHandle
      <3>2. q \in Primary /\ q.lane = p.lane
        BY <1>1, <2>2, <3>1, EndCloses DEF ClosedStates
      <3>3. CASE ~q.lane.s.alive
        BY <3>1, <3>2, <3>3 DEF Reply
      <3>4. CASE q.lane.s.alive
        <4>1. PICK r \in Rollback(q.lane.s) :
                  x = [r EXCEPT !.st = [q EXCEPT !.lane = [q.lane EXCEPT !.s = r.st]]]
          BY <3>1, <3>4 DEF OnSession, OnPrimary, OnLane
        <4>2. r = [st |-> r.st, out |-> r.out, kept |-> r.kept]
          BY DEF Rollback, Command, Interrupted, Broken, Reply
        <4>3. x.st = [q EXCEPT !.lane = [q.lane EXCEPT !.s = r.st]]
          BY <4>1, <4>2
        <4>4. x.st.lane = [q.lane EXCEPT !.s = r.st]
          BY <3>2, <4>3 DEF Primary
        <4>5. QED
          BY <1>1, <3>2, <4>4 DEF LaneType
      <3>5. QED
        BY <3>3, <3>4
    <2>3. QED
      BY <2>1, <2>2
  <1>3. ASSUME NEW x \in EnsureAlive(p)
        PROVE  x.st.lane.cursors \subseteq p.lane.cursors
    <2>1. CASE x = Reply(p, "ok")
      BY <2>1 DEF Reply
    <2>2. CASE x \in Reconnect(p)
      <3>1. PICK q \in Lose(p) : x \in {Reply([q EXCEPT !.lane = NewLane], "ok"), Reply(q, NotReplaced(p))}
        BY <2>2 DEF Reconnect
      <3>2. q \in Primary /\ q.lane = p.lane
        BY <3>1, LoseCloses
      <3> DEFINE u == [q EXCEPT !.lane = NewLane]
      <3>3. u.lane.cursors = {}
        BY <3>2 DEF Primary, NewLane
      <3> HIDE DEF u
      <3>4. x = Reply(u, "ok") \/ x = Reply(q, NotReplaced(p))
        BY <3>1 DEF u
      <3>5. QED
        BY <3>2, <3>3, <3>4 DEF Reply
    <2>3. QED
      BY <2>1, <2>2 DEF EnsureAlive
  <1>4. QED
    BY <1>2, <1>3, ExpireWriteHandleGood, EnsureAliveGood DEF Narrow, Replies, OrStranded

\* How a read starts (engine.rs) registers no cursor.
LEMMA ReadHoldNarrow ==
    ASSUME NEW p \in GoodPrimary
    PROVE  ReadHold(p) \subseteq OrStranded(Replies(Narrow(p)))
  <1> DEFINE B(b) == IF b.handle # None THEN {Reply(b, "second")} ELSE Track(b)
             A(a) == Then(EnsureAlive(a), B)
             S == Replies(Narrow(p))
  <1>1. \A b \in Narrow(p) : B(b) \subseteq S
    BY LetIn, ReplyType, RefuseType DEF Track, Outcomes
  <1> HIDE DEF B
  <1>2. \A q \in Replies(GoodPrimary), r \in S : [r EXCEPT !.kept = @ \cup q.kept] \in S
    BY AddKept
  <1>3. \A q \in S : q.st \in Narrow(p) /\ q \in Replies(GoodPrimary)
    BY DEF Replies, Narrow
  <1>4. ASSUME NEW a \in Narrow(p)
        PROVE  A(a) \subseteq OrStranded(S)
    <2>1. a \in GoodPrimary /\ Narrow(a) \subseteq Narrow(p)
      BY DEF Narrow
    <2>2. EnsureAlive(a) \subseteq OrStranded(S)
      BY <2>1, NoCursorBefore DEF Replies, OrStranded
    <2> HIDE DEF S
    <2>3. QED
      BY <1>1, <1>2, <1>3, <2>2, StrandedReply DEF Then, OrStranded
  <1> HIDE DEF A
  <1>5. ExpireWriteHandle(p) \subseteq S
    BY NoCursorBefore
  <1> HIDE DEF S
  <1>6. Then(ExpireWriteHandle(p), A) \subseteq OrStranded(S)
    <2>1. \A q \in Replies(GoodPrimary), x \in Stranded :
              [x EXCEPT !.kept = @ \cup q.kept] \in Stranded
      BY StrandedReply DEF Replies
    <2>2. QED
      BY <1>2, <1>3, <1>4, <1>5, <2>1 DEF Then, OrStranded
  <1>7. QED
    BY <1>6 DEF ReadHold, A, B, S

\* Every read on the primary keeps the engine in order; the cursor of a paged
\* read is a new one.
LEMMA ReadsGood ==
    ASSUME NEW p \in GoodPrimary
    PROVE  /\ ReadWholeOnPrimary(p) \subseteq OrStranded(Replies(GoodPrimary))
           /\ CatalogOnPrimary(p) \subseteq OrStranded(Replies(GoodPrimary))
           /\ \A k \in Cursors \ p.lane.cursors :
                 ReadPagedOnPrimary(p, k) \subseteq OrStranded(Replies(GoodPrimary))
  <1> DEFINE W(q) == OnPrimary(q, ReadWhole(q.lane))
             C(q) == OnPrimary(q, CatalogOnLane(q.lane))
  <1>1. \A q \in QuietPrimary, R \in SUBSET Replies(QuietLane) :
            OnPrimary(q, R) \subseteq Replies(GoodPrimary)
    BY OnQuietPrimary DEF QuietPrimary, GoodPrimary, Replies
  <1>2. \A q \in QuietPrimary : q.lane \in QuietLane
    BY DEF QuietPrimary
  <1>3. \A q \in RepliesOr(QuietPrimary, GoodPrimary) :
            /\ q.out = "ok" => q.st \in QuietPrimary
            /\ q \in Replies(GoodPrimary)
            /\ \A x \in Replies(GoodPrimary) : [x EXCEPT !.kept = @ \cup q.kept] \in Replies(GoodPrimary)
    BY WentOn DEF GoodPrimary
  <1>4. ReadWholeOnPrimary(p) \subseteq OrStranded(Replies(GoodPrimary))
    <2>1. \A q \in QuietPrimary : W(q) \subseteq Replies(GoodPrimary)
      BY <1>1, <1>2, ReadWholeQuiet
    <2> HIDE DEF W
    <2>2. Then(ReadHold(p), W) \subseteq OrStranded(Replies(GoodPrimary))
      BY <1>3, <2>1, ReadHoldQuiet, StrandedReply DEF Then, OrStranded
    <2>3. QED
      BY <2>2 DEF ReadWholeOnPrimary, W
  <1>5. CatalogOnPrimary(p) \subseteq OrStranded(Replies(GoodPrimary))
    <2>1. \A q \in QuietPrimary : C(q) \subseteq Replies(GoodPrimary)
      BY <1>1, <1>2, CatalogOnLaneQuiet
    <2> HIDE DEF C
    <2>2. Then(ReadHold(p), C) \subseteq OrStranded(Replies(GoodPrimary))
      BY <1>3, <2>1, ReadHoldQuiet, StrandedReply DEF Then, OrStranded
    <2>3. QED
      BY <2>2 DEF CatalogOnPrimary, C
  <1>6. ASSUME NEW k \in Cursors \ p.lane.cursors
        PROVE  ReadPagedOnPrimary(p, k) \subseteq OrStranded(Replies(GoodPrimary))
    <2> DEFINE P(q) == OnPrimary(q, ReadPaged(q.lane, k))
    <2>1. \A q \in QuietPrimary : k \notin q.lane.cursors => P(q) \subseteq Replies(GoodPrimary)
      BY <1>1, <1>2, ReadPagedQuiet
    <2> HIDE DEF P
    <2>2. \A r \in ReadHold(p) : r.out = "ok" => k \notin r.st.lane.cursors
      BY ReadHoldNarrow, StrandedReply DEF Replies, Narrow, OrStranded
    <2>3. Then(ReadHold(p), P) \subseteq OrStranded(Replies(GoodPrimary))
      BY <1>3, <2>1, <2>2, ReadHoldQuiet, StrandedReply DEF Then, OrStranded
    <2>4. QED
      BY <2>3 DEF ReadPagedOnPrimary, P
  <1>7. QED
    BY <1>4, <1>5, <1>6

-------------------------------------------------------------------------------
(* Pages, sweeps and the end of the session                                *)

\* The lane of a handle has no cursors to sweep and no read to finish.
LEMMA HeldLaneSweeps ==
    ASSUME NEW l \in HeldLane
    PROVE  /\ SweepExpired(l) \subseteq Replies(HeldLane)
           /\ FinishIfIdle(l) \subseteq Replies(HeldLane)
  <1>1. \A r \in ClosePortals(l.s, {}) : r.st = l.s
    BY DEF ClosePortals, Reply
  <1>2. [l EXCEPT !.cursors = @ \ {}, !.s = l.s] \in HeldLane
    BY DEF HeldLane, LaneType
  <1>3. CloseCursors(l, {}) \subseteq Replies(HeldLane)
    BY <1>1, <1>2, ReplyType DEF CloseCursors, Outcomes
  <1>4. SUBSET l.cursors = {{}}
    BY DEF HeldLane
  <1>5. FinishIfIdle(l) \subseteq Replies(HeldLane)
    BY ReplyType DEF FinishIfIdle, HeldLane, Outcomes
  <1>6. QED
    BY <1>3, <1>4, <1>5 DEF SweepExpired

\* The cursor sweep keeps the engine in order, with a handle open or not.
LEMMA SettleGood ==
    ASSUME NEW p \in GoodPrimary
    PROVE  Settle(p) \subseteq Replies(GoodPrimary)
  <1>1. CASE p \in QuietPrimary
    BY <1>1, SettleQuiet DEF Replies, GoodPrimary
  <1>2. CASE p \in HeldPrimary
    <2> DEFINE F(q) == OnPrimary(q, FinishIfIdle(q.lane))
    <2>1. OnPrimary(p, SweepExpired(p.lane)) \subseteq Replies(HeldPrimary)
      BY <1>2, HeldLaneSweeps, OnHeldPrimary DEF HeldPrimary
    <2>2. \A q \in HeldPrimary : F(q) \subseteq Replies(HeldPrimary)
      BY HeldLaneSweeps, OnHeldPrimary DEF HeldPrimary
    <2>3. \A q \in Replies(HeldPrimary) : F(q.st) \subseteq Replies(HeldPrimary)
      BY <2>2 DEF Replies
    <2> HIDE DEF F
    <2>4. Then(OnPrimary(p, SweepExpired(p.lane)), F) \subseteq Replies(HeldPrimary)
      BY <2>1, <2>3, AddKept DEF Then
    <2>5. Settle(p) \subseteq Replies(HeldPrimary)
      BY <2>4 DEF Settle, F
    <2>6. QED
      BY <2>5 DEF Replies, GoodPrimary
  <1>3. QED
    BY <1>1, <1>2 DEF GoodPrimary

\* The background sweep keeps the primary in order, its errors ignored.
LEMMA SweepPrimaryGood ==
    ASSUME NEW p \in GoodPrimary
    PROVE  SweepPrimary(p) \subseteq GoodPrimary
  <1>1. Regardless(Settle(p)) \subseteq GoodPrimary
    BY SettleGood DEF Regardless, Replies
  <1>2. \A q \in GoodPrimary : Regardless(ExpireWriteHandle(q)) \subseteq GoodPrimary
    BY ExpireWriteHandleGood DEF Regardless, Replies
  <1>3. QED
    BY <1>1, <1>2 DEF SweepPrimary

\* A fetch keeps a lane in order, one it reads through or a handle's.
LEMMA FetchHereStays ==
    ASSUME NEW k
    PROVE  /\ \A l \in QuietLane : FetchHere(l, k) \subseteq Replies(QuietLane)
           /\ \A l \in HeldLane : FetchHere(l, k) \subseteq Replies(HeldLane)
  <1> DEFINE G(n) == FetchOnLane(n, k)
             F(m) == IF k \in m.cursors THEN Then(Track(m), G) ELSE {Reply(m, "second")}
  <1>1. ASSUME NEW m \in QuietLane
        PROVE  F(m) \subseteq Replies(QuietLane)
    <2>1. k \in m.cursors => m \in ReadingLane /\ k \in Cursors
      BY DEF QuietLane, ReadingLane, RestingLane, LaneType
    <2>2. k \in m.cursors => \A q \in Replies(ReadingLane) :
              G(q.st) \subseteq Replies(QuietLane) /\ q \in Replies(QuietLane)
      BY <2>1, FetchOnLaneQuiet DEF Replies, QuietLane
    <2> HIDE DEF G
    <2>3. k \in m.cursors => Then(Track(m), G) \subseteq Replies(QuietLane)
      BY <2>1, <2>2, RefuseType, AddKept DEF Then
    <2>4. QED
      BY <2>3, ReplyType DEF Outcomes
  <1>2. \A m \in HeldLane : F(m) \subseteq Replies(HeldLane)
    BY ReplyType DEF HeldLane, Outcomes
  <1> HIDE DEF F
  <1>3. /\ \A q \in Replies(QuietLane) : F(q.st) \subseteq Replies(QuietLane)
        /\ \A q \in Replies(HeldLane) : F(q.st) \subseteq Replies(HeldLane)
    BY <1>1, <1>2 DEF Replies
  <1>4. \A l \in QuietLane : Then(SweepExpired(l), F) \subseteq Replies(QuietLane)
    BY <1>3, SweepExpiredQuiet, AddKept DEF Then
  <1>5. \A l \in HeldLane : Then(SweepExpired(l), F) \subseteq Replies(HeldLane)
    BY <1>3, HeldLaneSweeps, AddKept DEF Then
  <1>6. QED
    BY <1>4, <1>5 DEF FetchHere, F, G

\* Closing a cursor keeps a lane in order, one it reads through or a handle's.
LEMMA CloseHereStays ==
    ASSUME NEW k
    PROVE  /\ \A l \in QuietLane : CloseHere(l, k) \subseteq Replies(QuietLane)
           /\ \A l \in HeldLane : CloseHere(l, k) \subseteq Replies(HeldLane)
  <1>1. ASSUME NEW l \in QuietLane
        PROVE  CloseHere(l, k) \subseteq Replies(QuietLane)
    <2>1. k \in l.cursors => l \in ReadingLane
      BY DEF QuietLane, RestingLane
    <2>2. QED
      BY <2>1, ClosedThenIdleQuiet, ReplyType DEF CloseHere, Outcomes
  <1>2. \A l \in HeldLane : CloseHere(l, k) \subseteq Replies(HeldLane)
    BY ReplyType DEF CloseHere, HeldLane, Outcomes
  <1>3. QED
    BY <1>1, <1>2

\* What keeps both kinds of lane keeps the primary in order.
LEMMA OnGoodPrimary ==
    ASSUME NEW p \in GoodPrimary, NEW R,
           p.lane \in QuietLane => R \subseteq Replies(QuietLane),
           p.lane \in HeldLane => R \subseteq Replies(HeldLane)
    PROVE  OnPrimary(p, R) \subseteq Replies(GoodPrimary)
  <1>1. CASE p \in QuietPrimary
    BY <1>1, OnQuietPrimary DEF QuietPrimary, GoodPrimary, Replies
  <1>2. CASE p \in HeldPrimary
    BY <1>2, OnHeldPrimary DEF HeldPrimary, GoodPrimary, Replies
  <1>3. QED
    BY <1>1, <1>2 DEF GoodPrimary

\* release_everything rolls the handle back and closes it.
LEMMA ReleasePrimaryGood ==
    ASSUME NEW p \in GoodPrimary
    PROVE  ReleasePrimary(p) \subseteq GoodPrimary
  <1> DEFINE ended == IF p.handle = None THEN {p}
                      ELSE UNION {End([p EXCEPT !.lane.s = s], "rolled_back") :
                                  s \in RollBackQuietly(p.lane.s)}
             rest(q) == IF q.lane.s.alive THEN Regardless(OnPrimary(q, RollbackAll(q.lane)))
                        ELSE {[q EXCEPT !.lane = ForgetState(@)]}
  <1>1. ended \subseteq QuietPrimary
    <2>1. CASE p.handle = None
      BY <2>1 DEF GoodPrimary, HeldPrimary
    <2>2. CASE p.handle # None
      <3>1. p \in HeldPrimary /\ p.lane.s \in Sessions
        BY <2>2, ParkedSessions DEF GoodPrimary, QuietPrimary, HeldPrimary, HeldLane, WriteBlock
      <3>2. ASSUME NEW s \in Parked, NEW q \in End([p EXCEPT !.lane.s = s], "rolled_back")
            PROVE  q \in QuietPrimary
        <4> DEFINE r == [p EXCEPT !.lane.s = s]
        <4>1. r \in Primary /\ r.handle # None /\ r.lane \in RestingLane
          BY <3>1 DEF HeldPrimary, Primary, HeldLane, RestingLane, LaneType, Parked
        <4> HIDE DEF r
        <4>2. q \in Primary /\ q.handle = None /\ q.lane = r.lane
          BY <3>2, <4>1, EndCloses DEF r, ClosedStates
        <4>3. QED
          BY <4>1, <4>2 DEF QuietPrimary, QuietLane
      <3>3. QED
        BY <2>2, <3>1, <3>2, RollBackQuietlyParks
    <2>3. QED
      BY <2>1, <2>2
  <1>2. ASSUME NEW q \in QuietPrimary
        PROVE  rest(q) \subseteq GoodPrimary
    <2>1. OnPrimary(q, RollbackAll(q.lane)) \subseteq Replies(RestingPrimary)
      BY RollbackAllRests, OnRestingPrimary DEF QuietPrimary
    <2>2. Regardless(OnPrimary(q, RollbackAll(q.lane))) \subseteq GoodPrimary
      BY <2>1, RestingIsQuiet DEF Regardless, Replies, GoodPrimary
    <2>3. ~q.lane.s.alive => ForgetState(q.lane) \in RestingLane
      BY ParkedSessions, ReadingSessions
      DEF QuietPrimary, QuietLane, RestingLane, LaneType, ForgetState, Stays, Sessions
    <2>4. ~q.lane.s.alive => [q EXCEPT !.lane = ForgetState(@)] \in GoodPrimary
      BY <2>3 DEF GoodPrimary, QuietPrimary, QuietLane, Primary, RestingLane
    <2>5. QED
      BY <2>2, <2>4
  <1>3. UNION {rest(q) : q \in ended} \subseteq GoodPrimary
    <2> HIDE DEF ended, rest
    <2>1. QED
      BY <1>1, <1>2
  <1>4. QED
    BY <1>3 DEF ReleasePrimary

-------------------------------------------------------------------------------
(* Calls on the second connection                                          *)

\* What Engine.secondary can be: a lane in order, or none.
LaneSlot == QuietLane \cup {None}

\* ensure_secondary (engine.rs) connects on demand; a failure leaves what was
\* there.
LEMMA EnsureSecondaryQuiet ==
    ASSUME NEW l \in LaneSlot
    PROVE  EnsureSecondary(l) \subseteq RepliesOr(QuietLane, LaneSlot)
  <1>1. NewLane \in QuietLane
    BY NewLaneRests DEF QuietLane
  <1>2. /\ Reply(NewLane, "ok") \in RepliesOr(QuietLane, LaneSlot)
        /\ Reply(l, "error") \in RepliesOr(QuietLane, LaneSlot)
        /\ l # None => Reply(l, "ok") \in RepliesOr(QuietLane, LaneSlot)
    BY <1>1, ReplyOrType DEF LaneSlot, Outcomes
  <1>3. QED
    BY <1>2 DEF EnsureSecondary

\* What is left of a read runs on a second lane that is there.
LEMMA SecondHoldQuiet ==
    ASSUME NEW l \in LaneSlot
    PROVE  SecondHold(l) \subseteq RepliesOr(QuietLane, LaneSlot)
  <1>1. \A q \in RepliesOr(QuietLane, LaneSlot) :
            /\ q.out = "ok" => Track(q.st) \subseteq RepliesOr(QuietLane, LaneSlot)
            /\ \A x \in RepliesOr(QuietLane, LaneSlot) :
                  [x EXCEPT !.kept = @ \cup q.kept] \in RepliesOr(QuietLane, LaneSlot)
    BY WentOn, LetIn DEF LaneSlot
  <1>2. QED
    BY <1>1, EnsureSecondaryQuiet DEF SecondHold, Then

\* A read that got the second lane has registered no cursor on it yet.
LEMMA SecondHoldNarrow ==
    ASSUME NEW l \in LaneSlot, NEW k, l = None \/ k \notin l.cursors
    PROVE  \A q \in SecondHold(l) : q.out = "ok" => k \notin q.st.cursors
  <1>1. ASSUME NEW x \in EnsureSecondary(l), x.out = "ok"
        PROVE  k \notin x.st.cursors
    <2>1. NewLane.cursors = {}
      BY DEF NewLane
    <2>2. l = None => x.st = NewLane
      BY <1>1 DEF EnsureSecondary, Reply
    <2>3. l # None => x.st = NewLane \/ x.st = l
      BY <1>1 DEF EnsureSecondary, Reply
    <2>4. QED
      BY <2>1, <2>2, <2>3
  <1>2. ASSUME NEW q \in Then(EnsureSecondary(l), Track), q.out = "ok"
        PROVE  k \notin q.st.cursors
    <2>1. PICK r \in EnsureSecondary(l) :
              q \in (IF r.out = "ok" THEN {[x EXCEPT !.kept = @ \cup r.kept] : x \in Track(r.st)} ELSE {r})
      BY <1>2 DEF Then
    <2>2. r.out = "ok"
      BY <1>2, <2>1
    <2>3. PICK x \in Track(r.st) : q = [x EXCEPT !.kept = @ \cup r.kept]
      BY <2>1, <2>2
    <2>4. q.st = r.st
      <3>1. x = Reply(r.st, "ok") \/ x = Reply(r.st, "refused")
        BY <2>3 DEF Track, Refuse
      <3>2. QED
        BY <2>3, <3>1 DEF Reply
    <2>5. QED
      BY <1>1, <2>2, <2>4
  <1>3. QED
    BY <1>2 DEF SecondHold

\* Reads, catalog reads and paged reads keep the second lane in order; the
\* cursor of a paged read is a new one.
LEMMA ReadsOnSecond ==
    ASSUME NEW l \in LaneSlot
    PROVE  /\ Then(SecondHold(l), ReadWhole) \subseteq Replies(LaneSlot)
           /\ Then(SecondHold(l), CatalogOnLane) \subseteq Replies(LaneSlot)
           /\ \A k \in Cursors : l = None \/ k \notin l.cursors =>
                 Then(SecondHold(l), LAMBDA m : ReadPaged(m, k)) \subseteq Replies(LaneSlot)
  <1>1. \A q \in RepliesOr(QuietLane, LaneSlot) :
            /\ q.out = "ok" => q.st \in QuietLane
            /\ q \in Replies(LaneSlot)
            /\ \A x \in Replies(LaneSlot) : [x EXCEPT !.kept = @ \cup q.kept] \in Replies(LaneSlot)
    BY WentOn DEF LaneSlot
  <1>2. Replies(QuietLane) \subseteq Replies(LaneSlot)
    BY DEF Replies, LaneSlot
  <1>3. Then(SecondHold(l), ReadWhole) \subseteq Replies(LaneSlot)
    BY <1>1, <1>2, SecondHoldQuiet, ReadWholeQuiet DEF Then
  <1>4. Then(SecondHold(l), CatalogOnLane) \subseteq Replies(LaneSlot)
    BY <1>1, <1>2, SecondHoldQuiet, CatalogOnLaneQuiet DEF Then
  <1>5. ASSUME NEW k \in Cursors, l = None \/ k \notin l.cursors
        PROVE  Then(SecondHold(l), LAMBDA m : ReadPaged(m, k)) \subseteq Replies(LaneSlot)
    <2> DEFINE P(m) == ReadPaged(m, k)
    <2>1. \A q \in SecondHold(l) : q.out = "ok" => k \notin q.st.cursors
      BY <1>5, SecondHoldNarrow
    <2>2. \A m \in QuietLane : k \notin m.cursors => P(m) \subseteq Replies(QuietLane)
      BY ReadPagedQuiet
    <2> HIDE DEF P
    <2>3. Then(SecondHold(l), P) \subseteq Replies(LaneSlot)
      BY <1>1, <1>2, <2>1, <2>2, SecondHoldQuiet DEF Then
    <2>4. QED
      BY <2>3 DEF P
  <1>6. QED
    BY <1>3, <1>4, <1>5

\* The lane of a reply over lanes in order is in order.
LEMMA StepsQuiet == \A q \in Replies(QuietLane) : q.st \in QuietLane
  BY DEF Replies

\* What is left of a write runs on a second lane at rest.
LEMMA AloneRests ==
    ASSUME NEW l \in LaneSlot
    PROVE  AloneOnSecondary(l) \subseteq RepliesOr(RestingLane, LaneSlot)
  <1> DEFINE H(o) == IF o.inRead THEN Refuse(o) ELSE Track(o)
             F(n) == Then(FinishIfIdle(n), H)
             M(m) == Then(SweepExpired(m), F)
             S == RepliesOr(RestingLane, LaneSlot)
  <1>0. RestingLane \subseteq LaneSlot /\ QuietLane \subseteq LaneSlot
    BY DEF LaneSlot, QuietLane
  <1>1. \A o \in QuietLane : ~o.inRead => o \in RestingLane
    BY DEF QuietLane, ReadingLane
  <1>2. \A o \in QuietLane : H(o) \subseteq S
    BY <1>0, <1>1, LetIn
  <1> HIDE DEF H
  <1>3. \A q \in Replies(QuietLane) :
            /\ q.st \in QuietLane
            /\ q.out # "ok" => q \in S
            /\ \A x \in S : [x EXCEPT !.kept = @ \cup q.kept] \in S
    <2>1. Replies(QuietLane) \subseteq Replies(LaneSlot)
      BY <1>0 DEF Replies
    <2>2. QED
      BY <1>0, <2>1, EndedEarly, StepsQuiet
  <1>4. \A q \in RepliesOr(QuietLane, LaneSlot) :
            /\ q.out = "ok" => q.st \in QuietLane
            /\ q.out # "ok" => q \in S
            /\ \A x \in S : [x EXCEPT !.kept = @ \cup q.kept] \in S
    <2>1. \A q \in RepliesOr(QuietLane, LaneSlot) :
              (q.out = "ok" => q.st \in QuietLane) /\ q \in Replies(LaneSlot)
      BY <1>0, WentOn
    <2>2. QED
      BY <1>0, <2>1, EndedEarly
  <1> HIDE DEF S
  <1>5. \A n \in QuietLane : F(n) \subseteq S
    BY <1>2, <1>3, FinishIfIdleQuiet DEF Then
  <1> HIDE DEF F
  <1>6. \A m \in QuietLane : M(m) \subseteq S
    BY <1>3, <1>5, SweepExpiredQuiet DEF Then
  <1> HIDE DEF M
  <1>7. Then(EnsureSecondary(l), M) \subseteq S
    BY <1>4, <1>6, EnsureSecondaryQuiet DEF Then
  <1>8. QED
    BY <1>7 DEF AloneOnSecondary, M, F, H, S

\* Writes and dry runs on the second lane keep it in order.
LEMMA WritesOnSecond ==
    ASSUME NEW l \in LaneSlot, NEW w \in Writes, NEW outside \in BOOLEAN
    PROVE  /\ WriteOnSecondary(l, w, outside) \subseteq Replies(LaneSlot)
           /\ DryRunOnSecondary(l, w) \subseteq Replies(LaneSlot)
  <1> DEFINE A(m) == OnLane(m, Autocommit(m.s, w, outside))
             D(m) == OnLane(m, RunThenRollback(m.s, w))
  <1>1. Replies(RestingLane) \subseteq Replies(LaneSlot)
    BY DEF Replies, LaneSlot, QuietLane
  <1>2. \A m \in RestingLane : A(m) \subseteq Replies(LaneSlot) /\ D(m) \subseteq Replies(LaneSlot)
    BY <1>1, AutocommitParks, RunThenRollbackParks, OnRestingLane DEF RestingLane
  <1> HIDE DEF A, D
  <1>3. \A q \in RepliesOr(RestingLane, LaneSlot) :
            /\ q.out = "ok" => q.st \in RestingLane
            /\ q \in Replies(LaneSlot)
            /\ \A x \in Replies(LaneSlot) : [x EXCEPT !.kept = @ \cup q.kept] \in Replies(LaneSlot)
    BY WentOn DEF LaneSlot, QuietLane
  <1>4. Then(AloneOnSecondary(l), A) \subseteq Replies(LaneSlot)
    BY <1>2, <1>3, AloneRests DEF Then
  <1>5. Then(AloneOnSecondary(l), D) \subseteq Replies(LaneSlot)
    BY <1>2, <1>3, AloneRests DEF Then
  <1>6. QED
    BY <1>4, <1>5 DEF WriteOnSecondary, DryRunOnSecondary, A, D

\* Dropping the second lane when it is idle leaves none.
LEMMA DropIdleQuiet ==
    ASSUME NEW l \in LaneSlot
    PROVE  DropIdle(l) \in LaneSlot
  BY DEF LaneSlot, DropIdle

\* The background sweep keeps the second lane in order, its errors ignored.
LEMMA SweepSecondQuiet ==
    ASSUME NEW l \in QuietLane
    PROVE  Regardless(Then(SweepExpired(l), FinishIfIdle)) \subseteq QuietLane
  <1>1. Then(SweepExpired(l), FinishIfIdle) \subseteq Replies(QuietLane)
    BY StepsQuiet, SweepExpiredQuiet, FinishIfIdleQuiet, AddKept DEF Then
  <1>2. QED
    BY <1>1 DEF Regardless, Replies

\* release_everything leaves the second lane in order.
LEMMA ReleaseSecondQuiet ==
    ASSUME NEW l \in QuietLane
    PROVE  (IF l.s.alive THEN RollbackAll(l) ELSE {Reply(ForgetState(l), "ok")})
               \subseteq Replies(QuietLane)
  <1>1. RollbackAll(l) \subseteq Replies(QuietLane)
    BY RollbackAllRests DEF Replies, QuietLane
  <1>2. ~l.s.alive => ForgetState(l) \in RestingLane
    BY ParkedSessions, ReadingSessions
    DEF QuietLane, RestingLane, LaneType, ForgetState, Stays, Sessions
  <1>3. QED
    BY <1>1, <1>2, ReplyType DEF QuietLane, Outcomes

-------------------------------------------------------------------------------
(* The inductive invariant                                                 *)

WriteStages == {"write", "write_outside", "dry_run"}

ToldType == [Writes -> [out: Answers, by: Ids \cup {None}]]

PlaceType == Stages \X (Writes \cup Cursors \cup {None})

\* A task on its way to the second connection with a write knows which.
PlacesOK ==
    /\ pc \in [Tasks \cup {Sweeper} -> PlaceType]
    /\ \A t \in Tasks : pc[t][1] \in WriteStages => pc[t][2] \in Writes

\* The engine in order: the write handle and the server's write block go
\* together, each lane agrees with its session, and what callers hold and were
\* told is well typed.  It is kept until a handle is stranded.
EngineInv ==
    /\ primary \in GoodPrimary
    /\ secondary \in LaneSlot
    /\ durable \subseteq Writes
    /\ told \in ToldType
    /\ PlacesOK

\* An engine just started is in order.
LEMMA EngineInvInit == Init => EngineInv
  <1> SUFFICES ASSUME Init
               PROVE  EngineInv
    OBVIOUS
  <1>1. primary \in GoodPrimary
    BY NewLaneRests
    DEF Init, GoodPrimary, QuietPrimary, QuietLane, Primary, RestingLane, ClosedStates
  <1>2. told \in ToldType
    BY DEF Init, ToldType, Answers
  <1>3. PlacesOK
    BY DEF Init, PlacesOK, PlaceType, Stages, WriteStages
  <1>4. QED
    BY <1>1, <1>2, <1>3 DEF Init, EngineInv, LaneSlot

\* A call is only ever sent to a stage with an argument that stage takes.
LEMMA GotoPlaces ==
    ASSUME PlacesOK, NEW t \in Tasks \cup {Sweeper}, NEW stage \in Stages,
           NEW arg \in Writes \cup Cursors \cup {None},
           stage \in WriteStages => arg \in Writes,
           Goto(t, stage, arg)
    PROVE  PlacesOK'
  <1>1. pc' \in [Tasks \cup {Sweeper} -> PlaceType]
    BY DEF PlacesOK, Goto, PlaceType
  <1>2. ASSUME NEW u \in Tasks
        PROVE  pc'[u][1] \in WriteStages => pc'[u][2] \in Writes
    BY DEF PlacesOK, Goto
  <1>3. QED
    BY <1>1, <1>2 DEF PlacesOK

\* A call that ends is at no stage.
LEMMA FinishedPlaces ==
    ASSUME PlacesOK, NEW t \in Tasks \cup {Sweeper}, Finished(t)
    PROVE  PlacesOK'
  BY GotoPlaces DEF Finished, Stages, WriteStages

\* An action that moves no call keeps every call in its place.
LEMMA SamePlaces ==
    ASSUME PlacesOK, UNCHANGED pc
    PROVE  PlacesOK'
  BY DEF PlacesOK

\* What a caller is told of a write is one of the answers.
LEMMA TellType ==
    ASSUME told \in ToldType, NEW w \in Writes, NEW id \in Ids \cup {None}, NEW out,
           Tell(w, id, out)
    PROVE  told' \in ToldType
  <1>1. AnswerOf(out) \in Answers /\ "none" \in Answers
    BY DEF AnswerOf, Answers
  <1>2. QED
    BY <1>1 DEF Tell, ToldType

\* A step that strands no handle was answered with another reply.
LEMMA NotStranded ==
    ASSUME ~stranded', NEW S, NEW r \in OrStranded(S), Strands(r)
    PROVE  r \in S
  BY StrandedReply DEF Strands, OrStranded

\* An action that ends on the primary keeps the engine in order if its replies
\* do.
LEMMA EndsHereInv ==
    ASSUME EngineInv, ~stranded', NEW R, R \subseteq OrStranded(Replies(GoodPrimary)), EndsHere(R)
    PROVE  EngineInv'
  <1>1. PICK r \in R : primary' = r.st /\ Strands(r)
    BY DEF EndsHere
  <1>2. r \in Replies(GoodPrimary)
    BY <1>1, NotStranded
  <1>3. QED
    BY <1>1, <1>2, SamePlaces DEF EndsHere, EngineInv, Replies

\* An action that may hand its call to the second lane keeps the engine in
\* order if its replies do.
LEMMA MayGoOnInv ==
    ASSUME EngineInv, ~stranded', NEW t \in Tasks,
           NEW R, R \subseteq OrStranded(Replies(GoodPrimary)),
           NEW stage \in Stages \ WriteStages, NEW arg \in Cursors \cup {None},
           MayGoOn(t, R, stage, arg)
    PROVE  EngineInv'
  <1>1. PlacesOK'
    BY SamePlaces, GotoPlaces DEF MayGoOn, EngineInv
  <1>2. PICK r \in R : primary' = r.st /\ Strands(r)
    BY DEF MayGoOn
  <1>3. r \in Replies(GoodPrimary)
    BY <1>2, NotStranded
  <1>4. QED
    BY <1>1, <1>2, <1>3 DEF MayGoOn, EngineInv, Replies

\* The same for a call with a write, whose answer is recorded.
LEMMA WritingInv ==
    ASSUME EngineInv, ~stranded', NEW t \in Tasks, NEW w \in Writes, NEW id \in Ids \cup {None},
           NEW R, R \subseteq OrStranded(Replies(GoodPrimary)), NEW stage \in Stages,
           Writing(t, w, id, R, stage)
    PROVE  EngineInv'
  <1>1. PlacesOK'
    BY SamePlaces, GotoPlaces DEF Writing, EngineInv
  <1>2. told' \in ToldType
    BY TellType DEF Writing, EngineInv
  <1>3. PICK r \in R : primary' = r.st /\ durable' = durable \cup r.kept /\ Strands(r)
    BY DEF Writing
  <1>4. r \in Replies(GoodPrimary)
    BY <1>3, NotStranded
  <1>5. QED
    BY <1>1, <1>2, <1>3, <1>4 DEF Writing, EngineInv, Replies

\* An action on the second lane touches no handle, and keeps the engine in
\* order if its replies do.
LEMMA OnTheSecondInv ==
    ASSUME EngineInv, NEW t \in Tasks \cup {Sweeper}, NEW stage, NEW R,
           R \subseteq Replies(LaneSlot), OnTheSecond(t, stage, R)
    PROVE  EngineInv'
  <1>1. PlacesOK'
    BY FinishedPlaces DEF OnTheSecond, EngineInv
  <1>2. QED
    BY <1>1 DEF OnTheSecond, EngineInv, Replies

-------------------------------------------------------------------------------
(* Every action keeps it                                                   *)

\* Every call that holds the primary keeps the engine in order.
LEMMA PrimaryNextInv ==
    ASSUME EngineInv, ~stranded', NEW t \in Tasks, PrimaryNext(t)
    PROVE  EngineInv'
  <1>1. CASE Begin(t)
    BY <1>1, BeginTransactionGood, EndsHereInv DEF Begin, EngineInv
  <1>2. CASE Status(t)
    BY <1>2, TransactionStatusGood, EndsHereInv DEF Status, EngineInv, OrStranded
  <1>3. ASSUME NEW id \in Ids, NEW statement \in {"COMMIT", "ROLLBACK"}, NEW state \in ClosedStates,
               FinishTransaction(t, id, statement, state)
        PROVE  EngineInv'
    <2> DEFINE R == Then(ForHandle(primary, id), LAMBDA h : FinishOrRefuse(h, statement, state))
    <2>0. R \subseteq Replies(GoodPrimary)
      BY FinishInHandleGood DEF EngineInv
    <2>1. PICK r \in R :
             /\ primary' = r.st
             /\ durable' = durable \cup r.kept
             /\ IF r.out = "finished" THEN Goto(t, "drop", None) ELSE UNCHANGED pc
      BY <1>3 DEF FinishTransaction
    <2> HIDE DEF R
    <2>2. PlacesOK'
      BY <2>1, SamePlaces, GotoPlaces DEF EngineInv, Stages, WriteStages
    <2>3. QED
      BY <1>3, <2>0, <2>1, <2>2 DEF FinishTransaction, EngineInv, Replies
  <1>4. ASSUME NEW id \in Ids, Commit(t, id) \/ RollbackHandle(t, id)
        PROVE  EngineInv'
    BY <1>3, <1>4 DEF Commit, RollbackHandle, ClosedStates
  <1>5. ASSUME NEW id \in Ids, NEW name \in Names, Mark(t, id, name)
        PROVE  EngineInv'
    BY <1>5, InHandleGood, EndsHereInv DEF Mark, EngineInv, OrStranded
  <1>6. ASSUME NEW id \in Ids, NEW name \in Names, RollbackTo(t, id, name)
        PROVE  EngineInv'
    <2>1. primary' \in GoodPrimary
      <3>1. Then(ForHandle(primary, id), LAMBDA q : UndoTo(q, name)) \subseteq Replies(GoodPrimary)
        BY InHandleGood DEF EngineInv
      <3>2. PICK r \in Then(ForHandle(primary, id), LAMBDA q : UndoTo(q, name)) : primary' = r.st
        BY <1>6 DEF RollbackTo
      <3>3. QED
        BY <3>1, <3>2 DEF Replies
    <2>2. told' \in ToldType
      BY <1>6 DEF RollbackTo, EngineInv, ToldType, Answers
    <2>3. PlacesOK'
      BY <1>6, SamePlaces DEF RollbackTo, EngineInv
    <2>4. QED
      BY <1>6, <2>1, <2>2, <2>3 DEF RollbackTo, EngineInv
  <1>7. ASSUME NEW id \in Ids, NEW w \in Writes, WriteInHandle(t, id, w) \/ CopyIn(t, id, w)
        PROVE  EngineInv'
    BY <1>7, InHandleGood, CopyInHandleGood, WritingInv
    DEF WriteInHandle, CopyIn, EngineInv, Stages, OrStranded
  <1>8. ASSUME NEW w \in Writes, NEW outside \in BOOLEAN, WriteAlone(t, w, outside)
        PROVE  EngineInv'
    BY <1>8, RunWriteAloneGood, WritingInv DEF WriteAlone, EngineInv, Stages
  <1>9. ASSUME NEW w \in Writes, CopyInWithout(t, w)
        PROVE  EngineInv'
    BY <1>9, CopyInAloneGood, WritingInv DEF CopyInWithout, EngineInv, Stages
  <1>10. ASSUME NEW w \in Writes, DryRun(t, w)
         PROVE  EngineInv'
    <2>1. PICK r \in RunAndRollback(primary, w) :
             /\ primary' = r.st /\ Strands(r)
             /\ durable' = durable \cup r.kept
             /\ told' = [told EXCEPT ![w] = [out |-> IF r.out = "second" THEN "running"
                                                     ELSE "undone", by |-> None]]
             /\ IF r.out = "second" THEN Goto(t, "dry_run", w) ELSE UNCHANGED pc
      BY <1>10 DEF DryRun
    <2>0. r \in Replies(GoodPrimary)
      BY <2>1, RunAndRollbackGood, NotStranded DEF EngineInv
    <2>2. PlacesOK'
      BY <2>1, SamePlaces, GotoPlaces DEF EngineInv, Stages
    <2>3. told' \in ToldType
      BY <2>1 DEF EngineInv, ToldType, Answers
    <2>4. QED
      BY <1>10, <2>0, <2>1, <2>2, <2>3 DEF DryRun, EngineInv, Replies
  <1>11. CASE Read(t)
    BY <1>11, ReadsGood, MayGoOnInv DEF Read, EngineInv, Stages, WriteStages
  <1>12. CASE Catalog(t)
    BY <1>12, ReadsGood, MayGoOnInv DEF Catalog, EngineInv, Stages, WriteStages
  <1>13. CASE ReadPage(t)
    <2>1. FreshCursors \subseteq Cursors \ primary.lane.cursors
      BY PrimaryHasLane DEF FreshCursors, EngineInv
    <2>2. QED
      BY <1>13, <2>1, ReadsGood, MayGoOnInv DEF ReadPage, EngineInv, Stages, WriteStages
  <1>14. ASSUME NEW k \in Cursors, Fetch(t, k)
         PROVE  EngineInv'
    BY <1>14, FetchHereStays, OnGoodPrimary, MayGoOnInv
    DEF Fetch, EngineInv, Stages, WriteStages, OrStranded
  <1>15. ASSUME NEW k \in Cursors, CloseCursor(t, k)
         PROVE  EngineInv'
    BY <1>15, CloseHereStays, OnGoodPrimary, MayGoOnInv
    DEF CloseCursor, EngineInv, Stages, WriteStages, OrStranded
  <1>16. CASE ReleaseEverything(t)
    <2>1. primary' \in GoodPrimary
      BY <1>16, ReleasePrimaryGood DEF ReleaseEverything, EngineInv
    <2>2. PlacesOK'
      BY <1>16, GotoPlaces DEF ReleaseEverything, EngineInv, Stages, WriteStages
    <2>3. QED
      BY <1>16, <2>1, <2>2 DEF ReleaseEverything, EngineInv
  <1>17. Unissued \subseteq Writes
    BY DEF Unissued
  <1>18. QED
    BY <1>1, <1>2, <1>4, <1>5, <1>6, <1>7, <1>8, <1>9, <1>10, <1>11, <1>12, <1>13, <1>14,
       <1>15, <1>16, <1>17 DEF PrimaryNext

\* Replies of a second lane that is there count as replies of the slot.
LEMMA LaneReplies ==
    /\ Replies(QuietLane) \subseteq Replies(LaneSlot)
    /\ \A out \in Outcomes : Reply(None, out) \in Replies(LaneSlot)
  BY ReplyType DEF LaneSlot, Replies

\* Every call that holds the second lane keeps the engine in order.
LEMMA SecondNextInv ==
    ASSUME EngineInv, NEW t \in Tasks, SecondNext(t)
    PROVE  EngineInv'
  <1>1. secondary \in LaneSlot
    BY DEF EngineInv
  <1>2. CASE ReadSecond(t)
    BY <1>1, <1>2, ReadsOnSecond, OnTheSecondInv DEF ReadSecond
  <1>3. CASE CatalogSecond(t)
    BY <1>1, <1>3, ReadsOnSecond, OnTheSecondInv DEF CatalogSecond
  <1>4. CASE PageSecond(t)
    <2>1. PICK k \in FreshCursors :
             OnTheSecond(t, "page", Then(SecondHold(secondary), LAMBDA m : ReadPaged(m, k)))
      BY <1>4 DEF PageSecond
    <2>2. k \in Cursors /\ (secondary = None \/ k \notin secondary.cursors)
      BY DEF FreshCursors
    <2>3. QED
      BY <1>1, <2>1, <2>2, ReadsOnSecond, OnTheSecondInv
  <1>5. ASSUME NEW stage \in {"write", "write_outside"}, WriteSecond(t, stage)
        PROVE  EngineInv'
    <2> DEFINE w == pc[t][2]
               outside == stage = "write_outside"
    <2>1. w \in Writes /\ outside \in BOOLEAN
      BY <1>5 DEF WriteSecond, EngineInv, PlacesOK, WriteStages
    <2>2. PICK r \in WriteOnSecondary(secondary, w, outside) :
             /\ secondary' = r.st
             /\ durable' = durable \cup r.kept
             /\ Tell(w, None, r.out)
      BY <1>5 DEF WriteSecond
    <2>3. r \in Replies(LaneSlot)
      BY <1>1, <2>1, <2>2, WritesOnSecond
    <2>4. told' \in ToldType
      BY <2>1, <2>2, TellType DEF EngineInv
    <2>5. PlacesOK'
      BY <1>5, FinishedPlaces DEF WriteSecond, EngineInv
    <2>6. QED
      BY <1>5, <2>2, <2>3, <2>4, <2>5 DEF WriteSecond, EngineInv, Replies
  <1>6. CASE DrySecond(t)
    <2> DEFINE w == pc[t][2]
    <2>1. w \in Writes
      BY <1>6 DEF DrySecond, EngineInv, PlacesOK, WriteStages
    <2>2. PICK r \in DryRunOnSecondary(secondary, w) :
             secondary' = r.st /\ durable' = durable \cup r.kept
      BY <1>6 DEF DrySecond
    <2>3. r \in Replies(LaneSlot)
      BY <1>1, <2>1, <2>2, WritesOnSecond
    <2>4. told' \in ToldType
      <3>1. told' = [told EXCEPT ![w].out = "undone"] /\ told \in ToldType
        BY <1>6 DEF DrySecond, EngineInv
      <3>2. QED
        BY <2>1, <3>1 DEF ToldType, Answers
    <2>5. PlacesOK'
      BY <1>6, FinishedPlaces DEF DrySecond, EngineInv
    <2>6. QED
      BY <1>6, <2>2, <2>3, <2>4, <2>5 DEF DrySecond, EngineInv, Replies
  <1>7. CASE FetchSecond(t)
    <2> DEFINE R == IF secondary = None THEN {Reply(None, "error")}
                    ELSE FetchHere(secondary, pc[t][2])
    <2>1. R \subseteq Replies(LaneSlot)
      BY <1>1, FetchHereStays, LaneReplies DEF LaneSlot, Outcomes
    <2>2. QED
      BY <1>7, <2>1, OnTheSecondInv DEF FetchSecond
  <1>8. CASE CloseSecond(t)
    <2> DEFINE R == IF secondary = None THEN {Reply(None, "error")}
                    ELSE CloseHere(secondary, pc[t][2])
    <2>1. R \subseteq Replies(LaneSlot)
      BY <1>1, CloseHereStays, LaneReplies DEF LaneSlot, Outcomes
    <2>2. QED
      BY <1>8, <2>1, OnTheSecondInv DEF CloseSecond
  <1>9. CASE DropSecond(t)
    BY <1>1, <1>9, DropIdleQuiet, ReplyType, OnTheSecondInv DEF DropSecond, Outcomes
  <1>10. CASE ReleaseSecond(t)
    <2> DEFINE R == IF secondary = None THEN {Reply(None, "ok")}
                    ELSE IF secondary.s.alive THEN RollbackAll(secondary)
                    ELSE {Reply(ForgetState(secondary), "ok")}
    <2>1. R \subseteq Replies(LaneSlot)
      BY <1>1, ReleaseSecondQuiet, LaneReplies DEF LaneSlot, Outcomes
    <2>2. OnTheSecond(t, "release", R)
      BY <1>10 DEF ReleaseSecond
    <2> HIDE DEF R
    <2>3. QED
      BY <2>1, <2>2, OnTheSecondInv
  <1>11. QED
    BY <1>2, <1>3, <1>4, <1>5, <1>6, <1>7, <1>8, <1>9, <1>10 DEF SecondNext

\* The background sweep keeps the engine in order.
LEMMA SweepNextInv ==
    ASSUME EngineInv, SweepNext
    PROVE  EngineInv'
  <1>1. CASE Sweep(Sweeper)
    <2>1. primary' \in GoodPrimary
      BY <1>1, SweepPrimaryGood DEF Sweep, EngineInv
    <2>2. PlacesOK'
      BY <1>1, GotoPlaces DEF Sweep, EngineInv, Stages, WriteStages
    <2>3. QED
      BY <1>1, <2>1, <2>2 DEF Sweep, EngineInv
  <1>2. ASSUME NEW stage \in {"sweep", "sweep_open"}, SweepSecond(Sweeper, stage)
        PROVE  EngineInv'
    <2>1. secondary' \in LaneSlot
      BY <1>2, SweepSecondQuiet DEF SweepSecond, EngineInv, LaneSlot
    <2>2. PlacesOK'
      BY <1>2, GotoPlaces, FinishedPlaces DEF SweepSecond, EngineInv, Stages, WriteStages
    <2>3. QED
      BY <1>2, <2>1, <2>2 DEF SweepSecond, EngineInv
  <1>3. CASE DropSecond(Sweeper)
    BY <1>3, DropIdleQuiet, ReplyType, OnTheSecondInv DEF DropSecond, EngineInv, Outcomes
  <1>4. QED
    BY <1>1, <1>2, <1>3 DEF SweepNext

\* A lost session belongs to a handle, to a read transaction and to neither.
LEMMA DeadEverywhere ==
    /\ Dead \in WriteBlock /\ Dead \in Parked /\ Dead \in Sessions /\ Dead.failed = FALSE
    /\ \A C : Dead \in Holding(C)
  <1>1. Dead \in Stays("read") /\ Dead \in Parked /\ Dead \in Sessions
    BY DeadStays, ParkedSessions
  <1>2. Dead \in WriteBlock
    BY <1>1, BeginBlockWrites
  <1>3. \A C : Dead \in Holding(C)
    BY <1>1, HoldingEnds
  <1>4. QED
    BY <1>1, <1>2, <1>3 DEF Dead

\* A lost connection or a passing deadline keeps the engine in order.
LEMMA EnvironmentInv ==
    ASSUME EngineInv, LosePrimary \/ LoseSecondary \/ DeadlinePasses
    PROVE  EngineInv'
  <1>1. CASE LosePrimary
    <2>1. \A l \in LaneType : [l EXCEPT !.s = Dead] \in LaneType
      BY DeadStays, ParkedSessions DEF LaneType, Stays, Sessions
    <2>2. \A l \in HeldLane : [l EXCEPT !.s = Dead] \in HeldLane
      BY <2>1, DeadEverywhere DEF HeldLane, LaneType
    <2>3. \A l \in QuietLane : [l EXCEPT !.s = Dead] \in QuietLane
      BY <2>1, DeadEverywhere DEF QuietLane, ReadingLane, RestingLane, LaneType
    <2>4. primary' \in GoodPrimary
      BY <1>1, <2>1, <2>2, <2>3
      DEF LosePrimary, EngineInv, GoodPrimary, HeldPrimary, QuietPrimary, Primary
    <2>5. QED
      BY <1>1, <2>4, SamePlaces DEF LosePrimary, EngineInv
  <1>2. CASE LoseSecondary
    <2>1. secondary' \in QuietLane
      BY <1>2, DeadEverywhere, ParkedSessions
      DEF LoseSecondary, EngineInv, LaneSlot, QuietLane, ReadingLane, RestingLane, LaneType, Stays,
          Sessions
    <2>2. QED
      BY <1>2, <2>1, SamePlaces DEF LoseSecondary, EngineInv, LaneSlot
  <1>3. CASE DeadlinePasses
    <2>1. primary \in HeldPrimary /\ primary.handle \in WriteHandle
      BY <1>3 DEF DeadlinePasses, EngineInv, GoodPrimary, HeldPrimary, QuietPrimary, Primary
    <2>2. [primary.handle EXCEPT !.due = TRUE] \in WriteHandle
      BY <2>1 DEF WriteHandle
    <2>3. [primary.handle EXCEPT !.due = TRUE] # None
      BY <2>2, NoneAssumption
    <2>4. primary' \in HeldPrimary
      BY <1>3, <2>1, <2>2, <2>3 DEF DeadlinePasses, HeldPrimary, Primary
    <2>5. QED
      BY <1>3, <2>4, SamePlaces DEF DeadlinePasses, EngineInv, GoodPrimary
  <1>4. QED
    BY <1>1, <1>2, <1>3

\* Every step keeps the engine in order, or strands a handle.
LEMMA EngineInvNext ==
    ASSUME EngineInv, ~stranded', [Next]_vars
    PROVE  EngineInv'
  <1>1. CASE UNCHANGED vars
    BY <1>1 DEF vars, EngineInv, PlacesOK
  <1>2. CASE Next
    BY <1>2, PrimaryNextInv, SecondNextInv, SweepNextInv, EnvironmentInv DEF Next
  <1>3. QED
    BY <1>1, <1>2

-------------------------------------------------------------------------------
(* What a call leaves of a handle that it does not work in                 *)

\* Of the other handles, those that have ended may be forgotten.
Forgot(p, q) ==
    \A i \in Ids : i # p.handle.id =>
        \/ q.closed[i] = p.closed[i]
        \/ p.closed[i] \notin {"none", "forgotten"} /\ q.closed[i] = "forgotten"

\* The handle of p has ended in q, without a COMMIT.
Ended(p, q) ==
    /\ p.handle # None /\ q.handle = None
    /\ q.closed[p.handle.id] \in {"rolled_back", "expired", "lost"}
    /\ Forgot(p, q)

\* What becomes of p in a call that does no work in its handle.
Idles(p) ==
    {q \in GoodPrimary : \/ q = p
                         \/ p.handle = None /\ q.handle = None /\ q.closed = p.closed
                         \/ Ended(p, q)}

\* A reply carries no writes or is no bare one.
LEMMA BareReplies ==
    ASSUME NEW S
    PROVE  Bare(S) = {r \in Replies(S) : r.kept = {}}
  BY DEF Bare, Replies

\* note_closed (engine.rs) records how the handle ended and may forget others.
LEMMA CloseRecords ==
    ASSUME NEW p \in Primary, p.handle # None, NEW state \in ClosedStates,
           NEW q \in Close(p, state)
    PROVE  q.closed[p.handle.id] = state /\ Forgot(p, q)
  <1> DEFINE new(gone) == [i \in Ids |-> IF i = p.handle.id THEN state
                                         ELSE IF i \in gone THEN "forgotten"
                                         ELSE p.closed[i]]
  <1>1. PICK gone : /\ gone \subseteq {i \in Ids : p.closed[i] \notin {"none", "forgotten"}}
                    /\ q = [p EXCEPT !.handle = None, !.closed = new(gone)]
    BY DEF Close
  <1>2. p.handle.id \in Ids
    BY DEF Primary, WriteHandle
  <1> DEFINE c == new(gone)
  <1>3. \A i \in Ids : c[i] = IF i = p.handle.id THEN state
                              ELSE IF i \in gone THEN "forgotten" ELSE p.closed[i]
    OBVIOUS
  <1> HIDE DEF c
  <1>4. q.closed = c
    BY <1>1 DEF Primary, c
  <1>5. QED
    BY <1>1, <1>2, <1>3, <1>4 DEF Forgot

\* So does end (engine.rs).
LEMMA EndRecords ==
    ASSUME NEW p \in Primary, p.handle # None, NEW state \in ClosedStates,
           NEW q \in End(p, state)
    PROVE  q.closed[p.handle.id] = state /\ Forgot(p, q)
  <1> DEFINE e == [p EXCEPT !.ended = @ \cup {p.handle.id}]
  <1>1. p.handle \in WriteHandle
    BY DEF Primary
  <1>2. e \in Primary /\ e.handle = p.handle /\ e.closed = p.closed
    BY <1>1 DEF Primary, WriteHandle
  <1>3. q \in Close(e, state)
    BY DEF End
  <1> HIDE DEF e
  <1>4. q.closed[e.handle.id] = state /\ Forgot(e, q)
    BY <1>2, <1>3, CloseRecords
  <1>5. QED
    BY <1>2, <1>4 DEF Forgot

\* Idle calls may follow one another.
LEMMA IdleSteps ==
    ASSUME NEW p \in GoodPrimary
    PROVE  /\ p \in Idles(p)
           /\ \A q \in Idles(p) : q \in GoodPrimary /\ Idles(q) \subseteq Idles(p)
           /\ \A q \in Idles(p) : q.handle # None => q = p
           /\ \A q \in Idles(p) : p.handle = None => q.handle = None
  BY DEF Idles, Ended, Forgot

\* A handle whose connection is lost ends as lost.
LEMMA LoseIdles ==
    ASSUME NEW p \in GoodPrimary, ~p.lane.s.alive
    PROVE  Lose(p) \subseteq {q \in Idles(p) : q.handle = None}
  <1> SUFFICES ASSUME NEW q \in Lose(p)
               PROVE  q \in Idles(p) /\ q.handle = None
    OBVIOUS
  <1>1. q \in QuietPrimary /\ q.handle = None
    BY LoseCloses, DeadGoodPrimary
  <1>2. CASE p.handle = None
    BY <1>1, <1>2 DEF Lose, Idles
  <1>3. CASE p.handle # None
    <2>1. p \in Primary /\ "lost" \in ClosedStates
      BY DEF GoodPrimary, HeldPrimary, QuietPrimary, ClosedStates
    <2>2. q.closed[p.handle.id] = "lost" /\ Forgot(p, q)
      BY <1>3, <2>1, EndRecords DEF Lose
    <2>3. QED
      BY <1>1, <1>3, <2>2 DEF Idles, Ended, GoodPrimary
  <1>4. QED
    BY <1>2, <1>3

\* A reply without writes to a state that idled.
LEMMA IdleReply ==
    ASSUME NEW S, NEW st \in S, NEW out \in Outcomes
    PROVE  Reply(st, out) \in Bare(S)
  BY DEF Bare, Reply

\* What goes on after a reply without writes goes on from its state.
LEMMA BareOrStranded ==
    ASSUME NEW S, NEW q \in OrStranded(Bare(S)), q.out = "ok"
    PROVE  /\ q \in Bare(S) /\ q.st \in S /\ q.kept = {}
           /\ \A T : \A x \in OrStranded(Replies(T)) : [x EXCEPT !.kept = @ \cup q.kept] = x
  <1>1. q \in Bare(S)
    BY StrandedReply DEF OrStranded
  <1>2. q.st \in S /\ q.kept = {}
    BY <1>1 DEF Bare
  <1>3. \A x \in Stranded : [x EXCEPT !.kept = @ \cup {}] = x
    BY DEF Stranded
  <1>4. \A T : \A x \in Replies(T) : [x EXCEPT !.kept = @ \cup {}] = x
    BY DEF Replies
  <1>5. QED
    BY <1>1, <1>2, <1>3, <1>4 DEF OrStranded

\* ensure_alive (engine.rs) does no work in a handle it does not strand.
LEMMA EnsureAliveIdles ==
    ASSUME NEW p \in GoodPrimary
    PROVE  EnsureAlive(p) \subseteq OrStranded(Bare(Idles(p)))
  <1> DEFINE fresh(q) == Reply([q EXCEPT !.lane = NewLane], "ok")
             none(q) == Reply(q, NotReplaced(p))
             U == OrStranded(Bare(Idles(p)))
  <1>1. ASSUME NEW q \in Lose(p), p.lane.s.alive => "stall" \in Faults
        PROVE  fresh(q) \in U /\ none(q) \in U
    <2> DEFINE u == [q EXCEPT !.lane = NewLane]
    <2>1. q \in Primary /\ q.handle = None
      BY LoseCloses
    <2>2. u \in QuietPrimary /\ u.handle = None /\ u.closed = q.closed
      BY <2>1, NewLaneRests DEF QuietPrimary, QuietLane, Primary, RestingLane
    <2> HIDE DEF u
    <2>3. u \in Idles(p)
      <3>1. CASE p.handle = None
        BY <2>2, <3>1 DEF Lose, Idles, GoodPrimary
      <3>2. CASE p.handle # None
        <4>1. p \in Primary /\ "lost" \in ClosedStates
          BY DEF GoodPrimary, HeldPrimary, QuietPrimary, ClosedStates
        <4>2. q.closed[p.handle.id] = "lost" /\ Forgot(p, q)
          BY <3>2, <4>1, EndRecords DEF Lose
        <4>3. QED
          BY <2>2, <3>2, <4>2 DEF Idles, Ended, Forgot, GoodPrimary
      <3>3. QED
        BY <3>1, <3>2
    <2>4. fresh(q) \in U
      BY <2>3, IdleReply DEF u, Outcomes, OrStranded
    <2>5. CASE p.handle # None /\ p.lane.s.alive
      <3>1. none(q) = [st |-> q, out |-> "stranded", kept |-> {}]
        BY <2>5 DEF NotReplaced, Reply
      <3>2. none(q) \in Stranded
        BY <1>1, <2>1, <2>5, <3>1 DEF Stranded
      <3>3. QED
        BY <2>4, <3>2 DEF OrStranded
    <2>6. CASE ~(p.handle # None /\ p.lane.s.alive)
      <3>1. q \in Idles(p)
        BY <2>6, LoseIdles, IdleSteps DEF Lose
      <3>2. none(q) = Reply(q, "error")
        BY <2>6 DEF NotReplaced
      <3>3. QED
        BY <2>4, <3>1, <3>2, IdleReply DEF Outcomes, OrStranded
    <2>7. QED
      BY <2>5, <2>6
  <1>2. Reply(p, "ok") \in U
    BY IdleSteps, IdleReply DEF Outcomes, OrStranded
  <1> HIDE DEF U, fresh, none
  <1>3. (p.lane.s.alive => "stall" \in Faults) =>
            UNION {{fresh(q), none(q)} : q \in Lose(p)} \subseteq U
    BY <1>1
  <1>4. (p.lane.s.alive => "stall" \in Faults) => Reconnect(p) \subseteq U
    BY <1>3 DEF Reconnect, fresh, none
  <1>5. QED
    BY <1>2, <1>4 DEF EnsureAlive, U

\* What is left is not due.
Timely(p) == {q \in Idles(p) : q.handle # None => ~q.handle.due}

\* expire_write_handle (engine.rs) ends a handle that is due.
LEMMA ExpireIdles ==
    ASSUME NEW p \in GoodPrimary
    PROVE  ExpireWriteHandle(p) \subseteq Bare(Timely(p))
  <1>1. CASE p.handle = None \/ ~p.handle.due
    BY <1>1, IdleSteps, IdleReply DEF ExpireWriteHandle, Timely, Outcomes
  <1>2. CASE p.handle # None /\ p.handle.due
    <2>1. p \in HeldPrimary /\ p \in Primary /\ "expired" \in ClosedStates
      BY <1>2 DEF GoodPrimary, QuietPrimary, HeldPrimary, ClosedStates
    <2>2. ASSUME NEW q \in End(p, "expired"), NEW r \in Primary,
                 r.handle = q.handle, r.closed = q.closed, r \in GoodPrimary
          PROVE  r \in Timely(p)
      <3>1. q.handle = None /\ q.closed[p.handle.id] = "expired" /\ Forgot(p, q)
        BY <1>2, <2>1, <2>2, EndCloses, EndRecords
      <3>2. QED
        BY <1>2, <2>2, <3>1 DEF Timely, Idles, Ended, Forgot
    <2>3. ASSUME NEW q \in End(p, "expired"), NEW x \in (IF q.lane.s.alive
                                                  THEN OnSession(q, Rollback(q.lane.s))
                                                  ELSE {Reply(q, "ok")})
          PROVE  x \in Bare(Timely(p))
      <3>1. x \in Replies(GoodPrimary)
        BY <1>2, <2>3, ExpireWriteHandleGood DEF ExpireWriteHandle
      <3>2. q \in Primary
        BY <1>2, <2>1, EndCloses
      <3>3. x.kept = {} /\ x.st.handle = q.handle /\ x.st.closed = q.closed
        <4>1. CASE q.lane.s.alive
          <5>1. PICK r \in Rollback(q.lane.s) :
                   x = [r EXCEPT !.st = [q EXCEPT !.lane = [q.lane EXCEPT !.s = r.st]]]
            BY <2>3, <4>1 DEF OnSession, OnPrimary, OnLane
          <5>2. r = [st |-> r.st, out |-> r.out, kept |-> {}]
            BY DEF Rollback, Command, Interrupted, Broken, Reply
          <5> DEFINE u == [q EXCEPT !.lane = [q.lane EXCEPT !.s = r.st]]
          <5>3. u.handle = q.handle /\ u.closed = q.closed
            BY <3>2 DEF Primary
          <5> HIDE DEF u
          <5>4. x.st = u /\ x.kept = {}
            BY <5>1, <5>2 DEF u
          <5>5. QED
            BY <5>3, <5>4
        <4>2. CASE ~q.lane.s.alive
          BY <2>3, <4>2 DEF Reply
        <4>3. QED
          BY <4>1, <4>2
      <3>4. x.st \in GoodPrimary /\ x.st \in Primary
        BY <3>1 DEF Replies, GoodPrimary, HeldPrimary, QuietPrimary
      <3>5. x.st \in Timely(p)
        BY <2>2, <3>3, <3>4
      <3>6. QED
        BY <3>1, <3>3, <3>5 DEF Bare, Replies
    <2>4. QED
      BY <1>2, <2>3 DEF ExpireWriteHandle
  <1>3. QED
    BY <1>1, <1>2

\* What the lane of the primary answers when no handle is open, or none of it
\* is touched, leaves the primary idle.
LEMMA OnIdlePrimary ==
    ASSUME NEW p \in GoodPrimary, NEW R,
           p \in QuietPrimary => R \subseteq Replies(QuietLane),
           p \in HeldPrimary => R \subseteq Replies({p.lane})
    PROVE  /\ OnPrimary(p, R) \subseteq Replies(Idles(p))
           /\ (\A r \in R : r.kept = {}) => OnPrimary(p, R) \subseteq Bare(Idles(p))
  <1>1. ASSUME NEW x \in OnPrimary(p, R)
        PROVE  /\ x \in Replies(Idles(p))
               /\ \E r \in R : x.kept = r.kept
    <2>1. PICK r \in R : x = [r EXCEPT !.st = [p EXCEPT !.lane = r.st]]
      BY DEF OnPrimary
    <2> DEFINE q == [p EXCEPT !.lane = r.st]
    <2>2. r \in Replies(LaneType) /\ q \in Idles(p)
      <3>1. CASE p \in QuietPrimary
        <4>1. r \in Replies(QuietLane) /\ p \in Primary /\ p.handle = None
          BY <3>1 DEF QuietPrimary
        <4>2. r.st \in QuietLane /\ r.st \in LaneType
          BY <4>1 DEF Replies, QuietLane, ReadingLane, RestingLane
        <4>3. q \in QuietPrimary /\ q.handle = None /\ q.closed = p.closed
          BY <4>1, <4>2 DEF QuietPrimary, Primary
        <4>4. QED
          BY <4>1, <4>2, <4>3 DEF Idles, GoodPrimary, Replies
      <3>2. CASE p \in HeldPrimary
        <4>1. r \in Replies({p.lane}) /\ p \in Primary
          BY <3>2 DEF HeldPrimary
        <4>2. r.st = p.lane /\ p.lane \in LaneType
          BY <4>1 DEF Replies, Primary
        <4>3. q = p
          BY <4>1, <4>2 DEF Primary
        <4>4. QED
          BY <4>1, <4>2, <4>3, IdleSteps DEF Replies
      <3>3. QED
        BY <3>1, <3>2 DEF GoodPrimary
    <2> HIDE DEF q
    <2>3. x = [r EXCEPT !.st = q]
      BY <2>1 DEF q
    <2>4. QED
      BY <2>2, <2>3 DEF Replies
  <1>2. OnPrimary(p, R) \subseteq Replies(Idles(p))
    BY <1>1
  <1>3. (\A r \in R : r.kept = {}) => OnPrimary(p, R) \subseteq Bare(Idles(p))
    BY <1>1, BareReplies
  <1>4. QED
    BY <1>2, <1>3

\* The sweep that starts a call outside a handle does no work.
LEMMA SettleIdles ==
    ASSUME NEW p \in GoodPrimary
    PROVE  Settle(p) \subseteq Bare(Idles(p))
  <1> DEFINE E(q) == OnPrimary(q, SweepExpired(q.lane))
             F(q) == OnPrimary(q, FinishIfIdle(q.lane))
             U == Bare(Idles(p))
  <1>1. ASSUME NEW q \in GoodPrimary
        PROVE  E(q) \subseteq Bare(Idles(q)) /\ F(q) \subseteq Bare(Idles(q))
    <2>1. /\ q \in QuietPrimary => SweepExpired(q.lane) \subseteq Replies(QuietLane)
          /\ q \in QuietPrimary => FinishIfIdle(q.lane) \subseteq Replies(QuietLane)
      BY SweepExpiredQuiet, FinishIfIdleQuiet DEF QuietPrimary
    <2>2. /\ q \in HeldPrimary => SweepExpired(q.lane) \subseteq Replies({q.lane})
          /\ q \in HeldPrimary => FinishIfIdle(q.lane) \subseteq Replies({q.lane})
      BY SweepsKeepNothing DEF HeldPrimary
    <2>3. QED
      BY <2>1, <2>2, SweepsKeepNothing, OnIdlePrimary
  <1> HIDE DEF E, F
  <1>2. ASSUME NEW q \in Idles(p)
        PROVE  F(q) \subseteq U
    <2>1. q \in GoodPrimary /\ Idles(q) \subseteq Idles(p)
      BY IdleSteps
    <2>2. \A x \in Bare(Idles(q)) : x \in U
      BY <2>1, BareSteps
    <2>3. QED
      BY <1>1, <2>1, <2>2
  <1>3. \A q \in Bare(Idles(p)) : /\ q.st \in Idles(p)
                                  /\ \A x \in U : [x EXCEPT !.kept = @ \cup q.kept] \in U
    BY BareSteps
  <1>4. \A q \in Bare(Idles(p)) : q \in U
    OBVIOUS
  <1> HIDE DEF U
  <1>5. Then(E(p), F) \subseteq U
    BY <1>1, <1>2, <1>3, <1>4 DEF Then
  <1>6. QED
    BY <1>5 DEF Settle, E, F, U

\* The handle id is open, and not due.
Active(p, id) == p.handle # None /\ p.handle.id = id /\ ~p.handle.due

\* What a call on a handle starts with lets it in only if its handle is the
\* open one, and not due.
LEMMA ForHandleIdles ==
    ASSUME NEW p \in GoodPrimary, NEW id \in Ids
    PROVE  ForHandle(p, id) \subseteq {r \in Bare(Idles(p)) :
                                          r.out = "ok" => r.st = p /\ Active(p, id)}
  <1> DEFINE F(q) == IF Holds(q, id) THEN Track(q) ELSE Refuse(q)
             U == {r \in Bare(Idles(p)) : r.out = "ok" => r.st = p /\ Active(p, id)}
  <1>1. ASSUME NEW q \in Timely(p)
        PROVE  F(q) \subseteq U
    <2>1. q \in Idles(p)
      BY DEF Timely
    <2>2. Reply(q, "ok") \in Bare(Idles(p)) /\ Reply(q, "refused") \in Bare(Idles(p))
      BY <2>1, IdleReply DEF Outcomes
    <2>3. Reply(q, "refused") \in U
      BY <2>2 DEF Reply
    <2>4. Holds(q, id) => Reply(q, "ok") \in U
      BY <2>1, <2>2, IdleSteps DEF Reply, Timely, Active, Holds
    <2> HIDE DEF U
    <2>5. QED
      BY <2>3, <2>4 DEF Track, Refuse
  <1>2. ASSUME NEW q \in Bare(Timely(p))
        PROVE  /\ q.st \in Timely(p)
               /\ q.out # "ok" => q \in U
               /\ \A x \in U : [x EXCEPT !.kept = @ \cup q.kept] \in U
    <2>1. q.st \in Timely(p) /\ q \in Bare(Idles(p))
      BY BareSteps DEF Timely
    <2>2. \A x \in U : [x EXCEPT !.kept = @ \cup q.kept] = x
      BY BareSteps, BareReplies
    <2>3. QED
      BY <2>1, <2>2
  <1> HIDE DEF F, U
  <1>3. Then(ExpireWriteHandle(p), F) \subseteq U
    BY <1>1, <1>2, ExpireIdles DEF Then
  <1>4. QED
    BY <1>3 DEF ForHandle, F, U

-------------------------------------------------------------------------------
(* Calls outside a handle, and what they keep                              *)

\* transaction_status (engine.rs) does no work.
LEMMA TransactionStatusIdles ==
    ASSUME NEW p \in GoodPrimary
    PROVE  TransactionStatus(p) \subseteq Bare(Idles(p))
  <1> DEFINE F(q) == IF q.lane.s.alive THEN {Reply(q, "ok")} ELSE {Reply(r, "ok") : r \in Lose(q)}
             U == Bare(Idles(p))
  <1>1. ASSUME NEW q \in Idles(p)
        PROVE  F(q) \subseteq U
    <2>1. q \in GoodPrimary /\ Idles(q) \subseteq Idles(p)
      BY IdleSteps
    <2>2. ~q.lane.s.alive => Lose(q) \subseteq Idles(p)
      BY <2>1, LoseIdles
    <2>3. \A r \in Idles(p) : Reply(r, "ok") \in U
      BY IdleReply DEF Outcomes
    <2> HIDE DEF U
    <2>4. QED
      BY <2>2, <2>3
  <1>2. ASSUME NEW q \in Bare(Timely(p))
        PROVE  /\ q.st \in Idles(p)
               /\ q \in U
               /\ \A x \in U : [x EXCEPT !.kept = @ \cup q.kept] \in U
    BY BareSteps DEF Timely
  <1> HIDE DEF F, U
  <1>3. Then(ExpireWriteHandle(p), F) \subseteq U
    BY <1>1, <1>2, ExpireIdles DEF Then
  <1>4. QED
    BY <1>3 DEF TransactionStatus, F, U

\* The start of a call outside a handle.
LEMMA OutsideHandleIdles ==
    ASSUME NEW p \in GoodPrimary
    PROVE  OutsideHandle(p) \subseteq OrStranded(Bare(Idles(p)))
  <1> DEFINE B(b) == IF b.handle # None THEN Refuse(b) ELSE Settle(b)
             A(a) == Then(EnsureAlive(a), B)
             U == OrStranded(Bare(Idles(p)))
  <1>1. ASSUME NEW b \in Idles(p)
        PROVE  B(b) \subseteq U
    <2>1. b \in GoodPrimary /\ Idles(b) \subseteq Idles(p)
      BY IdleSteps
    <2>2. Refuse(b) \subseteq U
      BY IdleReply DEF Refuse, Outcomes, OrStranded
    <2>3. Settle(b) \subseteq U
      BY <2>1, SettleIdles, BareSteps DEF OrStranded
    <2>4. QED
      BY <2>2, <2>3
  <1>2. ASSUME NEW q \in U, q.out = "ok"
        PROVE  q.st \in Idles(p) /\ \A x \in U : [x EXCEPT !.kept = @ \cup q.kept] \in U
    BY <1>2, BareOrStranded, BareReplies DEF OrStranded
  <1> HIDE DEF B
  <1>3. ASSUME NEW a \in Idles(p)
        PROVE  A(a) \subseteq U
    <2>1. a \in GoodPrimary /\ Idles(a) \subseteq Idles(p)
      BY IdleSteps
    <2>2. EnsureAlive(a) \subseteq U
      BY <2>1, EnsureAliveIdles, BareSteps DEF OrStranded
    <2> HIDE DEF U
    <2>3. QED
      BY <1>1, <1>2, <2>2 DEF Then
  <1> HIDE DEF A
  <1>4. ExpireWriteHandle(p) \subseteq U
    <2>1. Timely(p) \subseteq Idles(p)
      BY DEF Timely
    <2>2. \A q \in Bare(Timely(p)) : q \in U
      BY <2>1, BareSteps DEF OrStranded
    <2>3. QED
      BY <2>2, ExpireIdles
  <1> HIDE DEF U
  <1>5. Then(ExpireWriteHandle(p), A) \subseteq U
    BY <1>2, <1>3, <1>4 DEF Then
  <1>6. QED
    BY <1>5 DEF OutsideHandle, A, B, U

\* A call outside a handle that goes on here finds the primary at rest.
LEMMA HereIdles ==
    ASSUME NEW p \in GoodPrimary
    PROVE  HereOrSecond(p) \subseteq
               OrStranded({r \in Bare(Idles(p)) : r.out = "ok" => r.st \in RestingPrimary})
  <1> DEFINE F(q) == IF q.lane.inRead THEN {Reply(q, "second")} ELSE Track(q)
             U == OrStranded(Bare(Idles(p)))
  <1>1. \A q \in Idles(p) : F(q) \subseteq U
    BY IdleReply DEF Track, Refuse, Outcomes, OrStranded
  <1>2. ASSUME NEW q \in U, q.out = "ok"
        PROVE  q.st \in Idles(p) /\ \A x \in U : [x EXCEPT !.kept = @ \cup q.kept] \in U
    BY <1>2, BareOrStranded, BareReplies DEF OrStranded
  <1> HIDE DEF F, U
  <1>3. Then(OutsideHandle(p), F) \subseteq U
    BY <1>1, <1>2, OutsideHandleIdles DEF Then, U
  <1>4. HereOrSecond(p) \subseteq U
    BY <1>3 DEF HereOrSecond, F
  <1>5. \A r \in HereOrSecond(p) : r.out = "ok" => r.st \in RestingPrimary
    BY HereRests, StrandedReply DEF RepliesOr, OrStranded
  <1>6. QED
    BY <1>4, <1>5 DEF U, OrStranded

\* The replies of a write outside a handle: it is kept if it is answered as
\* done, and not kept if the call never came to it.
Lone(S, w) ==
    {r \in Replies(S) : /\ r.kept = {} \/ r.kept = {w}
                        /\ r.out = "ok" => r.kept = {w}
                        /\ r.out \in {"second", "refused"} => r.kept = {}}

\* What a resting lane answers to such a write, the primary answers.
LEMMA LoneOnPrimary ==
    ASSUME NEW q \in RestingPrimary, NEW R
    PROVE  /\ \A w : R \subseteq Alone(w) => OnSession(q, R) \subseteq Lone(Idles(q), w)
           /\ R \subseteq Bare(Parked) => OnSession(q, R) \subseteq Bare(Idles(q))
  <1>1. q \in QuietPrimary /\ q.handle = None /\ q \in GoodPrimary /\ q.lane \in RestingLane
    BY RestingIsQuiet DEF RestingPrimary, GoodPrimary
  <1>2. ~(q \in HeldPrimary)
    BY <1>1 DEF HeldPrimary
  <1>3. ASSUME R \subseteq Replies(Parked)
        PROVE  /\ OnSession(q, R) \subseteq Replies(Idles(q))
               /\ \A x \in OnSession(q, R) : \E r \in R : x.out = r.out /\ x.kept = r.kept
    <2>1. OnLane(q.lane, R) \subseteq Replies(QuietLane)
      BY <1>1, <1>3, OnRestingLane DEF Replies, QuietLane
    <2>2. OnSession(q, R) \subseteq Replies(Idles(q))
      BY <1>1, <1>2, <2>1, OnIdlePrimary DEF OnSession
    <2>3. ASSUME NEW x \in OnSession(q, R)
          PROVE  \E r \in R : x.out = r.out /\ x.kept = r.kept
      <3>1. PICK r \in R : x = [r EXCEPT !.st = [q EXCEPT !.lane = [q.lane EXCEPT !.s = r.st]]]
        BY DEF OnSession, OnPrimary, OnLane
      <3> DEFINE u == [q EXCEPT !.lane = [q.lane EXCEPT !.s = r.st]]
      <3> HIDE DEF u
      <3>2. x = [r EXCEPT !.st = u]
        BY <3>1 DEF u
      <3>3. QED
        BY <1>3, <3>2 DEF Replies
    <2>4. QED
      BY <2>2, <2>3
  <1>4. ASSUME NEW w, R \subseteq Alone(w)
        PROVE  OnSession(q, R) \subseteq Lone(Idles(q), w)
    <2>1. R \subseteq Replies(Parked)
      BY <1>4 DEF Alone
    <2>2. QED
      BY <1>3, <1>4, <2>1 DEF Alone, Lone
  <1>5. ASSUME R \subseteq Bare(Parked)
        PROVE  OnSession(q, R) \subseteq Bare(Idles(q))
    <2>1. R \subseteq Replies(Parked)
      BY <1>5, BareReplies
    <2>2. QED
      BY <1>3, <1>5, <2>1, BareReplies
  <1>6. QED
    BY <1>4, <1>5

\* A write outside a handle (run_write, engine.rs).
LEMMA RunWriteAloneKeeps ==
    ASSUME NEW p \in GoodPrimary, NEW w \in Writes, NEW outside \in BOOLEAN
    PROVE  RunWriteAlone(p, w, outside) \subseteq OrStranded(Lone(Idles(p), w))
  <1> DEFINE F(q) == OnSession(q, Autocommit(q.lane.s, w, outside))
             H == {r \in Bare(Idles(p)) : r.out = "ok" => r.st \in RestingPrimary}
             U == OrStranded(Lone(Idles(p), w))
  <1>1. ASSUME NEW q \in H, q.out = "ok"
        PROVE  F(q.st) \subseteq U
    <2>1. q.st \in RestingPrimary /\ q.st \in Idles(p)
      BY <1>1, BareSteps
    <2>2. q.st.lane.s \in Parked
      BY <2>1 DEF RestingPrimary, RestingLane
    <2>3. F(q.st) \subseteq Lone(Idles(q.st), w)
      BY <2>1, <2>2, AutocommitKeeps, LoneOnPrimary
    <2>4. Idles(q.st) \subseteq Idles(p)
      BY <2>1, IdleSteps
    <2> HIDE DEF F
    <2>5. QED
      BY <2>3, <2>4 DEF Lone, Replies, OrStranded
  <1>2. ASSUME NEW q \in OrStranded(H)
        PROVE  /\ q.out # "ok" => q \in U
               /\ q.out = "ok" => q \in H /\ \A x \in U : [x EXCEPT !.kept = @ \cup q.kept] \in U
    <2>1. CASE q.out = "ok"
      <3>1. q \in H /\ q \in OrStranded(Bare(Idles(p)))
        BY <2>1, StrandedReply DEF OrStranded
      <3>2. U \subseteq OrStranded(Replies(Idles(p)))
        BY DEF Lone, OrStranded
      <3> HIDE DEF U
      <3>3. \A x \in U : [x EXCEPT !.kept = @ \cup q.kept] = x
        BY <2>1, <3>1, <3>2, BareOrStranded
      <3>4. QED
        BY <2>1, <3>1, <3>3
    <2>2. CASE q.out # "ok"
      BY <2>2, BareReplies DEF Lone, OrStranded
    <2>3. QED
      BY <2>1, <2>2
  <1>3. HereOrSecond(p) \subseteq OrStranded(H)
    BY HereIdles
  <1> HIDE DEF F, U, H
  <1>4. Then(HereOrSecond(p), F) \subseteq U
    BY <1>1, <1>2, <1>3 DEF Then
  <1>5. QED
    BY <1>4 DEF RunWriteAlone, F, U

\* run_and_rollback (engine.rs) keeps nothing of its statement.
LEMMA RunAndRollbackIdles ==
    ASSUME NEW p \in GoodPrimary, NEW w \in Writes
    PROVE  RunAndRollback(p, w) \subseteq OrStranded(Bare(Idles(p)))
  <1> DEFINE F(q) == OnSession(q, RunThenRollback(q.lane.s, w))
             H == {r \in Bare(Idles(p)) : r.out = "ok" => r.st \in RestingPrimary}
             U == OrStranded(Bare(Idles(p)))
  <1>1. ASSUME NEW q \in H, q.out = "ok"
        PROVE  F(q.st) \subseteq U
    <2>1. q.st \in RestingPrimary /\ q.st \in Idles(p)
      BY <1>1, BareSteps
    <2>2. q.st.lane.s \in Parked
      BY <2>1 DEF RestingPrimary, RestingLane
    <2>3. F(q.st) \subseteq Bare(Idles(q.st))
      BY <2>1, <2>2, RunThenRollbackKeeps, LoneOnPrimary
    <2>4. Idles(q.st) \subseteq Idles(p)
      BY <2>1, IdleSteps
    <2> HIDE DEF F
    <2>5. QED
      BY <2>3, <2>4 DEF Bare, OrStranded
  <1>2. ASSUME NEW q \in OrStranded(H)
        PROVE  /\ q \in U
               /\ q.out = "ok" => q \in H /\ \A x \in U : [x EXCEPT !.kept = @ \cup q.kept] \in U
    <2>1. q \in U /\ (q.out = "ok" => q \in H)
      BY StrandedReply DEF OrStranded
    <2>2. U \subseteq OrStranded(Replies(Idles(p)))
      BY BareReplies DEF OrStranded
    <2>3. q.out = "ok" => \A x \in OrStranded(Replies(Idles(p))) : [x EXCEPT !.kept = @ \cup q.kept] = x
      BY <2>1, BareOrStranded
    <2> HIDE DEF U, H
    <2>4. QED
      BY <2>1, <2>2, <2>3
  <1>3. HereOrSecond(p) \subseteq OrStranded(H)
    BY HereIdles
  <1> HIDE DEF F, U, H
  <1>4. Then(HereOrSecond(p), F) \subseteq U
    BY <1>1, <1>2, <1>3 DEF Then
  <1>5. QED
    BY <1>4 DEF RunAndRollback, F, U

\* copy_in outside a handle keeps what it answers as done.
LEMMA CopyInAloneKeeps ==
    ASSUME NEW p \in GoodPrimary, NEW w \in Writes
    PROVE  /\ CopyInAlone(p, w) \subseteq OrStranded(Lone(Idles(p), w))
           /\ \A r \in CopyInAlone(p, w) : r.out # "second"
  <1> DEFINE U == OrStranded(Lone(Idles(p), w))
             sent(r) == [r EXCEPT !.out = IF @ = "second" THEN "refused" ELSE @]
  <1>1. \A r \in U : sent(r) \in U /\ sent(r).out # "second"
    BY DEF Lone, Replies, Outcomes, Stranded, OrStranded
  <1>2. RunWriteAlone(p, w, FALSE) \subseteq U
    BY RunWriteAloneKeeps
  <1> HIDE DEF U
  <1>3. QED
    BY <1>1, <1>2 DEF CopyInAlone, U

\* The start of a read.
LEMMA ReadHoldIdles ==
    ASSUME NEW p \in GoodPrimary
    PROVE  ReadHold(p) \subseteq OrStranded(Bare(Idles(p)))
  <1> DEFINE B(b) == IF b.handle # None THEN {Reply(b, "second")} ELSE Track(b)
             A(a) == Then(EnsureAlive(a), B)
             U == OrStranded(Bare(Idles(p)))
  <1>1. ASSUME NEW b \in Idles(p)
        PROVE  B(b) \subseteq U
    BY IdleReply DEF Track, Refuse, Outcomes, OrStranded
  <1>2. ASSUME NEW q \in U, q.out = "ok"
        PROVE  q.st \in Idles(p) /\ \A x \in U : [x EXCEPT !.kept = @ \cup q.kept] \in U
    BY <1>2, BareOrStranded, BareReplies DEF OrStranded
  <1> HIDE DEF B
  <1>3. ASSUME NEW a \in Idles(p)
        PROVE  A(a) \subseteq U
    <2>1. a \in GoodPrimary /\ Idles(a) \subseteq Idles(p)
      BY IdleSteps
    <2>2. EnsureAlive(a) \subseteq U
      BY <2>1, EnsureAliveIdles, BareSteps DEF OrStranded
    <2> HIDE DEF U
    <2>3. QED
      BY <1>1, <1>2, <2>2 DEF Then
  <1> HIDE DEF A
  <1>4. ExpireWriteHandle(p) \subseteq U
    <2>1. Timely(p) \subseteq Idles(p)
      BY DEF Timely
    <2>2. \A q \in Bare(Timely(p)) : q \in U
      BY <2>1, BareSteps DEF OrStranded
    <2>3. QED
      BY <2>2, ExpireIdles
  <1> HIDE DEF U
  <1>5. Then(ExpireWriteHandle(p), A) \subseteq U
    BY <1>2, <1>3, <1>4 DEF Then
  <1>6. QED
    BY <1>5 DEF ReadHold, A, B, U

\* Every read on the primary.
LEMMA ReadsIdle ==
    ASSUME NEW p \in GoodPrimary
    PROVE  /\ ReadWholeOnPrimary(p) \subseteq OrStranded(Replies(Idles(p)))
           /\ CatalogOnPrimary(p) \subseteq OrStranded(Replies(Idles(p)))
           /\ \A k \in Cursors \ p.lane.cursors :
                 ReadPagedOnPrimary(p, k) \subseteq OrStranded(Replies(Idles(p)))
  <1> DEFINE W(q) == OnPrimary(q, ReadWhole(q.lane))
             C(q) == OnPrimary(q, CatalogOnLane(q.lane))
             P(q, k) == OnPrimary(q, ReadPaged(q.lane, k))
             U == OrStranded(Replies(Idles(p)))
  <1>1. ASSUME NEW q \in Idles(p), q \in QuietPrimary
        PROVE  /\ W(q) \subseteq U /\ C(q) \subseteq U
               /\ \A k \in Cursors \ q.lane.cursors : P(q, k) \subseteq U
    <2>1. q.lane \in QuietLane /\ q \in GoodPrimary /\ ~(q \in HeldPrimary)
      BY <1>1 DEF QuietPrimary, GoodPrimary, HeldPrimary
    <2>2. Idles(q) \subseteq Idles(p)
      BY IdleSteps
    <2>3. /\ W(q) \subseteq Replies(Idles(q)) /\ C(q) \subseteq Replies(Idles(q))
          /\ \A k \in Cursors \ q.lane.cursors : P(q, k) \subseteq Replies(Idles(q))
      BY <2>1, OnIdlePrimary, ReadWholeQuiet, CatalogOnLaneQuiet, ReadPagedQuiet
    <2>4. Replies(Idles(q)) \subseteq U
      BY <2>2 DEF Replies, OrStranded
    <2> HIDE DEF W, C, P, U
    <2>5. QED
      BY <2>3, <2>4
  <1>2. ASSUME NEW r \in ReadHold(p)
        PROVE  /\ r \in U
               /\ r.out = "ok" => /\ r.st \in Idles(p) /\ r.st \in QuietPrimary
                                  /\ \A x \in U : [x EXCEPT !.kept = @ \cup r.kept] \in U
    <2>1. r \in OrStranded(Bare(Idles(p)))
      BY ReadHoldIdles
    <2>2. r.out = "ok" => r.st \in QuietPrimary
      BY ReadHoldQuiet, StrandedReply DEF RepliesOr, OrStranded
    <2>3. r \in U
      BY <2>1, BareReplies DEF OrStranded
    <2>4. r.out = "ok" => /\ r.st \in Idles(p)
                          /\ \A x \in U : [x EXCEPT !.kept = @ \cup r.kept] = x
      BY <2>1, BareOrStranded
    <2> HIDE DEF U
    <2>5. QED
      BY <2>2, <2>3, <2>4
  <1> HIDE DEF W, C, P, U
  <1>3. Then(ReadHold(p), W) \subseteq U
    BY <1>1, <1>2 DEF Then
  <1>4. Then(ReadHold(p), C) \subseteq U
    BY <1>1, <1>2 DEF Then
  <1>5. ASSUME NEW k \in Cursors \ p.lane.cursors
        PROVE  ReadPagedOnPrimary(p, k) \subseteq U
    <2> DEFINE G(q) == P(q, k)
    <2>0. \A r \in ReadHold(p) : r.out = "ok" => k \notin r.st.lane.cursors
      BY ReadHoldNarrow, StrandedReply DEF Replies, Narrow, OrStranded
    <2>1. \A r \in ReadHold(p) : r.out = "ok" => G(r.st) \subseteq U
      BY <1>1, <1>2, <2>0
    <2> HIDE DEF G
    <2>2. Then(ReadHold(p), G) \subseteq U
      BY <1>2, <2>1 DEF Then
    <2>3. QED
      BY <2>2 DEF ReadPagedOnPrimary, G, P
  <1>6. QED
    BY <1>3, <1>4, <1>5 DEF ReadWholeOnPrimary, CatalogOnPrimary, W, C, U

\* A lane of a handle has no cursor to fetch from or to close.
LEMMA HeldLaneSends ==
    ASSUME NEW l \in HeldLane, NEW k
    PROVE  FetchHere(l, k) \subseteq Replies({l}) /\ CloseHere(l, k) \subseteq Replies({l})
  <1> DEFINE F(m) == IF k \in m.cursors THEN Then(Track(m), LAMBDA n : FetchOnLane(n, k))
                     ELSE {Reply(m, "second")}
             U == Replies({l})
  <1>1. l.cursors = {}
    BY DEF HeldLane
  <1>2. Reply(l, "second") \in U
    BY ReplyType DEF Outcomes
  <1>3. F(l) \subseteq U
    BY <1>1, <1>2
  <1>4. \A q \in U : q.st = l /\ \A x \in U : [x EXCEPT !.kept = @ \cup q.kept] \in U
    BY AddKept DEF Replies
  <1>5. SweepExpired(l) \subseteq U
    BY SweepsKeepNothing
  <1> HIDE DEF F, U
  <1>6. Then(SweepExpired(l), F) \subseteq U
    BY <1>3, <1>4, <1>5 DEF Then
  <1>7. FetchHere(l, k) \subseteq U
    BY <1>6 DEF FetchHere, F
  <1>8. CloseHere(l, k) \subseteq U
    BY <1>1, <1>2 DEF CloseHere
  <1>9. QED
    BY <1>7, <1>8 DEF U

\* A fetch or a close on the primary does no work in its handle.
LEMMA FetchesIdle ==
    ASSUME NEW p \in GoodPrimary, NEW k
    PROVE  /\ OnPrimary(p, FetchHere(p.lane, k)) \subseteq Replies(Idles(p))
           /\ OnPrimary(p, CloseHere(p.lane, k)) \subseteq Replies(Idles(p))
  <1>1. p \in QuietPrimary => /\ FetchHere(p.lane, k) \subseteq Replies(QuietLane)
                              /\ CloseHere(p.lane, k) \subseteq Replies(QuietLane)
    BY FetchHereStays, CloseHereStays DEF QuietPrimary
  <1>2. p \in HeldPrimary => /\ FetchHere(p.lane, k) \subseteq Replies({p.lane})
                             /\ CloseHere(p.lane, k) \subseteq Replies({p.lane})
    BY HeldLaneSends DEF HeldPrimary
  <1>3. QED
    BY <1>1, <1>2, OnIdlePrimary

\* The background sweep does no work, but may end a handle that is due.
LEMMA SweepPrimaryIdles ==
    ASSUME NEW p \in GoodPrimary
    PROVE  SweepPrimary(p) \subseteq Idles(p)
  <1>1. Regardless(Settle(p)) \subseteq Idles(p)
    BY SettleIdles, BareSteps DEF Regardless
  <1>2. ASSUME NEW q \in Idles(p)
        PROVE  Regardless(ExpireWriteHandle(q)) \subseteq Idles(p)
    <2>1. q \in GoodPrimary /\ Idles(q) \subseteq Idles(p)
      BY IdleSteps
    <2>2. Regardless(ExpireWriteHandle(q)) \subseteq Timely(q)
      BY <2>1, ExpireIdles, BareSteps DEF Regardless
    <2>3. QED
      BY <2>1, <2>2 DEF Timely
  <1>3. QED
    BY <1>1, <1>2 DEF SweepPrimary

\* release_everything (engine.rs) rolls the handle back and does no work.
LEMMA ReleasePrimaryIdles ==
    ASSUME NEW p \in GoodPrimary
    PROVE  ReleasePrimary(p) \subseteq Idles(p)
  <1> DEFINE ended == IF p.handle = None THEN {p}
                      ELSE UNION {End([p EXCEPT !.lane.s = s], "rolled_back") :
                                  s \in RollBackQuietly(p.lane.s)}
             rest(q) == IF q.lane.s.alive THEN Regardless(OnPrimary(q, RollbackAll(q.lane)))
                        ELSE {[q EXCEPT !.lane = ForgetState(@)]}
  <1> SUFFICES ASSUME NEW x \in ReleasePrimary(p)
               PROVE  x \in Idles(p)
    OBVIOUS
  <1>1. x \in GoodPrimary
    BY ReleasePrimaryGood
  <1>2. PICK q \in ended : x \in rest(q)
    <2> HIDE DEF rest
    <2>1. x \in UNION {rest(q) : q \in ended}
      BY DEF ReleasePrimary, rest
    <2>2. QED
      BY <2>1
  <1>3. p \in Primary
    BY DEF GoodPrimary, HeldPrimary, QuietPrimary
  <1>4. /\ q \in Primary /\ q.handle = None
        /\ p.handle = None => q.closed = p.closed
        /\ p.handle # None => q.closed[p.handle.id] = "rolled_back" /\ Forgot(p, q)
    <2>1. CASE p.handle = None
      BY <1>2, <1>3, <2>1
    <2>2. CASE p.handle # None
      <3>1. PICK s \in RollBackQuietly(p.lane.s) : q \in End([p EXCEPT !.lane.s = s], "rolled_back")
        BY <1>2, <2>2
      <3>2. p \in HeldPrimary /\ p.lane.s \in Sessions
        BY <2>2, ParkedSessions DEF GoodPrimary, QuietPrimary, HeldPrimary, HeldLane, WriteBlock
      <3>3. s \in Parked
        BY <3>1, <3>2, RollBackQuietlyParks
      <3> DEFINE r == [p EXCEPT !.lane.s = s]
      <3>4. r \in Primary /\ r.handle = p.handle /\ r.closed = p.closed
        BY <3>2, <3>3 DEF HeldPrimary, Primary, HeldLane, LaneType, Parked
      <3> HIDE DEF r
      <3>5. q \in End(r, "rolled_back") /\ "rolled_back" \in ClosedStates
        BY <3>1 DEF r, ClosedStates
      <3>6. /\ q \in Primary /\ q.handle = None
            /\ q.closed[r.handle.id] = "rolled_back" /\ Forgot(r, q)
        BY <2>2, <3>4, <3>5, EndCloses, EndRecords
      <3>7. QED
        BY <2>2, <3>4, <3>6 DEF Forgot
    <2>3. QED
      BY <2>1, <2>2
  <1> HIDE DEF ended
  <1>5. x.handle = q.handle /\ x.closed = q.closed
    <2>1. CASE q.lane.s.alive
      <3>1. PICK y \in OnPrimary(q, RollbackAll(q.lane)) : x = y.st
        BY <1>2, <2>1 DEF Regardless
      <3>2. PICK z \in RollbackAll(q.lane) : y = [z EXCEPT !.st = [q EXCEPT !.lane = z.st]]
        BY <3>1 DEF OnPrimary
      <3>3. z = [st |-> z.st, out |-> z.out, kept |-> z.kept]
        BY DEF RollbackAll, OnLane, Rollback, Command, Interrupted, Broken, Reply
      <3> DEFINE u == [q EXCEPT !.lane = z.st]
      <3>4. u.handle = q.handle /\ u.closed = q.closed
        BY <1>4 DEF Primary
      <3> HIDE DEF u
      <3>5. x = u
        BY <3>1, <3>2, <3>3 DEF u
      <3>6. QED
        BY <3>4, <3>5
    <2>2. CASE ~q.lane.s.alive
      BY <1>2, <1>4, <2>2 DEF Primary
    <2>3. QED
      BY <2>1, <2>2
  <1>6. QED
    BY <1>1, <1>4, <1>5 DEF Idles, Ended, Forgot

-------------------------------------------------------------------------------
(* A handle that begins                                                    *)

\* What begin_transaction leaves: a new handle over a block just begun, or p
\* idle.
Opens(p) ==
    {q \in GoodPrimary :
        \E b \in Idles(p) :
            /\ b.handle = None /\ q.closed = b.closed
            /\ q.handle # None /\ q.handle.id \in FreshIds(b)
            /\ q.handle.savepoints = << >> /\ q.handle.done = {}
            /\ q.lane.s = Opened("write")}

\* BEGIN and the handle over it.
LEMMA OpenedThere ==
    ASSUME NEW b \in RestingPrimary
    PROVE  Then(OnSession(b, BeginBlock(b.lane.s, "write")), OpenHandle)
               \subseteq Replies(Idles(b) \cup Opens(b))
  <1> DEFINE R == OnSession(b, BeginBlock(b.lane.s, "write"))
             U == Replies(Idles(b) \cup Opens(b))
             V == Then(R, OpenHandle)
  <1>1. b \in QuietPrimary /\ b.handle = None /\ b \in GoodPrimary /\ b \in Primary
    BY RestingIsQuiet DEF RestingPrimary, GoodPrimary
  <1>2. b.lane.s \in Parked /\ b.lane \in LaneType
    BY DEF RestingPrimary, RestingLane
  <1>3. V \subseteq Replies(GoodPrimary)
    BY BlockOpens
  <1>4. ASSUME NEW q \in R
        PROVE  /\ q = [st |-> q.st, out |-> q.out, kept |-> q.kept]
               /\ q.st \in Primary /\ q.st.handle = None /\ q.st.closed = b.closed
               /\ q.out = "ok" => q.st.lane.s = Opened("write")
    <2>1. PICK r \in BeginBlock(b.lane.s, "write") :
             q = [r EXCEPT !.st = [b EXCEPT !.lane = [b.lane EXCEPT !.s = r.st]]]
      BY DEF OnSession, OnPrimary, OnLane
    <2>2. r \in BareOr({Opened("write")}, Parked)
      BY <1>2, BeginBlockOpens
    <2>3. r = [st |-> r.st, out |-> r.out, kept |-> r.kept]
      BY <2>2 DEF BareOr, Bare
    <2>4. r.out = "ok" => r.st = Opened("write")
      BY <2>2, BareThen
    <2> DEFINE u == [b EXCEPT !.lane = [b.lane EXCEPT !.s = r.st]]
    <2>5. r.st \in Session
      <3>1. Opened("write") \in Session
        BY OpenedStays DEF Stays
      <3>2. QED
        BY <2>2, <3>1 DEF BareOr, Bare, Parked
    <2>6. /\ u.handle = b.handle /\ u.closed = b.closed /\ u.lane.s = r.st
          /\ u \in Primary
      BY <1>1, <1>2, <2>5 DEF Primary, LaneType
    <2> HIDE DEF u
    <2>7. q.st = u /\ q.out = r.out /\ q.kept = r.kept
          /\ q = [st |-> u, out |-> r.out, kept |-> r.kept]
      BY <2>1, <2>3 DEF u
    <2>8. QED
      BY <1>1, <2>4, <2>6, <2>7
  <1> HIDE DEF R
  <1>5. ASSUME NEW x \in V
        PROVE  x.st \in Idles(b) \cup Opens(b)
    <2>1. x.st \in GoodPrimary
      BY <1>3, <1>5 DEF Replies
    <2>2. PICK q \in R : x \in (IF q.out = "ok"
                                THEN {[y EXCEPT !.kept = @ \cup q.kept] : y \in OpenHandle(q.st)}
                                ELSE {q})
      BY <1>5 DEF Then
    <2>3. CASE q.out # "ok"
      BY <1>1, <1>4, <2>1, <2>2, <2>3 DEF Idles
    <2>4. CASE q.out = "ok"
      <3>1. PICK y \in OpenHandle(q.st) : x = [y EXCEPT !.kept = @ \cup q.kept]
        BY <2>2, <2>4
      <3> DEFINE handle(i) == [id |-> i, savepoints |-> << >>, done |-> {}, due |-> FALSE]
      <3>2. PICK i \in FreshIds(q.st) : y = Reply([q.st EXCEPT !.handle = handle(i)], "ok")
        BY <3>1 DEF OpenHandle
      <3> DEFINE u == [q.st EXCEPT !.handle = handle(i)]
      <3>3. /\ handle(i).id = i /\ handle(i).savepoints = << >> /\ handle(i).done = {}
        OBVIOUS
      <3>4. handle(i) \in WriteHandle /\ handle(i) # None
        <4>1. << >> \in Seq(SavepointType) /\ i \in Ids
          BY DEF FreshIds
        <4>2. handle(i) \in WriteHandle
          BY <4>1 DEF WriteHandle
        <4>3. QED
          BY <4>2, NoneAssumption
      <3> HIDE DEF handle
      <3>5. q.st \in Primary
        BY <1>4
      <3>6. u.handle = handle(i) /\ u.closed = b.closed /\ u.lane.s = Opened("write")
        BY <1>4, <2>4, <3>5 DEF Primary
      <3> HIDE DEF u
      <3>7. x.st = u
        BY <3>1, <3>2 DEF Reply, u
      <3>8. i \in FreshIds(b)
        BY <1>1, <1>4, <3>2 DEF FreshIds, Holds
      <3>9. b \in Idles(b)
        BY <1>1, IdleSteps
      <3>10. QED
        BY <1>1, <2>1, <3>3, <3>4, <3>6, <3>7, <3>8, <3>9 DEF Opens
    <2>5. QED
      BY <2>3, <2>4
  <1> HIDE DEF V
  <1>6. V \subseteq U
    BY <1>3, <1>5 DEF Replies
  <1>7. QED
    BY <1>6 DEF U, V, R

\* What begins after an idle call begins from where that started.
LEMMA OpensSteps ==
    ASSUME NEW p \in GoodPrimary, NEW q \in Idles(p)
    PROVE  /\ Opens(q) \subseteq Opens(p)
           /\ Replies(Idles(q) \cup Opens(q)) \subseteq Replies(Idles(p) \cup Opens(p))
           /\ Bare(Idles(q)) \subseteq Replies(Idles(p) \cup Opens(p))
  <1>1. Idles(q) \subseteq Idles(p)
    BY IdleSteps
  <1>2. Opens(q) \subseteq Opens(p)
    BY <1>1 DEF Opens
  <1>3. QED
    BY <1>1, <1>2, BareReplies DEF Replies

\* The same for a begin that may have been cancelled.
LEMMA StartBlockOpens ==
    ASSUME NEW b \in RestingPrimary
    PROVE  StartBlock(b) \subseteq Replies(Idles(b) \cup Opens(b))
  <1> DEFINE F(q) == Then(OnSession(q, BeginBlock(q.lane.s, "write")), OpenHandle)
             U == Replies(Idles(b) \cup Opens(b))
  <1>1. F(b) \subseteq U
    BY OpenedThere
  <1>2. b \in GoodPrimary /\ b \in Idles(b)
    BY RestingIsQuiet, IdleSteps DEF GoodPrimary
  <1>3. ASSUME NEW q \in Track(b)
        PROVE  q.st = b /\ q \in U /\ \A x \in U : [x EXCEPT !.kept = @ \cup q.kept] \in U
    <2>1. q.st = b /\ q.kept = {}
      BY DEF Track, Refuse, Reply
    <2>2. q \in Bare(Idles(b))
      BY <1>2, IdleReply DEF Track, Refuse, Outcomes
    <2>3. q \in U
      BY <1>2, <2>2, OpensSteps
    <2>4. \A x \in U : [x EXCEPT !.kept = @ \cup q.kept] \in U
      BY <2>2, BareSteps
    <2>5. QED
      BY <2>1, <2>3, <2>4
  <1> HIDE DEF F, U
  <1>4. Then(Track(b), F) \subseteq U
    BY <1>1, <1>3 DEF Then
  <1>5. QED
    BY <1>4 DEF StartBlock, F, U

\* Ending the reads of a primary without a handle makes it rest.
LEMMA RollbackAllIdles ==
    ASSUME NEW c \in QuietPrimary
    PROVE  OnPrimary(c, RollbackAll(c.lane)) \subseteq {r \in Bare(Idles(c)) : r.st \in RestingPrimary}
  <1>1. RollbackAll(c.lane) \subseteq Replies(RestingLane)
    BY RollbackAllRests DEF QuietPrimary
  <1>2. RollbackAll(c.lane) \subseteq Replies(QuietLane)
    BY <1>1 DEF Replies, QuietLane
  <1>3. c \in GoodPrimary /\ ~(c \in HeldPrimary)
    BY DEF GoodPrimary, QuietPrimary, HeldPrimary
  <1>4. OnPrimary(c, RollbackAll(c.lane)) \subseteq Bare(Idles(c))
    BY <1>2, <1>3, SweepsKeepNothing, OnIdlePrimary
  <1>5. OnPrimary(c, RollbackAll(c.lane)) \subseteq Replies(RestingPrimary)
    BY <1>1, OnRestingPrimary DEF QuietPrimary
  <1>6. QED
    BY <1>4, <1>5 DEF Replies

\* begin_transaction (engine.rs) leaves a new handle, or does no work.
LEMMA BeginTransactionOpens ==
    ASSUME NEW p \in GoodPrimary
    PROVE  BeginTransaction(p) \subseteq OrStranded(Replies(Idles(p) \cup Opens(p)))
  <1> DEFINE C(c) == IF c.lane.cursors # {} THEN Refuse(c)
                     ELSE Then(OnPrimary(c, RollbackAll(c.lane)), StartBlock)
             B(b) == IF b.handle # None THEN Refuse(b) ELSE Then(Settle(b), C)
             A(a) == Then(ExpireWriteHandle(a), B)
             U == Replies(Idles(p) \cup Opens(p))
  <1>1. ASSUME NEW a \in Idles(p)
        PROVE  /\ a \in GoodPrimary
               /\ Replies(Idles(a) \cup Opens(a)) \subseteq U
               /\ Bare(Idles(a)) \subseteq U
               /\ Refuse(a) \subseteq U
               /\ Idles(a) \subseteq Idles(p)
    <2>1. a \in GoodPrimary /\ a \in Idles(a) /\ Idles(a) \subseteq Idles(p)
      BY IdleSteps
    <2>2. Refuse(a) \subseteq Bare(Idles(a))
      BY <2>1, IdleReply DEF Refuse, Outcomes
    <2>3. QED
      BY <2>1, <2>2, OpensSteps
  <1>2. ASSUME NEW a \in Idles(p), NEW q \in Bare(Idles(a))
        PROVE  /\ q.st \in Idles(p)
               /\ q \in U
               /\ \A x \in U : [x EXCEPT !.kept = @ \cup q.kept] \in U
    <2>1. q.st \in Idles(a) /\ q \in U
      BY <1>1, BareSteps
    <2>2. \A x \in U : [x EXCEPT !.kept = @ \cup q.kept] \in U
      BY BareSteps
    <2>3. QED
      BY <1>1, <2>1, <2>2
  <1> HIDE DEF U
  <1>3. ASSUME NEW c \in Idles(p), c \in QuietPrimary
        PROVE  C(c) \subseteq U
    <2>1. ASSUME NEW q \in OnPrimary(c, RollbackAll(c.lane))
          PROVE  q \in Bare(Idles(c)) /\ StartBlock(q.st) \subseteq U
      <3>1. q \in Bare(Idles(c)) /\ q.st \in RestingPrimary
        BY <1>3, RollbackAllIdles
      <3>2. q.st \in Idles(p)
        BY <1>2, <3>1
      <3>3. QED
        BY <1>1, <3>1, <3>2, StartBlockOpens
    <2>2. Then(OnPrimary(c, RollbackAll(c.lane)), StartBlock) \subseteq U
      BY <1>2, <2>1 DEF Then
    <2>3. QED
      BY <1>1, <2>2
  <1> HIDE DEF C
  <1>4. ASSUME NEW b \in Idles(p)
        PROVE  B(b) \subseteq U
    <2>1. CASE b.handle # None
      BY <1>1, <2>1
    <2>2. CASE b.handle = None
      <3>1. b \in QuietPrimary
        BY <1>1, <2>2 DEF GoodPrimary, HeldPrimary
      <3>2. ASSUME NEW q \in Settle(b)
            PROVE  q \in Bare(Idles(b)) /\ q.st \in QuietPrimary
        BY <1>1, <3>1, SettleIdles, SettleQuiet DEF Replies
      <3>3. Then(Settle(b), C) \subseteq U
        BY <1>2, <1>3, <3>2 DEF Then
      <3>4. QED
        BY <2>2, <3>3
    <2>3. QED
      BY <2>1, <2>2
  <1> HIDE DEF B
  <1>5. ASSUME NEW a \in Idles(p)
        PROVE  A(a) \subseteq U
    <2>1. Timely(a) \subseteq Idles(a)
      BY DEF Timely
    <2>2. ExpireWriteHandle(a) \subseteq Bare(Idles(a))
      BY <1>1, <2>1, ExpireIdles, BareSteps
    <2>3. QED
      BY <1>2, <1>4, <2>2 DEF Then
  <1> HIDE DEF A
  <1>6. p \in Idles(p)
    BY IdleSteps
  <1>7. Then(EnsureAlive(p), A) \subseteq OrStranded(U)
    BY <1>2, <1>5, <1>6, EnsureAliveIdles, StrandedReply DEF Then, OrStranded
  <1>8. QED
    BY <1>7 DEF BeginTransaction, A, B, C, U

-------------------------------------------------------------------------------
(* What a call does in the handle                                          *)

\* A primary in order whose handle, if it has one, is on record as open and
\* remembers what the server holds.
SoundPrimary ==
    {p \in GoodPrimary : p.handle # None => /\ p.closed[p.handle.id] = "none"
                                            /\ Mirrors(p.handle, p.lane.s)}

\* What p becomes when its handle goes on with the statements D done.
Works(p, D) ==
    {q \in SoundPrimary : /\ q.handle # None /\ q.handle.id = p.handle.id
                          /\ q.handle.done = D /\ q.closed = p.closed}

\* The replies of a call on the handle id: the work D is done when the answer
\* is "ok", nothing is when it is not, and the handle may have ended.
InHandle(p, id, D) ==
    {r \in Bare(SoundPrimary) :
        \/ r.out # "ok" /\ r.st \in Idles(p)
        \/ Active(p, id) /\ r.st \in Works(p, IF r.out = "ok" THEN D ELSE p.handle.done)}

\* A call that does no work, and one that begins, keep that order.
LEMMA SoundIdles ==
    ASSUME NEW p \in SoundPrimary
    PROVE  Idles(p) \subseteq SoundPrimary /\ Opens(p) \subseteq SoundPrimary
  <1>1. ASSUME NEW q \in Idles(p)
        PROVE  q \in SoundPrimary
    BY IdleSteps DEF SoundPrimary
  <1>2. ASSUME NEW q \in Opens(p)
        PROVE  q \in SoundPrimary
    <2>1. q.closed[q.handle.id] = "none"
      BY DEF Opens, FreshIds
    <2>2. Mirrors(q.handle, q.lane.s)
      BY StackBegun DEF Opens
    <2>3. QED
      BY <2>1, <2>2 DEF Opens, SoundPrimary
  <1>3. QED
    BY <1>1, <1>2

\* What the server holds for a handle does not depend on its deadline.
LEMMA StackSame ==
    ASSUME NEW h, NEW h2, h2.savepoints = h.savepoints, h2.done = h.done
    PROVE  /\ \A F : Stack(h, F) => Stack(h2, F)
           /\ \A s : Mirrors(h, s) => Mirrors(h2, s)
  BY DEF Stack, Mirrors

\* A handle that changes to one the server still mirrors goes on.
LEMMA HandleGoesOn ==
    ASSUME NEW q \in HeldPrimary, q.closed[q.handle.id] = "none",
           NEW h \in WriteHandle, h.id = q.handle.id, Mirrors(h, q.lane.s)
    PROVE  [q EXCEPT !.handle = h] \in Works(q, h.done)
  <1> DEFINE x == [q EXCEPT !.handle = h]
  <1>1. h # None
    BY NoneAssumption
  <1>2. q \in Primary /\ q.lane \in HeldLane
    BY DEF HeldPrimary
  <1>3. x \in Primary /\ x.handle = h /\ x.lane = q.lane /\ x.closed = q.closed
    BY <1>2 DEF Primary
  <1> HIDE DEF x
  <1>4. x \in GoodPrimary
    BY <1>1, <1>2, <1>3 DEF HeldPrimary, GoodPrimary
  <1>5. x \in SoundPrimary
    BY <1>3, <1>4 DEF SoundPrimary
  <1>6. QED
    BY <1>1, <1>3, <1>5 DEF Works, x

\* touch() only moves the deadline, acknowledge adds a statement.
LEMMA TouchWorks ==
    ASSUME NEW p, NEW D, NEW q \in Works(p, D)
    PROVE  Touch(q) \in Works(p, D)
  <1>1. q \in HeldPrimary /\ q.closed[q.handle.id] = "none" /\ Mirrors(q.handle, q.lane.s)
    BY DEF Works, SoundPrimary, GoodPrimary, QuietPrimary
  <1>2. q \in Primary /\ q.handle \in WriteHandle
    BY <1>1 DEF HeldPrimary, Primary
  <1> DEFINE h == [q.handle EXCEPT !.due = FALSE]
  <1>3. /\ h \in WriteHandle /\ h.id = q.handle.id
        /\ h.savepoints = q.handle.savepoints /\ h.done = q.handle.done
    BY <1>2 DEF WriteHandle
  <1>4. Touch(q) = [q EXCEPT !.handle = h]
    BY DEF Touch
  <1> HIDE DEF h
  <1>5. Mirrors(h, q.lane.s)
    BY <1>1, <1>3, StackSame
  <1>6. Touch(q) \in Works(q, h.done)
    BY <1>1, <1>3, <1>4, <1>5, HandleGoesOn
  <1>7. QED
    BY <1>3, <1>6 DEF Works

\* A session command on the primary of a handle leaves the handle as it is,
\* and the server's side of it too unless the command succeeds.
LEMMA OnHandleSession ==
    ASSUME NEW p \in HeldPrimary, p.closed[p.handle.id] = "none",
           NEW F \in Stacks, Stack(p.handle, F), NEW G \in Stacks, NEW R,
           R \subseteq BareOr(At("write", G), Based("write", F)), R \subseteq Replies(WriteBlock),
           NEW q \in OnSession(p, R)
    PROVE  /\ q.st \in HeldPrimary /\ q.st.handle = p.handle /\ q.st.closed = p.closed
           /\ q.kept = {} /\ q.out \in Outcomes
           /\ q = [st |-> q.st, out |-> q.out, kept |-> q.kept]
           /\ q.out = "ok" => q.st.lane.s \in At("write", G)
           /\ q.out # "ok" => q.st \in Works(p, p.handle.done)
  <1>1. PICK r \in R : q = [r EXCEPT !.st = [p EXCEPT !.lane = [p.lane EXCEPT !.s = r.st]]]
    BY DEF OnSession, OnPrimary, OnLane
  <1>2. r = [st |-> r.st, out |-> r.out, kept |-> r.kept] /\ r.kept = {} /\ r.out \in Outcomes
    BY DEF BareOr, Bare
  <1>3. /\ r.out = "ok" => r.st \in At("write", G)
        /\ r.out # "ok" => r.st \in Based("write", F)
    BY DEF BareOr
  <1>4. r.st \in WriteBlock /\ r.st \in Session
    BY DEF Replies, WriteBlock, Stays
  <1>5. p \in Primary /\ p.lane \in HeldLane /\ p.handle # None /\ p.handle \in WriteHandle
    BY DEF HeldPrimary, Primary
  <1> DEFINE l == [p.lane EXCEPT !.s = r.st]
             u == [p EXCEPT !.lane = l]
  <1>6. l \in HeldLane /\ l.s = r.st
    BY <1>4, <1>5 DEF HeldLane, LaneType, WriteBlock, Stays
  <1> HIDE DEF l
  <1>7. u \in Primary /\ u.lane = l /\ u.handle = p.handle /\ u.closed = p.closed
    BY <1>5, <1>6 DEF Primary, HeldLane
  <1> HIDE DEF u
  <1>8. q = [st |-> u, out |-> r.out, kept |-> r.kept]
    BY <1>1, <1>2 DEF u, l
  <1>9. u \in HeldPrimary
    BY <1>5, <1>6, <1>7 DEF HeldPrimary
  <1>10. q.out # "ok" => u \in Works(p, p.handle.done)
    <2>1. q.out # "ok" => Mirrors(p.handle, u.lane.s)
      BY <1>3, <1>6, <1>7, <1>8 DEF Mirrors
    <2>2. QED
      BY <1>5, <1>7, <1>9, <2>1 DEF Works, SoundPrimary, GoodPrimary
  <1>11. QED
    BY <1>2, <1>3, <1>6, <1>7, <1>8, <1>9, <1>10

\* What is known of a primary let in to a call on its handle.
LEMMA ActiveHandle ==
    ASSUME NEW p \in SoundPrimary, p.handle # None
    PROVE  /\ p \in HeldPrimary /\ p \in Primary /\ p.handle \in WriteHandle
           /\ p.handle.id \in Ids /\ p.closed[p.handle.id] = "none"
           /\ p.handle.savepoints \in Seq(SavepointType) /\ p.handle.done \subseteq Writes
           /\ \E F \in Stacks : Stack(p.handle, F) /\ p.lane.s \in Based("write", F)
           /\ p \in Works(p, p.handle.done)
  BY DEF SoundPrimary, GoodPrimary, QuietPrimary, HeldPrimary, Primary, WriteHandle, Mirrors, Works

\* A reply of a call let in.
LEMMA InHandleReply ==
    ASSUME NEW p \in SoundPrimary, NEW id, Active(p, id), NEW D, NEW out \in Outcomes, NEW st,
           st \in Works(p, IF out = "ok" THEN D ELSE p.handle.done)
    PROVE  Reply(st, out) \in InHandle(p, id, D)
  BY DEF InHandle, Works, Bare, Reply

\* set_savepoint (engine.rs) sets the savepoint it remembers.
LEMMA SetSavepointWorks ==
    ASSUME NEW p \in SoundPrimary, NEW id, Active(p, id), NEW name \in Names
    PROVE  SetSavepoint(p, name) \subseteq InHandle(p, id, p.handle.done)
  <1> DEFINE D == p.handle.done
             mark == [name |-> name, sofar |-> D]
             F(q) == {Reply(Touch([q EXCEPT !.handle.savepoints =
                          Append(@, [name |-> name, sofar |-> q.handle.done])]), "ok")}
             R == OnSession(p, Savepoint(p.lane.s, name))
             U == InHandle(p, id, D)
  <1>1. /\ p \in HeldPrimary /\ p.closed[p.handle.id] = "none" /\ p.handle \in WriteHandle
        /\ p.handle.savepoints \in Seq(SavepointType) /\ D \subseteq Writes
    BY ActiveHandle DEF Active
  <1>2. PICK H \in Stacks : Stack(p.handle, H) /\ p.lane.s \in Based("write", H)
    BY ActiveHandle DEF Active
  <1> DEFINE G == Append(H, NewFrame(name))
  <1>3. /\ G \in Stacks
        /\ Savepoint(p.lane.s, name) \subseteq BareOr(At("write", G), Based("write", H))
        /\ Savepoint(p.lane.s, name) \subseteq Replies(WriteBlock)
    BY <1>1, <1>2, SavepointBased, NewFrameType, AppendStack, WriteBlockCommands
    DEF Blocks, Stacks, HeldPrimary, HeldLane
  <1> HIDE DEF G
  <1>4. ASSUME NEW q \in R
        PROVE  /\ q.kept = {}
               /\ q.out # "ok" => q \in U
               /\ q.out = "ok" => F(q.st) \subseteq U
    <2>1. /\ q.st \in HeldPrimary /\ q.st.handle = p.handle /\ q.st.closed = p.closed
          /\ q.kept = {} /\ q.out \in Outcomes
          /\ q = [st |-> q.st, out |-> q.out, kept |-> q.kept]
          /\ q.out = "ok" => q.st.lane.s \in At("write", G)
          /\ q.out # "ok" => q.st \in Works(p, p.handle.done)
      BY <1>1, <1>2, <1>3, OnHandleSession
    <2>2. ASSUME q.out = "ok"
          PROVE  F(q.st) \subseteq U
      <3> DEFINE h == [p.handle EXCEPT !.savepoints = Append(@, mark)]
      <3>1. mark \in SavepointType
        BY <1>1 DEF SavepointType
      <3> HIDE DEF mark
      <3>2. Append(p.handle.savepoints, mark) \in Seq(SavepointType)
        BY <1>1, <3>1
      <3>3. /\ h \in WriteHandle /\ h.id = p.handle.id /\ h.done = D
            /\ h.savepoints = Append(p.handle.savepoints, mark)
        BY <1>1, <3>2 DEF WriteHandle
      <3> HIDE DEF h
      <3>4. Stack(h, G)
        BY <1>1, <1>2, <3>3, StackMarked DEF mark, G
      <3>5. Mirrors(h, q.st.lane.s)
        BY <1>3, <2>1, <2>2, <3>4, BasedSessions DEF Mirrors, Blocks
      <3>6. [q.st EXCEPT !.handle = h] \in Works(q.st, D)
        BY <1>1, <2>1, <3>3, <3>5, HandleGoesOn
      <3>7. [q.st EXCEPT !.handle = h] \in Works(p, D)
        BY <2>1, <3>6 DEF Works
      <3>8. Touch([q.st EXCEPT !.handle = h]) \in Works(p, D)
        BY <3>7, TouchWorks
      <3>9. F(q.st) = {Reply(Touch([q.st EXCEPT !.handle = h]), "ok")}
        BY <2>1 DEF h, mark
      <3> HIDE DEF F, D
      <3>10. QED
        BY <3>8, <3>9, InHandleReply DEF Outcomes
    <2>3. q.out # "ok" => q \in U
      BY <2>1 DEF InHandle, Works, Bare
    <2>4. QED
      BY <2>1, <2>2, <2>3
  <1>5. \A x \in U : [x EXCEPT !.kept = @ \cup {}] \in U
    BY DEF InHandle, Bare
  <1> HIDE DEF F, U, R
  <1>6. Then(R, F) \subseteq U
    BY <1>4, <1>5 DEF Then
  <1>7. QED
    BY <1>6 DEF SetSavepoint, F, R, U

\* undo_to (engine.rs) takes the handle back to what the server goes back to.
LEMMA UndoToWorks ==
    ASSUME SAVEPOINT_NAME \notin Names,
           NEW p \in SoundPrimary, NEW id, Active(p, id), NEW name \in Names,
           NEW r \in UndoTo(p, name)
    PROVE  \E D \in SUBSET p.handle.done : r \in InHandle(p, id, D)
  <1> DEFINE at == LastNamed(p.handle.savepoints, name)
  <1>1. /\ p \in HeldPrimary /\ p.closed[p.handle.id] = "none" /\ p.handle \in WriteHandle
        /\ p.handle.savepoints \in Seq(SavepointType) /\ p.handle.done \subseteq Writes
        /\ p \in Works(p, p.handle.done)
    BY ActiveHandle DEF Active
  <1>2. PICK H \in Stacks : Stack(p.handle, H) /\ p.lane.s \in Based("write", H)
    BY ActiveHandle DEF Active
  <1>3. CASE at = 0
    <2>1. r = Reply(p, "refused")
      BY <1>3 DEF UndoTo, Refuse
    <2>2. r \in InHandle(p, id, p.handle.done)
      BY <1>1, <2>1, InHandleReply DEF Outcomes
    <2>3. QED
      BY <2>2
  <1>4. CASE at # 0
    <2> DEFINE D == p.handle.savepoints[at].sofar
               back(q) == [q EXCEPT !.handle.savepoints = SubSeq(@, 1, at),
                                    !.handle.done = q.handle.savepoints[at].sofar]
               F(q) == {Reply(Touch(back(q)), "ok")}
               R == OnSession(p, RollbackToSavepoint(p.lane.s, name))
               U == InHandle(p, id, D)
               h == [p.handle EXCEPT !.savepoints = SubSeq(@, 1, at), !.done = D]
               G == Append(SubSeq(H, 1, at), NewFrame(name))
    <2>1. at \in 1 .. Len(p.handle.savepoints)
      BY <1>1, <1>4, LastNamedSavepoint
    <2>2. r \in Then(R, F)
      BY <1>4 DEF UndoTo
    <2>3. h \in WriteHandle /\ h.id = p.handle.id /\ h.done = D
          /\ h.savepoints = SubSeq(p.handle.savepoints, 1, at)
      <3> HIDE DEF at
      <3>1. SubSeq(p.handle.savepoints, 1, at) \in Seq(SavepointType)
        BY <1>1, <2>1
      <3>2. D \subseteq Writes
        <4>1. p.handle.savepoints[at] \in SavepointType
          BY <1>1, <2>1
        <4>2. QED
          BY <4>1 DEF SavepointType
      <3>3. QED
        BY <1>1, <3>1, <3>2 DEF WriteHandle
    <2> HIDE DEF h
    <2>4. /\ Innermost(H, name) = at + 1 /\ G \in Stacks /\ Stack(h, G) /\ h.done \subseteq p.handle.done
      <3>1. /\ at \in 1 .. Len(p.handle.savepoints) /\ p.handle.savepoints[at].name = name
            /\ \A j \in at + 1 .. Len(p.handle.savepoints) : p.handle.savepoints[j].name # name
        BY <1>1, <1>4, LastNamedIs
      <3>2. h.savepoints = SubSeq(p.handle.savepoints, 1, at) /\ h.done = p.handle.savepoints[at].sofar
        BY <2>3
      <3> HIDE DEF at
      <3>3. /\ Stack(p.handle, H) /\ H \in Stacks /\ p.handle.done \subseteq Writes
            /\ p.handle.savepoints \in Seq(SavepointType) /\ name \in Names
        BY <1>1, <1>2
      <3> HIDE DEF D, G
      <3>4. /\ Innermost(H, name) = at + 1
            /\ Append(SubSeq(H, 1, at), NewFrame(name)) \in Stacks
            /\ Stack(h, Append(SubSeq(H, 1, at), NewFrame(name)))
            /\ h.done \subseteq p.handle.done
        BY ONLY ZenonT(60), <3>1, <3>2, <3>3, StackUndone
      <3>5. QED
        BY <3>4 DEF G
    <2>5. RollbackToSavepoint(p.lane.s, name) \subseteq BareOr(At("write", G), Based("write", H))
      <3>1. (at + 1) # 0 /\ (at + 1) - 1 = at
        BY <2>1
      <3>2. RollbackToSavepoint(p.lane.s, name) \subseteq
               BareOr(At("write", Append(SubSeq(H, 1, (at + 1) - 1), NewFrame(name))), Based("write", H))
        <4> HIDE DEF at
        <4>1. name # SAVEPOINT_NAME /\ "write" \in Blocks
          BY DEF Blocks
        <4>2. QED
          BY <1>2, <2>4, <3>1, <4>1, RollbackToBased
      <3>3. QED
        BY <3>1, <3>2
    <2>6. RollbackToSavepoint(p.lane.s, name) \subseteq Replies(WriteBlock)
      BY <1>1, WriteBlockCommands DEF HeldPrimary, HeldLane
    <2> HIDE DEF G
    <2>7. ASSUME NEW q \in R
          PROVE  /\ q.kept = {}
                 /\ q.out # "ok" => q \in U
                 /\ q.out = "ok" => F(q.st) \subseteq U
      <3>1. /\ q.st \in HeldPrimary /\ q.st.handle = p.handle /\ q.st.closed = p.closed
            /\ q.kept = {} /\ q.out \in Outcomes
            /\ q = [st |-> q.st, out |-> q.out, kept |-> q.kept]
            /\ q.out = "ok" => q.st.lane.s \in At("write", G)
            /\ q.out # "ok" => q.st \in Works(p, p.handle.done)
        BY <1>1, <1>2, <2>4, <2>5, <2>6, OnHandleSession
      <3>2. ASSUME q.out = "ok"
            PROVE  F(q.st) \subseteq U
        <4>1. Mirrors(h, q.st.lane.s)
          BY <2>4, <3>1, <3>2, BasedSessions DEF Mirrors, Blocks
        <4>2. [q.st EXCEPT !.handle = h] \in Works(q.st, D)
          BY <1>1, <2>3, <3>1, <4>1, HandleGoesOn
        <4>3. [q.st EXCEPT !.handle = h] \in Works(p, D)
          BY <3>1, <4>2 DEF Works
        <4>4. Touch([q.st EXCEPT !.handle = h]) \in Works(p, D)
          BY <4>3, TouchWorks
        <4>5. back(q.st) = [q.st EXCEPT !.handle = h]
          <5> HIDE DEF at
          <5>1. QED
            BY <3>1 DEF h
        <4> HIDE DEF D, back
        <4>6. QED
          BY <4>4, <4>5, InHandleReply DEF Outcomes
      <3>3. q.out # "ok" => q \in U
        BY <3>1 DEF InHandle, Works, Bare
      <3>4. QED
        BY <3>1, <3>2, <3>3
    <2>8. \A q \in R : q.kept = {} => \A x \in U : [x EXCEPT !.kept = @ \cup q.kept] \in U
      BY DEF InHandle, Bare
    <2> HIDE DEF F, U, R
    <2>9. Then(R, F) \subseteq U
      BY <2>7, <2>8 DEF Then
    <2>10. D \in SUBSET p.handle.done
      BY <2>3, <2>4
    <2>11. QED
      BY <2>2, <2>9, <2>10 DEF U
  <1>5. QED
    BY <1>3, <1>4

\* A statement acknowledged in a handle is one more on the server's stack.
LEMMA AcknowledgeWorks ==
    ASSUME NEW p \in SoundPrimary, p.handle # None, NEW w \in Writes,
           NEW F \in Stacks, Stack(p.handle, F),
           NEW q \in HeldPrimary, q.handle = p.handle, q.closed = p.closed,
           q.lane.s \in At("write", Top(F, {w}, {}))
    PROVE  Acknowledge(q, w) \in Works(p, p.handle.done \cup {w})
  <1> DEFINE D == p.handle.done \cup {w}
             h == [p.handle EXCEPT !.done = @ \cup {w}]
             G == Top(F, {w}, {})
  <1>1. /\ p.handle \in WriteHandle /\ p.closed[p.handle.id] = "none"
        /\ p.handle.savepoints \in Seq(SavepointType)
    BY ActiveHandle
  <1>2. /\ h \in WriteHandle /\ h.id = p.handle.id /\ h.done = D
        /\ h.savepoints = p.handle.savepoints
    BY <1>1 DEF WriteHandle
  <1>3. Acknowledge(q, w) = Touch([q EXCEPT !.handle = h])
    BY DEF Acknowledge
  <1> HIDE DEF h
  <1>4. G \in Stacks /\ Stack(h, G)
    BY <1>1, <1>2, StackWrote, TopFrames
  <1>5. Mirrors(h, q.lane.s)
    BY <1>4, BasedSessions DEF Mirrors, Blocks
  <1>6. [q EXCEPT !.handle = h] \in Works(q, D)
    BY <1>1, <1>2, <1>5, HandleGoesOn
  <1>7. [q EXCEPT !.handle = h] \in Works(p, D)
    BY <1>6 DEF Works
  <1>8. QED
    BY <1>3, <1>7, TouchWorks

\* A handle whose connection was lost under a command ends as lost.
LEMMA LoseInHandle ==
    ASSUME NEW p \in SoundPrimary, NEW q \in HeldPrimary, ~q.lane.s.alive,
           q.handle = p.handle, q.closed = p.closed, NEW x \in Lose(q)
    PROVE  x \in Idles(p)
  <1>1. q \in GoodPrimary /\ p.handle # None
    BY DEF GoodPrimary, HeldPrimary
  <1>2. x \in Idles(q) /\ x.handle = None
    BY <1>1, LoseIdles
  <1>3. Ended(q, x) \/ x = q
    BY <1>1, <1>2 DEF Idles
  <1>4. Ended(q, x)
    BY <1>1, <1>2, <1>3
  <1>5. Ended(p, x)
    BY <1>4 DEF Ended, Forgot
  <1>6. QED
    BY <1>2, <1>5 DEF Idles

\* What a call that ends the handle, or never comes to it, answers.
LEMMA InHandleIdles ==
    ASSUME NEW p \in SoundPrimary, NEW id, NEW D
    PROVE  /\ \A st \in Idles(p) : \A out \in Outcomes :
                 out # "ok" => Reply(st, out) \in InHandle(p, id, D)
           /\ \A r \in Bare(Idles(p)) : r.out # "ok" => r \in InHandle(p, id, D)
           /\ \A x \in InHandle(p, id, D) : \A q : q.kept = {} =>
                 [x EXCEPT !.kept = @ \cup q.kept] \in InHandle(p, id, D)
  <1>1. Idles(p) \subseteq SoundPrimary
    BY SoundIdles
  <1>2. QED
    BY <1>1 DEF InHandle, Bare, Reply

\* run_guarded (engine.rs): the statement and the savepoint around it.
LEMMA RunGuardedWorks ==
    ASSUME NEW p \in SoundPrimary, NEW id, Active(p, id), NEW w \in Writes
    PROVE  RunGuarded(p, w) \subseteq InHandle(p, id, p.handle.done \cup {w})
  <1> DEFINE D == p.handle.done \cup {w}
             G(s) == Guarded(s, LAMBDA t : RunWrite(t, w))
             R == OnSession(p, Then(Command(p.lane.s, p.lane.s), G))
             answer(r) == IF r.st.lane.s.alive
                          THEN {Reply(IF r.out = "ok" THEN Acknowledge(r.st, w) ELSE Touch(r.st),
                                      r.out)}
                          ELSE {Reply(q, r.out) : q \in Lose(r.st)}
             U == InHandle(p, id, D)
  <1>1. p.handle # None /\ p \in HeldPrimary /\ p \in GoodPrimary
        /\ p.closed[p.handle.id] = "none"
    BY ActiveHandle DEF Active, GoodPrimary
  <1>2. PICK H \in Stacks : Stack(p.handle, H) /\ p.lane.s \in Based("write", H)
    BY ActiveHandle DEF Active
  <1>3. CASE ~p.lane.s.alive
    <2>1. Lose(p) \subseteq Idles(p)
      BY <1>1, <1>3, LoseIdles
    <2>2. \A q \in Lose(p) : Refuse(q) \subseteq U
      BY <2>1, InHandleIdles DEF Refuse, Outcomes
    <2> HIDE DEF U
    <2>3. UNION {Refuse(q) : q \in Lose(p)} \subseteq U
      BY <2>2
    <2>4. QED
      BY <1>3, <2>3 DEF RunGuarded, U
  <1>4. CASE p.lane.s.alive
    <2> DEFINE T == Top(H, {w}, {})
               S == At("write", T)
               B == Based("write", H)
    <2>1. Command(p.lane.s, p.lane.s) \subseteq BareOr({p.lane.s}, B)
      <3>1. Errored(p.lane.s) \in B /\ Dead \in B
        BY <1>2, BasedSessions DEF Blocks
      <3> HIDE DEF B
      <3>2. QED
        BY <1>4, <3>1, BareType DEF Command, Interrupted, Broken, Outcomes
    <2>2. G(p.lane.s) \subseteq BareOr(S, B)
      BY <1>2, GuardedBased DEF Blocks
    <2>3. T \in Stacks
      BY TopFrames
    <2>4. /\ Command(p.lane.s, p.lane.s) \subseteq Replies(WriteBlock)
          /\ \A s \in WriteBlock : G(s) \subseteq Replies(WriteBlock)
      BY <1>1, WriteBlockCommands DEF HeldPrimary, HeldLane
    <2> HIDE DEF G, S, B, T
    <2>5. Then(Command(p.lane.s, p.lane.s), G) \subseteq Replies(WriteBlock)
      <3>1. \A q \in Replies(WriteBlock) : G(q.st) \subseteq Replies(WriteBlock)
        BY <2>4 DEF Replies
      <3>2. QED
        BY <2>4, <3>1, AddKept DEF Then
    <2>6. Then(Command(p.lane.s, p.lane.s), G) \subseteq BareOr(S, B)
      <3>1. ASSUME NEW q \in Command(p.lane.s, p.lane.s)
            PROVE  /\ q.out = "ok" => q.st = p.lane.s
                   /\ q.out # "ok" => q \in BareOr(S, B)
                   /\ \A x \in BareOr(S, B) : [x EXCEPT !.kept = @ \cup q.kept] \in BareOr(S, B)
        <4>1. q \in BareOr({p.lane.s}, B)
          BY <2>1
        <4>2. QED
          BY <4>1, BareThen
      <3>2. QED
        BY <2>2, <3>1 DEF Then
    <2>7. ASSUME NEW r \in R
          PROVE  answer(r) \subseteq U
      <3>1. /\ r.st \in HeldPrimary /\ r.st.handle = p.handle /\ r.st.closed = p.closed
            /\ r.kept = {} /\ r.out \in Outcomes
            /\ r.out = "ok" => r.st.lane.s \in At("write", T)
            /\ r.out # "ok" => r.st \in Works(p, p.handle.done)
        BY <1>1, <1>2, <2>3, <2>5, <2>6, OnHandleSession DEF S, B
      <3>2. CASE r.out = "ok"
        <4>1. r.st.lane.s.alive
          BY <3>1, <3>2 DEF At
        <4>2. Acknowledge(r.st, w) \in Works(p, D)
          BY <1>1, <1>2, <3>1, <3>2, AcknowledgeWorks DEF T
        <4>3. answer(r) = {Reply(Acknowledge(r.st, w), "ok")}
          BY <3>2, <4>1
        <4> HIDE DEF answer, D
        <4>4. QED
          BY <4>2, <4>3, InHandleReply DEF Outcomes
      <3>3. CASE r.out # "ok" /\ r.st.lane.s.alive
        <4>1. Touch(r.st) \in Works(p, p.handle.done)
          BY <3>1, <3>3, TouchWorks
        <4>2. answer(r) = {Reply(Touch(r.st), r.out)}
          BY <3>3
        <4> HIDE DEF answer, D
        <4>3. QED
          BY <3>1, <3>3, <4>1, <4>2, InHandleReply
      <3>4. CASE r.out # "ok" /\ ~r.st.lane.s.alive
        <4>1. \A x \in Lose(r.st) : x \in Idles(p)
          BY <3>1, <3>4, LoseInHandle
        <4>2. answer(r) = {Reply(x, r.out) : x \in Lose(r.st)}
          BY <3>4
        <4> HIDE DEF answer, D
        <4>3. QED
          BY <3>1, <3>4, <4>1, <4>2, InHandleIdles
      <3>5. QED
        BY <3>2, <3>3, <3>4
    <2> HIDE DEF answer, U
    <2>8. UNION {answer(r) : r \in R} \subseteq U
      BY <2>7
    <2>9. QED
      BY <1>4, <2>8 DEF RunGuarded, answer, U, G
  <1>5. QED
    BY <1>3, <1>4

\* copy_in in a handle, once it is let in.
LEMMA CopyInWorks ==
    ASSUME NEW p \in SoundPrimary, NEW id, Active(p, id), NEW w \in Writes
    PROVE  Then(OnSession(p, Guarded(p.lane.s, LAMBDA t : RunWrite(t, w))),
                LAMBDA d : {Reply(Acknowledge(d, w), "ok")})
               \subseteq InHandle(p, id, p.handle.done \cup {w})
  <1> DEFINE D == p.handle.done \cup {w}
             R == OnSession(p, Guarded(p.lane.s, LAMBDA t : RunWrite(t, w)))
             F(d) == {Reply(Acknowledge(d, w), "ok")}
             U == InHandle(p, id, D)
  <1>1. p.handle # None /\ p \in HeldPrimary /\ p.closed[p.handle.id] = "none"
    BY ActiveHandle DEF Active
  <1>2. PICK H \in Stacks : Stack(p.handle, H) /\ p.lane.s \in Based("write", H)
    BY ActiveHandle DEF Active
  <1> DEFINE T == Top(H, {w}, {})
  <1>3. T \in Stacks
    BY TopFrames
  <1>4. /\ Guarded(p.lane.s, LAMBDA t : RunWrite(t, w)) \subseteq BareOr(At("write", T), Based("write", H))
        /\ Guarded(p.lane.s, LAMBDA t : RunWrite(t, w)) \subseteq Replies(WriteBlock)
    BY <1>1, <1>2, GuardedBased, WriteBlockCommands DEF Blocks, HeldPrimary, HeldLane
  <1>5. ASSUME NEW q \in R
        PROVE  /\ q.kept = {}
               /\ q.out # "ok" => q \in U
               /\ q.out = "ok" => F(q.st) \subseteq U
    <2> HIDE DEF T
    <2>1. /\ q.st \in HeldPrimary /\ q.st.handle = p.handle /\ q.st.closed = p.closed
          /\ q.kept = {} /\ q.out \in Outcomes
          /\ q = [st |-> q.st, out |-> q.out, kept |-> q.kept]
          /\ q.out = "ok" => q.st.lane.s \in At("write", T)
          /\ q.out # "ok" => q.st \in Works(p, p.handle.done)
      BY <1>1, <1>2, <1>3, <1>4, OnHandleSession
    <2>2. q.out # "ok" => q \in U
      BY <2>1 DEF InHandle, Works, Bare
    <2>3. q.out = "ok" => Acknowledge(q.st, w) \in Works(p, D)
      BY <1>1, <1>2, <2>1, AcknowledgeWorks DEF T
    <2> HIDE DEF D
    <2>4. q.out = "ok" => F(q.st) \subseteq U
      BY <2>3, InHandleReply DEF Outcomes
    <2>5. QED
      BY <2>1, <2>2, <2>4
  <1>6. \A q \in R : q.kept = {} => \A x \in U : [x EXCEPT !.kept = @ \cup q.kept] \in U
    BY InHandleIdles
  <1> HIDE DEF F, U, R
  <1>7. Then(R, F) \subseteq U
    BY <1>5, <1>6 DEF Then
  <1>8. QED
    BY <1>7 DEF F, U, R

\* copy_in in a handle (engine.rs), from its start.
LEMMA CopyInHandleWorks ==
    ASSUME NEW p \in SoundPrimary, NEW id \in Ids, NEW w \in Writes
    PROVE  CopyInHandle(p, id, w) \subseteq OrStranded(InHandle(p, id, p.handle.done \cup {w}))
  <1> DEFINE C(c) == Then(OnSession(c, Guarded(c.lane.s, LAMBDA t : RunWrite(t, w))),
                          LAMBDA d : {Reply(Acknowledge(d, w), "ok")})
             B(b) == IF ~Holds(b, id) THEN Refuse(b) ELSE Then(Track(b), C)
             A(a) == Then(EnsureAlive(a), B)
             U == InHandle(p, id, p.handle.done \cup {w})
  <1>0. p \in GoodPrimary /\ \A q : q.kept = {} => \A x \in U : [x EXCEPT !.kept = @ \cup q.kept] \in U
    BY InHandleIdles DEF SoundPrimary
  <1>1. ASSUME NEW b \in Idles(p), b.handle # None => ~b.handle.due
        PROVE  B(b) \subseteq U
    <2>1. Reply(b, "refused") \in U
      BY InHandleIdles DEF Outcomes
    <2>2. CASE ~Holds(b, id)
      <3> HIDE DEF U
      <3>1. QED
        BY <2>1, <2>2 DEF Refuse
    <2>3. CASE Holds(b, id)
      <3>1. b = p /\ Active(p, id)
        BY <1>0, <1>1, <2>3, IdleSteps DEF Holds, Active
      <3>2. C(p) \subseteq U
        BY <3>1, CopyInWorks
      <3>3. ASSUME NEW q \in Track(p)
            PROVE  /\ q.kept = {} /\ q.st = p
                   /\ q.out # "ok" => q \in U
        BY <2>1, <3>1 DEF Track, Refuse, Reply
      <3> HIDE DEF C, U
      <3>4. Then(Track(p), C) \subseteq U
        BY <1>0, <3>2, <3>3 DEF Then
      <3>5. QED
        BY <2>3, <3>1, <3>4
    <2>4. QED
      BY <2>2, <2>3
  <1>2. ASSUME NEW a \in Timely(p), NEW q \in EnsureAlive(a)
        PROVE  /\ q.out # "ok" => q \in OrStranded(U)
               /\ q.out = "ok" => q.kept = {} /\ B(q.st) \subseteq U
    <2>1. a \in Idles(p) /\ a \in GoodPrimary /\ Idles(a) \subseteq Idles(p)
      BY <1>0, IdleSteps DEF Timely
    <2>0. q \in OrStranded(Bare(Idles(a)))
      BY <2>1, EnsureAliveIdles
    <2> SUFFICES ASSUME q \in Bare(Idles(a))
                 PROVE  q.kept = {} /\ (q.out # "ok" => q \in U) /\ (q.out = "ok" => B(q.st) \subseteq U)
      BY <2>0, StrandedReply DEF OrStranded
    <2>2. q.st \in Idles(a)
      BY BareSteps
    <2>3. q.kept = {} /\ q.st \in Idles(p) /\ q \in Bare(Idles(p))
      BY <2>1, <2>2, BareReplies DEF Bare
    <2>4. q.out # "ok" => q \in U
      BY <2>3, InHandleIdles
    <2>5. q.st.handle # None => ~q.st.handle.due
      <3>1. q.st.handle # None => q.st = a
        BY <2>1, <2>2, IdleSteps
      <3>2. QED
        BY <3>1 DEF Timely
    <2> HIDE DEF B
    <2>6. QED
      BY <1>1, <2>3, <2>4, <2>5
  <1> HIDE DEF B, U
  <1>3. ASSUME NEW a \in Timely(p)
        PROVE  A(a) \subseteq OrStranded(U)
    BY <1>0, <1>2 DEF Then, OrStranded
  <1>4. ASSUME NEW q \in ExpireWriteHandle(p)
        PROVE  q.kept = {} /\ q.st \in Timely(p) /\ (q.out # "ok" => q \in U)
    <2>1. q \in Bare(Timely(p)) /\ q \in Bare(Idles(p))
      BY <1>0, ExpireIdles DEF Timely, Bare
    <2>2. QED
      BY <2>1, InHandleIdles, BareSteps, BareReplies DEF U
  <1> HIDE DEF A
  <1>5. Then(ExpireWriteHandle(p), A) \subseteq OrStranded(U)
    <2>1. \A x \in Stranded : \A q : q.kept = {} => [x EXCEPT !.kept = @ \cup q.kept] \in Stranded
      BY StrandedReply
    <2>2. QED
      BY <1>0, <1>3, <1>4, <2>1 DEF Then, OrStranded
  <1>6. QED
    BY <1>5 DEF CopyInHandle, A, B, C, U

\* How the calls that begin with for_handle go on.
LEMMA ForHandleStarts ==
    ASSUME NEW p \in SoundPrimary, NEW id \in Ids, NEW q \in ForHandle(p, id)
    PROVE  /\ q.kept = {}
           /\ q.out = "ok" => q.st = p /\ Active(p, id)
           /\ q.out # "ok" => q.st \in Idles(p) /\ \A D : q \in InHandle(p, id, D)
           /\ q.out # "ok" => q \in Bare(Idles(p))
           /\ \A D : \A x \in InHandle(p, id, D) :
                 [x EXCEPT !.kept = @ \cup q.kept] \in InHandle(p, id, D)
  <1>1. p \in GoodPrimary
    BY DEF SoundPrimary
  <1>2. q \in Bare(Idles(p)) /\ (q.out = "ok" => q.st = p /\ Active(p, id))
    BY <1>1, ForHandleIdles
  <1>3. q.kept = {} /\ (q.out # "ok" => \A D : q \in InHandle(p, id, D))
    BY <1>2, InHandleIdles, BareReplies
  <1>4. \A D : \A x \in InHandle(p, id, D) :
                 [x EXCEPT !.kept = @ \cup q.kept] \in InHandle(p, id, D)
    BY <1>3, InHandleIdles
  <1>5. QED
    BY <1>2, <1>3, <1>4, BareSteps

\* What every call that works in a handle does.
LEMMA WorksInHandle ==
    ASSUME NEW p \in SoundPrimary, NEW id \in Ids
    PROVE  /\ \A name \in Names : Then(ForHandle(p, id), LAMBDA q : SetSavepoint(q, name))
                                      \subseteq InHandle(p, id, p.handle.done)
           /\ \A w \in Writes : Then(ForHandle(p, id), LAMBDA q : RunGuarded(q, w))
                                    \subseteq InHandle(p, id, p.handle.done \cup {w})
  <1>1. ASSUME NEW name \in Names
        PROVE  Then(ForHandle(p, id), LAMBDA q : SetSavepoint(q, name))
                   \subseteq InHandle(p, id, p.handle.done)
    BY SetSavepointWorks, ForHandleStarts DEF Then
  <1>2. ASSUME NEW w \in Writes
        PROVE  Then(ForHandle(p, id), LAMBDA q : RunGuarded(q, w))
                   \subseteq InHandle(p, id, p.handle.done \cup {w})
    BY RunGuardedWorks, ForHandleStarts DEF Then
  <1>3. QED
    BY <1>1, <1>2

\* rollback_to may undo some of the work, and nothing else.
LEMMA UndoesInHandle ==
    ASSUME SAVEPOINT_NAME \notin Names, NEW p \in SoundPrimary, NEW id \in Ids,
           NEW name \in Names, NEW r \in Then(ForHandle(p, id), LAMBDA q : UndoTo(q, name))
    PROVE  \E D : (Active(p, id) => D \in SUBSET p.handle.done) /\ r \in InHandle(p, id, D)
  <1>1. PICK q \in ForHandle(p, id) :
           r \in (IF q.out = "ok" THEN {[x EXCEPT !.kept = @ \cup q.kept] : x \in UndoTo(q.st, name)}
                  ELSE {q})
    BY DEF Then
  <1>2. CASE q.out = "ok"
    <2>1. PICK x \in UndoTo(p, name) : r = [x EXCEPT !.kept = @ \cup q.kept]
      BY <1>1, <1>2, ForHandleStarts
    <2>2. PICK D \in SUBSET p.handle.done : x \in InHandle(p, id, D)
      BY <1>2, <2>1, ForHandleStarts, UndoToWorks
    <2>3. r \in InHandle(p, id, D)
      BY <2>1, <2>2, ForHandleStarts
    <2>4. QED
      BY <2>2, <2>3
  <1>3. CASE q.out # "ok"
    <2>1. r = q /\ \A D : q \in InHandle(p, id, D)
      BY <1>1, <1>3, ForHandleStarts
    <2>2. {} \in SUBSET p.handle.done /\ r \in InHandle(p, id, {})
      BY <2>1
    <2>3. QED
      BY <2>2
  <1>4. QED
    BY <1>2, <1>3

-------------------------------------------------------------------------------
(* How a handle finishes                                                   *)

\* What commit and rollback leave of p: its handle closed, with the state that
\* says what the server kept of its work, all or nothing of it unless lost.
Closes(p) ==
    {r \in Replies(GoodPrimary) :
        /\ p.handle # None /\ r.st.handle = None /\ Forgot(p, r.st)
        /\ \/ r.st.closed[p.handle.id] = "committed" /\ r.kept = p.handle.done
           \/ r.st.closed[p.handle.id] = "rolled_back" /\ r.kept = {}
           \/ r.st.closed[p.handle.id] = "lost" /\ r.kept \in {{}, p.handle.done}}

\* A COMMIT answered, or not, keeps what the caller was told is done, and says
\* so; a ROLLBACK keeps nothing.
LEMMA FinishBlockKeeps ==
    ASSUME NEW p \in SoundPrimary, p.handle # None,
           NEW statement \in {"COMMIT", "ROLLBACK"}, NEW state \in {"committed", "rolled_back"},
           statement = "COMMIT" <=> state = "committed",
           NEW r \in FinishBlock(p.lane.s, statement)
    PROVE  /\ r \in Replies(Parked)
           /\ r.kept \in {{}, p.handle.done}
           /\ r.out = "ok" => state \in {"committed", "rolled_back"}
           /\ r.out = "ok" /\ state = "committed" => r.kept = p.handle.done
           /\ r.out = "ok" /\ state = "rolled_back" => r.kept = {}
           /\ r.out # "ok" /\ r.st.alive => r.kept = {}
  <1> DEFINE K == p.handle.done
  <1>1. p \in HeldPrimary /\ p.lane.s \in Stays("write")
    BY ActiveHandle DEF HeldPrimary, HeldLane, WriteBlock
  <1>2. p.lane.s \in Sessions /\ p.lane.s \in Session
    BY <1>1, ParkedSessions DEF Stays
  <1>3. PICK H \in Stacks : Stack(p.handle, H) /\ p.lane.s \in Based("write", H)
    BY ActiveHandle
  <1>4. CASE statement = "COMMIT" /\ state = "committed"
    <2>1. p.lane.s.alive /\ ~p.lane.s.failed => p.lane.s.frames = H
      BY <1>3 DEF Based
    <2>2. p.lane.s.alive /\ ~p.lane.s.failed => Pending(p.lane.s) = K
      BY <1>2, <1>3, <2>1, PendingBelow DEF Stack
    <2> HIDE DEF K
    <2>3. r \in Kept(K)
      BY <1>2, <1>4, <2>2, CommitKeeps
    <2>4. ~Dead.alive
      BY DEF Dead
    <2>5. QED
      BY <1>4, <2>3, <2>4 DEF Kept, K
  <1>5. CASE statement = "ROLLBACK" /\ state = "rolled_back"
    <2>1. r \in Bare(Parked)
      BY <1>2, <1>5, RollbackKeeps
    <2>2. QED
      BY <1>5, <2>1, BareReplies
  <1>6. QED
    BY <1>4, <1>5

\* finish (engine.rs) closes the handle with what became of its work.
LEMMA FinishCloses ==
    ASSUME NEW p \in SoundPrimary, p.handle # None,
           NEW statement \in {"COMMIT", "ROLLBACK"}, NEW state \in {"committed", "rolled_back"},
           statement = "COMMIT" <=> state = "committed"
    PROVE  Finish(p, statement, state) \subseteq Closes(p)
  <1> SUFFICES ASSUME NEW x \in Finish(p, statement, state)
               PROVE  x \in Closes(p)
    OBVIOUS
  <1>1. p \in HeldPrimary /\ p \in Primary /\ state \in ClosedStates /\ p.lane \in LaneType
    BY ActiveHandle DEF ClosedStates, Primary
  <1>2. x \in Replies(GoodPrimary)
    BY <1>1, FinishGood
  <1>3. CASE ~p.lane.s.alive
    <2>1. PICK q \in Close(p, "lost") : x = Reply(q, "refused")
      BY <1>3 DEF Finish, Refuse
    <2>2. "lost" \in ClosedStates
      BY DEF ClosedStates
    <2>3. q.closed[p.handle.id] = "lost" /\ Forgot(p, q) /\ q.handle = None
      BY <1>1, <2>2, CloseRecords, CloseCloses
    <2>4. QED
      BY <1>2, <2>1, <2>3 DEF Closes, Reply
  <1>4. CASE p.lane.s.alive
    <2> DEFINE R == OnSession(p, FinishBlock(p.lane.s, statement))
               ends(r) == {[r EXCEPT !.st = q] : q \in Close(r.st, Final(r, state))}
    <2>1. PICK r \in R : x \in ends(r)
      <3> HIDE DEF R, ends
      <3>1. x \in UNION {ends(r) : r \in R}
        BY <1>4 DEF Finish, R, ends
      <3>2. QED
        BY <3>1
    <2>2. PICK b \in FinishBlock(p.lane.s, statement) :
             r = [b EXCEPT !.st = [p EXCEPT !.lane = [p.lane EXCEPT !.s = b.st]]]
      BY DEF OnSession, OnPrimary, OnLane
    <2>3. /\ b \in Replies(Parked)
          /\ b.kept \in {{}, p.handle.done}
          /\ b.out = "ok" => state \in {"committed", "rolled_back"}
          /\ b.out = "ok" /\ state = "committed" => b.kept = p.handle.done
          /\ b.out = "ok" /\ state = "rolled_back" => b.kept = {}
          /\ b.out # "ok" /\ b.st.alive => b.kept = {}
      BY FinishBlockKeeps
    <2> DEFINE l == [p.lane EXCEPT !.s = b.st]
               u == [p EXCEPT !.lane = l]
    <2>4. l \in LaneType /\ l.s = b.st
      BY <1>1, <2>3 DEF LaneType, Replies, Parked
    <2> HIDE DEF l
    <2>5. u \in Primary /\ u.handle = p.handle /\ u.closed = p.closed /\ u.lane = l
      BY <1>1, <2>4 DEF Primary
    <2> HIDE DEF u
    <2>6. r.st = u /\ r.out = b.out /\ r.kept = b.kept /\ r = [st |-> u, out |-> b.out, kept |-> b.kept]
      BY <2>2, <2>3 DEF Replies, l, u
    <2> DEFINE c == Final(r, state)
    <2>7. c \in ClosedStates
      BY <1>1, FinalClosed
    <2>8. PICK q \in Close(u, c) : x = [r EXCEPT !.st = q]
      BY <2>1, <2>6
    <2>9. \/ c = "committed" /\ b.kept = p.handle.done
          \/ c = "rolled_back" /\ b.kept = {}
          \/ c = "lost" /\ b.kept \in {{}, p.handle.done}
      BY <2>3, <2>4, <2>5, <2>6 DEF Final
    <2> HIDE DEF c
    <2>10. q.closed[u.handle.id] = c /\ Forgot(u, q) /\ q.handle = None
      BY <2>5, <2>7, CloseRecords, CloseCloses
    <2>11. q.closed[p.handle.id] = c /\ Forgot(p, q)
      BY <2>5, <2>10 DEF Forgot
    <2>12. x.st = q /\ x.kept = b.kept
      BY <2>6, <2>8
    <2>13. QED
      BY <1>2, <2>9, <2>10, <2>11, <2>12 DEF Closes
  <1>5. QED
    BY <1>3, <1>4

\* A commit or rollback, from its start.
LEMMA FinishesHandle ==
    ASSUME NEW p \in SoundPrimary, NEW id \in Ids,
           NEW statement \in {"COMMIT", "ROLLBACK"}, NEW state \in {"committed", "rolled_back"},
           statement = "COMMIT" <=> state = "committed",
           NEW r \in Then(ForHandle(p, id), LAMBDA h : FinishOrRefuse(h, statement, state))
    PROVE  r \in Bare(Idles(p)) \/ (Active(p, id) /\ r \in Closes(p))
  <1>1. PICK q \in ForHandle(p, id) :
           r \in (IF q.out = "ok"
                  THEN {[x EXCEPT !.kept = @ \cup q.kept] : x \in FinishOrRefuse(q.st, statement, state)}
                  ELSE {q})
    BY DEF Then
  <1>2. CASE q.out = "ok"
    <2>1. q.st = p /\ Active(p, id) /\ q.kept = {}
      BY <1>2, ForHandleStarts
    <2>2. PICK x \in FinishOrRefuse(p, statement, state) : r = [x EXCEPT !.kept = @ \cup q.kept]
      BY <1>1, <1>2, <2>1
    <2>3. PICK y \in Finish(p, statement, state) :
             x = [y EXCEPT !.out = IF @ = "refused" THEN @ ELSE "finished"]
      BY <2>2 DEF FinishOrRefuse
    <2>4. y \in Closes(p)
      BY <2>1, <2>3, FinishCloses DEF Active
    <2>5. x \in Closes(p)
      BY <2>3, <2>4 DEF Closes, Replies, Outcomes
    <2>6. r \in Closes(p)
      BY <2>1, <2>2, <2>5 DEF Closes, Replies
    <2>7. QED
      BY <2>1, <2>6
  <1>3. CASE q.out # "ok"
    BY <1>1, <1>3, ForHandleStarts
  <1>4. QED
    BY <1>2, <1>3

-------------------------------------------------------------------------------
(* Writes on the second connection                                         *)

\* Getting the second connection to itself makes nothing durable.
LEMMA AloneOnSecondaryBare ==
    ASSUME NEW l \in LaneSlot, NEW r \in AloneOnSecondary(l)
    PROVE  r.kept = {}
  <1> DEFINE C(o) == IF o.inRead THEN Refuse(o) ELSE Track(o)
             B(n) == Then(FinishIfIdle(n), C)
             A(m) == Then(SweepExpired(m), B)
  <1>1. \A o : \A x \in C(o) : x.kept = {} /\ x = [st |-> x.st, out |-> x.out, kept |-> x.kept]
    BY DEF Refuse, Track, Reply
  <1> HIDE DEF C
  <1>2. ASSUME NEW n \in QuietLane, NEW x \in B(n)
        PROVE  x.kept = {}
    <2>1. PICK q \in FinishIfIdle(n) :
             x \in (IF q.out = "ok" THEN {[y EXCEPT !.kept = @ \cup q.kept] : y \in C(q.st)} ELSE {q})
      BY <1>2 DEF Then
    <2>2. q.kept = {}
      BY SweepsKeepNothing
    <2>3. ASSUME NEW y \in C(q.st), x = [y EXCEPT !.kept = @ \cup q.kept]
          PROVE  x.kept = {}
      <3>1. y.kept = {} /\ y = [st |-> y.st, out |-> y.out, kept |-> y.kept]
        BY <1>1
      <3>2. QED
        BY <2>2, <2>3, <3>1
    <2>4. QED
      BY <2>1, <2>2, <2>3
  <1> HIDE DEF B
  <1>3. ASSUME NEW n \in QuietLane, NEW x \in B(n)
        PROVE  x = [st |-> x.st, out |-> x.out, kept |-> x.kept]
    <2>1. FinishIfIdle(n) \subseteq Replies(QuietLane)
      BY FinishIfIdleQuiet
    <2>2. PICK q \in FinishIfIdle(n) :
             x \in (IF q.out = "ok" THEN {[y EXCEPT !.kept = @ \cup q.kept] : y \in C(q.st)} ELSE {q})
      BY <1>3 DEF B, Then
    <2>3. \A y \in C(q.st) : y = [st |-> y.st, out |-> y.out, kept |-> y.kept]
      BY <1>1
    <2>4. q = [st |-> q.st, out |-> q.out, kept |-> q.kept]
      BY <2>1, <2>2 DEF Replies
    <2>5. QED
      BY <2>2, <2>3, <2>4
  <1>4. ASSUME NEW m \in QuietLane, NEW x \in A(m)
        PROVE  x.kept = {} /\ x = [st |-> x.st, out |-> x.out, kept |-> x.kept]
    <2>1. PICK q \in SweepExpired(m) :
             x \in (IF q.out = "ok" THEN {[y EXCEPT !.kept = @ \cup q.kept] : y \in B(q.st)} ELSE {q})
      BY <1>4 DEF Then
    <2>2. q.kept = {} /\ q.st \in QuietLane /\ q = [st |-> q.st, out |-> q.out, kept |-> q.kept]
      BY SweepsKeepNothing, SweepExpiredQuiet DEF Replies
    <2>3. ASSUME NEW y \in B(q.st), x = [y EXCEPT !.kept = @ \cup q.kept]
          PROVE  x.kept = {} /\ x = [st |-> x.st, out |-> x.out, kept |-> x.kept]
      <3>1. y.kept = {} /\ y = [st |-> y.st, out |-> y.out, kept |-> y.kept]
        BY <1>2, <1>3, <2>2
      <3>2. QED
        BY <2>2, <2>3, <3>1
    <2>4. QED
      BY <2>1, <2>2, <2>3
  <1> HIDE DEF A
  <1>5. r \in Then(EnsureSecondary(l), A)
    BY DEF AloneOnSecondary, A, B, C
  <1>6. PICK q \in EnsureSecondary(l) :
           r \in (IF q.out = "ok" THEN {[y EXCEPT !.kept = @ \cup q.kept] : y \in A(q.st)} ELSE {q})
    BY <1>5 DEF Then
  <1>7. q.kept = {}
    BY DEF EnsureSecondary, Reply
  <1>8. q.out = "ok" => q.st \in QuietLane
    BY EnsureSecondaryQuiet DEF RepliesOr
  <1>9. ASSUME NEW y \in A(q.st), r = [y EXCEPT !.kept = @ \cup q.kept], q.out = "ok"
        PROVE  r.kept = {}
    <2>1. y.kept = {} /\ y = [st |-> y.st, out |-> y.out, kept |-> y.kept]
      BY <1>4, <1>8, <1>9
    <2>2. QED
      BY <1>7, <1>9, <2>1
  <1>10. QED
    BY <1>6, <1>7, <1>9

\* A resting second lane answers what its session answers.
LEMMA OnRestingSlot ==
    ASSUME NEW m \in RestingLane, NEW R
    PROVE  /\ \A w : R \subseteq Alone(w) => OnLane(m, R) \subseteq Lone(LaneSlot, w)
           /\ R \subseteq Bare(Parked) => OnLane(m, R) \subseteq Bare(LaneSlot)
  <1>1. ASSUME R \subseteq Replies(Parked)
        PROVE  /\ OnLane(m, R) \subseteq Replies(LaneSlot)
               /\ \A x \in OnLane(m, R) : \E r \in R : x.out = r.out /\ x.kept = r.kept
    <2>1. OnLane(m, R) \subseteq Replies(RestingLane)
      BY <1>1, OnRestingLane
    <2>2. OnLane(m, R) \subseteq Replies(LaneSlot)
      BY <2>1 DEF Replies, LaneSlot, QuietLane
    <2>3. ASSUME NEW x \in OnLane(m, R)
          PROVE  \E r \in R : x.out = r.out /\ x.kept = r.kept
      <3>1. PICK r \in R : x = [r EXCEPT !.st = [m EXCEPT !.s = r.st]]
        BY DEF OnLane
      <3>2. QED
        BY <1>1, <3>1 DEF Replies
    <2>4. QED
      BY <2>2, <2>3
  <1>2. ASSUME NEW w, R \subseteq Alone(w)
        PROVE  OnLane(m, R) \subseteq Lone(LaneSlot, w)
    <2>1. R \subseteq Replies(Parked)
      BY <1>2 DEF Alone
    <2>2. QED
      BY <1>1, <1>2, <2>1 DEF Alone, Lone
  <1>3. ASSUME R \subseteq Bare(Parked)
        PROVE  OnLane(m, R) \subseteq Bare(LaneSlot)
    <2>1. R \subseteq Replies(Parked)
      BY <1>3, BareReplies
    <2>2. QED
      BY <1>1, <1>3, <2>1, BareReplies
  <1>4. QED
    BY <1>2, <1>3

\* run_write and dry_run on the second connection.
LEMMA SecondKeeps ==
    ASSUME NEW l \in LaneSlot, NEW w \in Writes, NEW outside \in BOOLEAN
    PROVE  /\ WriteOnSecondary(l, w, outside) \subseteq Lone(LaneSlot, w)
           /\ DryRunOnSecondary(l, w) \subseteq Bare(LaneSlot)
  <1> DEFINE A(m) == OnLane(m, Autocommit(m.s, w, outside))
             D(m) == OnLane(m, RunThenRollback(m.s, w))
             U == Lone(LaneSlot, w)
             V == Bare(LaneSlot)
  <1>1. ASSUME NEW m \in RestingLane
        PROVE  A(m) \subseteq U /\ D(m) \subseteq V
    <2>1. m.s \in Parked
      BY DEF RestingLane
    <2>2. QED
      BY <2>1, AutocommitKeeps, RunThenRollbackKeeps, OnRestingSlot
  <1>2. ASSUME NEW q \in AloneOnSecondary(l)
        PROVE  /\ q.out = "ok" => q.st \in RestingLane
               /\ q.out # "ok" => q \in U /\ q \in V
               /\ \A x \in U : [x EXCEPT !.kept = @ \cup q.kept] \in U
               /\ \A x \in V : [x EXCEPT !.kept = @ \cup q.kept] \in V
    <2>1. q \in RepliesOr(RestingLane, LaneSlot) /\ q.kept = {}
      BY AloneRests, AloneOnSecondaryBare
    <2>2. q \in Replies(RestingLane \cup LaneSlot) /\ (q.out # "ok" => q.st \in LaneSlot)
      BY <2>1 DEF RepliesOr
    <2>3. q.out # "ok" => q \in Bare(LaneSlot)
      BY <2>1, <2>2 DEF Replies, Bare
    <2>4. q.out # "ok" => q \in U
      BY <2>1, <2>3, BareReplies DEF Lone
    <2>5. \A x \in U : [x EXCEPT !.kept = @ \cup q.kept] \in U
      BY <2>1 DEF Lone, Replies
    <2>6. \A x \in V : [x EXCEPT !.kept = @ \cup q.kept] \in V
      BY <2>1 DEF Bare
    <2>7. QED
      BY <2>1, <2>3, <2>4, <2>5, <2>6 DEF RepliesOr
  <1> HIDE DEF A, D, U, V
  <1>3. Then(AloneOnSecondary(l), A) \subseteq U
    BY <1>1, <1>2 DEF Then
  <1>4. Then(AloneOnSecondary(l), D) \subseteq V
    BY <1>1, <1>2 DEF Then
  <1>5. QED
    BY <1>3, <1>4 DEF WriteOnSecondary, DryRunOnSecondary, A, D, U, V

-------------------------------------------------------------------------------
(* The phases of the handles                                               *)

\* PhaseOf, for any primary.
Phase(p, i) ==
    IF Holds(p, i) THEN "open" ELSE IF p.closed[i] = "none" THEN "fresh" ELSE p.closed[i]

\* What becomes of a handle that is not worked in.
Quietly(a, b) ==
    \/ b = a
    \/ a = "fresh" /\ b = "open"
    \/ a = "open" /\ b \in {"rolled_back", "expired", "lost"}
    \/ a \in {"committed", "rolled_back", "expired", "lost"} /\ b = "forgotten"

\* A call that does no work moves the phases quietly, and a handle it opens is
\* one that was fresh.
LEMMA PhaseIdles ==
    ASSUME NEW p \in SoundPrimary, NEW q \in Idles(p) \cup Opens(p)
    PROVE  /\ q \in SoundPrimary
           /\ \A i \in Ids : Quietly(Phase(p, i), Phase(q, i))
           /\ q.handle # None => \/ q = p
                                 \/ /\ q.handle.done = {} /\ Phase(p, q.handle.id) = "fresh"
                                    /\ p.handle # None => q.handle.id # p.handle.id
  <1>1. q \in SoundPrimary
    BY SoundIdles
  <1>2. /\ p \in Primary /\ q \in Primary
        /\ p.handle # None => p.closed[p.handle.id] = "none" /\ p.handle.id \in Ids
        /\ q.handle # None => q.closed[q.handle.id] = "none" /\ q.handle.id \in Ids
    BY <1>1, ActiveHandle DEF SoundPrimary, GoodPrimary, QuietPrimary, HeldPrimary
  <1>3. ASSUME NEW b \in Idles(p), b.handle = None, NEW i \in Ids
        PROVE  /\ Quietly(Phase(p, i), Phase(b, i))
               /\ b.closed[i] = "none" => p.closed[i] = "none" /\ ~Holds(p, i)
    <2>1. p.closed[i] \in ClosedStates
      BY <1>2 DEF Primary
    <2>2. CASE p.handle = None
      <3>1. b.closed = p.closed
        BY <1>3, <2>2 DEF Idles, Ended
      <3>2. QED
        BY <1>3, <2>2, <3>1 DEF Phase, Holds, Quietly
    <2>3. CASE p.handle # None
      <3>1. Ended(p, b)
        BY <1>3, <2>3 DEF Idles
      <3>2. CASE i = p.handle.id
        BY <1>3, <2>3, <3>1, <3>2 DEF Phase, Holds, Quietly, Ended
      <3>3. CASE i # p.handle.id
        BY <1>3, <2>1, <2>3, <3>1, <3>3 DEF Phase, Holds, Quietly, Ended, Forgot, ClosedStates
      <3>4. QED
        BY <3>2, <3>3
    <2>4. QED
      BY <2>2, <2>3
  <1>4. CASE q \in Idles(p)
    <2>1. q.handle # None => q = p
      BY <1>4, IdleSteps DEF SoundPrimary
    <2>2. q = p => \A i \in Ids : Quietly(Phase(p, i), Phase(q, i))
      BY DEF Quietly
    <2>3. QED
      BY <1>1, <1>3, <1>4, <2>1, <2>2
  <1>5. CASE q \in Opens(p)
    <2>1. PICK b \in Idles(p) :
            /\ b.handle = None /\ q.closed = b.closed
            /\ q.handle # None /\ q.handle.id \in FreshIds(b)
            /\ q.handle.done = {}
      BY <1>5 DEF Opens
    <2>2. b.closed[q.handle.id] = "none" /\ q.handle.id \in Ids
      BY <2>1 DEF FreshIds
    <2>3. Phase(p, q.handle.id) = "fresh" /\ ~Holds(p, q.handle.id)
      BY <1>3, <2>1, <2>2 DEF Phase
    <2>4. ASSUME NEW i \in Ids
          PROVE  Quietly(Phase(p, i), Phase(q, i))
      <3>1. CASE i = q.handle.id
        BY <2>1, <2>3, <3>1 DEF Phase, Holds, Quietly
      <3>2. CASE i # q.handle.id
        <4>1. Phase(q, i) = Phase(b, i)
          BY <2>1, <3>2 DEF Phase, Holds
        <4>2. QED
          BY <1>3, <2>1, <4>1
      <3>3. QED
        BY <3>1, <3>2
    <2>5. QED
      BY <1>1, <2>1, <2>3, <2>4 DEF Holds
  <1>6. QED
    BY <1>4, <1>5

\* Work in the handle moves no phase.
LEMMA PhaseWorks ==
    ASSUME NEW p \in SoundPrimary, p.handle # None, NEW D, NEW q \in Works(p, D)
    PROVE  /\ q \in SoundPrimary /\ q.handle # None
           /\ q.handle.id = p.handle.id /\ q.handle.done = D
           /\ \A i \in Ids : Phase(q, i) = Phase(p, i)
  BY DEF Works, Phase, Holds

\* A commit or rollback ends the handle in it.
LEMMA PhaseCloses ==
    ASSUME NEW p \in SoundPrimary, NEW r \in Closes(p)
    PROVE  /\ r.st \in SoundPrimary /\ r.st.handle = None
           /\ p.handle # None /\ p.handle.id \in Ids
           /\ Phase(p, p.handle.id) = "open"
           /\ \/ Phase(r.st, p.handle.id) = "committed" /\ r.kept = p.handle.done
              \/ Phase(r.st, p.handle.id) = "rolled_back" /\ r.kept = {}
              \/ Phase(r.st, p.handle.id) = "lost" /\ r.kept \in {{}, p.handle.done}
           /\ \A i \in Ids : i # p.handle.id => Quietly(Phase(p, i), Phase(r.st, i))
  <1>1. p.handle # None /\ r.st.handle = None /\ Forgot(p, r.st) /\ r.st \in GoodPrimary
    BY DEF Closes, Replies
  <1>2. p.handle.id \in Ids /\ p \in Primary
    BY <1>1, ActiveHandle
  <1>3. ASSUME NEW i \in Ids, i # p.handle.id
        PROVE  Quietly(Phase(p, i), Phase(r.st, i))
    <2>1. p.closed[i] \in ClosedStates
      BY <1>2 DEF Primary
    <2>2. QED
      BY <1>1, <1>3, <2>1 DEF Phase, Holds, Quietly, Forgot, ClosedStates
  <1>4. QED
    BY <1>1, <1>2, <1>3 DEF Closes, SoundPrimary, Phase, Holds

-------------------------------------------------------------------------------
(* What callers were told, and what the server keeps                       *)

IssuedIn(i) == {w \in Writes : told[w].by = i}
DoneIn(i) == {w \in Writes : told[w] = [out |-> "done", by |-> i]}

\* A handle keeps its promise in a step if ...
LEMMA PromiseKept ==
    ASSUME NEW i \in Ids,
           DoneIn(i)' \subseteq IssuedIn(i)',
           \A w \in durable' : w \in IssuedIn(i)' => w \in IssuedIn(i)
    PROVE  /\ /\ DoneIn(i)' = DoneIn(i)
              /\ \A w \in durable' : w \in IssuedIn(i)' => w \in durable
              /\ Quietly(PhaseOf(i), PhaseOf(i)')
              /\ PhaseOf(i) = "open" => DoneIn(i) \cap durable' = {}
              => Promised!Step(i)
           /\ /\ PhaseOf(i) = "open" /\ PhaseOf(i)' = "open"
              /\ (DoneIn(i) \cup DoneIn(i)') \cap durable' = {}
              /\ \A w \in durable' : w \in IssuedIn(i)' => w \in durable
              => Promised!Step(i)
           /\ /\ PhaseOf(i) = "open" /\ PhaseOf(i)' \in {"committed", "lost"}
              /\ DoneIn(i)' = DoneIn(i)
              /\ {w \in durable' \ durable : w \in IssuedIn(i)'} = DoneIn(i)
              => Promised!Step(i)
  BY DEF Promised!Step, Promised!Rest, Promised!Begin, Promised!Work, Promised!Commit,
         Promised!End, Promised!Forget, Promised!Keeps, Promised!Sends, Promised!Gains,
         Promised!InReach, Quietly, IssuedIn, DoneIn

\* What a caller was told of a write outside a handle is what the server kept.
ToldAlone(w) ==
    /\ told[w].out = "none" => told[w].by = None
    /\ told[w].out \in {"none", "running", "undone"} => w \notin durable
    /\ told[w].by = None /\ told[w].out = "done" => w \in durable

\* What was told of one in the handle i is what it kept, or can still keep.
ToldInside(w, i) ==
    told[w].by = i =>
        /\ w \in durable => told[w].out = "done"
        /\ PhaseOf(i) \in {"fresh", "open"} => w \notin durable
        /\ PhaseOf(i) = "fresh" => told[w].out # "done"
        /\ PhaseOf(i) = "committed" => (told[w].out = "done" => w \in durable)

\* The open handle has on record what its caller was told is done.
HeldIsDone(i) == Holds(primary, i) => primary.handle.done = DoneIn(i)

\* The engine and the server agree on the handle, and so does its caller.
Records ==
    /\ primary \in SoundPrimary
    /\ \A i \in Ids : HeldIsDone(i)
    /\ \A w \in Writes : ToldAlone(w) /\ \A i \in Ids : ToldInside(w, i)

\* A handle that is due does no more work.
DueStep ==
    primary.handle # None =>
        (primary.handle.due =>
            /\ durable' \cap {w \in Writes : told[w].by = primary.handle.id} \subseteq durable
            /\ Holds(primary', primary.handle.id) => primary'.handle = primary.handle)

\* What has to be shown of a step.
Goes == Records' /\ Promised!Next /\ DueStep

Typed == told \in ToldType /\ durable \subseteq Writes

\* The record of a write that no handle holds changes by one answer.
Answered(w) ==
    /\ told[w].by = None /\ told[w].out \in {"none", "running"}
    /\ told'[w].out = "none" => told'[w].by = None
    /\ told'[w].out \in {"none", "running", "undone"} => w \notin durable'
    /\ told'[w].by = None /\ told'[w].out = "done" => w \in durable'
    /\ told'[w].by # None => told'[w].out # "done" /\ w \notin durable'

Untouched(w) == told'[w] = told[w] /\ (w \in durable' <=> w \in durable)

\* The phases of the refinement are those of the primary.
LEMMA PhaseIs == \A i \in Ids : PhaseOf(i) = Phase(primary, i) /\ PhaseOf(i)' = Phase(primary', i)
  BY DEF PhaseOf, Phase

\* A step without work in a handle.
LEMMA QuietGoes ==
    ASSUME Records, Typed, Typed', primary' \in Idles(primary) \cup Opens(primary),
           \A w \in Writes : Untouched(w) \/ Answered(w)
    PROVE  Goes
  <1>1. /\ primary' \in SoundPrimary
        /\ \A i \in Ids : Quietly(PhaseOf(i), PhaseOf(i)')
        /\ primary'.handle # None => \/ primary' = primary
                                     \/ /\ primary'.handle.done = {}
                                        /\ Phase(primary, primary'.handle.id) = "fresh"
                                        /\ primary.handle # None => primary'.handle.id # primary.handle.id
    BY PhaseIdles, PhaseIs DEF Records
  <1>2. /\ primary'.handle # None => primary'.handle.id \in Ids
        /\ primary.handle # None => primary.handle.id \in Ids
    BY <1>1, ActiveHandle DEF Records
  <1>3. \A w \in Writes : w \in durable => w \in durable'
    BY DEF Records, ToldAlone, ToldInside, Untouched, Answered
  <1>4. ASSUME NEW i \in Ids
        PROVE  /\ DoneIn(i)' = DoneIn(i)
               /\ DoneIn(i)' \subseteq IssuedIn(i)'
               /\ \A w \in durable' : w \in IssuedIn(i)' => w \in IssuedIn(i) /\ w \in durable
    <2>1. i # None
      BY NoneAssumption
    <2>2. \A w \in Writes : w \in DoneIn(i)' <=> w \in DoneIn(i)
      BY <2>1 DEF DoneIn, Untouched, Answered, Typed, ToldType
    <2>3. DoneIn(i)' = DoneIn(i)
      BY <2>2 DEF DoneIn
    <2>4. \A w \in durable' : w \in IssuedIn(i)' => w \in IssuedIn(i) /\ w \in durable
      BY <2>1 DEF IssuedIn, Untouched, Answered
    <2>5. DoneIn(i)' \subseteq IssuedIn(i)'
      BY DEF DoneIn, IssuedIn
    <2>6. QED
      BY <2>3, <2>4, <2>5
  <1>5. ASSUME NEW i \in Ids
        PROVE  PhaseOf(i) \in {"fresh", "open"} => DoneIn(i) \cap durable' = {}
    <2>1. i # None
      BY NoneAssumption
    <2>2. PhaseOf(i) \in {"fresh", "open"} => DoneIn(i) \cap durable = {}
      BY <2>1 DEF Records, ToldAlone, ToldInside, DoneIn
    <2>3. DoneIn(i) \cap durable' \subseteq durable
      BY <1>4 DEF DoneIn, IssuedIn
    <2>4. QED
      BY <2>2, <2>3
  <1>6. \A i \in Ids : Promised!Step(i)
    BY <1>1, <1>4, <1>5, PromiseKept
  <1>7. Promised!Next
    BY <1>3, <1>6 DEF Promised!Next, Typed
  <1>8. DueStep
    <2>1. \A w \in Writes : w \in durable' /\ told[w].by # None => w \in durable
      BY DEF Untouched, Answered
    <2>2. primary.handle # None => (Holds(primary', primary.handle.id) => primary'.handle = primary.handle)
      BY <1>1 DEF Holds
    <2>3. QED
      BY <1>2, <2>1, <2>2, NoneAssumption DEF DueStep
  <1>9. ASSUME NEW i \in Ids
        PROVE  HeldIsDone(i)'
    <2>1. CASE primary' = primary
      BY <1>4, <2>1 DEF Records, HeldIsDone, Holds
    <2>2. CASE Holds(primary', i) /\ primary' # primary
      <3>1. PhaseOf(i) = "fresh" /\ primary'.handle.done = {} /\ i # None
        BY <1>1, <2>2, PhaseIs, NoneAssumption DEF Holds
      <3>2. DoneIn(i) = {}
        BY <3>1 DEF Records, ToldInside, DoneIn
      <3>3. QED
        BY <1>4, <3>1, <3>2 DEF HeldIsDone
    <2>3. QED
      BY <2>1, <2>2 DEF HeldIsDone
  <1>10. ASSUME NEW w \in Writes, NEW i \in Ids
         PROVE  ToldInside(w, i)'
    <2>1. Quietly(PhaseOf(i), PhaseOf(i)') /\ i # None
      BY <1>1, NoneAssumption
    <2>2. /\ PhaseOf(i)' \in {"fresh", "open"} => PhaseOf(i) \in {"fresh", "open"}
          /\ PhaseOf(i)' = "fresh" => PhaseOf(i) = "fresh"
          /\ PhaseOf(i)' = "committed" => PhaseOf(i) = "committed"
      BY <2>1 DEF Quietly
    <2>3. CASE Untouched(w)
      BY <2>2, <2>3 DEF Records, ToldInside, Untouched
    <2>4. CASE Answered(w)
      BY <2>1, <2>4 DEF ToldInside, Answered
    <2>5. QED
      BY <2>3, <2>4
  <1>11. \A w \in Writes : ToldAlone(w)'
    BY DEF Records, ToldAlone, Untouched, Answered
  <1>12. Records'
    BY <1>1, <1>9, <1>10, <1>11 DEF Records
  <1>13. QED
    BY <1>7, <1>8, <1>12 DEF Goes

\* The record of a write in a step of the handle id.
Worked(w, id) ==
    \/ told'[w] = told[w]
    \/ told[w].out = "none" /\ told'[w].by = id /\ told'[w].out # "none"
    \/ told[w] = [out |-> "done", by |-> id] /\ told'[w] = [out |-> "undone", by |-> id]

\* A step of work in the open handle.
LEMMA WorkGoes ==
    ASSUME Records, Typed, Typed', durable' = durable,
           NEW id \in Ids, Holds(primary, id),
           primary.handle.due => primary'.handle = primary.handle,
           primary' \in Works(primary, DoneIn(id)'),
           \A w \in Writes : Worked(w, id)
    PROVE  Goes
  <1>1. /\ primary.handle # None /\ primary.handle.id = id
        /\ primary \in SoundPrimary /\ id # None
    BY NoneAssumption DEF Holds, Records
  <1> DEFINE D == DoneIn(id)'
  <1>2. primary' \in Works(primary, D)
    OBVIOUS
  <1> HIDE DEF D
  <1>3. /\ primary' \in SoundPrimary
        /\ primary'.handle # None /\ primary'.handle.id = id /\ primary'.handle.done = D
        /\ \A i \in Ids : PhaseOf(i)' = PhaseOf(i)
    BY <1>1, <1>2, PhaseWorks, PhaseIs
  <1>4. PhaseOf(id) = "open"
    BY DEF PhaseOf
  <1>5. ASSUME NEW w \in Writes
        PROVE  ToldAlone(w)'
    <2>1. told[w].by = id => w \notin durable
      BY <1>1, <1>4 DEF Records, ToldInside
    <2>2. QED
      BY <1>1, <2>1 DEF Worked, Records, ToldAlone
  <1>6. ASSUME NEW w \in Writes, NEW i \in Ids
        PROVE  ToldInside(w, i)'
    <2>1. CASE told'[w] = told[w]
      BY <1>3, <2>1 DEF Records, ToldInside
    <2>2. CASE told[w].out = "none" /\ told'[w].by = id
      BY <1>3, <1>4, <2>2 DEF Records, ToldInside, ToldAlone
    <2>3. CASE told[w] = [out |-> "done", by |-> id] /\ told'[w] = [out |-> "undone", by |-> id]
      BY <1>3, <1>4, <2>3 DEF Records, ToldInside, ToldAlone
    <2>4. QED
      BY <2>1, <2>2, <2>3 DEF Worked
  <1>7. ASSUME NEW i \in Ids
        PROVE  HeldIsDone(i)'
    BY <1>3 DEF HeldIsDone, Holds, D
  <1>8. ASSUME NEW i \in Ids
        PROVE  Promised!Step(i)
    <2>1. i # None
      BY NoneAssumption
    <2>2. /\ DoneIn(i)' \subseteq IssuedIn(i)'
          /\ \A w \in durable' : w \in IssuedIn(i)' => w \in IssuedIn(i)
      BY <2>1 DEF DoneIn, IssuedIn, Worked, Records, ToldAlone, Typed
    <2>3. CASE i = id
      <3>1. (DoneIn(i) \cup DoneIn(i)') \cap durable' = {}
        <4>1. \A w \in Writes : told[w].by = id => w \notin durable
          BY <1>1, <1>4 DEF Records, ToldInside
        <4>2. \A w \in Writes : told'[w].by = id => w \notin durable'
          BY <4>1, <1>1 DEF Worked, Records, ToldAlone
        <4>3. QED
          BY <2>3, <4>1, <4>2 DEF DoneIn
      <3>2. PhaseOf(i) = "open" /\ PhaseOf(i)' = "open"
        BY <1>3, <1>4, <2>3
      <3>3. QED
        BY <2>2, <3>1, <3>2, PromiseKept
    <2>4. CASE i # id
      <3>1. \A w \in Writes : w \in DoneIn(i)' <=> w \in DoneIn(i)
        BY <2>1, <2>4 DEF DoneIn, Worked, Records, ToldAlone
      <3>2. DoneIn(i)' = DoneIn(i)
        BY <3>1 DEF DoneIn
      <3>3. PhaseOf(i) = "open" => DoneIn(i) \cap durable' = {}
        BY DEF Records, ToldInside, DoneIn
      <3>4. Quietly(PhaseOf(i), PhaseOf(i)')
        BY <1>3 DEF Quietly
      <3>5. QED
        BY <2>2, <3>2, <3>3, <3>4, PromiseKept
    <2>5. QED
      BY <2>3, <2>4
  <1>9. Promised!Next
    BY <1>8 DEF Promised!Next
  <1>10. DueStep
    BY DEF DueStep
  <1>11. QED
    BY <1>3, <1>5, <1>6, <1>7, <1>9, <1>10 DEF Goes, Records

\* The step that ends the open handle on commit or rollback.
LEMMA CloseGoes ==
    ASSUME Records, Typed, Typed', told' = told,
           NEW id \in Ids, Active(primary, id), NEW r \in Closes(primary),
           primary' = r.st, durable' = durable \cup r.kept
    PROVE  Goes
  <1>1. /\ primary.handle # None /\ primary.handle.id = id /\ ~primary.handle.due
        /\ primary \in SoundPrimary /\ id # None /\ Holds(primary, id)
        /\ primary.handle.done = DoneIn(id)
    BY NoneAssumption DEF Active, Holds, Records, HeldIsDone
  <1>2. /\ primary' \in SoundPrimary /\ primary'.handle = None
        /\ PhaseOf(id) = "open"
        /\ \/ PhaseOf(id)' = "committed" /\ r.kept = DoneIn(id)
           \/ PhaseOf(id)' = "rolled_back" /\ r.kept = {}
           \/ PhaseOf(id)' = "lost" /\ r.kept \in {{}, DoneIn(id)}
        /\ \A i \in Ids : i # id => Quietly(PhaseOf(i), PhaseOf(i)')
    BY <1>1, PhaseCloses, PhaseIs
  <1>3. \A w \in Writes : told[w].by = id => w \notin durable
    BY <1>1, <1>2 DEF Records, ToldInside
  <1>4. \A w \in r.kept : told[w] = [out |-> "done", by |-> id]
    BY <1>2 DEF DoneIn
  <1>5. ASSUME NEW w \in Writes
        PROVE  ToldAlone(w)'
    BY <1>1, <1>4 DEF Records, ToldAlone
  <1>6. ASSUME NEW w \in Writes, NEW i \in Ids
        PROVE  ToldInside(w, i)'
    <2>1. CASE i = id
      BY <1>2, <1>3, <1>4, <2>1 DEF ToldInside, DoneIn, Typed, ToldType
    <2>2. CASE i # id
      <3>1. /\ PhaseOf(i)' \in {"fresh", "open"} => PhaseOf(i) \in {"fresh", "open"}
            /\ PhaseOf(i)' = "fresh" => PhaseOf(i) = "fresh"
            /\ PhaseOf(i)' = "committed" => PhaseOf(i) = "committed"
        BY <1>2, <2>2 DEF Quietly
      <3>2. told[w].by = i => (w \in durable' <=> w \in durable)
        BY <1>4, <2>2
      <3>3. ToldInside(w, i)
        BY DEF Records
      <3>4. QED
        BY <3>1, <3>2, <3>3 DEF ToldInside
    <2>3. QED
      BY <2>1, <2>2
  <1>7. ASSUME NEW i \in Ids
        PROVE  HeldIsDone(i)'
    BY <1>2 DEF HeldIsDone, Holds
  <1>8. ASSUME NEW i \in Ids
        PROVE  Promised!Step(i)
    <2>1. /\ DoneIn(i)' = DoneIn(i) /\ IssuedIn(i)' = IssuedIn(i)
          /\ DoneIn(i) \subseteq IssuedIn(i)
      BY DEF DoneIn, IssuedIn
    <2>2. i # id => \A w \in durable' : w \in IssuedIn(i)' => w \in durable
      BY <1>4 DEF IssuedIn
    <2>3. PhaseOf(i) = "open" => DoneIn(i) \cap durable = {}
      BY DEF Records, ToldInside, DoneIn
    <2>4. CASE i = id /\ PhaseOf(id)' \in {"committed", "lost"} /\ r.kept = DoneIn(id)
      <3>1. {w \in durable' \ durable : w \in IssuedIn(i)'} = DoneIn(i)
        BY <2>1, <2>3, <2>4, <1>2, <1>3 DEF IssuedIn, DoneIn, Typed
      <3>2. QED
        BY <1>2, <2>1, <2>4, <3>1, PromiseKept
    <2>5. CASE i = id /\ PhaseOf(id)' \in {"rolled_back", "lost"} /\ r.kept = {}
      <3>1. Quietly(PhaseOf(i), PhaseOf(i)') /\ durable' = durable
        BY <1>2, <2>5 DEF Quietly
      <3>2. QED
        BY <2>1, <2>3, <3>1, PromiseKept
    <2>6. CASE i # id
      <3>1. PhaseOf(i) = "open" => DoneIn(i) \cap durable' = {}
        BY <2>1, <2>2, <2>3, <2>6
      <3>2. QED
        BY <1>2, <2>1, <2>2, <2>6, <3>1, PromiseKept
    <2>7. QED
      BY <1>2, <2>4, <2>5, <2>6
  <1>9. Promised!Next
    BY <1>8 DEF Promised!Next
  <1>10. DueStep
    BY <1>1 DEF DueStep
  <1>11. QED
    BY <1>2, <1>5, <1>6, <1>7, <1>9, <1>10 DEF Goes, Records

-------------------------------------------------------------------------------
(* Writes on their way to the second connection                            *)

Running == [out |-> "running", by |-> None]

\* A call that goes on with its write has the write to itself.
OnTheirWay ==
    \A t \in Tasks : pc[t][1] \in WriteStages =>
        /\ told[pc[t][2]] = Running
        /\ \A u \in Tasks \ {t} : pc[u][1] \in WriteStages => pc[u][2] # pc[t][2]

\* The invariant: the engine in order, its records true, and every write that
\* has gone on still on its way.
HistoryInv == EngineInv /\ Records /\ OnTheirWay

\* What has to be shown of every action.
Lawful == Goes /\ OnTheirWay'

\* A call that stays leaves the others on their way.
LEMMA WayKept ==
    ASSUME PlacesOK, OnTheirWay, pc' = pc,
           \A v \in Writes : told[v] = Running => told'[v] = told[v]
    PROVE  OnTheirWay'
  BY DEF OnTheirWay, PlacesOK

\* So does one that goes on without a write, or ends.
LEMMA WayLeft ==
    ASSUME PlacesOK, OnTheirWay, NEW t \in Tasks \cup {Sweeper}, NEW stage, NEW arg,
           stage \notin WriteStages, Goto(t, stage, arg),
           \A v \in Writes : told[v] = Running =>
               \/ told'[v] = told[v]
               \/ t \in Tasks /\ pc[t][1] \in WriteStages /\ v = pc[t][2]
    PROVE  OnTheirWay'
  <1>1. ASSUME NEW u \in Tasks, pc'[u][1] \in WriteStages
        PROVE  u # t /\ pc'[u] = pc[u] /\ pc[u][2] \in Writes
    BY <1>1 DEF Goto, PlacesOK
  <1>2. QED
    BY <1>1 DEF OnTheirWay

\* One that goes on with a write takes it along.
LEMMA WayTaken ==
    ASSUME PlacesOK, OnTheirWay, NEW t \in Tasks, NEW stage, NEW w \in Writes,
           Goto(t, stage, w), told[w] # Running, told'[w] = Running,
           \A v \in Writes : v # w => told'[v] = told[v]
    PROVE  OnTheirWay'
  <1>1. pc'[t] = << stage, w >> /\ \A u \in Tasks : u # t => pc'[u] = pc[u]
    BY DEF Goto, PlacesOK
  <1>2. \A u \in Tasks : pc[u][1] \in WriteStages =>
            told[pc[u][2]] = Running /\ pc[u][2] \in Writes /\ pc[u][2] # w
    BY DEF OnTheirWay, PlacesOK
  <1>3. QED
    BY <1>1, <1>2 DEF OnTheirWay

-------------------------------------------------------------------------------
(* The forms of an action                                                  *)

\* What the invariant says of the types, before a step and after it.
LEMMA HistoryTypes ==
    ASSUME HistoryInv, EngineInv'
    PROVE  /\ Records /\ Typed /\ Typed' /\ PlacesOK /\ OnTheirWay
           /\ primary \in SoundPrimary /\ primary \in GoodPrimary
           /\ secondary \in LaneSlot
  BY DEF HistoryInv, EngineInv, Typed, Records, SoundPrimary

\* An action that answers no write.
LEMMA SilentGoes ==
    ASSUME HistoryInv, EngineInv', primary' \in Idles(primary) \cup Opens(primary),
           told' = told, durable' = durable
    PROVE  Goes
  BY HistoryTypes, QuietGoes DEF Untouched

\* An action that ends on the primary and does no work.
LEMMA EndsHereLawful ==
    ASSUME HistoryInv, EngineInv', ~stranded', NEW R, EndsHere(R),
           R \subseteq OrStranded(Replies(Idles(primary) \cup Opens(primary)))
    PROVE  Lawful
  <1>0. PICK r \in R : primary' = r.st /\ Strands(r)
    BY DEF EndsHere
  <1>1. Goes
    BY <1>0, NotStranded, SilentGoes DEF EndsHere, Replies
  <1>2. OnTheirWay'
    BY HistoryTypes, WayKept DEF EndsHere
  <1>3. QED
    BY <1>1, <1>2 DEF Lawful

\* One that may go on without a write.
LEMMA MayGoOnLawful ==
    ASSUME HistoryInv, EngineInv', ~stranded', NEW t \in Tasks, NEW R, NEW stage, NEW arg,
           stage \notin WriteStages, MayGoOn(t, R, stage, arg),
           R \subseteq OrStranded(Replies(Idles(primary)))
    PROVE  Lawful
  <1>0. PICK r \in R : primary' = r.st /\ Strands(r)
    BY DEF MayGoOn
  <1>1. Goes
    BY <1>0, NotStranded, SilentGoes DEF MayGoOn, Replies
  <1>2. OnTheirWay'
    BY HistoryTypes, WayKept, WayLeft DEF MayGoOn
  <1>3. QED
    BY <1>1, <1>2 DEF Lawful

\* One on the second connection that answers no write.
LEMMA OnTheSecondLawful ==
    ASSUME HistoryInv, EngineInv', NEW t \in Tasks \cup {Sweeper}, NEW stage, NEW R,
           OnTheSecond(t, stage, R)
    PROVE  Lawful
  <1>1. Goes
    BY SilentGoes, HistoryTypes, IdleSteps DEF OnTheSecond
  <1>2. OnTheirWay'
    BY HistoryTypes, WayLeft DEF OnTheSecond, Finished, WriteStages
  <1>3. QED
    BY <1>1, <1>2 DEF Lawful

\* What a caller is told of its own write, and of no other.
LEMMA TellTells ==
    ASSUME told \in ToldType, NEW w \in Writes, NEW id, NEW out, Tell(w, id, out)
    PROVE  /\ told'[w] = IF out = "refused" THEN [out |-> "none", by |-> None]
                         ELSE [out |-> AnswerOf(out), by |-> id]
           /\ \A v \in Writes : v # w => told'[v] = told[v]
           /\ AnswerOf(out) = "done" <=> out = "ok"
           /\ AnswerOf(out) = "running" <=> out = "second"
           /\ AnswerOf(out) = "none" <=> out = "refused"
           /\ AnswerOf(out) # "undone"
  BY DEF Tell, ToldType, AnswerOf

\* A write outside a handle, here or on the second connection.
LEMMA LoneAnswer ==
    ASSUME HistoryInv, EngineInv', NEW w \in Writes, NEW S, NEW r, r \in Lone(S, w),
           told[w].by = None, told[w].out \in {"none", "running"},
           Tell(w, None, r.out), durable' = durable \cup r.kept
    PROVE  \A v \in Writes : Untouched(v) \/ Answered(v)
  <1>1. told \in ToldType /\ w \notin durable
    BY HistoryTypes DEF Typed, Records, ToldAlone
  <1>2. /\ r.kept = {} \/ r.kept = {w}
        /\ r.out = "ok" => r.kept = {w}
        /\ r.out \in {"second", "refused"} => r.kept = {}
    BY DEF Lone
  <1>3. /\ told'[w] = IF r.out = "refused" THEN [out |-> "none", by |-> None]
                      ELSE [out |-> AnswerOf(r.out), by |-> None]
        /\ \A v \in Writes : v # w => told'[v] = told[v]
        /\ AnswerOf(r.out) = "done" <=> r.out = "ok"
        /\ AnswerOf(r.out) = "running" <=> r.out = "second"
        /\ AnswerOf(r.out) = "none" <=> r.out = "refused"
        /\ AnswerOf(r.out) # "undone"
    BY <1>1, TellTells
  <1>4. \A v \in Writes : v # w => Untouched(v)
    BY <1>2, <1>3 DEF Untouched
  <1>5. Answered(w)
    BY <1>1, <1>2, <1>3 DEF Answered
  <1>6. QED
    BY <1>4, <1>5

\* An action that writes outside a handle.
LEMMA WritingAloneLawful ==
    ASSUME HistoryInv, EngineInv', ~stranded', NEW t \in Tasks, NEW w \in Unissued, NEW R, NEW stage,
           R \subseteq OrStranded(Lone(Idles(primary), w)), Writing(t, w, None, R, stage),
           stage \in WriteStages \/ \A r \in R : r.out # "second"
    PROVE  Lawful
  <1>1. PICK r \in R : /\ primary' = r.st /\ Strands(r)
                       /\ durable' = durable \cup r.kept
                       /\ Tell(w, None, r.out)
                       /\ IF r.out = "second" THEN Goto(t, stage, w) ELSE UNCHANGED pc
    BY DEF Writing
  <1>2. /\ w \in Writes /\ told[w].out = "none" /\ told[w].by = None
        /\ told \in ToldType /\ told[w] # Running
    BY HistoryTypes DEF Unissued, Records, ToldAlone, Typed, Running
  <1>3. r \in Lone(Idles(primary), w) /\ r.st \in Idles(primary)
    BY <1>1, NotStranded DEF Lone, Replies
  <1>4. Goes
    BY <1>1, <1>2, <1>3, LoneAnswer, HistoryTypes, QuietGoes
  <1>5. OnTheirWay'
    <2>1. /\ r.out = "second" => told'[w] = Running
          /\ \A v \in Writes : v # w => told'[v] = told[v]
      <3>1. /\ told'[w] = IF r.out = "refused" THEN [out |-> "none", by |-> None]
                          ELSE [out |-> AnswerOf(r.out), by |-> None]
            /\ \A v \in Writes : v # w => told'[v] = told[v]
            /\ AnswerOf(r.out) = "running" <=> r.out = "second"
        BY <1>1, <1>2, TellTells
      <3>2. QED
        BY <3>1 DEF Running
    <2>2. CASE r.out = "second"
      BY <1>1, <1>2, <2>1, <2>2, HistoryTypes, WayTaken
    <2>3. CASE r.out # "second"
      BY <1>1, <1>2, <2>1, <2>3, HistoryTypes, WayKept
    <2>4. QED
      BY <2>2, <2>3
  <1>6. QED
    BY <1>4, <1>5 DEF Lawful

\* An action that does work in a handle goes by the law that suits its reply.
LEMMA InHandleGoes ==
    ASSUME HistoryInv, EngineInv', NEW id \in Ids, NEW D, NEW r \in InHandle(primary, id, D),
           primary' = r.st, durable' = durable,
           r.out # "ok" => \A v \in Writes : Untouched(v) \/ Answered(v),
           Active(primary, id) =>
               /\ \A v \in Writes : Worked(v, id)
               /\ DoneIn(id)' = IF r.out = "ok" THEN D ELSE DoneIn(id)
    PROVE  Goes
  <1>1. CASE r.out # "ok" /\ r.st \in Idles(primary)
    BY <1>1, HistoryTypes, QuietGoes
  <1>2. CASE /\ Active(primary, id)
             /\ r.st \in Works(primary, IF r.out = "ok" THEN D ELSE primary.handle.done)
    <2>1. Holds(primary, id) /\ ~primary.handle.due /\ primary.handle.done = DoneIn(id)
      BY <1>2, HistoryTypes DEF Active, Holds, Records, HeldIsDone
    <2>2. primary' \in Works(primary, DoneIn(id)')
      BY <1>2, <2>1
    <2>3. QED
      BY <1>2, <2>1, <2>2, HistoryTypes, WorkGoes
  <1>3. QED
    BY <1>1, <1>2 DEF InHandle

\* A write in a handle (run_write and copy_in with one).
LEMMA WritingInsideLawful ==
    ASSUME HistoryInv, EngineInv', ~stranded', NEW t \in Tasks, NEW id \in Ids,
           NEW w \in Unissued, NEW R,
           R \subseteq OrStranded(InHandle(primary, id, primary.handle.done \cup {w})),
           Writing(t, w, id, R, "idle")
    PROVE  Lawful
  <1>1. PICK r \in R : /\ primary' = r.st /\ Strands(r)
                       /\ durable' = durable \cup r.kept
                       /\ Tell(w, id, r.out)
                       /\ IF r.out = "second" THEN Goto(t, "idle", w) ELSE UNCHANGED pc
    BY DEF Writing
  <1>2. /\ w \in Writes /\ told[w].out = "none" /\ told[w].by = None /\ w \notin durable
        /\ told \in ToldType /\ told[w] # Running /\ id # None
    BY HistoryTypes, NoneAssumption DEF Unissued, Records, ToldAlone, Typed, Running
  <1>3. r \in InHandle(primary, id, primary.handle.done \cup {w}) /\ durable' = durable
    BY <1>1, NotStranded DEF InHandle, Bare
  <1>4. /\ told'[w] = IF r.out = "refused" THEN [out |-> "none", by |-> None]
                      ELSE [out |-> AnswerOf(r.out), by |-> id]
        /\ \A v \in Writes : v # w => told'[v] = told[v]
        /\ AnswerOf(r.out) = "done" <=> r.out = "ok"
        /\ AnswerOf(r.out) = "none" <=> r.out = "refused"
    BY <1>1, <1>2, TellTells
  <1>5. r.out # "ok" => \A v \in Writes : Untouched(v) \/ Answered(v)
    <2>1. \A v \in Writes : v # w => Untouched(v)
      BY <1>3, <1>4 DEF Untouched
    <2>2. r.out # "ok" => Answered(w)
      BY <1>2, <1>3, <1>4 DEF Answered
    <2>3. QED
      BY <2>1, <2>2
  <1>6. ASSUME Active(primary, id)
        PROVE  /\ \A v \in Writes : Worked(v, id)
               /\ DoneIn(id)' = IF r.out = "ok" THEN primary.handle.done \cup {w} ELSE DoneIn(id)
    <2>1. primary.handle.done = DoneIn(id)
      BY <1>6, HistoryTypes DEF Active, Holds, Records, HeldIsDone
    <2>2. told[w] = [out |-> "none", by |-> None]
      BY <1>2 DEF ToldType
    <2>3. \A v \in Writes : Worked(v, id)
      BY <1>4, <2>2 DEF Worked
    <2>4. \A v \in Writes : v # w => (v \in DoneIn(id)' <=> v \in DoneIn(id))
      BY <1>4 DEF DoneIn
    <2>5. w \in DoneIn(id)' <=> r.out = "ok"
      BY <1>2, <1>4 DEF DoneIn
    <2>6. w \notin DoneIn(id)
      BY <2>2 DEF DoneIn
    <2>7. DoneIn(id)' \subseteq Writes /\ DoneIn(id) \subseteq Writes
      BY DEF DoneIn
    <2>8. QED
      BY <1>2, <2>1, <2>3, <2>4, <2>5, <2>6, <2>7
  <1>7. Goes
    BY <1>1, <1>3, <1>5, <1>6, InHandleGoes
  <1>8. OnTheirWay'
    BY <1>1, <1>2, <1>4, HistoryTypes, WayKept, WayLeft DEF WriteStages
  <1>9. QED
    BY <1>7, <1>8 DEF Lawful

\* set_savepoint.
LEMMA MarkLawful ==
    ASSUME HistoryInv, EngineInv', NEW t \in Tasks, NEW id \in Ids, NEW name \in Names,
           Mark(t, id, name)
    PROVE  Lawful
  <1> DEFINE R == Then(ForHandle(primary, id), LAMBDA p : SetSavepoint(p, name))
  <1>1. R \subseteq InHandle(primary, id, primary.handle.done)
    BY HistoryTypes, WorksInHandle
  <1>2. EndsHere(R)
    BY DEF Mark
  <1> HIDE DEF R
  <1>3. PICK r \in InHandle(primary, id, primary.handle.done) : primary' = r.st
    BY <1>1, <1>2 DEF EndsHere
  <1>4. told' = told /\ durable' = durable /\ pc' = pc
    BY <1>2 DEF EndsHere
  <1>5. DoneIn(id)' = DoneIn(id)
    BY <1>4 DEF DoneIn
  <1>6. Active(primary, id) => primary.handle.done = DoneIn(id)
    BY HistoryTypes DEF Active, Holds, Records, HeldIsDone
  <1>7. Goes
    BY <1>3, <1>4, <1>5, <1>6, InHandleGoes DEF Untouched, Worked
  <1>8. OnTheirWay'
    BY <1>4, HistoryTypes, WayKept
  <1>9. QED
    BY <1>7, <1>8 DEF Lawful

\* rollback_to: what it undoes on the server is undone for the caller.
LEMMA RollbackToLawful ==
    ASSUME SAVEPOINT_NAME \notin Names,
           HistoryInv, EngineInv', NEW t \in Tasks, NEW id \in Ids, NEW name \in Names,
           RollbackTo(t, id, name)
    PROVE  Lawful
  <1>1. PICK r \in Then(ForHandle(primary, id), LAMBDA p : UndoTo(p, name)) :
           /\ primary' = r.st
           /\ told' = [w \in Writes |->
                         IF r.out = "ok" /\ told[w].by = id
                            /\ w \in primary.handle.done \ r.st.handle.done
                         THEN [told[w] EXCEPT !.out = "undone"] ELSE told[w]]
    BY DEF RollbackTo
  <1>2. durable' = durable /\ pc' = pc /\ told \in ToldType
    BY HistoryTypes DEF RollbackTo, Typed
  <1>3. PICK D : /\ Active(primary, id) => D \in SUBSET primary.handle.done
                 /\ r \in InHandle(primary, id, D)
    BY <1>1, HistoryTypes, UndoesInHandle
  <1>4. r.out # "ok" => \A v \in Writes : told'[v] = told[v]
    BY <1>1
  <1>5. ASSUME Active(primary, id)
        PROVE  /\ \A v \in Writes : Worked(v, id)
               /\ DoneIn(id)' = IF r.out = "ok" THEN D ELSE DoneIn(id)
    <2>1. primary.handle.done = DoneIn(id)
      BY <1>5, HistoryTypes DEF Active, Holds, Records, HeldIsDone
    <2>2. \A v \in Writes : v \in DoneIn(id) =>
              [told[v] EXCEPT !.out = "undone"] = [out |-> "undone", by |-> id]
      BY DEF DoneIn
    <2>3. \A v \in Writes : Worked(v, id)
      BY <1>1, <2>1, <2>2 DEF Worked, DoneIn
    <2>4. CASE r.out = "ok"
      <3>1. r.st.handle.done = D
        BY <1>3, <1>5, <2>4 DEF InHandle, Works
      <3>2. \A v \in Writes : v \in DoneIn(id)' <=> v \in D
        <4>1. ASSUME NEW v \in Writes
              PROVE  v \in DoneIn(id)' <=> v \in D
          <5>1. CASE v \in DoneIn(id) /\ v \notin D
            BY <1>1, <2>1, <2>2, <2>4, <3>1, <5>1 DEF DoneIn
          <5>2. CASE v \in D
            BY <1>1, <1>3, <1>5, <2>1, <2>4, <3>1, <5>2 DEF DoneIn
          <5>3. CASE v \notin DoneIn(id)
            BY <1>1, <1>3, <1>5, <2>1, <5>3 DEF DoneIn
          <5>4. QED
            BY <5>1, <5>2, <5>3
        <4>2. QED
          BY <4>1
      <3>3. DoneIn(id)' \subseteq Writes /\ D \subseteq Writes
        BY <1>3, <1>5, <2>1 DEF DoneIn
      <3>4. QED
        BY <2>3, <2>4, <3>2, <3>3
    <2>5. CASE r.out # "ok"
      <3>1. DoneIn(id)' = DoneIn(id)
        BY <1>4, <2>5 DEF DoneIn
      <3>2. QED
        BY <2>3, <2>5, <3>1
    <2>6. QED
      BY <2>4, <2>5
  <1>6. r.out # "ok" => \A v \in Writes : Untouched(v)
    BY <1>2, <1>4 DEF Untouched
  <1>7. Goes
    BY <1>1, <1>2, <1>3, <1>5, <1>6, InHandleGoes
  <1>8. \A v \in Writes : told[v] = Running => told'[v] = told[v]
    BY <1>1, NoneAssumption DEF Running
  <1>9. OnTheirWay'
    BY <1>2, <1>8, HistoryTypes, WayKept
  <1>10. QED
    BY <1>7, <1>9 DEF Lawful

\* commit and rollback.
LEMMA FinishTransactionLawful ==
    ASSUME HistoryInv, EngineInv', NEW t \in Tasks, NEW id \in Ids,
           NEW statement \in {"COMMIT", "ROLLBACK"}, NEW state \in {"committed", "rolled_back"},
           statement = "COMMIT" <=> state = "committed",
           FinishTransaction(t, id, statement, state)
    PROVE  Lawful
  <1>1. PICK r \in Then(ForHandle(primary, id), LAMBDA p : FinishOrRefuse(p, statement, state)) :
          /\ primary' = r.st
          /\ durable' = durable \cup r.kept
          /\ IF r.out = "finished" THEN Goto(t, "drop", None) ELSE UNCHANGED pc
    BY DEF FinishTransaction
  <1>2. told' = told
    BY DEF FinishTransaction
  <1>3. r \in Bare(Idles(primary)) \/ (Active(primary, id) /\ r \in Closes(primary))
    <2>1. primary \in SoundPrimary
      BY HistoryTypes
    <2>2. QED
      BY ZenonT(60), <1>1, <2>1, FinishesHandle
  <1>4. Goes
    <2>1. CASE r \in Bare(Idles(primary))
      BY <1>1, <1>2, <2>1, SilentGoes DEF Bare
    <2>2. CASE Active(primary, id) /\ r \in Closes(primary)
      BY <1>1, <1>2, <2>2, HistoryTypes, CloseGoes
    <2>3. QED
      BY <1>3, <2>1, <2>2
  <1>5. OnTheirWay'
    BY <1>1, <1>2, HistoryTypes, WayKept, WayLeft DEF WriteStages
  <1>6. QED
    BY <1>4, <1>5 DEF Lawful

\* run_and_rollback: its write is answered as undone.
LEMMA DryRunLawful ==
    ASSUME HistoryInv, EngineInv', ~stranded', NEW t \in Tasks, NEW w \in Unissued,
           DryRun(t, w)
    PROVE  Lawful
  <1>1. /\ w \in Writes /\ told[w].out = "none" /\ told[w].by = None /\ w \notin durable
        /\ told \in ToldType /\ told[w] # Running
    BY HistoryTypes DEF Unissued, Records, ToldAlone, Typed, Running
  <1>2. PICK r \in RunAndRollback(primary, w) :
          /\ primary' = r.st /\ Strands(r)
          /\ durable' = durable \cup r.kept
          /\ told' = [told EXCEPT ![w] = [out |-> IF r.out = "second" THEN "running"
                                                  ELSE "undone", by |-> None]]
          /\ IF r.out = "second" THEN Goto(t, "dry_run", w) ELSE UNCHANGED pc
    BY DEF DryRun
  <1>3. r.st \in Idles(primary) /\ durable' = durable
    <2>1. r \in OrStranded(Bare(Idles(primary)))
      BY <1>1, <1>2, HistoryTypes, RunAndRollbackIdles
    <2>2. r \in Bare(Idles(primary))
      BY <1>2, <2>1, NotStranded
    <2>3. QED
      BY <1>2, <2>2 DEF Bare
  <1>4. /\ told'[w] = [out |-> IF r.out = "second" THEN "running" ELSE "undone", by |-> None]
        /\ \A v \in Writes : v # w => told'[v] = told[v]
    BY <1>1, <1>2 DEF ToldType
  <1>5. \A v \in Writes : Untouched(v) \/ Answered(v)
    BY <1>1, <1>3, <1>4 DEF Untouched, Answered
  <1>6. Goes
    BY <1>2, <1>3, <1>5, HistoryTypes, QuietGoes
  <1>7. OnTheirWay'
    <2>1. CASE r.out = "second"
      <3>1. told'[w] = Running
        BY <1>4, <2>1 DEF Running
      <3>2. QED
        BY <1>1, <1>2, <1>4, <2>1, <3>1, HistoryTypes, WayTaken
    <2>2. CASE r.out # "second"
      BY <1>1, <1>2, <1>4, <2>2, HistoryTypes, WayKept
    <2>3. QED
      BY <2>1, <2>2
  <1>8. QED
    BY <1>6, <1>7 DEF Lawful

\* Every call that holds the primary.
LEMMA PrimaryNextLawful ==
    ASSUME SAVEPOINT_NAME \notin Names, HistoryInv, EngineInv', ~stranded', NEW t \in Tasks, PrimaryNext(t)
    PROVE  Lawful
  <1>0. primary \in GoodPrimary /\ primary \in SoundPrimary
    BY HistoryTypes
  <1>1. CASE Begin(t)
    BY <1>0, <1>1, BeginTransactionOpens, EndsHereLawful DEF Begin
  <1>2. CASE Status(t)
    <2>1. TransactionStatus(primary) \subseteq Replies(Idles(primary) \cup Opens(primary))
      BY <1>0, TransactionStatusIdles DEF Bare, Replies, OrStranded
    <2>2. QED
      BY <1>2, <2>1, EndsHereLawful DEF Status, OrStranded
  <1>3. ASSUME NEW id \in Ids, Commit(t, id) \/ RollbackHandle(t, id)
        PROVE  Lawful
    BY <1>3, FinishTransactionLawful DEF Commit, RollbackHandle
  <1>4. ASSUME NEW id \in Ids, NEW name \in Names, Mark(t, id, name) \/ RollbackTo(t, id, name)
        PROVE  Lawful
    BY <1>4, MarkLawful, RollbackToLawful
  <1>5. ASSUME NEW id \in Ids, NEW w \in Unissued, WriteInHandle(t, id, w) \/ CopyIn(t, id, w)
        PROVE  Lawful
    <2>1. w \in Writes
      BY DEF Unissued
    <2>2. CASE WriteInHandle(t, id, w)
      <3> DEFINE R == Then(ForHandle(primary, id), LAMBDA p : RunGuarded(p, w))
      <3>1. R \subseteq InHandle(primary, id, primary.handle.done \cup {w})
        BY <1>0, <2>1, WorksInHandle
      <3>2. Writing(t, w, id, R, "idle")
        BY <2>2 DEF WriteInHandle
      <3> HIDE DEF R
      <3>3. QED
        BY <3>1, <3>2, WritingInsideLawful DEF OrStranded
    <2>3. CASE CopyIn(t, id, w)
      BY <1>0, <2>1, <2>3, CopyInHandleWorks, WritingInsideLawful DEF CopyIn
    <2>4. QED
      BY <1>5, <2>2, <2>3
  <1>6. ASSUME NEW w \in Unissued, NEW outside \in BOOLEAN, WriteAlone(t, w, outside)
        PROVE  Lawful
    <2> DEFINE stage == IF outside THEN "write_outside" ELSE "write"
               R == RunWriteAlone(primary, w, outside)
    <2>1. R \subseteq OrStranded(Lone(Idles(primary), w))
      BY <1>0, RunWriteAloneKeeps DEF Unissued
    <2>2. Writing(t, w, None, R, stage) /\ stage \in WriteStages
      BY <1>6 DEF WriteAlone, WriteStages
    <2> HIDE DEF stage, R
    <2>3. QED
      BY <2>1, <2>2, WritingAloneLawful
  <1>7. ASSUME NEW w \in Unissued, CopyInWithout(t, w)
        PROVE  Lawful
    BY <1>0, <1>7, CopyInAloneKeeps, WritingAloneLawful DEF CopyInWithout, Unissued
  <1>8. CASE Read(t)
    BY <1>0, <1>8, ReadsIdle, MayGoOnLawful DEF Read, WriteStages
  <1>9. CASE Catalog(t)
    BY <1>0, <1>9, ReadsIdle, MayGoOnLawful DEF Catalog, WriteStages
  <1>10. CASE ReadPage(t)
    <2>1. FreshCursors \subseteq Cursors \ primary.lane.cursors
      BY <1>0, PrimaryHasLane DEF FreshCursors
    <2>2. QED
      BY <1>0, <1>10, <2>1, ReadsIdle, MayGoOnLawful DEF ReadPage, WriteStages
  <1>11. ASSUME NEW k \in Cursors, Fetch(t, k) \/ CloseCursor(t, k)
         PROVE  Lawful
    BY <1>0, <1>11, FetchesIdle, MayGoOnLawful
    DEF Fetch, CloseCursor, WriteStages, OrStranded
  <1>12. CASE ReleaseEverything(t)
    <2>1. primary' \in Idles(primary)
      BY <1>0, <1>12, ReleasePrimaryIdles DEF ReleaseEverything
    <2>2. Goes
      BY <1>12, <2>1, SilentGoes DEF ReleaseEverything
    <2>3. OnTheirWay'
      BY <1>12, HistoryTypes, WayLeft DEF ReleaseEverything, WriteStages
    <2>4. QED
      BY <2>2, <2>3 DEF Lawful
  <1>13. QED
    BY <1>1, <1>2, <1>3, <1>4, <1>5, <1>6, <1>7, <1>8, <1>9, <1>10, <1>11, <1>12, DryRunLawful
    DEF PrimaryNext

\* Every call that holds the second connection.
LEMMA SecondNextLawful ==
    ASSUME HistoryInv, EngineInv', NEW t \in Tasks, SecondNext(t)
    PROVE  Lawful
  <1>1. ASSUME NEW stage \in {"write", "write_outside"}, WriteSecond(t, stage)
        PROVE  Lawful
    <2> DEFINE w == pc[t][2]
               outside == stage = "write_outside"
    <2>1. w \in Writes /\ outside \in BOOLEAN /\ told[w] = Running /\ pc[t][1] \in WriteStages
      BY <1>1, HistoryTypes DEF WriteSecond, OnTheirWay, PlacesOK, WriteStages
    <2>2. PICK r \in WriteOnSecondary(secondary, w, outside) :
             /\ secondary' = r.st
             /\ durable' = durable \cup r.kept
             /\ Tell(w, None, r.out)
      BY <1>1 DEF WriteSecond
    <2>3. r \in Lone(LaneSlot, w)
      BY <2>1, <2>2, HistoryTypes, SecondKeeps
    <2>4. primary' = primary /\ Goto(t, "idle", None)
      BY <1>1 DEF WriteSecond, Finished
    <2> HIDE DEF w, outside
    <2>5. \A v \in Writes : Untouched(v) \/ Answered(v)
      BY <2>1, <2>2, <2>3, LoneAnswer DEF Running
    <2>6. Goes
      BY <2>4, <2>5, HistoryTypes, IdleSteps, QuietGoes
    <2>7. \A v \in Writes : v # w => told'[v] = told[v]
      BY <2>1, <2>2, HistoryTypes, TellTells DEF Typed
    <2>8. OnTheirWay'
      BY <2>1, <2>4, <2>7, HistoryTypes, WayLeft DEF WriteStages, w
    <2>9. QED
      BY <2>6, <2>8 DEF Lawful
  <1>2. CASE DrySecond(t)
    <2> DEFINE w == pc[t][2]
    <2>1. w \in Writes /\ told[w] = Running /\ pc[t][1] \in WriteStages
      BY <1>2, HistoryTypes DEF DrySecond, OnTheirWay, PlacesOK, WriteStages
    <2>2. durable' = durable
      <3>1. PICK r \in DryRunOnSecondary(secondary, w) : durable' = durable \cup r.kept
        BY <1>2 DEF DrySecond
      <3>2. r \in Bare(LaneSlot)
        BY <2>1, <3>1, HistoryTypes, SecondKeeps
      <3>3. QED
        BY <3>1, <3>2 DEF Bare
    <2>3. primary' = primary /\ Goto(t, "idle", None)
      BY <1>2 DEF DrySecond, Finished
    <2>4. /\ told'[w] = [out |-> "undone", by |-> None]
          /\ \A v \in Writes : v # w => told'[v] = told[v]
      BY <1>2, <2>1, HistoryTypes DEF DrySecond, Typed, ToldType, Running
    <2>5. w \notin durable
      BY <2>1, HistoryTypes DEF Records, ToldAlone, Running
    <2> HIDE DEF w
    <2>6. \A v \in Writes : Untouched(v) \/ Answered(v)
      BY <2>1, <2>2, <2>4, <2>5 DEF Untouched, Answered, Running
    <2>7. Goes
      BY <2>3, <2>6, HistoryTypes, IdleSteps, QuietGoes
    <2>8. OnTheirWay'
      BY <2>1, <2>3, <2>4, HistoryTypes, WayLeft DEF WriteStages, w
    <2>9. QED
      BY <2>7, <2>8 DEF Lawful
  <1>3. CASE PageSecond(t)
    BY <1>3, OnTheSecondLawful DEF PageSecond
  <1>4. CASE ReadSecond(t) \/ CatalogSecond(t)
    BY <1>4, OnTheSecondLawful DEF ReadSecond, CatalogSecond
  <1>5. CASE FetchSecond(t)
    BY <1>5, OnTheSecondLawful DEF FetchSecond
  <1>6. CASE CloseSecond(t)
    BY <1>6, OnTheSecondLawful DEF CloseSecond
  <1>7. CASE DropSecond(t)
    BY <1>7, OnTheSecondLawful DEF DropSecond
  <1>8. CASE ReleaseSecond(t)
    BY <1>8, OnTheSecondLawful DEF ReleaseSecond
  <1>9. QED
    BY <1>1, <1>2, <1>3, <1>4, <1>5, <1>6, <1>7, <1>8 DEF SecondNext

\* The background sweep.
LEMMA SweepNextLawful ==
    ASSUME HistoryInv, EngineInv', SweepNext
    PROVE  Lawful
  <1>0. primary \in GoodPrimary
    BY HistoryTypes
  <1>1. CASE Sweep(Sweeper)
    <2>1. primary' \in Idles(primary)
      BY <1>0, <1>1, SweepPrimaryIdles DEF Sweep
    <2>2. Goes
      BY <1>1, <2>1, SilentGoes DEF Sweep
    <2>3. OnTheirWay'
      BY <1>1, HistoryTypes, WayLeft DEF Sweep, WriteStages
    <2>4. QED
      BY <2>2, <2>3 DEF Lawful
  <1>2. ASSUME NEW stage, SweepSecond(Sweeper, stage)
        PROVE  Lawful
    <2>1. Goes
      BY <1>0, <1>2, SilentGoes, IdleSteps DEF SweepSecond
    <2>2. OnTheirWay'
      BY <1>2, HistoryTypes, WayLeft DEF SweepSecond, Finished, WriteStages
    <2>3. QED
      BY <2>1, <2>2 DEF Lawful
  <1>3. CASE DropSecond(Sweeper)
    BY <1>3, OnTheSecondLawful DEF DropSecond
  <1>4. QED
    BY <1>1, <1>2, <1>3 DEF SweepNext

\* A lost connection or a passing deadline.
LEMMA EnvironmentLawful ==
    ASSUME HistoryInv, EngineInv', LosePrimary \/ LoseSecondary \/ DeadlinePasses
    PROVE  Lawful
  <1>0. primary \in GoodPrimary /\ primary \in SoundPrimary /\ primary' \in GoodPrimary
    BY HistoryTypes DEF EngineInv
  <1>1. told' = told /\ durable' = durable /\ pc' = pc
    BY DEF LosePrimary, LoseSecondary, DeadlinePasses
  <1>2. OnTheirWay'
    BY <1>1, HistoryTypes, WayKept
  <1>3. ASSUME primary.handle # None,
               primary' \in Works(primary, primary.handle.done),
               primary.handle.due => primary'.handle = primary.handle
        PROVE  Goes
    <2>1. PICK id \in Ids : id = primary.handle.id
      BY <1>0, <1>3, ActiveHandle
    <2>2. Holds(primary, id) /\ primary.handle.done = DoneIn(id)
      BY <1>3, <2>1, HistoryTypes DEF Holds, Records, HeldIsDone
    <2>3. DoneIn(id)' = DoneIn(id)
      BY <1>1 DEF DoneIn
    <2>4. QED
      BY <1>1, <1>3, <2>2, <2>3, HistoryTypes, WorkGoes DEF Worked
  <1>4. CASE LosePrimary /\ primary.handle = None
    <2>1. primary' \in Idles(primary)
      BY <1>0, <1>4 DEF LosePrimary, Idles, GoodPrimary, HeldPrimary, QuietPrimary, Primary
    <2>2. QED
      BY <1>1, <1>2, <2>1, SilentGoes DEF Lawful
  <1>5. CASE LosePrimary /\ primary.handle # None
    <2>1. /\ primary'.handle = primary.handle /\ primary'.closed = primary.closed
          /\ primary'.lane.s = Dead
      BY <1>0, <1>5 DEF LosePrimary, GoodPrimary, HeldPrimary, QuietPrimary, Primary, LaneType
    <2>2. PICK F \in Stacks : Stack(primary.handle, F)
      BY <1>0, <1>5, ActiveHandle
    <2>3. Dead \in Based("write", F)
      BY DeadStays DEF Based, Dead
    <2>4. Mirrors(primary.handle, Dead)
      BY <2>2, <2>3 DEF Mirrors
    <2>5. primary' \in Works(primary, primary.handle.done)
      BY <1>0, <1>5, <2>1, <2>4, ActiveHandle DEF Works, SoundPrimary
    <2>6. QED
      BY <1>2, <1>3, <1>5, <2>1, <2>5 DEF Lawful
  <1>6. CASE LoseSecondary
    BY <1>0, <1>1, <1>2, <1>6, SilentGoes, IdleSteps DEF Lawful, LoseSecondary
  <1>7. CASE DeadlinePasses
    <2> DEFINE h == [primary.handle EXCEPT !.due = TRUE]
    <2>1. primary.handle # None /\ ~primary.handle.due
      BY <1>7 DEF DeadlinePasses
    <2>2. /\ h \in WriteHandle /\ h.id = primary.handle.id
          /\ h.savepoints = primary.handle.savepoints /\ h.done = primary.handle.done
      BY <1>0, <2>1, ActiveHandle DEF WriteHandle
    <2>3. primary' = [primary EXCEPT !.handle = h]
      BY <1>7 DEF DeadlinePasses
    <2> HIDE DEF h
    <2>4. Mirrors(primary.handle, primary.lane.s)
      BY <1>0, <2>1 DEF SoundPrimary
    <2>5. Mirrors(h, primary.lane.s)
      BY <2>2, <2>4, StackSame
    <2>6. primary' \in Works(primary, primary.handle.done)
      BY <1>0, <2>1, <2>2, <2>3, <2>5, ActiveHandle, HandleGoesOn
    <2>7. QED
      BY <1>2, <1>3, <2>1, <2>6 DEF Lawful
  <1>8. QED
    BY <1>4, <1>5, <1>6, <1>7

\* Every step that strands no handle keeps the records true, and is lawful.
LEMMA HistoryStep ==
    ASSUME SAVEPOINT_NAME \notin Names, HistoryInv, ~stranded', Next
    PROVE  HistoryInv' /\ Goes
  <1>1. EngineInv'
    BY EngineInvNext DEF HistoryInv
  <1>2. Lawful
    BY <1>1, PrimaryNextLawful, SecondNextLawful, SweepNextLawful, EnvironmentLawful DEF Next
  <1>3. QED
    BY <1>1, <1>2 DEF Lawful, Goes, HistoryInv

\* An engine just started has true records.
LEMMA HistoryInit == Init => HistoryInv
  <1> SUFFICES ASSUME Init
               PROVE  HistoryInv
    OBVIOUS
  <1>1. EngineInv
    BY EngineInvInit
  <1>2. primary \in SoundPrimary
    BY <1>1 DEF EngineInv, SoundPrimary, Init
  <1>3. \A i \in Ids : HeldIsDone(i)
    BY DEF Init, HeldIsDone, Holds
  <1>4. \A w \in Writes : ToldAlone(w) /\ \A i \in Ids : ToldInside(w, i)
    BY DEF Init, ToldAlone, ToldInside
  <1>5. OnTheirWay
    BY DEF Init, OnTheirWay, WriteStages
  <1>6. QED
    BY <1>1, <1>2, <1>3, <1>4, <1>5 DEF HistoryInv, Records

\* Every step keeps the invariant of the history.
LEMMA HistoryNext ==
    ASSUME SAVEPOINT_NAME \notin Names, HistoryInv, ~stranded', [Next]_vars
    PROVE  HistoryInv'
  <1>1. CASE UNCHANGED vars
    <2>1. EngineInv'
      BY <1>1, EngineInvNext DEF HistoryInv
    <2>2. Records'
      BY <1>1 DEF vars, HistoryInv, Records, HeldIsDone, DoneIn, ToldAlone, ToldInside, PhaseOf
    <2>3. OnTheirWay'
      BY <1>1 DEF vars, HistoryInv, OnTheirWay
    <2>4. QED
      BY <2>1, <2>2, <2>3 DEF HistoryInv
  <1>2. CASE Next
    BY <1>2, HistoryStep
  <1>3. QED
    BY <1>1, <1>2

-------------------------------------------------------------------------------
(* Theorems, for every instance and every choice of faults.  What they say *)
(* holds until a handle is stranded, which only a stall can bring about.   *)

\* A handle once stranded stays so on record.
LEMMA StrandedStays ==
    ASSUME stranded \in BOOLEAN, [Next]_vars
    PROVE  stranded' \in BOOLEAN /\ (~stranded' => ~stranded)
  <1>1. \A t, R : EndsHere(R) => stranded' \in BOOLEAN /\ (~stranded' => ~stranded)
    BY DEF EndsHere, Strands
  <1>2. \A t, R, stage, arg :
            MayGoOn(t, R, stage, arg) => stranded' \in BOOLEAN /\ (~stranded' => ~stranded)
    BY DEF MayGoOn, Strands
  <1>3. \A t, w, id, R, stage :
            Writing(t, w, id, R, stage) => stranded' \in BOOLEAN /\ (~stranded' => ~stranded)
    BY DEF Writing, Strands
  <1>4. \A t, w : DryRun(t, w) => stranded' \in BOOLEAN /\ (~stranded' => ~stranded)
    BY DEF DryRun, Strands
  <1>5. ASSUME NEW t \in Tasks, PrimaryNext(t), ~(stranded' = stranded)
        PROVE  stranded' \in BOOLEAN /\ (~stranded' => ~stranded)
    BY <1>1, <1>2, <1>3, <1>4, <1>5
    DEF PrimaryNext, Begin, Status, Commit, RollbackHandle, FinishTransaction, Mark, RollbackTo,
        WriteInHandle, CopyIn, WriteAlone, CopyInWithout, Read, Catalog, ReadPage, Fetch,
        CloseCursor, ReleaseEverything
  <1>6. ASSUME NEW t \in Tasks, SecondNext(t)
        PROVE  stranded' = stranded
    BY <1>6 DEF SecondNext, ReadSecond, CatalogSecond, PageSecond, WriteSecond, DrySecond,
                FetchSecond, CloseSecond, DropSecond, ReleaseSecond, OnTheSecond
  <1>7. ASSUME SweepNext \/ LosePrimary \/ LoseSecondary \/ DeadlinePasses \/ UNCHANGED vars
        PROVE  stranded' = stranded
    BY <1>7 DEF SweepNext, Sweep, SweepSecond, DropSecond, OnTheSecond, LosePrimary,
                LoseSecondary, DeadlinePasses, vars
  <1>8. QED
    BY <1>5, <1>6, <1>7 DEF Next

\* It takes a stalled probe to strand one.
LEMMA StallStrands ==
    ASSUME EngineInv, ~stranded, [Next]_vars, stranded'
    PROVE  "stall" \in Faults
  <1>0. \A S, r : r \in OrStranded(Replies(S)) /\ Strands(r) => "stall" \in Faults
    BY StrandedReply DEF OrStranded, Strands, Replies, Outcomes
  <1>1. ASSUME NEW R, R \subseteq OrStranded(Replies(GoodPrimary)),
               \/ EndsHere(R)
               \/ \E t, stage, arg : MayGoOn(t, R, stage, arg)
               \/ \E t, w, id, stage : Writing(t, w, id, R, stage)
               \/ \E r \in R : Strands(r)
        PROVE  "stall" \in Faults
    BY <1>0, <1>1 DEF EndsHere, MayGoOn, Writing
  <1>2. primary \in GoodPrimary /\ Unissued \subseteq Writes
    BY DEF EngineInv, Unissued
  <1>3. ASSUME NEW R, R \subseteq Replies(GoodPrimary)
        PROVE  R \subseteq OrStranded(Replies(GoodPrimary))
    BY <1>3 DEF OrStranded
  <1>4. ASSUME NEW t \in Tasks, Begin(t) \/ Status(t)
        PROVE  "stall" \in Faults
    BY <1>1, <1>2, <1>3, <1>4, BeginTransactionGood, TransactionStatusGood DEF Begin, Status
  <1>5. ASSUME NEW t \in Tasks, NEW id \in Ids, NEW name \in Names, Mark(t, id, name)
        PROVE  "stall" \in Faults
    <2> DEFINE R == Then(ForHandle(primary, id), LAMBDA p : SetSavepoint(p, name))
    <2>1. R \subseteq Replies(GoodPrimary)
      BY <1>2, InHandleGood
    <2>2. EndsHere(R)
      BY <1>5 DEF Mark
    <2> HIDE DEF R
    <2>3. QED
      BY <1>1, <1>3, <2>1, <2>2
  <1>6. ASSUME NEW t \in Tasks, NEW id \in Ids, NEW w \in Unissued,
               WriteInHandle(t, id, w) \/ CopyIn(t, id, w)
        PROVE  "stall" \in Faults
    <2>1. CASE WriteInHandle(t, id, w)
      <3> DEFINE R == Then(ForHandle(primary, id), LAMBDA p : RunGuarded(p, w))
      <3>1. R \subseteq Replies(GoodPrimary)
        BY <1>2, InHandleGood
      <3>2. Writing(t, w, id, R, "idle")
        BY <2>1 DEF WriteInHandle
      <3> HIDE DEF R
      <3>3. QED
        BY <1>1, <1>3, <3>1, <3>2
    <2>2. CASE CopyIn(t, id, w)
      BY <1>1, <1>2, <2>2, CopyInHandleGood DEF CopyIn
    <2>3. QED
      BY <1>6, <2>1, <2>2
  <1>7. ASSUME NEW t \in Tasks, NEW w \in Unissued,
               \/ \E outside \in BOOLEAN : WriteAlone(t, w, outside)
               \/ CopyInWithout(t, w) \/ DryRun(t, w)
        PROVE  "stall" \in Faults
    BY <1>1, <1>2, <1>7, RunWriteAloneGood, CopyInAloneGood, RunAndRollbackGood
    DEF WriteAlone, CopyInWithout, DryRun
  <1>8. ASSUME NEW t \in Tasks, Read(t) \/ Catalog(t) \/ ReadPage(t)
        PROVE  "stall" \in Faults
    <2>1. FreshCursors \subseteq Cursors \ primary.lane.cursors
      BY <1>2, PrimaryHasLane DEF FreshCursors
    <2>2. QED
      BY <1>1, <1>2, <1>8, <2>1, ReadsGood DEF Read, Catalog, ReadPage
  <1>9. ASSUME NEW t \in Tasks, NEW k \in Cursors, Fetch(t, k) \/ CloseCursor(t, k)
        PROVE  "stall" \in Faults
    BY <1>1, <1>2, <1>3, <1>9, FetchHereStays, CloseHereStays, OnGoodPrimary DEF Fetch, CloseCursor
  <1>10. ASSUME NEW t \in Tasks,
                \/ \E id \in Ids : \/ Commit(t, id) \/ RollbackHandle(t, id)
                                   \/ \E name \in Names : RollbackTo(t, id, name)
                \/ ReleaseEverything(t) \/ SecondNext(t)
         PROVE  stranded' = stranded
    BY <1>10 DEF Commit, RollbackHandle, FinishTransaction, RollbackTo, ReleaseEverything,
                 SecondNext, ReadSecond, CatalogSecond, PageSecond, WriteSecond, DrySecond,
                 FetchSecond, CloseSecond, DropSecond, ReleaseSecond, OnTheSecond
  <1>11. ASSUME SweepNext \/ LosePrimary \/ LoseSecondary \/ DeadlinePasses \/ UNCHANGED vars
         PROVE  stranded' = stranded
    BY <1>11 DEF SweepNext, Sweep, SweepSecond, DropSecond, OnTheSecond, LosePrimary,
                 LoseSecondary, DeadlinePasses, vars
  <1>12. QED
    BY <1>4, <1>5, <1>6, <1>7, <1>8, <1>9, <1>10, <1>11 DEF Next, PrimaryNext

\* Every reachable state of the engine is in order, as long as no handle has
\* been stranded: the handle and the server's block go together, a
\* lane that believes in a read transaction has one or is lost, and no other
\* block is left open (begin_transaction, finish, lose, expire_write_handle and
\* every path of rollback_all and settle in engine.rs).
THEOREM EngineInvariant == Spec => [](stranded \in BOOLEAN /\ (~stranded => EngineInv))
  <1> DEFINE InOrder == stranded \in BOOLEAN /\ (~stranded => EngineInv)
  <1>1. Init => InOrder
    BY EngineInvInit DEF Init
  <1>2. InOrder /\ [Next]_vars => InOrder'
    BY StrandedStays, EngineInvNext
  <1>3. QED
    BY <1>1, <1>2, PTL DEF Spec

\* A handle is given up with its connection kept (ensure_alive in engine.rs) only
\* where the liveness probe of a live connection can time out.
THEOREM OnlyAStallStrands == ASSUME "stall" \notin Faults PROVE Spec => []~stranded
  <1>1. Init => ~stranded
    BY DEF Init
  <1>2. (~stranded => EngineInv) /\ ~stranded /\ [Next]_vars => ~stranded'
    BY StallStrands
  <1>3. QED
    BY <1>1, <1>2, EngineInvariant, PTL DEF Spec

\* Every state the engine reaches before a handle is stranded has its type.
THEOREM TypeCorrect == Spec => [](~stranded => TypeOK)
  <1>1. EngineInv /\ stranded \in BOOLEAN => TypeOK
    BY DEF EngineInv, LaneSlot, TypeOK, GoodPrimary, HeldPrimary, QuietPrimary, QuietLane, ReadingLane,
           RestingLane, ToldType, PlacesOK, PlaceType
  <1>2. QED
    BY <1>1, EngineInvariant, PTL

\* Before a handle is stranded, the primary never carries a write handle and a
\* read at once.
THEOREM HandleIsExclusive == Spec => [](~stranded => HandleExcludesReads)
  <1>1. EngineInv => HandleExcludesReads
    BY DEF EngineInv, HandleExcludesReads, GoodPrimary, HeldPrimary, QuietPrimary, HeldLane
  <1>2. QED
    BY <1>1, EngineInvariant, PTL

\* Every block a connection holds in working order is one the engine knows,
\* unless a handle was given up with its live connection kept.
THEOREM NoBlockIsOrphaned == Spec => []NoWorkingOrphan
  <1>1. (~stranded => EngineInv) => NoWorkingOrphan
    <2> SUFFICES ASSUME EngineInv
                 PROVE  NoWorkingOrphan
      BY DEF NoWorkingOrphan
    <2>1. Working(primary.lane.s) =>
              IF primary.handle # None THEN primary.lane.s.block = "write"
              ELSE primary.lane.inRead /\ primary.lane.s.block = "read"
      BY DEF EngineInv, GoodPrimary, HeldPrimary, QuietPrimary, HeldLane, QuietLane,
             ReadingLane, RestingLane, WriteBlock, Holding, Stays, Parked, Working
    <2>2. secondary # None => (Working(secondary.s) => secondary.inRead /\ secondary.s.block = "read")
      BY DEF EngineInv, LaneSlot, QuietLane, ReadingLane, RestingLane, Holding, Stays, Parked,
             Working
    <2>3. QED
      BY <2>1, <2>2 DEF NoWorkingOrphan
  <1>2. QED
    BY <1>1, EngineInvariant, PTL

\* Before a handle is stranded, while a read transaction works, its registered cursors are exactly those the
\* server has declared in it: a cursor is dropped in the step that closes it, in
\* which its page fails, or in which the whole transaction is lost, and a page is
\* never asked of a cursor the server no longer has (ReadTx.cursors, engine.rs).
THEOREM CursorsAreMirrored == Spec => [](~stranded => CursorsMirrorServer)
  <1>1. \A l \in HeldLane \cup QuietLane : Mirrored(l)
    <2>1. \A l \in HeldLane : Mirrored(l)
      BY DEF HeldLane, WriteBlock, Within, Mirrored
    <2>2. \A l \in ReadingLane : Mirrored(l)
      BY DEF ReadingLane, Holding, Mirrored
    <2>3. \A l \in RestingLane : Mirrored(l)
      BY DEF RestingLane, Parked, Mirrored
    <2>4. QED
      BY <2>1, <2>2, <2>3 DEF QuietLane
  <1>2. EngineInv => CursorsMirrorServer
    <2> SUFFICES ASSUME EngineInv
                 PROVE  CursorsMirrorServer
      OBVIOUS
    <2>1. primary.lane \in HeldLane \cup QuietLane
      BY DEF EngineInv, GoodPrimary, HeldPrimary, QuietPrimary
    <2>2. secondary = None \/ secondary \in QuietLane
      BY DEF EngineInv, LaneSlot
    <2>3. QED
      BY <1>1, <2>1, <2>2 DEF CursorsMirrorServer
  <1>3. QED
    BY <1>2, EngineInvariant, PTL

-------------------------------------------------------------------------------
(* Theorems about what callers were told.  They also suppose that no       *)
(* caller names its savepoints as the engine names its own: the checks on  *)
(* a name (validate_ident, render.rs) do not reserve ownpg_call.           *)

\* The records of the engine are true in every state reached before a handle is
\* stranded: the open handle mirrors the server's stack of savepoints and knows what its caller was told is
\* done, and each caller was told what the server has kept or can still decide.
THEOREM HistoryInvariant ==
    ASSUME SAVEPOINT_NAME \notin Names
    PROVE  Spec => [](~stranded => HistoryInv)
  <1>1. Init => (~stranded => HistoryInv)
    BY HistoryInit
  <1>2. (stranded \in BOOLEAN /\ (~stranded => HistoryInv)) /\ [Next]_vars => (~stranded => HistoryInv)'
    BY StrandedStays, HistoryNext
  <1>3. QED
    BY <1>1, <1>2, EngineInvariant, PTL DEF Spec

\* A write outside a handle that was answered as done is durable (run_write and
\* copy_in in engine.rs), here or on the second connection, unless a handle was
\* given up with its live connection kept, whose block takes such a write in.
THEOREM AcknowledgedAreDurable ==
    ASSUME SAVEPOINT_NAME \notin Names
    PROVE  Spec => []AcknowledgedWritesAreDurable
  <1>1. (~stranded => HistoryInv) => AcknowledgedWritesAreDurable
    BY DEF HistoryInv, Records, ToldAlone, AcknowledgedWritesAreDurable
  <1>2. QED
    BY <1>1, HistoryInvariant, PTL

\* run_and_rollback (engine.rs) changes nothing, however its call ends, before a
\* handle is stranded.
THEOREM DryRunsAreUndone ==
    ASSUME SAVEPOINT_NAME \notin Names
    PROVE  Spec => [](~stranded => DryRunsChangeNothing)
  <1>1. HistoryInv => DryRunsChangeNothing
    BY DEF HistoryInv, EngineInv, Records, ToldAlone, DryRunsChangeNothing
  <1>2. QED
    BY <1>1, HistoryInvariant, PTL

\* A commit (finish in engine.rs) keeps the statements its caller believes in,
\* those acknowledged and not undone by rollback_to, and no other, before a handle
\* is stranded.
THEOREM CommitsAreExact ==
    ASSUME SAVEPOINT_NAME \notin Names
    PROVE  Spec => [](~stranded => CommittedExactly)
  <1>1. ASSUME HistoryInv
        PROVE  CommittedExactly
    <2> SUFFICES ASSUME NEW w \in Writes, told[w].by # None,
                        primary.closed[told[w].by] = "committed"
                 PROVE  w \in durable <=> told[w].out = "done"
      BY DEF CommittedExactly
    <2>1. PICK i \in Ids : i = told[w].by
      BY <1>1 DEF HistoryInv, EngineInv, ToldType
    <2>2. ~Holds(primary, i)
      BY <1>1, <2>1 DEF HistoryInv, Records, SoundPrimary, Holds
    <2>3. PhaseOf(i) = "committed"
      BY <2>1, <2>2 DEF PhaseOf
    <2>4. ToldInside(w, i)
      BY <1>1 DEF HistoryInv, Records
    <2>5. QED
      BY <2>1, <2>3, <2>4 DEF ToldInside
  <1>2. HistoryInv => CommittedExactly
    BY <1>1
  <1>3. QED
    BY <1>2, HistoryInvariant, PTL

\* Before a handle is stranded, rollback_to (undo_to in engine.rs) never names a
\* savepoint that the server does not have, or has at another depth.
THEOREM SavepointsAreMirrored ==
    ASSUME SAVEPOINT_NAME \notin Names
    PROVE  Spec => [](~stranded => SavepointsMirrorServer)
  <1>1. ASSUME HistoryInv
        PROVE  SavepointsMirrorServer
    <2> DEFINE set == primary.handle.savepoints
               frames == primary.lane.s.frames
    <2> SUFFICES ASSUME primary.handle # None, primary.lane.s.alive
                 PROVE  /\ Len(set) < Len(frames)
                        /\ \A j \in DOMAIN set : frames[j + 1].name = set[j].name
                        /\ \A j \in Len(set) + 2 .. Len(frames) : frames[j].name = SAVEPOINT_NAME
      BY DEF SavepointsMirrorServer
    <2>1. PICK F \in Stacks : Stack(primary.handle, F) /\ primary.lane.s \in Based("write", F)
      BY <1>1, ActiveHandle DEF HistoryInv, Records
    <2>2. set \in Seq(SavepointType)
      BY <1>1, ActiveHandle DEF HistoryInv, Records
    <2> HIDE DEF set, frames
    <2>3. /\ F \in Seq(Frame) /\ Len(F) = Len(set) + 1
          /\ \A j \in 1 .. Len(set) : F[j + 1].name = set[j].name
      BY <2>1 DEF Stack, Stacks, set
    <2>4. DOMAIN set = 1 .. Len(set) /\ Len(set) \in Nat
      BY <2>2
    <2>5. CASE frames = F
      BY <2>3, <2>4, <2>5
    <2>6. ASSUME NEW f \in Frame, f.name = SAVEPOINT_NAME, frames = Append(F, f)
          PROVE  /\ Len(set) < Len(frames)
                 /\ \A j \in DOMAIN set : frames[j + 1].name = set[j].name
                 /\ \A j \in Len(set) + 2 .. Len(frames) : frames[j].name = SAVEPOINT_NAME
      <3>1. /\ Len(frames) = Len(F) + 1 /\ frames[Len(F) + 1] = f
            /\ \A j \in 1 .. Len(F) : frames[j] = F[j]
        BY <2>3, <2>6, AppendStack
      <3>2. QED
        BY <2>3, <2>4, <2>6, <3>1
    <2>7. QED
      BY <2>1, <2>5, <2>6 DEF Based, frames
  <1>2. HistoryInv => SavepointsMirrorServer
    BY <1>1
  <1>3. QED
    BY <1>2, HistoryInvariant, PTL

\* A handle whose deadline has passed (expire_write_handle in engine.rs) does no
\* more work in any step of a run that strands no handle.
THEOREM DueHandlesFinish ==
    ASSUME SAVEPOINT_NAME \notin Names
    PROVE  Spec /\ []~stranded => DueHandleIsFinished
  <1>1. HistoryInv /\ ~stranded' /\ [Next]_vars =>
            [primary.handle # None =>
                (primary.handle.due =>
                   /\ durable' \cap {w \in Writes : told[w].by = primary.handle.id} \subseteq durable
                   /\ Holds(primary', primary.handle.id) => primary'.handle = primary.handle)]_vars
    BY HistoryStep DEF Goes, DueStep
  <1>2. QED
    BY <1>1, HistoryInvariant, PTL DEF Spec, DueHandleIsFinished

\* The engine implements Transactions in every run that strands no handle:
\* handles open, end once and as noted, and what their callers were told is done
\* becomes durable together or not at all.
THEOREM PromisesAreKept ==
    ASSUME SAVEPOINT_NAME \notin Names
    PROVE  Spec /\ []~stranded => HandlesKeepPromises
  <1>1. Init => Promised!Init
    <2> SUFFICES ASSUME Init
                 PROVE  Promised!Init
      OBVIOUS
    <2>1. \A i \in Ids : PhaseOf(i) = "fresh"
      BY DEF Init, PhaseOf, Holds
    <2>2. ASSUME NEW i \in Ids
          PROVE  /\ {w \in Writes : told[w].by = i} = {}
                 /\ {w \in Writes : told[w] = [out |-> "done", by |-> i]} = {}
      BY NoneAssumption DEF Init
    <2>3. QED
      BY <2>1, <2>2 DEF Promised!Init, Init
  <1>2. HistoryInv /\ ~stranded' /\ [Next]_vars => [Promised!Next]_(Promised!vars)
    <2>1. HistoryInv /\ ~stranded' /\ Next => Promised!Next
      BY HistoryStep DEF Goes
    <2>2. UNCHANGED vars => UNCHANGED Promised!vars
      BY DEF vars, Promised!vars, PhaseOf
    <2>3. QED
      BY <2>1, <2>2
  <1>3. QED
    BY <1>1, <1>2, HistoryInvariant, PTL DEF Spec, HandlesKeepPromises, Promised!Spec
===============================================================================
