---------------------------- MODULE ServerCallsProofs ----------------------------
(***************************************************************************)
(* Theorems about ServerCalls, for any calls, principals and handles, and  *)
(* any settings of the audit log.                                          *)
(***************************************************************************)
EXTENDS ServerCalls, FiniteSetTheorems, SequenceTheorems, TLAPS

--------------------------------------------------------------------------------
(* The invariant. *)

Outcomes == [kind : {"none", "output", "error", "asked"}, handle : Handles \cup {None}, dry : BOOLEAN]
Requests == [at : {"new", "working", "returned", "recorded", "done"}, op : AllOps,
             who : Principals \cup {None}, handle : Handles \cup {None}, dry : BOOLEAN,
             out : Outcomes, after : SUBSET Calls]
States == {"unused", "open", "committed", "rolled_back", "expired"}
Stages == {"up", "releasing", "recording", "closing", "gone"}
EndedEntries == [handle : Handles, who : Principals \cup {None}]
ParkedEntries == [handle : Handles, changes : SUBSET Calls]
Entries(q) == \A i, k \in DOMAIN q : q[i].handle = q[k].handle => i = k

Typed ==
    /\ pc \in [Calls -> Requests]
    /\ handles \in [Handles -> [state : States, who : Principals \cup {None}]]
    /\ ended \in Seq(EndedEntries) /\ parked \in Seq(ParkedEntries)
    /\ announced \subseteq Calls
    /\ server \in [at : Stages, late : BOOLEAN, inflight : SUBSET Calls]

\* What a call has in hand agrees with what it asked for and with the handle it ended.
Came(c) == pc[c].at \in {"returned", "recorded", "done"}
Succeeded(c) == Came(c) /\ pc[c].out.kind = "output"
CallOK(c) ==
    /\ pc[c].at \in {"recorded"} => pc[c].out.kind = "output"
    /\ pc[c].out.kind = "output" => Came(c)
    /\ pc[c].op \in {"commit", "rollback"} => pc[c].handle # None
    /\ pc[c].op = "restore" => pc[c].handle = None
    /\ Succeeded(c) /\ Writes(pc[c].op) => pc[c].out = Output(pc[c].handle, pc[c].dry)
    /\ Succeeded(c) /\ pc[c].op \in {"commit", "rollback"} =>
          /\ pc[c].out = Output(pc[c].handle, FALSE)
          /\ handles[pc[c].handle].state = IF pc[c].op = "commit" THEN "committed" ELSE "rolled_back"

\* A change is parked under its own handle, under one entry, and announced when it is committed.
ParkedOK ==
    /\ Entries(parked)
    /\ \A h \in Handles : \A c \in ParkedFor(parked, h) : pc[c].at = "done" /\ pc[c].handle = h
AnnouncedOK ==
    \A c \in announced :
        /\ pc[c].at = "done"
        /\ pc[c].handle # None => handles[pc[c].handle].state = "committed"

\* A change is announced, or parked, or its handle is rolled back, as long as there is room.
Settles(c) == pc[c].at = "done" /\ pc[c].out.kind = "output" /\ Writes(pc[c].op)
KeptOK ==
    Cardinality(Handles) <= ParkCap =>
        \A c \in Calls : Settles(c) /\ pc[c].handle # None /\ ~pc[c].dry =>
            \/ c \in announced \/ handles[pc[c].handle].state = "rolled_back"
            \/ c \in ParkedFor(parked, pc[c].handle)
AfterOK ==
    /\ CommittedIsAnnounced
    /\ \A k \in Calls : \A c \in pc[k].after : Settles(c)

Lines == pending \cup log \cup missed
LinesOK ==
    /\ \A c \in Calls : pc[c].at \in {"recorded", "done"} /\ pc[c].out.kind # "asked" => CallLine(c) \in Lines
    /\ server.at = "gone" /\ ~server.late => pending = {}

\* A handle that ended is in the queue of the ended ones until it has its line, unless a call
\* rolled it back.
EndedOK ==
    /\ Entries(ended)
    /\ \A i \in DOMAIN ended : handles[ended[i].handle].state \in {"expired", "rolled_back"}
    /\ Cardinality(Handles) <= EndedCap =>
          \A h \in Handles : handles[h].state \in {"expired", "rolled_back"} =>
              \/ EndLine(h, handles[h].who) \in Lines
              \/ \E i \in DOMAIN ended : ended[i] = [handle |-> h, who |-> handles[h].who]
              \/ \E c \in Calls : Succeeded(c) /\ pc[c].op = "rollback" /\ pc[c].handle = h

ShutdownOK ==
    /\ server.at # "up" /\ server.inflight = {} => \A c \in Calls : ~Busy(c)
    /\ server.at \in {"recording", "closing", "gone"} /\ ~server.late /\ server.inflight = {} =>
          \A h \in Handles : handles[h].state # "open"
    /\ server.at \in {"closing", "gone"} /\ ~server.late /\ server.inflight = {} => ended = <<>>

CallsInv ==
    /\ Typed /\ \A c \in Calls : CallOK(c)
    /\ ParkedOK /\ AnnouncedOK /\ KeptOK /\ AfterOK
    /\ LinesOK /\ EndedOK /\ ShutdownOK

--------------------------------------------------------------------------------
(* Queues. *)

LEMMA IsASeqOf ==
    ASSUME NEW S, NEW n \in Nat, NEW f, f = [i \in 1..n |-> f[i]], \A i \in 1..n : f[i] \in S
    PROVE  f \in Seq(S)
  OBVIOUS

LEMMA Elements ==
    ASSUME NEW S, NEW q \in Seq(S)
    PROVE  Len(q) \in Nat /\ DOMAIN q = 1..Len(q) /\ \A i \in DOMAIN q : q[i] \in S
  OBVIOUS

LEMMA RemovalIs ==
    ASSUME NEW S, NEW q \in Seq(S), NEW i \in DOMAIN q
    PROVE  /\ RemoveAt(q, i) \in Seq(S) /\ DOMAIN RemoveAt(q, i) = 1..(Len(q) - 1)
           /\ \A m \in 1..(Len(q) - 1) : RemoveAt(q, i)[m] = IF m < i THEN q[m] ELSE q[m + 1]
  <1> DEFINE front == SubSeq(q, 1, i - 1)
             back == SubSeq(q, i + 1, Len(q))
  <1>1. Len(q) \in Nat /\ i \in 1..Len(q) /\ \A m \in 1..Len(q) : q[m] \in S
    BY Elements
  <1>2. /\ front \in Seq(S) /\ Len(front) = i - 1 /\ \A m \in 1..(i - 1) : front[m] = q[m]
    BY <1>1
  <1>3. back \in Seq(S) /\ Len(back) = Len(q) - i /\ \A m \in 1..(Len(q) - i) : back[m] = q[m + i]
    BY <1>1
  <1> HIDE DEF front, back
  <1>4. RemoveAt(q, i) = front \o back
    BY DEF RemoveAt, front, back
  <1>5. /\ front \o back \in Seq(S) /\ Len(front \o back) = Len(q) - 1
        /\ \A m \in 1..(Len(q) - 1) :
              (front \o back)[m] = IF m <= Len(front) THEN front[m] ELSE back[m - Len(front)]
    BY <1>1, <1>2, <1>3, ConcatProperties
  <1>6. ASSUME NEW m \in 1..(Len(q) - 1)
        PROVE  (front \o back)[m] = IF m < i THEN q[m] ELSE q[m + 1]
    <2>1. CASE m < i
      BY <1>1, <1>2, <1>5, <2>1
    <2>2. CASE ~(m < i)
      <3>1. m - (i - 1) \in 1..(Len(q) - i) /\ m - (i - 1) + i = m + 1
        BY <1>1, <2>2
      <3>2. ~(m <= Len(front)) /\ m - Len(front) = m - (i - 1)
        BY <1>1, <1>2, <2>2
      <3>3. (front \o back)[m] = back[m - (i - 1)]
        BY <1>5, <3>2
      <3>4. back[m - (i - 1)] = q[m + 1]
        BY <1>3, <3>1
      <3> QED
        BY <2>2, <3>3, <3>4
    <2> QED
      BY <2>1, <2>2
  <1>7. DOMAIN (front \o back) = 1..(Len(q) - 1)
    BY <1>5
  <1> QED
    BY <1>4, <1>5, <1>6, <1>7

LEMMA NewestIs ==
    ASSUME NEW S, NEW q \in Seq(S), NEW cap \in Nat \ {0}
    PROVE  /\ Newest(q, cap) \in Seq(S)
           /\ Len(q) <= cap => Newest(q, cap) = q
           /\ \A i \in DOMAIN Newest(q, cap) : \E k \in DOMAIN q : Newest(q, cap)[i] = q[k]
           /\ Entries(q) => Entries(Newest(q, cap))
  <1>1. CASE Len(q) <= cap
    BY <1>1 DEF Newest
  <1>2. CASE Len(q) > cap
    <2> DEFINE d == Len(q) - cap
               r == SubSeq(q, d + 1, Len(q))
    <2>1. d \in Nat /\ Len(q) \in Nat /\ DOMAIN q = 1..Len(q)
      BY <1>2
    <2>2. r \in Seq(S) /\ Len(r) = cap /\ \A i \in 1..cap : r[i] = q[i + d]
      BY <1>2, <2>1
    <2>3. Newest(q, cap) = r
      BY <1>2, <2>1 DEF Newest
    <2>4. DOMAIN r = 1..cap /\ \A i \in 1..cap : i + d \in DOMAIN q
      BY <1>2, <2>1, <2>2
    <2> HIDE DEF r
    <2>5. \A i \in DOMAIN r : \E k \in DOMAIN q : r[i] = q[k]
      BY <2>2, <2>4
    <2>6. Entries(q) => Entries(r)
      <3> SUFFICES ASSUME Entries(q), NEW i \in 1..cap, NEW k \in 1..cap, r[i].handle = r[k].handle
                   PROVE  i = k
        BY <2>4 DEF Entries
      <3>1. q[i + d].handle = q[k + d].handle /\ i + d \in DOMAIN q /\ k + d \in DOMAIN q
        BY <2>2, <2>4
      <3>2. i + d = k + d
        BY <3>1 DEF Entries
      <3> QED
        BY <2>1, <3>2
    <2> QED
      BY <1>2, <2>1, <2>2, <2>3, <2>5, <2>6
  <1> QED
    BY <1>1, <1>2

\* A queue with one entry for a handle is no longer than there are handles.
LEMMA EntriesFit ==
    ASSUME NEW S, NEW q \in Seq(S), NEW H, IsFiniteSet(H), Entries(q),
           \A i \in DOMAIN q : q[i].handle \in H
    PROVE  Len(q) <= Cardinality(H)
  <1> DEFINE f == [i \in 1..Len(q) |-> q[i].handle]
  <1>1. Len(q) \in Nat /\ DOMAIN q = 1..Len(q)
    OBVIOUS
  <1>2. f \in Injection(1..Len(q), H)
    BY <1>1 DEF Entries, Injection, IsInjective
  <1>3. Cardinality(1..Len(q)) = Len(q)
    <2>1. Cardinality(1..Len(q)) = IF 1 > Len(q) THEN 0 ELSE Len(q) - 1 + 1
      BY <1>1, FS_Interval
    <2> QED
      BY <1>1, <2>1
  <1> QED
    BY <1>2, <1>3, FS_Injection

LEMMA RoomForOne ==
    ASSUME NEW S, NEW q \in Seq(S), NEW H, IsFiniteSet(H), Entries(q),
           NEW h \in H, \A i \in DOMAIN q : q[i].handle \in H \ {h}
    PROVE  Len(q) + 1 <= Cardinality(H)
  <1>1. IsFiniteSet(H \ {h}) /\ Cardinality(H \ {h}) = Cardinality(H) - 1
    BY FS_RemoveElement
  <1>2. Len(q) <= Cardinality(H \ {h})
    BY <1>1, EntriesFit
  <1>3. Cardinality(H) \in Nat
    BY FS_CardinalityType
  <1> QED
    BY <1>1, <1>2, <1>3

LEMMA AppendIs ==
    ASSUME NEW S, NEW q \in Seq(S), NEW e \in S
    PROVE  /\ Append(q, e) \in Seq(S) /\ DOMAIN Append(q, e) = 1..(Len(q) + 1)
           /\ DOMAIN q = 1..Len(q) /\ Len(q) \in Nat
           /\ Append(q, e)[Len(q) + 1] = e
           /\ \A i \in DOMAIN q : Append(q, e)[i] = q[i]
           /\ \A i \in DOMAIN Append(q, e) : i \in DOMAIN q \/ i = Len(q) + 1
           /\ Entries(q) /\ (\A i \in DOMAIN q : q[i].handle # e.handle) => Entries(Append(q, e))
  BY DEF Entries

--------------------------------------------------------------------------------
(* Parked changes. *)

LEMMA WithoutKeeps ==
    ASSUME NEW q \in Seq(ParkedEntries), Entries(q), NEW h
    PROVE  /\ Without(q, h) \in Seq(ParkedEntries) /\ Entries(Without(q, h))
           /\ ParkedFor(Without(q, h), h) = {}
           /\ \A k \in Handles \ {h} : ParkedFor(Without(q, h), k) = ParkedFor(q, k)
  <1>1. Len(q) \in Nat /\ DOMAIN q = 1..Len(q)
    OBVIOUS
  <1>2. CASE EntriesOf(q, h) = {}
    BY <1>2 DEF Without, ParkedFor
  <1>3. CASE EntriesOf(q, h) # {}
    <2>1. PICK i \in DOMAIN q : q[i].handle = h
      BY <1>3 DEF EntriesOf
    <2>2. EntriesOf(q, h) = {i}
      BY <2>1 DEF EntriesOf, Entries
    <2>3. (CHOOSE m \in EntriesOf(q, h) : \A j \in EntriesOf(q, h) : m <= j) = i
      BY <1>1, <2>1, <2>2
    <2> DEFINE r == RemoveAt(q, i)
    <2>4. Without(q, h) = r
      BY <1>3, <2>3 DEF Without
    <2>5. /\ r \in Seq(ParkedEntries) /\ DOMAIN r = 1..(Len(q) - 1)
          /\ \A m \in DOMAIN r : r[m] = IF m < i THEN q[m] ELSE q[m + 1]
      BY <2>1, RemovalIs
    <2> HIDE DEF r
    <2>6. \A m \in DOMAIN r : \E n \in DOMAIN q : n # i /\ r[m] = q[n] /\ n = IF m < i THEN m ELSE m + 1
      BY <1>1, <2>1, <2>5
    <2>7. \A n \in DOMAIN q \ {i} : \E m \in DOMAIN r : r[m] = q[n]
      <3> TAKE n \in DOMAIN q \ {i}
      <3> DEFINE m == IF n < i THEN n ELSE n - 1
      <3>1. m \in DOMAIN r /\ r[m] = q[n]
        BY <1>1, <2>1, <2>5
      <3> QED
        BY <3>1
    <2>8. Entries(r)
      BY <1>1, <2>1, <2>5, <2>6 DEF Entries
    <2>9. ParkedFor(r, h) = {}
      BY <2>1, <2>2, <2>6 DEF ParkedFor, EntriesOf
    <2>10. ASSUME NEW k \in Handles \ {h}
           PROVE  ParkedFor(r, k) = ParkedFor(q, k)
      BY <2>1, <2>6, <2>7 DEF ParkedFor, EntriesOf
    <2> QED
      BY <2>4, <2>5, <2>8, <2>9, <2>10
  <1> QED
    BY <1>2, <1>3

LEMMA ParkInEntryKeeps ==
    ASSUME NEW q \in Seq(ParkedEntries), Entries(q), NEW h \in Handles, NEW c \in Calls,
           EntriesOf(q, h) # {}
    PROVE  LET p == ParkInEntry(q, h, c)
           IN  /\ p \in Seq(ParkedEntries) /\ Entries(p)
               /\ ParkedFor(p, h) = ParkedFor(q, h) \cup {c}
               /\ \A k \in Handles \ {h} : ParkedFor(p, k) = ParkedFor(q, k)
  <1> DEFINE p == ParkInEntry(q, h, c)
  <1>1. Len(q) \in Nat /\ DOMAIN q = 1..Len(q) /\ DOMAIN p = DOMAIN q
    BY DEF ParkInEntry
  <1>2. \A i \in DOMAIN q :
           /\ q[i].handle = h => p[i] = [handle |-> h, changes |-> q[i].changes \cup {c}]
           /\ q[i].handle # h => p[i] = q[i]
           /\ q[i] \in ParkedEntries
    <2> TAKE i \in DOMAIN q
    <2>1. q[i] \in [handle : Handles, changes : SUBSET Calls]
      BY Elements DEF ParkedEntries
    <2>2. p[i] = IF q[i].handle = h THEN [q[i] EXCEPT !.changes = q[i].changes \cup {c}] ELSE q[i]
      BY DEF ParkInEntry
    <2> HIDE DEF p
    <2> QED
      BY <2>1, <2>2 DEF ParkedEntries
  <1> HIDE DEF p
  <1>3. \A i \in DOMAIN q : p[i] \in ParkedEntries /\ p[i].handle = q[i].handle
    <2> TAKE i \in DOMAIN q
    <2>1. q[i].handle \in Handles /\ q[i].changes \in SUBSET Calls
      BY <1>2 DEF ParkedEntries
    <2>2. CASE q[i].handle = h
      <3>1. p[i] = [handle |-> h, changes |-> q[i].changes \cup {c}]
        BY <1>2, <2>2
      <3>2. q[i].changes \cup {c} \in SUBSET Calls
        BY <2>1
      <3> QED
        BY <2>2, <3>1, <3>2 DEF ParkedEntries
    <2>3. CASE q[i].handle # h
      BY <1>2, <2>3
    <2> QED
      BY <2>2, <2>3
  <1>4. p \in Seq(ParkedEntries)
    <2>1. p = [i \in 1..Len(q) |-> p[i]]
      BY <1>1 DEF p, ParkInEntry
    <2> QED
      BY <1>1, <1>3, <2>1, IsASeqOf
  <1>5. Entries(p)
    BY <1>1, <1>3 DEF Entries
  <1>6. ParkedFor(p, h) = ParkedFor(q, h) \cup {c}
    BY <1>1, <1>2, <1>3 DEF ParkedFor, EntriesOf
  <1>7. ASSUME NEW k \in Handles \ {h}
        PROVE  ParkedFor(p, k) = ParkedFor(q, k)
    BY <1>1, <1>2, <1>3 DEF ParkedFor, EntriesOf
  <1> QED
    BY <1>4, <1>5, <1>6, <1>7 DEF p

LEMMA ParkKeeps ==
    ASSUME NEW q \in Seq(ParkedEntries), Entries(q), NEW h \in Handles, NEW c \in Calls
    PROVE  LET p == Park(q, h, c)
           IN  /\ p \in Seq(ParkedEntries) /\ Entries(p)
               /\ ParkedFor(p, h) \subseteq ParkedFor(q, h) \cup {c}
               /\ \A k \in Handles \ {h} : ParkedFor(p, k) \subseteq ParkedFor(q, k)
               /\ Cardinality(Handles) <= ParkCap =>
                     /\ ParkedFor(q, h) \cup {c} \subseteq ParkedFor(p, h)
                     /\ \A k \in Handles \ {h} : ParkedFor(q, k) \subseteq ParkedFor(p, k)
  <1>1. CASE EntriesOf(q, h) # {}
    BY <1>1, ParkInEntryKeeps DEF Park
  <1>2. CASE EntriesOf(q, h) = {}
    <2> DEFINE e == [handle |-> h, changes |-> {c}]
               a == Append(q, e)
    <2>1. e \in ParkedEntries /\ e.handle = h /\ e.changes = {c}
      BY DEF ParkedEntries
    <2>2. \A i \in DOMAIN q : q[i].handle \in Handles \ {h}
      <3> TAKE i \in DOMAIN q
      <3>1. q[i] \in ParkedEntries
        BY Elements
      <3>2. q[i].handle \in Handles
        BY <3>1 DEF ParkedEntries
      <3> QED
        BY <1>2, <3>2 DEF EntriesOf
    <2> HIDE DEF e
    <2>3. /\ a \in Seq(ParkedEntries) /\ Entries(a)
          /\ DOMAIN q \subseteq DOMAIN a /\ \A i \in DOMAIN q : a[i] = q[i]
          /\ \E i \in DOMAIN a : a[i] = e
          /\ \A i \in DOMAIN a : i \in DOMAIN q \/ a[i] = e
          /\ Len(a) = Len(q) + 1
      BY <2>1, <2>2, AppendIs
    <2>4. Park(q, h, c) = Newest(a, ParkCap)
      BY <1>2 DEF Park, e
    <2> HIDE DEF a
    <2>5. ParkedFor(a, h) = {c} /\ ParkedFor(q, h) = {}
      BY <2>1, <2>2, <2>3 DEF ParkedFor, EntriesOf
    <2>6. ASSUME NEW k \in Handles \ {h}
          PROVE  ParkedFor(a, k) = ParkedFor(q, k)
      BY <2>1, <2>3 DEF ParkedFor, EntriesOf
    <2> DEFINE p == Newest(a, ParkCap)
    <2>7. /\ p \in Seq(ParkedEntries) /\ Entries(p)
          /\ \A i \in DOMAIN p : \E k \in DOMAIN a : p[i] = a[k]
          /\ Len(a) <= ParkCap => p = a
      BY <2>3, NewestIs, ServerAssumption
    <2> HIDE DEF p
    <2>8. \A k \in Handles : ParkedFor(p, k) \subseteq ParkedFor(a, k)
      BY <2>7 DEF ParkedFor, EntriesOf
    <2>9. Cardinality(Handles) <= ParkCap => p = a
      <3>1. Len(q) + 1 <= Cardinality(Handles)
        BY <2>2, RoomForOne, ServerAssumption
      <3>2. Cardinality(Handles) \in Nat /\ Len(q) \in Nat
        BY FS_CardinalityType, ServerAssumption
      <3> QED
        BY <2>3, <2>7, <3>1, <3>2, ServerAssumption
    <2> QED
      BY <2>4, <2>5, <2>6, <2>7, <2>8, <2>9 DEF p
  <1> QED
    BY <1>1, <1>2

--------------------------------------------------------------------------------
(* Steps go forward: what a call asked for and got stays, and so does the end of a handle. *)

Keeps(c) ==
    /\ pc[c].at # "new" =>
          /\ pc'[c].at # "new" /\ pc'[c].op = pc[c].op /\ pc'[c].who = pc[c].who
          /\ pc'[c].handle = pc[c].handle /\ pc'[c].dry = pc[c].dry
    /\ Came(c) => Came(c)' /\ pc'[c].out = pc[c].out
    /\ pc[c].at = "done" => pc'[c] = pc[c]
    /\ pc'[c].after \subseteq pc[c].after \cup {d \in Calls : Settles(d)}
Forward ==
    /\ \A c \in Calls : Keeps(c)
    /\ \A h \in Handles : handles[h].state \notin {"unused", "open"} => handles'[h] = handles[h]
    /\ Lines \subseteq Lines'

Others(c) == \A k \in Calls \ {c} : pc'[k] = pc[k]

LEMMA GotoIs ==
    ASSUME Typed, NEW c \in Calls, NEW at \in {"recorded", "done"}, Goto(c, at)
    PROVE  /\ pc' \in [Calls -> Requests] /\ Others(c)
           /\ pc'[c].at = at /\ pc'[c].op = pc[c].op /\ pc'[c].who = pc[c].who
           /\ pc'[c].handle = pc[c].handle /\ pc'[c].dry = pc[c].dry
           /\ pc'[c].out = pc[c].out /\ pc'[c].after = pc[c].after
  <1>1. pc[c] \in Requests /\ pc \in [Calls -> Requests] /\ pc' = [pc EXCEPT ![c].at = at]
    BY DEF Typed, Goto
  <1>2. [pc[c] EXCEPT !.at = at] \in Requests
    BY <1>1 DEF Requests
  <1>3. pc'[c] = [pc[c] EXCEPT !.at = at] /\ \A k \in Calls \ {c} : pc'[k] = pc[k]
    BY <1>1
  <1>4. pc' \in [Calls -> Requests] /\ Others(c)
    BY <1>1, <1>2, <1>3 DEF Others
  <1> QED
    BY <1>1, <1>3, <1>4 DEF Requests

LEMMA ReturnIs ==
    ASSUME Typed, NEW c \in Calls, NEW out \in Outcomes, Return(c, out)
    PROVE  /\ pc' \in [Calls -> Requests] /\ Others(c)
           /\ pc'[c].at = "returned" /\ pc'[c].op = pc[c].op /\ pc'[c].who = pc[c].who
           /\ pc'[c].handle = pc[c].handle /\ pc'[c].dry = pc[c].dry
           /\ pc'[c].out = out /\ pc'[c].after = pc[c].after
  <1>1. /\ pc[c] \in Requests /\ pc \in [Calls -> Requests]
        /\ pc' = [pc EXCEPT ![c].at = "returned", ![c].out = out]
    BY DEF Typed, Return
  <1>2. [pc[c] EXCEPT !.at = "returned", !.out = out] \in Requests
    BY <1>1 DEF Requests
  <1>3. /\ pc'[c] = [pc[c] EXCEPT !.at = "returned", !.out = out]
        /\ \A k \in Calls \ {c} : pc'[k] = pc[k]
    BY <1>1
  <1>4. pc' \in [Calls -> Requests] /\ Others(c)
    BY <1>1, <1>2, <1>3 DEF Others
  <1> QED
    BY <1>1, <1>3, <1>4 DEF Requests

LEMMA SettledIs == Settled = {d \in Calls : Settles(d)}
  BY DEF Settled, Settles

LEMMA EndedHandle ==
    ASSUME Typed, NEW i \in DOMAIN ended
    PROVE  /\ ended[i].handle \in Handles /\ ended[i] \in EndedEntries
           /\ ended[i] = [handle |-> ended[i].handle, who |-> ended[i].who]
  <1>1. ended[i] \in EndedEntries
    BY Elements DEF Typed
  <1> QED
    BY <1>1 DEF EndedEntries

\* What went before stays true of the calls a step leaves alone.
LEMMA CallStays ==
    ASSUME CallsInv, Forward, NEW c \in Calls, pc'[c] = pc[c]
    PROVE  CallOK(c)'
  <1>1. CallOK(c) /\ pc[c] \in Requests
    BY DEF CallsInv, Typed
  <1>2. pc[c].handle # None => pc[c].handle \in Handles
    BY <1>1 DEF Requests
  <1>3. Succeeded(c) /\ pc[c].op \in {"commit", "rollback"} => handles'[pc[c].handle] = handles[pc[c].handle]
    BY <1>1, <1>2 DEF CallOK, Forward
  <1> QED
    BY <1>1, <1>3 DEF CallOK, Came, Succeeded, Output, Writes

\* A step that parks and announces nothing, and after which no other change has come back.
LEMMA ResourcesStay ==
    ASSUME CallsInv, Forward, Typed', UNCHANGED <<parked, announced>>,
           \A c \in Calls : Settles(c)' => Settles(c),
           \A c \in Calls : (pc'[c].at = "done" /\ pc'[c].op = "commit" /\ pc'[c].out.kind = "output")
                               => pc[c].at = "done"
    PROVE  (ParkedOK /\ AnnouncedOK /\ KeptOK /\ AfterOK)'
  <1>1. Typed
    BY DEF CallsInv
  <1>2. \A c \in Calls : pc[c].at = "done" => pc'[c] = pc[c]
    BY DEF Forward, Keeps
  <1>3. \A h \in Handles : \A c \in ParkedFor(parked, h) : c \in Calls
    <2> TAKE h \in Handles
    <2> TAKE c \in ParkedFor(parked, h)
    <2>1. PICK i \in DOMAIN parked : c \in parked[i].changes
      BY DEF ParkedFor, EntriesOf
    <2>2. parked[i] \in ParkedEntries
      BY <1>1, <2>1, Elements DEF Typed
    <2> QED
      BY <2>1, <2>2 DEF ParkedEntries
  <1>4. ParkedOK'
    BY <1>2, <1>3 DEF CallsInv, ParkedOK
  <1>5. \A c \in Calls : pc[c] \in Requests /\ (pc[c].handle # None => pc[c].handle \in Handles)
    BY <1>1 DEF Typed, Requests
  <1>6. AnnouncedOK'
    <2> SUFFICES ASSUME NEW c \in announced
                 PROVE  /\ pc'[c].at = "done"
                        /\ pc'[c].handle # None => handles'[pc'[c].handle].state = "committed"
      BY DEF AnnouncedOK
    <2>1. /\ c \in Calls /\ pc[c].at = "done" /\ pc'[c] = pc[c]
          /\ pc[c].handle # None => handles[pc[c].handle].state = "committed"
      BY <1>1, <1>2 DEF CallsInv, AnnouncedOK, Typed
    <2> QED
      BY <1>5, <2>1 DEF Forward
  <1>7. ASSUME NEW c \in Calls, Settles(c)'
        PROVE  Settles(c) /\ pc'[c] = pc[c]
    BY <1>2, <1>7 DEF Settles
  <1>8. KeptOK'
    BY <1>5, <1>7 DEF CallsInv, KeptOK, Forward
  <1>9. ASSUME NEW k \in Calls, NEW c \in pc'[k].after
        PROVE  Settles(c)'
    <2>1. c \in Calls /\ Settles(c)
      BY <1>1, <1>9 DEF CallsInv, AfterOK, Forward, Keeps, Typed, Requests
    <2> QED
      BY <1>2, <2>1 DEF Settles
  <1>10. CommittedIsAnnounced'
    <2> SUFFICES ASSUME Cardinality(Handles) <= ParkCap, NEW k \in Calls,
                        pc'[k].at = "done", pc'[k].op = "commit", pc'[k].out.kind = "output",
                        NEW c \in pc'[k].after, pc'[c].handle = pc'[k].handle, ~pc'[c].dry
                 PROVE  c \in announced
      BY DEF CommittedIsAnnounced
    <2>1. pc'[k] = pc[k] /\ pc[k].at = "done"
      BY <1>2
    <2>2. c \in Calls /\ Settles(c)
      BY <1>1, <2>1 DEF CallsInv, AfterOK, Typed, Requests
    <2>3. pc'[c] = pc[c]
      BY <1>2, <2>2 DEF Settles
    <2> QED
      BY <2>1, <2>3 DEF CallsInv, AfterOK, CommittedIsAnnounced
  <1> QED
    BY <1>4, <1>6, <1>8, <1>9, <1>10 DEF AfterOK

\* The lines of calls that have not just come to the point of having one.
LEMMA LinesStay ==
    ASSUME CallsInv, Forward,
           \A c \in Calls : pc'[c].at \in {"recorded", "done"} =>
                \/ pc[c].at \in {"recorded", "done"}
                \/ pc'[c].out.kind = "asked" \/ CallLine(c)' \in Lines'
    PROVE  \A c \in Calls : pc'[c].at \in {"recorded", "done"} /\ pc'[c].out.kind # "asked"
                                => CallLine(c)' \in Lines'
  <1> TAKE c \in Calls
  <1>1. pc[c].at \in {"recorded", "done"} =>
           pc'[c].out = pc[c].out /\ pc'[c].who = pc[c].who
    BY DEF Forward, Keeps, Came
  <1>2. pc[c].at \in {"recorded", "done"} /\ pc[c].out.kind # "asked" => CallLine(c) \in Lines
    BY DEF CallsInv, LinesOK
  <1> QED
    BY <1>1, <1>2 DEF Forward, CallLine

\* A handle that had ended keeps its line, its place in the queue, or the call that ended it.
LEMMA EndedStays ==
    ASSUME CallsInv, Forward, NEW h \in Handles, handles[h].state \in {"expired", "rolled_back"},
           Cardinality(Handles) <= EndedCap,
           \A i \in DOMAIN ended : \/ \E k \in DOMAIN ended' : ended'[k] = ended[i]
                                  \/ EndLine(ended[i].handle, ended[i].who) \in Lines'
    PROVE  \/ EndLine(h, handles'[h].who) \in Lines'
           \/ \E i \in DOMAIN ended' : ended'[i] = [handle |-> h, who |-> handles'[h].who]
           \/ \E c \in Calls : Succeeded(c)' /\ pc'[c].op = "rollback" /\ pc'[c].handle = h
  <1>1. handles'[h] = handles[h]
    BY DEF Forward
  <1>2. CASE EndLine(h, handles[h].who) \in Lines
    BY <1>1, <1>2 DEF Forward
  <1>3. CASE \E i \in DOMAIN ended : ended[i] = [handle |-> h, who |-> handles[h].who]
    <2>1. PICK i \in DOMAIN ended : ended[i] = [handle |-> h, who |-> handles[h].who]
      BY <1>3
    <2>2. ended[i].handle = h /\ ended[i].who = handles[h].who
      BY <2>1
    <2> QED
      BY <1>1, <2>1, <2>2
  <1>4. CASE \E c \in Calls : Succeeded(c) /\ pc[c].op = "rollback" /\ pc[c].handle = h
    <2>1. PICK c \in Calls : Succeeded(c) /\ pc[c].op = "rollback" /\ pc[c].handle = h
      BY <1>4
    <2>2. Succeeded(c)' /\ pc'[c].op = "rollback" /\ pc'[c].handle = h
      BY <2>1 DEF Forward, Keeps, Succeeded, Came
    <2> QED
      BY <2>2
  <1> QED
    BY <1>2, <1>3, <1>4 DEF CallsInv, EndedOK

--------------------------------------------------------------------------------
(* The steps of a call. *)

LEMMA ArriveKeeps ==
    ASSUME CallsInv, NEW c \in Calls, Arrive(c)
    PROVE  CallsInv'
  <1>1. /\ Typed /\ CallOK(c) /\ pc[c].at = "new" /\ server.at = "up"
        /\ UNCHANGED <<handles, ended, parked, announced, pending, log, missed, server>>
    BY DEF CallsInv, Arrive, engineVars, auditVars
  <1>2. PICK op \in Ops, who \in Principals, h \in Handles \cup {None}, dry, inScope \in BOOLEAN :
            /\ op \in {"commit", "rollback"} => h # None
            /\ op \notin {"commit", "rollback", "ddl"} => h = None
            /\ dry => op = "ddl" /\ h # None
            /\ h # None => handles[h].state # "unused"
            /\ degraded' \in IF ~inScope THEN {degraded}
                             ELSE IF DiskFails THEN {FALSE, degraded} ELSE {FALSE}
            /\ pc' = [pc EXCEPT ![c] =
                 [at |-> IF inScope /\ ~(degraded' /\ Refuses(op)) THEN "working" ELSE "returned",
                  op |-> op, who |-> who, handle |-> h, dry |-> dry,
                  out |-> IF inScope /\ ~(degraded' /\ Refuses(op)) THEN NoOutcome ELSE Failure,
                  after |-> IF op = "commit" THEN Settled ELSE {}]]
    BY DEF Arrive
  <1>3. PICK at \in {"working", "returned"}, out \in {NoOutcome, Failure}, after \in {{}, Settled} :
            pc' = [pc EXCEPT ![c] = [at |-> at, op |-> op, who |-> who, handle |-> h, dry |-> dry,
                                     out |-> out, after |-> after]]
    <2> DEFINE admitted == inScope /\ ~(degraded' /\ Refuses(op))
               at == IF admitted THEN "working" ELSE "returned"
               out == IF admitted THEN NoOutcome ELSE Failure
               after == IF op = "commit" THEN Settled ELSE {}
    <2>1. pc' = [pc EXCEPT ![c] = [at |-> at, op |-> op, who |-> who, handle |-> h, dry |-> dry,
                                   out |-> out, after |-> after]]
      BY <1>2
    <2>2. at \in {"working", "returned"} /\ out \in {NoOutcome, Failure} /\ after \in {{}, Settled}
      OBVIOUS
    <2> HIDE DEF at, out, after
    <2> QED
      BY <2>1, <2>2
  <1>4. /\ NoOutcome \in Outcomes /\ Failure \in Outcomes
        /\ NoOutcome.kind = "none" /\ Failure.kind = "error"
    BY DEF NoOutcome, Failure, Outcomes
  <1> DEFINE call == [at |-> at, op |-> op, who |-> who, handle |-> h, dry |-> dry,
                      out |-> out, after |-> after]
  <1>5. /\ op \in AllOps /\ after \subseteq Calls /\ after \subseteq {d \in Calls : Settles(d)}
        /\ call \in Requests /\ call.at = at /\ call.out = out /\ call.op = op /\ call.handle = h
        /\ call.after = after
    BY <1>4, ServerAssumption, SettledIs DEF Requests
  <1>6. pc' = [pc EXCEPT ![c] = call]
    BY <1>3
  <1> HIDE DEF call
  <1>7. /\ pc' \in [Calls -> Requests] /\ Others(c) /\ pc'[c] = call
    BY <1>1, <1>5, <1>6 DEF Typed, Others
  <1>8. Typed'
    BY <1>1, <1>7 DEF Typed
  <1>9. Forward
    <2>1. Keeps(c)
      BY <1>1, <1>5, <1>7 DEF Keeps, Came
    <2>2. \A k \in Calls \ {c} : Keeps(k)
      BY <1>7 DEF Keeps, Came, Others
    <2> QED
      BY <1>1, <2>1, <2>2 DEF Forward, Lines
  <1>10. CallOK(c)'
    BY <1>2, <1>4, <1>5, <1>7 DEF CallOK, Came, Succeeded
  <1>11. \A k \in Calls : CallOK(k)'
    BY <1>7, <1>9, <1>10, CallStays DEF Others
  <1>12. (ParkedOK /\ AnnouncedOK /\ KeptOK /\ AfterOK)'
    <2>1. pc'[c].at # "done"
      BY <1>5, <1>7
    <2>2. \A k \in Calls : Settles(k)' => Settles(k)
      BY <1>7, <2>1 DEF Others, Settles
    <2>3. \A k \in Calls : pc'[k].at = "done" => pc[k].at = "done"
      BY <1>7, <2>1 DEF Others
    <2> QED
      BY <1>1, <1>8, <1>9, <2>2, <2>3, ResourcesStay
  <1>13. LinesOK'
    <2>1. \A k \in Calls : pc'[k].at \in {"recorded", "done"} => pc[k].at \in {"recorded", "done"}
      BY <1>5, <1>7 DEF Others
    <2> QED
      BY <1>1, <1>9, <2>1, LinesStay DEF LinesOK
  <1>14. EndedOK'
    <2>1. \A g \in Handles : handles[g].state \in {"expired", "rolled_back"} /\ Cardinality(Handles) <= EndedCap =>
              \/ EndLine(g, handles'[g].who) \in Lines'
              \/ \E i \in DOMAIN ended' : ended'[i] = [handle |-> g, who |-> handles'[g].who]
              \/ \E k \in Calls : Succeeded(k)' /\ pc'[k].op = "rollback" /\ pc'[k].handle = g
      BY <1>1, <1>9, EndedStays
    <2> QED
      BY <1>1, <2>1 DEF CallsInv, EndedOK, Entries
  <1>15. ShutdownOK'
    BY <1>1 DEF ShutdownOK
  <1> QED
    BY <1>8, <1>11, <1>12, <1>13, <1>14, <1>15 DEF CallsInv

\* A call comes back from its tool: what it did to a handle agrees with what it brings.
LEMMA ReturnKeeps ==
    ASSUME CallsInv, NEW c \in Calls, NEW out \in Outcomes, pc[c].at = "working", Return(c, out),
           UNCHANGED <<ended, parked, announced, pending, log, missed, server>>,
           handles' \in [Handles -> [state : States, who : Principals \cup {None}]],
           out.kind = "output" /\ Writes(pc[c].op) => out = Output(pc[c].handle, pc[c].dry),
           out.kind = "output" /\ pc[c].op \in {"commit", "rollback"} =>
              /\ out = Output(pc[c].handle, FALSE)
              /\ handles'[pc[c].handle].state = IF pc[c].op = "commit" THEN "committed" ELSE "rolled_back",
           \A h \in Handles :
              \/ handles'[h] = handles[h]
              \/ handles[h].state \in {"unused", "open"} /\ handles'[h].state \in {"open", "committed"}
              \/ /\ handles[h].state = "open" /\ handles'[h].state = "rolled_back"
                 /\ pc[c].op = "rollback" /\ pc[c].handle = h /\ out.kind = "output"
    PROVE  CallsInv'
  <1>1. Typed /\ CallOK(c)
    BY DEF CallsInv
  <1>2. /\ pc' \in [Calls -> Requests] /\ Others(c)
        /\ pc'[c].at = "returned" /\ pc'[c].op = pc[c].op /\ pc'[c].who = pc[c].who
        /\ pc'[c].handle = pc[c].handle /\ pc'[c].dry = pc[c].dry
        /\ pc'[c].out = out /\ pc'[c].after = pc[c].after
    BY <1>1, ReturnIs
  <1>3. Typed'
    BY <1>1, <1>2 DEF Typed
  <1>4. Forward
    <2>1. Keeps(c)
      BY <1>2 DEF Keeps, Came
    <2>2. \A k \in Calls \ {c} : Keeps(k)
      BY <1>2 DEF Keeps, Came, Others
    <2>3. \A h \in Handles : handles[h].state \notin {"unused", "open"} => handles'[h] = handles[h]
      OBVIOUS
    <2> QED
      BY <2>1, <2>2, <2>3 DEF Forward, Lines
  <1>5. CallOK(c)'
    BY <1>1, <1>2 DEF CallOK, Came, Succeeded
  <1>6. \A k \in Calls : CallOK(k)'
    BY <1>2, <1>4, <1>5, CallStays DEF Others
  <1>7. (ParkedOK /\ AnnouncedOK /\ KeptOK /\ AfterOK)'
    <2>1. \A k \in Calls : Settles(k)' => Settles(k)
      BY <1>2 DEF Others, Settles
    <2>2. \A k \in Calls : pc'[k].at = "done" => pc[k].at = "done"
      BY <1>2 DEF Others
    <2> QED
      BY <1>3, <1>4, <2>1, <2>2, ResourcesStay
  <1>8. LinesOK'
    <2>1. \A k \in Calls : pc'[k].at \in {"recorded", "done"} => pc[k].at \in {"recorded", "done"}
      BY <1>2 DEF Others
    <2> QED
      BY <1>4, <2>1, LinesStay DEF CallsInv, LinesOK
  <1>9. EndedOK'
    <2>1. ASSUME Cardinality(Handles) <= EndedCap, NEW h \in Handles,
                 handles'[h].state \in {"expired", "rolled_back"}
          PROVE  \/ EndLine(h, handles'[h].who) \in Lines'
                 \/ \E i \in DOMAIN ended' : ended'[i] = [handle |-> h, who |-> handles'[h].who]
                 \/ \E k \in Calls : Succeeded(k)' /\ pc'[k].op = "rollback" /\ pc'[k].handle = h
      <3>1. CASE handles'[h] = handles[h]
        BY <1>4, <2>1, <3>1, EndedStays
      <3>2. CASE pc[c].op = "rollback" /\ pc[c].handle = h /\ out.kind = "output"
        BY <1>2, <3>2 DEF Succeeded, Came
      <3> QED
        BY <2>1, <3>1, <3>2
    <2>2. \A i \in DOMAIN ended : handles'[ended[i].handle].state \in {"expired", "rolled_back"}
      <3> TAKE i \in DOMAIN ended
      <3>1. ended[i].handle \in Handles
        BY <1>1, EndedHandle
      <3>2. handles[ended[i].handle].state \in {"expired", "rolled_back"}
        BY DEF CallsInv, EndedOK
      <3> QED
        BY <1>4, <3>1, <3>2 DEF Forward
    <2> QED
      BY <2>1, <2>2 DEF CallsInv, EndedOK, Entries
  <1>10. ShutdownOK'
    <2>1. server.at # "up" => server.inflight # {}
      BY DEF CallsInv, ShutdownOK, Busy
    <2> QED
      BY <2>1 DEF ShutdownOK
  <1> QED
    BY <1>3, <1>6, <1>7, <1>8, <1>9, <1>10 DEF CallsInv

LEMMA ExecuteKeeps ==
    ASSUME CallsInv, NEW c \in Calls, Execute(c)
    PROVE  CallsInv'
  <1>1. /\ Typed /\ CallOK(c) /\ pc[c] \in Requests /\ pc[c].at = "working"
        /\ UNCHANGED <<parked, announced, pending, log, missed, server>>
    BY DEF CallsInv, Typed, Execute, auditVars
  <1>2. /\ Failure \in Outcomes /\ Failure.kind = "error" /\ Asked \in Outcomes /\ Asked.kind = "asked"
        /\ \A h \in Handles \cup {None}, dry \in BOOLEAN :
              Output(h, dry) \in Outcomes /\ Output(h, dry).kind = "output"
    BY DEF Failure, Asked, Output, Outcomes
  <1>3. pc[c].handle \in Handles \cup {None} /\ pc[c].dry \in BOOLEAN /\ pc[c].who \in Principals \cup {None}
    BY <1>1 DEF Requests
  <1>4. ASSUME NEW out \in {Failure, Asked}, Return(c, out), UNCHANGED engineVars
        PROVE  CallsInv'
    BY <1>1, <1>2, <1>4, ReturnKeeps DEF engineVars, Typed
  <1>5. CASE Begins(c)
    <2>1. PICK h \in Handles : /\ handles[h].state = "unused"
                               /\ handles' = [handles EXCEPT ![h] = [state |-> "open", who |-> pc[c].who]]
                               /\ Return(c, Output(h, FALSE))
      BY <1>5 DEF Begins
    <2>2. pc[c].op = "begin" /\ ended' = ended /\ ~Writes(pc[c].op)
      BY <1>5 DEF Begins, Writes
    <2>3. /\ handles' \in [Handles -> [state : States, who : Principals \cup {None}]]
          /\ handles'[h].state = "open" /\ \A g \in Handles \ {h} : handles'[g] = handles[g]
      BY <1>1, <1>3, <2>1 DEF Typed, States
    <2> QED
      BY <1>1, <1>2, <2>1, <2>2, <2>3, ReturnKeeps
  <1>6. CASE Ends(c)
    <2> DEFINE h == pc[c].handle
               end == IF pc[c].op = "commit" THEN "committed" ELSE "rolled_back"
    <2>1. /\ pc[c].op \in {"commit", "rollback"} /\ handles[h].state = "open"
          /\ handles' = [handles EXCEPT ![h].state = end]
          /\ Return(c, Output(h, FALSE)) /\ ended' = ended
      BY <1>6 DEF Ends, Mine
    <2>2. h \in Handles /\ end \in States /\ ~Writes(pc[c].op)
      BY <1>1, <1>3, <2>1 DEF CallOK, States, Writes
    <2>3. /\ handles' \in [Handles -> [state : States, who : Principals \cup {None}]]
          /\ handles'[h].state = end /\ \A g \in Handles \ {h} : handles'[g] = handles[g]
      <3> HIDE DEF end, h
      <3> QED
        BY <1>1, <2>1, <2>2 DEF Typed
    <2>4. Output(h, FALSE) \in Outcomes /\ Output(h, FALSE).kind = "output"
      BY <1>2, <2>2
    <2> DEFINE out == Output(h, FALSE)
    <2>5. /\ out \in Outcomes /\ out = Output(pc[c].handle, FALSE) /\ Return(c, out)
          /\ handles'[pc[c].handle].state = IF pc[c].op = "commit" THEN "committed" ELSE "rolled_back"
          /\ out.kind = "output"
      BY <2>1, <2>3, <2>4
    <2>6. \A g \in Handles :
              \/ handles'[g] = handles[g]
              \/ handles[g].state \in {"unused", "open"} /\ handles'[g].state \in {"open", "committed"}
              \/ /\ handles[g].state = "open" /\ handles'[g].state = "rolled_back"
                 /\ pc[c].op = "rollback" /\ pc[c].handle = g /\ out.kind = "output"
      BY <2>1, <2>3, <2>5
    <2> HIDE DEF out, h, end
    <2> QED
      BY <1>1, <2>1, <2>2, <2>3, <2>5, <2>6, ReturnKeeps
  <1>7. CASE Changes(c)
    <2>1. /\ pc[c].op \in {"ddl", "restore"} /\ Return(c, Output(pc[c].handle, pc[c].dry))
          /\ handles' = handles /\ ended' = ended
      BY <1>7 DEF Changes, engineVars
    <2> QED
      BY <1>1, <1>2, <1>3, <2>1, ReturnKeeps DEF Typed
  <1>8. CASE Reads(c)
    <2>1. /\ pc[c].op = "read" /\ ~Writes(pc[c].op) /\ Return(c, Output(None, FALSE))
          /\ handles' = handles /\ ended' = ended
      BY <1>8 DEF Reads, engineVars, Writes
    <2> QED
      BY <1>1, <1>2, <2>1, ReturnKeeps DEF Typed
  <1> QED
    BY <1>4, <1>5, <1>6, <1>7, <1>8 DEF Execute, Asks, Fails

\* The queue of ended handles is emptied into lines.
LEMMA RecordEndedIs ==
    ASSUME Typed, NEW others, RecordEnded(others)
    PROVE  /\ ended' = <<>> /\ ended' \in Seq(EndedEntries) /\ DOMAIN ended' = {}
           /\ UNCHANGED <<handles, log, missed>>
           /\ Lines \subseteq Lines' /\ others \subseteq Lines'
           /\ \A i \in DOMAIN ended : EndLine(ended[i].handle, ended[i].who) \in Lines'
  BY DEF RecordEnded, Lines

LEMMA EmptiedIs ==
    ASSUME CallsInv, Forward, UNCHANGED handles, DOMAIN ended' = {},
           \A i \in DOMAIN ended : EndLine(ended[i].handle, ended[i].who) \in Lines'
    PROVE  EndedOK'
  <1>1. ASSUME NEW h \in Handles, Cardinality(Handles) <= EndedCap,
               handles[h].state \in {"expired", "rolled_back"}
        PROVE  \/ EndLine(h, handles'[h].who) \in Lines'
               \/ \E i \in DOMAIN ended' : ended'[i] = [handle |-> h, who |-> handles'[h].who]
               \/ \E k \in Calls : Succeeded(k)' /\ pc'[k].op = "rollback" /\ pc'[k].handle = h
    BY <1>1, EndedStays
  <1> QED
    BY <1>1 DEF EndedOK, Entries

LEMMA RecordToolCallKeeps ==
    ASSUME CallsInv, NEW c \in Calls, RecordToolCall(c)
    PROVE  CallsInv'
  <1>1. /\ Typed /\ CallOK(c) /\ pc[c].at = "returned" /\ server.at # "gone"
        /\ UNCHANGED <<parked, announced, server>>
        /\ RecordEnded(IF pc[c].out = Asked THEN {} ELSE {CallLine(c)})
    BY DEF CallsInv, RecordToolCall, Running
  <1>2. PICK at \in {"recorded", "done"} :
            Goto(c, at) /\ (at = "recorded" <=> pc[c].out.kind = "output")
    BY DEF RecordToolCall
  <1>3. /\ pc' \in [Calls -> Requests] /\ Others(c)
        /\ pc'[c].at = at /\ pc'[c].op = pc[c].op /\ pc'[c].who = pc[c].who
        /\ pc'[c].handle = pc[c].handle /\ pc'[c].dry = pc[c].dry
        /\ pc'[c].out = pc[c].out /\ pc'[c].after = pc[c].after
    BY <1>1, <1>2, GotoIs
  <1>4. /\ ended' = <<>> /\ ended' \in Seq(EndedEntries) /\ DOMAIN ended' = {} /\ handles' = handles
        /\ Lines \subseteq Lines'
        /\ (IF pc[c].out = Asked THEN {} ELSE {CallLine(c)}) \subseteq Lines'
        /\ \A i \in DOMAIN ended : EndLine(ended[i].handle, ended[i].who) \in Lines'
    BY <1>1, RecordEndedIs
  <1>5. Typed'
    BY <1>1, <1>3, <1>4 DEF Typed
  <1>6. Forward
    <2>1. Keeps(c)
      BY <1>1, <1>3 DEF Keeps, Came
    <2>2. \A k \in Calls \ {c} : Keeps(k)
      BY <1>3 DEF Keeps, Came, Others
    <2> QED
      BY <1>4, <2>1, <2>2 DEF Forward
  <1>7. CallOK(c)'
    BY <1>1, <1>2, <1>3, <1>4 DEF CallOK, Came, Succeeded
  <1>8. \A k \in Calls : CallOK(k)'
    BY <1>3, <1>6, <1>7, CallStays DEF Others
  <1>9. (ParkedOK /\ AnnouncedOK /\ KeptOK /\ AfterOK)'
    <2>1. \A k \in Calls : Settles(k)' => Settles(k)
      BY <1>2, <1>3 DEF Others, Settles
    <2>2. \A k \in Calls : pc'[k].at = "done" /\ pc'[k].out.kind = "output" => pc[k].at = "done"
      BY <1>2, <1>3 DEF Others
    <2> QED
      BY <1>1, <1>5, <1>6, <2>1, <2>2, ResourcesStay
  <1>10. LinesOK'
    <2>1. pc[c].out.kind = "asked" \/ CallLine(c)' \in Lines'
      BY <1>3, <1>4 DEF CallLine, Asked
    <2>2. \A k \in Calls : pc'[k].at \in {"recorded", "done"} =>
              pc[k].at \in {"recorded", "done"} \/ pc'[k].out.kind = "asked" \/ CallLine(k)' \in Lines'
      BY <1>3, <2>1 DEF Others
    <2> QED
      BY <1>1, <1>6, <2>2, LinesStay DEF LinesOK
  <1>11. EndedOK'
    BY <1>4, <1>6, EmptiedIs
  <1>12. ShutdownOK'
    <2>1. server.at # "up" => server.inflight # {}
      BY <1>1 DEF CallsInv, ShutdownOK, Busy
    <2> QED
      BY <1>1, <2>1 DEF ShutdownOK
  <1> QED
    BY <1>5, <1>8, <1>9, <1>10, <1>11, <1>12 DEF CallsInv

\* A call settles: what it changed is announced or parked, and a commit announces what was
\* parked under its handle.
LEMMA AnnounceIs ==
    ASSUME CallsInv, NEW c \in Calls, Announce(c)
    PROVE  LET h == pc[c].handle
           IN  \/ /\ Writes(pc[c].op) /\ h = None /\ ~pc[c].dry
                  /\ announced' = announced \cup {c} /\ parked' = parked
               \/ /\ Writes(pc[c].op) /\ h # None /\ ~pc[c].dry
                  /\ announced' = announced /\ parked' = Park(parked, h, c)
               \/ /\ pc[c].op = "commit" /\ h # None
                  /\ parked' = Without(parked, h)
                  /\ announced' = announced \cup ParkedFor(parked, h)
               \/ /\ pc[c].op = "rollback" /\ h # None
                  /\ parked' = Without(parked, h) /\ announced' = announced
               \/ /\ announced' = announced /\ parked' = parked
                  /\ pc[c].op # "commit" /\ (Writes(pc[c].op) => pc[c].dry)
  <1>1. CallOK(c) /\ pc[c].at = "recorded" /\ pc[c] \in Requests
    BY DEF CallsInv, Announce, Typed
  <1>2. Succeeded(c)
    BY <1>1 DEF CallOK, Succeeded, Came
  <1>3. Writes(pc[c].op) => pc[c].out.handle = pc[c].handle /\ pc[c].out.dry = pc[c].dry
    BY <1>1, <1>2 DEF CallOK, Output
  <1>4. pc[c].op \in {"commit", "rollback"} =>
            pc[c].out.handle = pc[c].handle /\ ~pc[c].out.dry /\ pc[c].handle # None
    BY <1>1, <1>2 DEF CallOK, Output
  <1>5. pc[c].op = "restore" => pc[c].handle = None
    BY <1>1 DEF CallOK
  <1>6. pc[c].op \in AllOps
    BY <1>1 DEF Requests
  <1>7. CASE pc[c].op = "restore"
    BY <1>3, <1>5, <1>7 DEF Announce, Writes
  <1>8. CASE pc[c].op = "ddl"
    BY <1>3, <1>8 DEF Announce, Writes
  <1>9. CASE pc[c].op = "commit"
    BY <1>4, <1>9 DEF Announce, Published, Writes
  <1>10. CASE pc[c].op = "rollback"
    BY <1>4, <1>10 DEF Announce, Published, Writes
  <1>11. CASE pc[c].op \in {"read", "begin"}
    BY <1>11 DEF Announce, Writes
  <1> QED
    BY <1>6, <1>7, <1>8, <1>9, <1>10, <1>11 DEF AllOps

LEMMA AnnounceKeeps ==
    ASSUME CallsInv, NEW c \in Calls, Announce(c)
    PROVE  CallsInv'
  <1> DEFINE h == pc[c].handle
  <1>1. /\ Typed /\ CallOK(c) /\ pc[c].at = "recorded" /\ server.at # "gone" /\ pc[c] \in Requests
        /\ UNCHANGED <<handles, ended, pending, log, missed, server>> /\ Goto(c, "done")
    BY DEF CallsInv, Typed, Announce, Running, engineVars, auditVars
  <1>2. /\ pc' \in [Calls -> Requests] /\ Others(c)
        /\ pc'[c].at = "done" /\ pc'[c].op = pc[c].op /\ pc'[c].who = pc[c].who
        /\ pc'[c].handle = h /\ pc'[c].dry = pc[c].dry
        /\ pc'[c].out = pc[c].out /\ pc'[c].after = pc[c].after
    BY <1>1, GotoIs
  <1>3. h \in Handles \cup {None} /\ Succeeded(c) /\ pc[c].out.kind = "output"
    BY <1>1 DEF Requests, CallOK, Succeeded, Came
  <1>4. Entries(parked) /\ parked \in Seq(ParkedEntries)
    BY DEF CallsInv, Typed, ParkedOK
  <1>5. \A k \in Handles : \A d \in ParkedFor(parked, k) :
            d \in Calls /\ d # c /\ pc[d].at = "done" /\ pc[d].handle = k
    <2> TAKE k \in Handles
    <2> TAKE d \in ParkedFor(parked, k)
    <2>1. PICK i \in DOMAIN parked : d \in parked[i].changes
      BY DEF ParkedFor, EntriesOf
    <2>2. parked[i] \in ParkedEntries
      BY <1>4, <2>1, Elements
    <2> QED
      BY <1>1, <2>1, <2>2 DEF ParkedEntries, CallsInv, ParkedOK
  <1>6. /\ parked' \in Seq(ParkedEntries) /\ Entries(parked')
        /\ \A k \in Handles : \A d \in ParkedFor(parked', k) :
              d \in ParkedFor(parked, k) \/ (d = c /\ k = h)
    <2>1. CASE parked' = parked
      BY <1>4, <2>1
    <2>2. CASE h # None /\ parked' = Park(parked, h, c)
      BY <1>3, <1>4, <2>2, ParkKeeps
    <2>3. CASE h # None /\ parked' = Without(parked, h)
      BY <1>3, <1>4, <2>3, WithoutKeeps
    <2> QED
      BY <2>1, <2>2, <2>3, AnnounceIs
  <1>7. /\ announced \subseteq announced'
        /\ \A d \in announced' : \/ d \in announced
                                 \/ d = c /\ h = None
                                 \/ pc[c].op = "commit" /\ h # None /\ d \in ParkedFor(parked, h)
    BY AnnounceIs
  <1>8. announced' \subseteq Calls
    BY <1>1, <1>3, <1>5, <1>7 DEF Typed
  <1>9. Typed'
    BY <1>1, <1>2, <1>6, <1>8 DEF Typed
  <1>10. Forward
    <2>1. Keeps(c)
      BY <1>1, <1>2 DEF Keeps, Came
    <2>2. \A k \in Calls \ {c} : Keeps(k)
      BY <1>2 DEF Keeps, Came, Others
    <2> QED
      BY <1>1, <2>1, <2>2 DEF Forward, Lines
  <1>11. CallOK(c)'
    BY <1>1, <1>2 DEF CallOK, Came, Succeeded
  <1>12. \A k \in Calls : CallOK(k)'
    BY <1>2, <1>10, <1>11, CallStays DEF Others
  <1>13. ParkedOK'
    BY <1>2, <1>5, <1>6 DEF ParkedOK, Others
  <1>14. pc[c].op = "commit" => handles[h].state = "committed"
    BY <1>1, <1>3 DEF CallOK
  <1>15. AnnouncedOK'
    <2> SUFFICES ASSUME NEW d \in announced'
                 PROVE  /\ pc'[d].at = "done"
                        /\ pc'[d].handle # None => handles'[pc'[d].handle].state = "committed"
      BY DEF AnnouncedOK
    <2>1. CASE d \in announced
      <3>1. d \in Calls /\ pc[d].at = "done" /\ (pc[d].handle # None => handles[pc[d].handle].state = "committed")
        BY <1>1, <2>1 DEF CallsInv, AnnouncedOK, Typed
      <3>2. d # c
        BY <1>1, <3>1
      <3> QED
        BY <1>1, <1>2, <3>1, <3>2 DEF Others
    <2>2. CASE d = c /\ h = None
      BY <1>2, <2>2
    <2>3. CASE pc[c].op = "commit" /\ h # None /\ d \in ParkedFor(parked, h)
      <3>1. h \in Handles
        BY <1>3, <2>3
      <3>2. d \in Calls \ {c} /\ pc[d].at = "done" /\ pc[d].handle = h
        BY <1>5, <2>3, <3>1
      <3> QED
        BY <1>1, <1>2, <1>14, <2>3, <3>2 DEF Others
    <2> QED
      BY <1>7, <2>1, <2>2, <2>3
  <1>16. KeptOK'
    <2> SUFFICES ASSUME Cardinality(Handles) <= ParkCap, NEW d \in Calls, Settles(d)',
                        pc'[d].handle # None, ~pc'[d].dry
                 PROVE  \/ d \in announced' \/ handles'[pc'[d].handle].state = "rolled_back"
                        \/ d \in ParkedFor(parked', pc'[d].handle)
      BY DEF KeptOK
    <2> DEFINE g == pc'[d].handle
    <2>1. CASE d = c
      <3>1. h \in Handles /\ g = h /\ Writes(pc[c].op) /\ ~pc[c].dry
        BY <1>2, <1>3, <2>1 DEF Settles
      <3>2. parked' = Park(parked, h, c)
        BY <3>1, AnnounceIs DEF Writes
      <3>3. d \in ParkedFor(parked', h)
        BY <1>4, <2>1, <3>1, <3>2, ParkKeeps
      <3> QED
        BY <3>1, <3>3
    <2>2. CASE d # c
      <3>1. pc'[d] = pc[d] /\ Settles(d) /\ g \in Handles /\ pc[d].handle = g
        <4>1. pc'[d] = pc[d]
          BY <1>2, <2>2 DEF Others
        <4>2. pc[d] \in Requests
          BY <1>1 DEF Typed
        <4> QED
          BY <4>1, <4>2 DEF Settles, Requests
      <3>2. d \in announced \/ handles[g].state = "rolled_back" \/ d \in ParkedFor(parked, g)
        BY <3>1 DEF CallsInv, KeptOK
      <3>3. ASSUME d \in ParkedFor(parked, g)
            PROVE  d \in announced' \/ handles[g].state = "rolled_back" \/ d \in ParkedFor(parked', g)
        <4>1. CASE parked' = parked
          BY <3>3, <4>1
        <4>2. CASE h # None /\ parked' = Park(parked, h, c)
          <5>1. h \in Handles
            BY <1>3, <4>2
          <5>2. /\ ParkedFor(parked, h) \subseteq ParkedFor(parked', h)
                /\ \A k \in Handles \ {h} : ParkedFor(parked, k) \subseteq ParkedFor(parked', k)
            BY <1>4, <4>2, <5>1, ParkKeeps
          <5> QED
            BY <3>1, <3>3, <5>2
        <4>3. CASE h # None /\ parked' = Without(parked, h) /\ g # h
          BY <1>4, <3>1, <3>3, <4>3, WithoutKeeps
        <4>4. CASE h # None /\ pc[c].op = "commit" /\ announced' = announced \cup ParkedFor(parked, h) /\ g = h
          BY <3>3, <4>4
        <4>5. CASE h # None /\ pc[c].op = "rollback" /\ g = h
          BY <1>1, <1>3, <4>5 DEF CallOK
        <4> QED
          BY <4>1, <4>2, <4>3, <4>4, <4>5, AnnounceIs
      <3> QED
        BY <1>1, <1>7, <3>2, <3>3
    <2> QED
      BY <2>1, <2>2
  <1>17. AfterOK'
    <2>1. ASSUME NEW k \in Calls, NEW d \in pc'[k].after
          PROVE  d \in Calls \ {c} /\ Settles(d) /\ pc'[d] = pc[d]
      <3>1. pc'[k].after = pc[k].after /\ pc[k] \in Requests
        BY <1>1, <1>2 DEF Others, Typed
      <3>2. d \in Calls /\ Settles(d)
        BY <2>1, <3>1 DEF CallsInv, AfterOK, Requests
      <3>3. d # c
        BY <1>1, <3>2 DEF Settles
      <3> QED
        BY <1>2, <3>2, <3>3 DEF Others
    <2>2. CommittedIsAnnounced'
      <3> SUFFICES ASSUME Cardinality(Handles) <= ParkCap, NEW k \in Calls,
                          pc'[k].at = "done", pc'[k].op = "commit", pc'[k].out.kind = "output",
                          NEW d \in pc'[k].after, pc'[d].handle = pc'[k].handle, ~pc'[d].dry
                   PROVE  d \in announced'
        BY DEF CommittedIsAnnounced
      <3>1. d \in Calls \ {c} /\ Settles(d) /\ pc'[d] = pc[d]
        BY <2>1
      <3>2. CASE k = c
        <4>1. /\ pc[c].op = "commit" /\ h # None /\ h \in Handles /\ pc[d].handle = h /\ ~pc[d].dry
              /\ handles[h].state = "committed"
          BY <1>1, <1>2, <1>3, <1>14, <3>1, <3>2 DEF CallOK
        <4>2. d \in announced \/ d \in ParkedFor(parked, h)
          BY <3>1, <4>1 DEF CallsInv, KeptOK
        <4>3. announced' = announced \cup ParkedFor(parked, h)
          BY <4>1, AnnounceIs DEF Writes
        <4> QED
          BY <4>2, <4>3
      <3>3. CASE k # c
        <4>1. pc'[k] = pc[k]
          BY <1>2, <3>3 DEF Others
        <4> QED
          BY <1>7, <3>1, <4>1 DEF CallsInv, AfterOK, CommittedIsAnnounced
      <3> QED
        BY <3>2, <3>3
    <2> QED
      BY <2>1, <2>2 DEF AfterOK, Settles
  <1>18. LinesOK'
    <2>1. \A k \in Calls : pc'[k].at \in {"recorded", "done"} => pc[k].at \in {"recorded", "done"}
      BY <1>1, <1>2 DEF Others
    <2> QED
      BY <1>1, <1>10, <2>1, LinesStay DEF LinesOK
  <1>19. EndedOK'
    <2>1. \A g \in Handles : handles[g].state \in {"expired", "rolled_back"} /\ Cardinality(Handles) <= EndedCap =>
              \/ EndLine(g, handles'[g].who) \in Lines'
              \/ \E i \in DOMAIN ended' : ended'[i] = [handle |-> g, who |-> handles'[g].who]
              \/ \E k \in Calls : Succeeded(k)' /\ pc'[k].op = "rollback" /\ pc'[k].handle = g
      BY <1>1, <1>10, EndedStays
    <2> QED
      BY <1>1, <2>1 DEF CallsInv, EndedOK, Entries
  <1>20. ShutdownOK'
    <2>1. server.at # "up" => server.inflight # {}
      BY <1>1 DEF CallsInv, ShutdownOK, Busy
    <2> QED
      BY <1>1, <2>1 DEF ShutdownOK
  <1> QED
    BY <1>9, <1>12, <1>13, <1>15, <1>16, <1>17, <1>18, <1>19, <1>20 DEF CallsInv

--------------------------------------------------------------------------------
(* The steps of the server. *)

\* A step that no call takes.
LEMMA ServerStep ==
    ASSUME CallsInv, UNCHANGED <<pc, parked, announced>>, Typed',
           \A h \in Handles : handles[h].state \notin {"unused", "open"} => handles'[h] = handles[h],
           Lines \subseteq Lines'
    PROVE  /\ Forward
           /\ \A k \in Calls : CallOK(k)'
           /\ (ParkedOK /\ AnnouncedOK /\ KeptOK /\ AfterOK)'
           /\ \A c \in Calls : pc'[c].at \in {"recorded", "done"} /\ pc'[c].out.kind # "asked"
                                => CallLine(c)' \in Lines'
  <1>1. Forward
    BY DEF Forward, Keeps, Came
  <1>2. \A k \in Calls : CallOK(k)'
    BY <1>1, CallStays
  <1>3. \A c \in Calls : Settles(c)' => Settles(c)
    BY DEF Settles
  <1>4. (ParkedOK /\ AnnouncedOK /\ KeptOK /\ AfterOK)'
    BY <1>1, <1>3, ResourcesStay
  <1>5. \A c \in Calls : pc'[c].at \in {"recorded", "done"} /\ pc'[c].out.kind # "asked"
                                => CallLine(c)' \in Lines'
    BY <1>1, LinesStay
  <1> QED
    BY <1>1, <1>2, <1>4, <1>5

\* Neither the handles nor their queue change.
LEMMA EndedSame ==
    ASSUME CallsInv, Forward, UNCHANGED <<handles, ended>>
    PROVE  EndedOK'
  <1>1. \A g \in Handles : handles[g].state \in {"expired", "rolled_back"} /\ Cardinality(Handles) <= EndedCap =>
            \/ EndLine(g, handles'[g].who) \in Lines'
            \/ \E i \in DOMAIN ended' : ended'[i] = [handle |-> g, who |-> handles'[g].who]
            \/ \E k \in Calls : Succeeded(k)' /\ pc'[k].op = "rollback" /\ pc'[k].handle = g
    BY EndedStays
  <1> QED
    BY <1>1 DEF CallsInv, EndedOK, Entries

LEMMA WriteLineKeeps ==
    ASSUME CallsInv, NEW l \in pending, WriteLine(l)
    PROVE  CallsInv'
  <1>1. /\ Typed /\ server.at # "gone"
        /\ UNCHANGED <<pc, handles, ended, parked, announced, server>>
    BY DEF CallsInv, WriteLine, Running, engineVars
  <1>2. Lines \subseteq Lines'
    BY DEF WriteLine, Lines
  <1>3. Typed'
    BY <1>1 DEF Typed
  <1>4. LinesOK'
    BY <1>1, <1>2, <1>3, ServerStep DEF LinesOK
  <1>5. EndedOK'
    BY <1>1, <1>2, <1>3, ServerStep, EndedSame
  <1>6. ShutdownOK'
    BY <1>1 DEF CallsInv, ShutdownOK, Busy
  <1> QED
    BY <1>1, <1>2, <1>3, <1>4, <1>5, <1>6, ServerStep DEF CallsInv

\* Handles that end by themselves join the queue, which has room for all there are.
LEMMA EndsJoin ==
    ASSUME CallsInv, NEW open \in SUBSET Handles, \A h \in open : handles[h].state = "open",
           NEW q \in Seq(EndedEntries), Forward, UNCHANGED <<pending, log, missed>>,
           \A h \in open : handles'[h].state \in {"expired", "rolled_back"} /\ handles'[h].who = handles[h].who,
           \A h \in Handles \ open : handles'[h] = handles[h],
           Entries(q),
           \A i \in DOMAIN q : q[i].handle \in open \/ \E k \in DOMAIN ended : q[i] = ended[k],
           \A i \in DOMAIN ended : \E k \in DOMAIN q : q[k] = ended[i],
           \A h \in open : \E k \in DOMAIN q : q[k] = [handle |-> h, who |-> handles[h].who],
           ended' = Newest(q, EndedCap)
    PROVE  EndedOK' /\ ended' \in Seq(EndedEntries)
  <1>1. Typed
    BY DEF CallsInv
  <1>2. /\ ended' \in Seq(EndedEntries) /\ Entries(ended')
        /\ Len(q) <= EndedCap => ended' = q
        /\ \A i \in DOMAIN ended' : \E k \in DOMAIN q : ended'[i] = q[k]
    <2> DEFINE kept == Newest(q, EndedCap)
    <2>1. EndedCap \in Nat \ {0}
      BY ServerAssumption
    <2>2. /\ kept \in Seq(EndedEntries) /\ (Len(q) <= EndedCap => kept = q)
          /\ \A i \in DOMAIN kept : \E k \in DOMAIN q : kept[i] = q[k]
          /\ Entries(kept)
      BY <2>1, NewestIs
    <2>3. ended' = kept
      OBVIOUS
    <2> HIDE DEF kept
    <2> QED
      BY <2>2, <2>3 DEF Entries
  <1>3. \A i \in DOMAIN q : q[i].handle \in Handles /\ handles'[q[i].handle].state \in {"expired", "rolled_back"}
    <2> TAKE i \in DOMAIN q
    <2>1. CASE q[i].handle \in open
      BY <2>1
    <2>2. CASE \E k \in DOMAIN ended : q[i] = ended[k]
      <3>1. PICK k \in DOMAIN ended : q[i] = ended[k]
        BY <2>2
      <3>2. ended[k].handle \in Handles /\ handles[ended[k].handle].state \in {"expired", "rolled_back"}
        BY <1>1, EndedHandle DEF CallsInv, EndedOK
      <3> QED
        BY <3>1, <3>2 DEF Forward
    <2> QED
      BY <2>1, <2>2
  <1>4. \A i \in DOMAIN ended' : handles'[ended'[i].handle].state \in {"expired", "rolled_back"}
    BY <1>2, <1>3
  <1>5. ASSUME Cardinality(Handles) <= EndedCap
        PROVE  ended' = q
    <2>1. Len(q) <= Cardinality(Handles)
      BY <1>3, EntriesFit, ServerAssumption
    <2>2. Len(q) \in Nat /\ Cardinality(Handles) \in Nat /\ EndedCap \in Nat
      BY Elements, FS_CardinalityType, ServerAssumption
    <2> QED
      BY <1>2, <1>5, <2>1, <2>2
  <1>6. ASSUME Cardinality(Handles) <= EndedCap, NEW h \in Handles,
               handles'[h].state \in {"expired", "rolled_back"}
        PROVE  \/ EndLine(h, handles'[h].who) \in Lines'
               \/ \E i \in DOMAIN ended' : ended'[i] = [handle |-> h, who |-> handles'[h].who]
               \/ \E k \in Calls : Succeeded(k)' /\ pc'[k].op = "rollback" /\ pc'[k].handle = h
    <2>1. ended' = q
      BY <1>5, <1>6
    <2>2. CASE h \in open
      <3>1. PICK k \in DOMAIN q : q[k] = [handle |-> h, who |-> handles[h].who]
        BY <2>2
      <3> QED
        BY <2>1, <2>2, <3>1
    <2>3. CASE h \notin open
      <3>1. handles[h].state \in {"expired", "rolled_back"}
        BY <1>6, <2>3
      <3>2. \A i \in DOMAIN ended : \/ \E k \in DOMAIN ended' : ended'[k] = ended[i]
                                    \/ EndLine(ended[i].handle, ended[i].who) \in Lines'
        BY <2>1
      <3> QED
        BY <1>6, <3>1, <3>2, EndedStays
    <2> QED
      BY <2>2, <2>3
  <1> QED
    BY <1>2, <1>4, <1>6 DEF EndedOK

LEMMA EndByItselfKeeps ==
    ASSUME CallsInv, NEW h \in Handles, EndByItself(h)
    PROVE  CallsInv'
  <1> DEFINE e == [handle |-> h, who |-> handles[h].who]
             q == Append(ended, e)
  <1>1. /\ Typed /\ handles[h].state = "open"
        /\ UNCHANGED <<pc, parked, announced, pending, log, missed, server>>
        /\ handles' = [handles EXCEPT ![h].state = "expired"]
        /\ ended' = Newest(q, EndedCap)
        /\ server.at = "up" \/ (server.at # "gone" /\ \E c \in Calls : pc[c].at = "working")
    BY DEF CallsInv, EndByItself, Running, auditVars
  <1>2. /\ handles' \in [Handles -> [state : States, who : Principals \cup {None}]]
        /\ handles'[h].state = "expired" /\ handles'[h].who = handles[h].who
        /\ \A g \in Handles \ {h} : handles'[g] = handles[g]
    BY <1>1 DEF Typed, States
  <1>3. e \in EndedEntries /\ e.handle = h
    BY <1>1 DEF Typed, EndedEntries
  <1>4. \A i \in DOMAIN ended : ended[i].handle # h
    BY <1>1 DEF CallsInv, EndedOK
  <1> HIDE DEF e
  <1>5. /\ q \in Seq(EndedEntries) /\ Entries(q)
        /\ DOMAIN ended \subseteq DOMAIN q /\ \A i \in DOMAIN ended : q[i] = ended[i]
        /\ \E i \in DOMAIN q : q[i] = e
        /\ \A i \in DOMAIN q : i \in DOMAIN ended \/ q[i] = e
    <2>1. ended \in Seq(EndedEntries) /\ Entries(ended)
      BY <1>1 DEF Typed, CallsInv, EndedOK
    <2> QED
      BY <1>3, <1>4, <2>1, AppendIs
  <1> HIDE DEF q
  <1>6. ended' \in Seq(EndedEntries)
    BY <1>1, <1>5, NewestIs, ServerAssumption
  <1>7. Typed'
    BY <1>1, <1>2, <1>6 DEF Typed
  <1>8. \A g \in Handles : handles[g].state \notin {"unused", "open"} => handles'[g] = handles[g]
    BY <1>1, <1>2
  <1>9. Lines \subseteq Lines'
    BY <1>1 DEF Lines
  <1>10. Forward
    BY <1>1, <1>7, <1>8, <1>9, ServerStep
  <1>11. EndedOK'
    <2>1. {h} \in SUBSET Handles /\ \A g \in {h} : handles[g].state = "open"
      BY <1>1
    <2>2. \A i \in DOMAIN q : q[i].handle \in {h} \/ \E k \in DOMAIN ended : q[i] = ended[k]
      BY <1>3, <1>5
    <2>3. \A i \in DOMAIN ended : \E k \in DOMAIN q : q[k] = ended[i]
      BY <1>5
    <2>4. \A g \in {h} : \E k \in DOMAIN q : q[k] = [handle |-> g, who |-> handles[g].who]
      BY <1>5 DEF e
    <2>5. /\ \A g \in {h} : handles'[g].state \in {"expired", "rolled_back"} /\ handles'[g].who = handles[g].who
          /\ \A g \in Handles \ {h} : handles'[g] = handles[g]
      BY <1>2
    <2> QED
      BY <1>1, <1>5, <1>10, <2>1, <2>2, <2>3, <2>4, <2>5, EndsJoin
  <1>12. LinesOK'
    BY <1>1, <1>7, <1>8, <1>9, ServerStep DEF CallsInv, LinesOK
  <1>13. ShutdownOK'
    <2>1. server.at # "up" => server.inflight # {}
      BY <1>1 DEF CallsInv, ShutdownOK, Busy
    <2> QED
      BY <1>1, <2>1 DEF ShutdownOK
  <1> QED
    BY <1>1, <1>7, <1>8, <1>9, <1>11, <1>12, <1>13, ServerStep DEF CallsInv

\* The queue is emptied by a step that no call takes.
LEMMA EmptyingKeeps ==
    ASSUME CallsInv, RecordEnded({}), UNCHANGED <<pc, parked, announced>>, server.at # "gone",
           server' \in [at : Stages, late : BOOLEAN, inflight : SUBSET Calls], server'.at # "gone",
           ShutdownOK'
    PROVE  CallsInv'
  <1>1. Typed
    BY DEF CallsInv
  <1>2. /\ ended' = <<>> /\ ended' \in Seq(EndedEntries) /\ DOMAIN ended' = {} /\ handles' = handles
        /\ Lines \subseteq Lines'
        /\ \A i \in DOMAIN ended : EndLine(ended[i].handle, ended[i].who) \in Lines'
    BY <1>1, RecordEndedIs
  <1>3. Typed'
    BY <1>1, <1>2 DEF Typed
  <1>4. EndedOK'
    BY <1>2, <1>3, ServerStep, EmptiedIs
  <1>5. LinesOK'
    BY <1>2, <1>3, ServerStep DEF LinesOK
  <1> QED
    BY <1>2, <1>3, <1>4, <1>5, ServerStep DEF CallsInv

LEMMA SweepTickKeeps ==
    ASSUME CallsInv, SweepTick
    PROVE  CallsInv'
  <1>1. server' = server /\ server.at = "up" /\ UNCHANGED <<pc, parked, announced>> /\ RecordEnded({})
    BY DEF SweepTick
  <1>2. ShutdownOK'
    BY <1>1 DEF ShutdownOK
  <1> QED
    BY <1>1, <1>2, EmptyingKeeps DEF CallsInv, Typed

LEMMA RecordReleasedKeeps ==
    ASSUME CallsInv, RecordReleased
    PROVE  CallsInv'
  <1>1. /\ server.at = "recording" /\ server' = [server EXCEPT !.at = "closing"]
        /\ UNCHANGED <<pc, parked, announced>> /\ RecordEnded({})
    BY DEF RecordReleased, Shutdown
  <1>2. server \in [at : Stages, late : BOOLEAN, inflight : SUBSET Calls]
    BY DEF CallsInv, Typed
  <1>3. /\ server' \in [at : Stages, late : BOOLEAN, inflight : SUBSET Calls]
        /\ server'.at = "closing" /\ server'.late = server.late /\ server'.inflight = server.inflight
    BY <1>1, <1>2 DEF Stages
  <1>4. ended' = <<>> /\ handles' = handles
    BY <1>1 DEF RecordEnded
  <1>5. ShutdownOK'
    BY <1>1, <1>3, <1>4 DEF CallsInv, ShutdownOK, Busy
  <1> QED
    BY <1>1, <1>3, <1>5, EmptyingKeeps

\* The server alone moves on.
LEMMA ServerMoves ==
    ASSUME CallsInv, UNCHANGED <<pc, handles, ended, parked, announced, pending, log, missed>>,
           server' \in [at : Stages, late : BOOLEAN, inflight : SUBSET Calls],
           server'.at = "gone" /\ ~server'.late => pending = {},
           ShutdownOK'
    PROVE  CallsInv'
  <1>1. Typed' /\ Lines \subseteq Lines'
    BY DEF CallsInv, Typed, Lines
  <1>2. EndedOK'
    BY <1>1, ServerStep, EndedSame
  <1>3. LinesOK'
    BY <1>1, ServerStep DEF LinesOK
  <1> QED
    BY <1>1, <1>2, <1>3, ServerStep DEF CallsInv

LEMMA BeginShutdownKeeps ==
    ASSUME CallsInv, BeginShutdown
    PROVE  CallsInv'
  <1>1. /\ server.at = "up" /\ server' = [server EXCEPT !.at = "releasing", !.inflight = {c \in Calls : Busy(c)}]
        /\ UNCHANGED <<pc, handles, ended, parked, announced, pending, log, missed>>
    BY DEF BeginShutdown, engineVars, auditVars
  <1>2. server \in [at : Stages, late : BOOLEAN, inflight : SUBSET Calls]
    BY DEF CallsInv, Typed
  <1>3. /\ server' \in [at : Stages, late : BOOLEAN, inflight : SUBSET Calls]
        /\ server'.at = "releasing" /\ server'.inflight = {c \in Calls : Busy(c)}
    BY <1>1, <1>2 DEF Stages
  <1>4. ShutdownOK'
    BY <1>1, <1>3 DEF ShutdownOK, Busy
  <1> QED
    BY <1>1, <1>3, <1>4, ServerMoves

LEMMA LeaveKeeps ==
    ASSUME CallsInv, Leave
    PROVE  CallsInv'
  <1>1. /\ server.at = "closing" /\ server' = [server EXCEPT !.at = "gone"] /\ pending = {}
        /\ UNCHANGED <<pc, handles, ended, parked, announced, pending, log, missed>>
    BY DEF Leave, Shutdown, WritesAreDone, engineVars, auditVars
  <1>2. server \in [at : Stages, late : BOOLEAN, inflight : SUBSET Calls]
    BY DEF CallsInv, Typed
  <1>3. /\ server' \in [at : Stages, late : BOOLEAN, inflight : SUBSET Calls]
        /\ server'.at = "gone" /\ server'.late = server.late /\ server'.inflight = server.inflight
    BY <1>1, <1>2 DEF Stages
  <1>4. ShutdownOK'
    BY <1>1, <1>3 DEF CallsInv, ShutdownOK, Busy
  <1> QED
    BY <1>1, <1>3, <1>4, ServerMoves

LEMMA DeadlinePassesKeeps ==
    ASSUME CallsInv, DeadlinePasses
    PROVE  CallsInv'
  <1>1. server \in [at : Stages, late : BOOLEAN, inflight : SUBSET Calls]
    BY DEF CallsInv, Typed
  <1>2. PICK at \in {"closing", "gone"} : server' = [server EXCEPT !.at = at, !.late = TRUE]
    BY DEF DeadlinePasses
  <1>3. /\ server.at # "up" /\ UNCHANGED <<pc, handles, ended, parked, announced, pending, log, missed>>
    BY DEF DeadlinePasses, engineVars, auditVars
  <1>4. /\ server' \in [at : Stages, late : BOOLEAN, inflight : SUBSET Calls]
        /\ server'.late /\ server'.inflight = server.inflight
    BY <1>1, <1>2 DEF Stages
  <1>5. ShutdownOK'
    BY <1>3, <1>4 DEF CallsInv, ShutdownOK, Busy
  <1> QED
    BY <1>3, <1>4, <1>5, ServerMoves

\* A sequence of a finite set has each of its elements, and once.
LEMMA SetToSeqIs ==
    ASSUME NEW S, IsFiniteSet(S)
    PROVE  /\ SetToSeq(S) \in Seq(S)
           /\ \A x \in S : \E i \in DOMAIN SetToSeq(S) : SetToSeq(S)[i] = x
           /\ \A i, k \in DOMAIN SetToSeq(S) : SetToSeq(S)[i] = SetToSeq(S)[k] => i = k
  <1> DEFINE n == Cardinality(S)
             f == SetToSeq(S)
  <1>1. n \in Nat /\ ExistsBijection(1..n, S)
    BY FS_CardinalityType
  <1>2. \E g \in [1..n -> S] : IsInjective(g)
    BY <1>1 DEF ExistsBijection, Bijection, Injection
  <1>3. f \in [1..n -> S] /\ IsInjective(f)
    BY <1>2 DEF SetToSeq
  <1>4. f \in Injection(1..n, S)
    BY <1>3 DEF Injection
  <1>5. Cardinality(1..n) = n
    <2>1. Cardinality(1..n) = IF 1 > n THEN 0 ELSE n - 1 + 1
      BY <1>1, FS_Interval
    <2> QED
      BY <1>1, <2>1
  <1>6. f \in Surjection(1..n, S)
    BY <1>4, <1>5, FS_Injection
  <1> HIDE DEF f
  <1>7. DOMAIN f = 1..n /\ f \in Seq(S)
    BY <1>1, <1>3
  <1>8. \A x \in S : \E i \in 1..n : f[i] = x
    BY <1>6 DEF Surjection
  <1>9. \A i, k \in 1..n : f[i] = f[k] => i = k
    BY <1>3, <1>7 DEF IsInjective
  <1> QED
    BY <1>7, <1>8, <1>9 DEF f

LEMMA ReleaseEverythingKeeps ==
    ASSUME CallsInv, ReleaseEverything
    PROVE  CallsInv'
  <1> DEFINE open == {h \in Handles : handles[h].state = "open"}
             EntryOf(h) == [handle |-> h, who |-> handles[h].who]
             entries == {EntryOf(h) : h \in open}
             seq == SetToSeq(entries)
             q == ended \o seq
  <1>1. /\ Typed /\ server.at = "releasing" /\ server' = [server EXCEPT !.at = "recording"]
        /\ UNCHANGED <<pc, parked, announced, pending, log, missed>>
        /\ handles' = [h \in Handles |-> IF h \in open THEN [handles[h] EXCEPT !.state = "rolled_back"]
                                         ELSE handles[h]]
        /\ ended' = Newest(q, EndedCap)
    BY DEF CallsInv, ReleaseEverything, Shutdown, auditVars
  <1>2. /\ handles' \in [Handles -> [state : States, who : Principals \cup {None}]]
        /\ \A h \in open : handles'[h].state = "rolled_back" /\ handles'[h].who = handles[h].who
        /\ \A h \in Handles \ open : handles'[h] = handles[h]
    BY <1>1 DEF Typed, States
  <1>3. /\ server' \in [at : Stages, late : BOOLEAN, inflight : SUBSET Calls]
        /\ server'.at = "recording" /\ server'.late = server.late /\ server'.inflight = server.inflight
    BY <1>1 DEF Typed, Stages
  <1>4. /\ open \in SUBSET Handles
        /\ \A h \in open : EntryOf(h) \in EndedEntries /\ EntryOf(h).handle = h
    BY <1>1 DEF Typed, EndedEntries
  <1>5. IsFiniteSet(entries)
    <2> DEFINE f == [h \in open |-> EntryOf(h)]
    <2>1. IsFiniteSet(open)
      BY <1>4, FS_Subset, ServerAssumption
    <2>2. f \in Surjection(open, entries)
      BY DEF Surjection
    <2> QED
      BY <2>1, <2>2, FS_Surjection
  <1>6. /\ seq \in Seq(entries)
        /\ \A x \in entries : \E i \in DOMAIN seq : seq[i] = x
        /\ \A i, k \in DOMAIN seq : seq[i] = seq[k] => i = k
    BY <1>5, SetToSeqIs
  <1> HIDE DEF seq
  <1>7. /\ Len(seq) \in Nat /\ DOMAIN seq = 1..Len(seq)
        /\ \A i \in DOMAIN seq : \E h \in open : seq[i] = EntryOf(h)
    BY <1>6, Elements
  <1>8. /\ ended \in Seq(EndedEntries) /\ Len(ended) \in Nat /\ DOMAIN ended = 1..Len(ended)
    BY <1>1, Elements DEF Typed
  <1>9. seq \in Seq(EndedEntries)
    <2>1. entries \subseteq EndedEntries
      BY <1>4
    <2> HIDE DEF entries
    <2> QED
      BY <1>6, <2>1, SeqMonotonic
  <1>10. /\ q \in Seq(EndedEntries) /\ DOMAIN q = 1..(Len(ended) + Len(seq))
         /\ \A i \in DOMAIN ended : i \in DOMAIN q /\ q[i] = ended[i]
         /\ \A i \in DOMAIN seq : i + Len(ended) \in DOMAIN q /\ q[i + Len(ended)] = seq[i]
         /\ \A i \in DOMAIN q : i \in DOMAIN ended \/ \E k \in DOMAIN seq : i = k + Len(ended)
    <2>1. /\ q \in Seq(EndedEntries) /\ Len(q) = Len(ended) + Len(seq)
          /\ \A i \in 1..(Len(ended) + Len(seq)) :
                q[i] = IF i <= Len(ended) THEN ended[i] ELSE seq[i - Len(ended)]
      BY <1>8, <1>9, ConcatProperties
    <2>2. DOMAIN q = 1..(Len(ended) + Len(seq))
      BY <2>1, Elements
    <2> HIDE DEF q
    <2>3. \A i \in DOMAIN ended : i \in DOMAIN q /\ q[i] = ended[i]
      BY <1>7, <1>8, <2>1, <2>2
    <2>4. ASSUME NEW i \in DOMAIN seq
          PROVE  i + Len(ended) \in DOMAIN q /\ q[i + Len(ended)] = seq[i]
      <3>1. i + Len(ended) \in 1..(Len(ended) + Len(seq)) /\ ~(i + Len(ended) <= Len(ended))
            /\ i + Len(ended) - Len(ended) = i
        BY <1>7, <1>8
      <3> QED
        BY <2>1, <2>2, <3>1
    <2>5. ASSUME NEW i \in DOMAIN q, i \notin DOMAIN ended
          PROVE  \E k \in DOMAIN seq : i = k + Len(ended)
      <3>1. i - Len(ended) \in DOMAIN seq /\ i = (i - Len(ended)) + Len(ended)
        BY <1>7, <1>8, <2>2, <2>5
      <3> QED
        BY <3>1
    <2> QED
      BY <2>1, <2>2, <2>3, <2>4, <2>5
  <1> HIDE DEF q
  <1>11. \A i \in DOMAIN ended : ended[i].handle \notin open
    BY DEF CallsInv, EndedOK
  <1>12. \A i \in DOMAIN seq : seq[i].handle \in open /\ seq[i] = EntryOf(seq[i].handle)
    BY <1>4, <1>7
  <1>13. Entries(q)
    <2> SUFFICES ASSUME NEW i \in DOMAIN q, NEW k \in DOMAIN q, q[i].handle = q[k].handle
                 PROVE  i = k
      BY DEF Entries
    <2>1. CASE i \in DOMAIN ended /\ k \in DOMAIN ended
      BY <1>10, <2>1 DEF CallsInv, EndedOK, Entries
    <2>2. ASSUME NEW m \in DOMAIN seq, NEW n \in DOMAIN seq, i = m + Len(ended), k = n + Len(ended)
          PROVE  i = k
      <3>1. seq[m].handle = seq[n].handle
        BY <1>10, <2>2
      <3>2. seq[m] = seq[n]
        BY <1>12, <3>1
      <3> QED
        BY <1>6, <2>2, <3>2
    <2>3. ASSUME NEW m \in DOMAIN ended, NEW n \in DOMAIN seq, q[m].handle = q[n + Len(ended)].handle
          PROVE  FALSE
      BY <1>10, <1>11, <1>12, <2>3
    <2> QED
      BY <1>10, <2>1, <2>2, <2>3
  <1>14. ended' \in Seq(EndedEntries)
    BY <1>1, <1>10, NewestIs, ServerAssumption
  <1>15. Typed'
    BY <1>1, <1>2, <1>3, <1>14 DEF Typed
  <1>16. \A g \in Handles : handles[g].state \notin {"unused", "open"} => handles'[g] = handles[g]
    BY <1>2
  <1>17. Lines \subseteq Lines'
    BY <1>1 DEF Lines
  <1>18. Forward
    BY <1>1, <1>15, <1>16, <1>17, ServerStep
  <1>19. EndedOK'
    <2>1. \A i \in DOMAIN q : q[i].handle \in open \/ \E k \in DOMAIN ended : q[i] = ended[k]
      BY <1>10, <1>12
    <2>2. \A i \in DOMAIN ended : \E k \in DOMAIN q : q[k] = ended[i]
      BY <1>10
    <2>3. \A h \in open : \E k \in DOMAIN q : q[k] = [handle |-> h, who |-> handles[h].who]
      BY <1>6, <1>10
    <2>4. \A h \in open : handles[h].state = "open" /\ handles'[h].state \in {"expired", "rolled_back"}
                             /\ handles'[h].who = handles[h].who
      BY <1>2
    <2> HIDE DEF open
    <2> QED
      BY <1>1, <1>2, <1>4, <1>10, <1>13, <1>18, <2>1, <2>2, <2>3, <2>4, EndsJoin
  <1>20. LinesOK'
    BY <1>1, <1>3, <1>15, <1>16, <1>17, ServerStep DEF LinesOK
  <1>21. ShutdownOK'
    BY <1>1, <1>2, <1>3 DEF CallsInv, ShutdownOK, Busy
  <1> QED
    BY <1>1, <1>15, <1>16, <1>17, <1>19, <1>20, <1>21, ServerStep DEF CallsInv

--------------------------------------------------------------------------------
(* Theorems. *)

LEMMA InitHolds == Init => CallsInv
  <1> SUFFICES ASSUME Init
               PROVE  CallsInv
    OBVIOUS
  <1>1. New \in Requests /\ New.at = "new" /\ New.out.kind = "none" /\ New.op = "read" /\ New.after = {}
    BY DEF New, Requests, NoOutcome, Outcomes, AllOps
  <1>2. \A c \in Calls : pc[c] = New
    BY DEF Init
  <1>3. /\ ended = <<>> /\ parked = <<>> /\ announced = {}
        /\ server = [at |-> "up", late |-> FALSE, inflight |-> {}]
        /\ \A h \in Handles : handles[h] = [state |-> "unused", who |-> None]
    BY DEF Init
  <1>4. Typed
    BY <1>1, <1>3 DEF Init, Typed, States, Stages
  <1>5. \A c \in Calls : CallOK(c)
    BY <1>1, <1>2 DEF CallOK, Came, Succeeded
  <1>6. ParkedOK /\ AnnouncedOK
    BY <1>3 DEF ParkedOK, AnnouncedOK, Entries, ParkedFor, EntriesOf
  <1>7. KeptOK /\ AfterOK
    BY <1>1, <1>2 DEF KeptOK, AfterOK, Settles, CommittedIsAnnounced
  <1>8. LinesOK /\ EndedOK /\ ShutdownOK
    BY <1>1, <1>2, <1>3 DEF LinesOK, EndedOK, ShutdownOK, Entries
  <1> QED
    BY <1>4, <1>5, <1>6, <1>7, <1>8 DEF CallsInv

LEMMA StepKeeps == CallsInv /\ [Next]_vars => CallsInv'
  <1> SUFFICES ASSUME CallsInv, [Next]_vars
               PROVE  CallsInv'
    OBVIOUS
  <1>1. ASSUME NEW c \in Calls, CallStep(c)
        PROVE  CallsInv'
    BY <1>1, ArriveKeeps, ExecuteKeeps, RecordToolCallKeeps, AnnounceKeeps DEF CallStep
  <1>2. CASE \E l \in pending : WriteLine(l)
    BY <1>2, WriteLineKeeps
  <1>3. CASE \E h \in Handles : EndByItself(h)
    BY <1>3, EndByItselfKeeps
  <1>4. CASE SweepTick
    BY <1>4, SweepTickKeeps
  <1>5. CASE ShutdownStep
    BY <1>5, BeginShutdownKeeps, ReleaseEverythingKeeps, RecordReleasedKeeps, LeaveKeeps,
       DeadlinePassesKeeps DEF ShutdownStep
  <1>6. ASSUME UNCHANGED vars
        PROVE  CallsInv'
    <2>1. UNCHANGED <<pc, handles, ended, parked, announced, pending, log, missed, server>>
      BY <1>6 DEF vars
    <2>2. /\ server' \in [at : Stages, late : BOOLEAN, inflight : SUBSET Calls]
          /\ server'.at = "gone" /\ ~server'.late => pending = {}
          /\ ShutdownOK'
      BY <2>1 DEF CallsInv, Typed, LinesOK, ShutdownOK, Busy
    <2> QED
      BY <2>1, <2>2, ServerMoves
  <1> QED
    BY <1>1, <1>2, <1>3, <1>4, <1>5, <1>6 DEF Next

\* Through every order of calls, sweeps, writes and a shutdown: a change that came back is
\* announced or parked under its handle's one entry, and a handle that ended has its line, its
\* place in the queue, or a call that ended it.
THEOREM CallsInvariant == Spec => []CallsInv
  BY InitHolds, StepKeeps, PTL DEF Spec

\* Nobody hears of a change made under a handle that is not committed, however many calls and
\* handles there are and however small the queue of parked changes is.
THEOREM CommittedAnnounced == Spec => []OnlyCommittedAnnounced
  <1>1. CallsInv => OnlyCommittedAnnounced
    BY DEF CallsInv, AnnouncedOK, OnlyCommittedAnnounced
  <1> QED
    BY <1>1, CallsInvariant, PTL

\* A commit announces every change that had come back before it was called, as long as the
\* queue of parked changes has room for the handles there are.
THEOREM CommitsAnnounce == Spec => []CommittedIsAnnounced
  <1>1. CallsInv => CommittedIsAnnounced
    BY DEF CallsInv, AfterOK
  <1> QED
    BY <1>1, CallsInvariant, PTL

\* A shutdown that meets no deadline loses no line: not of a call that had one to hand over,
\* and not of a handle that a sweep or the shutdown itself ended.
THEOREM LinesSurvive == Spec => []LinesSurviveShutdown
  <1>1. CallsInv => LinesSurviveShutdown
    <2> SUFFICES ASSUME CallsInv, server.at = "gone", ~server.late
                 PROVE  /\ \A c \in Calls : (pc[c].at \in {"recorded", "done"} /\ pc[c].out.kind # "asked")
                                 => CallLine(c) \in log \cup missed
                        /\ server.inflight = {} /\ Cardinality(Handles) <= EndedCap =>
                             \A h \in Handles : handles[h].state \notin {"unused", "committed"} =>
                               \/ EndLine(h, handles[h].who) \in log \cup missed
                               \/ \E c \in Calls : pc[c].op = "rollback" /\ pc[c].handle = h
                                                   /\ CallLine(c) \in log \cup missed
      BY DEF LinesSurviveShutdown
    <2>1. Lines = log \cup missed
      BY DEF CallsInv, LinesOK, Lines
    <2>2. \A c \in Calls : (pc[c].at \in {"recorded", "done"} /\ pc[c].out.kind # "asked")
                => CallLine(c) \in log \cup missed
      BY <2>1 DEF CallsInv, LinesOK
    <2>3. ASSUME server.inflight = {}, Cardinality(Handles) <= EndedCap, NEW h \in Handles,
                 handles[h].state \notin {"unused", "committed"}
          PROVE  \/ EndLine(h, handles[h].who) \in log \cup missed
                 \/ \E c \in Calls : pc[c].op = "rollback" /\ pc[c].handle = h
                                     /\ CallLine(c) \in log \cup missed
      <3>1. ended = <<>> /\ handles[h].state # "open" /\ \A c \in Calls : ~Busy(c)
        BY <2>3 DEF CallsInv, ShutdownOK
      <3>2. handles[h].state \in {"expired", "rolled_back"}
        BY <2>3, <3>1 DEF CallsInv, Typed, States
      <3>3. \/ EndLine(h, handles[h].who) \in Lines
            \/ \E c \in Calls : Succeeded(c) /\ pc[c].op = "rollback" /\ pc[c].handle = h
        BY <2>3, <3>1, <3>2 DEF CallsInv, EndedOK
      <3>4. ASSUME NEW c \in Calls, Succeeded(c)
            PROVE  CallLine(c) \in log \cup missed
        BY <2>2, <3>1, <3>4 DEF Succeeded, Came, Busy
      <3> QED
        BY <2>1, <3>3, <3>4
    <2> QED
      BY <2>2, <2>3
  <1> QED
    BY <1>1, CallsInvariant, PTL

================================================================================
