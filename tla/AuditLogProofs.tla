------------------------------ MODULE AuditLogProofs ------------------------------
(***************************************************************************)
(* Theorems about AuditLog, for any processes, threads and files, any      *)
(* sizes and numbers to keep, and any of the faults.                       *)
(***************************************************************************)
EXTENDS AuditLog, SequenceTheorems, TLAPS

---------------------------------------------------------------------------------
(* The files. *)

Kinds == {"start", "gap", "pruned", "entry", "torn", "stray"}
Ids == Nat \ {0}
LineSet == [id : Ids, kind : Kinds, prev : Int, opens : BOOLEAN, dropped : Nat, whole : BOOLEAN,
            long : BOOLEAN]
Disks == [lines : [Files -> Seq(LineSet)], name : [Files -> FileNames \cup {None}],
          lock : [Files -> Servers \cup {None}], next : Ids]

\* A torn line never goes again: verify_chain reports the file from then on.
Damaged(ls) == \E i \in DOMAIN ls : ls[i].kind = "torn"

\* Until then the lines are linked, but for stray bytes at the end; a chain-start marker has
\* the hash of what was read of the line before it.
HashFor(l, last) == IF l.kind = "start" THEN TailHash(last) ELSE last.id
Links(ls, i) ==
    IF i = 1 THEN ls[1].kind = "start" /\ (ls[1].prev = 0 \/ ls[1].opens)
    ELSE ~ls[i].opens /\ ls[i].prev = HashFor(ls[i], ls[i - 1])
Linked(ls) ==
    \A i \in DOMAIN ls :
        /\ i # Len(ls) => ls[i].whole
        /\ IF ls[i].kind = "stray" THEN i = Len(ls) /\ ~ls[i].whole ELSE Links(ls, i)
Chain(ls) == Damaged(ls) \/ Linked(ls)

\* The end of a file in a process's hands: the hash to link to is the last line's, and the
\* stray bytes are those the process knows its count to be behind.
EndOK(o, ls) ==
    \/ Damaged(ls)
    \/ ls = <<>> /\ ~o.behind
    \/ ls # <<>> /\ ~o.behind /\ Last(ls).whole /\ Last(ls).kind # "stray" /\ o.prev = Last(ls).id
    \/ /\ ls # <<>> /\ o.behind /\ ~Last(ls).whole /\ Last(ls).kind = "stray"
       /\ Len(ls) > 1 => o.prev = ls[Len(ls) - 1].id
Started(ls) == Damaged(ls) \/ (ls # <<>> /\ ls[1].kind # "stray")

DiskOK(d) ==
    /\ d \in Disks
    /\ \A f \in Files : Chain(d.lines[f]) /\ (d.lock[f] # None => d.name[f] # None)
Held(s, o, d) == o \in Handles /\ d.lock[o.file] = s /\ EndOK(o, d.lines[o.file])
HeldOK(s, o, d) == Held(s, o, d) /\ Started(d.lines[o.file])

---------------------------------------------------------------------------------
(* The processes. *)

Ats == {"idle", "admitting", "failed", "counted"} \cup InLock
Threads == [at : Ats, does : {"record", "admit"}, dropped : Nat]
Sinks == [open : Handles \cup {None}, degraded : BOOLEAN, unreported : Nat, noted : Nat,
          marked : Nat, failing : BOOLEAN]

Typed ==
    /\ sink \in [Servers -> Sinks]
    /\ pc \in [Calls -> Threads]
    /\ acked \subseteq [id : Nat, file : Files]

FilesOK == DiskOK(disk) /\ \A s \in Servers : sink[s].open # None => HeldOK(s, sink[s].open, disk)

HasEntry(ls, id) == \E i \in DOMAIN ls : ls[i].id = id /\ ls[i].kind = "entry"
AckedOK ==
    \A a \in acked :
        \/ a.file \in pruned
        \/ /\ disk.name[a.file] # None
           /\ HasEntry(disk.lines[a.file], a.id) \/ Damaged(disk.lines[a.file])

\* A thread at work has a log to work on, and the lock keeps out the others of its process.
ThreadsOK ==
    \A c \in Calls :
        /\ pc[c].at # "idle" => sink[ServerOf[c]].open # None
        /\ pc[c].at \in InLock =>
              \A e \in Calls : ServerOf[e] = ServerOf[c] /\ pc[e].at \in InLock => e = c
        /\ pc[c].at = "marking" => pc[c].dropped <= sink[ServerOf[c]].unreported
        /\ pc[c].at = "clearing" => ~sink[ServerOf[c]].failing
        /\ pc[c].at \in {"line", "failed", "counted"} => pc[c].does = "record"
        /\ pc[c].at = "admitting" => pc[c].does = "admit"

AuditInv == Typed /\ FilesOK /\ AckedOK /\ ThreadsOK /\ GapsAddUp /\ FailingLogIsDegraded

---------------------------------------------------------------------------------
(* Sequences of lines. *)

LEMMA Elements ==
    ASSUME NEW ls \in Seq(LineSet)
    PROVE  /\ Len(ls) \in Nat /\ DOMAIN ls = 1..Len(ls)
           /\ \A i \in DOMAIN ls : ls[i] \in LineSet
           /\ ls = <<>> <=> Len(ls) = 0
    BY SMT

LEMMA LastLine ==
    ASSUME NEW ls \in Seq(LineSet), ls # <<>>
    PROVE  /\ Len(ls) \in DOMAIN ls /\ Last(ls) = ls[Len(ls)] /\ Last(ls) \in LineSet
           /\ Front(ls) \in Seq(LineSet) /\ Len(Front(ls)) = Len(ls) - 1
           /\ \A i \in 1..(Len(ls) - 1) : Front(ls)[i] = ls[i]
    BY Elements DEF Last, Front

\* Replacing the last line.
LEMMA Relaid ==
    ASSUME NEW ls \in Seq(LineSet), ls # <<>>, NEW l \in LineSet
    PROVE  LET r == Append(Front(ls), l)
           IN  /\ r \in Seq(LineSet) /\ Len(r) = Len(ls) /\ DOMAIN r = DOMAIN ls /\ r # <<>>
               /\ r[Len(ls)] = l /\ Last(r) = l
               /\ \A i \in DOMAIN ls : i # Len(ls) => r[i] = ls[i]
<1>1. Front(ls) \in Seq(LineSet) /\ Len(Front(ls)) = Len(ls) - 1 /\ Len(ls) \in Nat \ {0}
    BY LastLine, Elements
<1>2. \A i \in 1..(Len(ls) - 1) : Front(ls)[i] = ls[i]
    BY LastLine
<1> QED  BY <1>1, <1>2, Elements DEF Last

LEMMA Appended ==
    ASSUME NEW ls \in Seq(LineSet), NEW l \in LineSet
    PROVE  LET r == Append(ls, l)
           IN  /\ r \in Seq(LineSet) /\ Len(r) = Len(ls) + 1 /\ r # <<>>
               /\ r[Len(r)] = l /\ Last(r) = l
               /\ \A i \in DOMAIN ls : i \in DOMAIN r /\ i # Len(r) /\ r[i] = ls[i]
               /\ \A i \in DOMAIN r : i # Len(r) => i \in DOMAIN ls
    BY Elements DEF Last

\* What no step takes from a file: a torn line stays, and an entry stays or the file is torn.
Keeps(ls, r) ==
    /\ Damaged(ls) => Damaged(r)
    /\ \A id \in Nat : HasEntry(ls, id) => HasEntry(r, id) \/ Damaged(r)

LEMMA KeepsItself == ASSUME NEW ls PROVE Keeps(ls, ls)
    BY DEF Keeps

LEMMA KeepsOn ==
    ASSUME NEW ls, NEW q, NEW r, Keeps(ls, q), Keeps(q, r)
    PROVE  Keeps(ls, r)
    BY DEF Keeps

\* A line with its last bytes torn off, or with stray bytes before it.
LEMMA Torn ==
    ASSUME NEW ls \in Seq(LineSet), ls # <<>>, NEW l \in LineSet, l.kind = "torn"
    PROVE  Damaged(Append(Front(ls), l)) /\ Keeps(ls, Append(Front(ls), l))
    BY Relaid, LastLine DEF Damaged, Keeps

LEMMA AppendKeeps ==
    ASSUME NEW ls \in Seq(LineSet), NEW l \in LineSet
    PROVE  Keeps(ls, Append(ls, l))
    BY Appended DEF Keeps, Damaged, HasEntry

\* A line that follows on from what the process takes for the end of its file.
Follows(o, ls, l) ==
    /\ l \in LineSet /\ l.kind \notin {"torn", "stray"}
    /\ IF ls = <<>> THEN l.kind = "start" /\ (l.prev = 0 \/ l.opens)
       ELSE /\ ~l.opens /\ Started(ls)
            /\ l.prev = IF l.kind = "start" THEN TailHash(Last(ls)) ELSE o.prev
Fits(o, ls, l) == Follows(o, ls, l) /\ l.whole

LEMMA RemainsType ==
    ASSUME NEW id \in Ids, NEW whole \in BOOLEAN
    PROVE  /\ Remains(id, whole) \in LineSet /\ Remains(id, whole).kind = "torn"
           /\ [Remains(id, whole) EXCEPT !.kind = "stray"] \in LineSet
<1> DEFINE r == Remains(id, whole)
<1>1. r = [id |-> id, kind |-> "torn", prev |-> 0, opens |-> FALSE, dropped |-> 0, whole |-> whole,
           long |-> FALSE]
    BY DEF Remains
<1> HIDE DEF r
<1>2. r \in LineSet /\ r.kind = "torn"
    BY <1>1 DEF LineSet, Kinds
<1>3. [r EXCEPT !.kind = "stray"] \in LineSet
    BY <1>2 DEF LineSet, Kinds
<1> QED  BY <1>2, <1>3 DEF r

\* The line is in the file, after the last one.
LEMMA FullLine ==
    ASSUME NEW ls \in Seq(LineSet), NEW o \in Handles, NEW l,
           Chain(ls), EndOK(o, ls), Follows(o, ls, l), ~Unfinished(ls)
    PROVE  LET r == Append(ls, l)
           IN  Chain(r) /\ Started(r) /\ (l.whole => EndOK([o EXCEPT !.prev = l.id], r))
<1> DEFINE r == Append(ls, l)
<1>0. l \in LineSet /\ l.kind \notin {"torn", "stray"}
    BY DEF Follows
<1>a. /\ r \in Seq(LineSet) /\ Len(r) = Len(ls) + 1 /\ r # <<>> /\ r[Len(r)] = l /\ Last(r) = l
      /\ \A i \in DOMAIN ls : i \in DOMAIN r /\ i # Len(r) /\ r[i] = ls[i]
      /\ \A i \in DOMAIN r : i # Len(r) => i \in DOMAIN ls
    BY <1>0, Appended
<1>e. Len(ls) \in Nat /\ DOMAIN ls = 1..Len(ls) /\ (ls = <<>> <=> Len(ls) = 0)
    BY Elements
<1> HIDE DEF r
<1>1. Damaged(ls) => Damaged(r)
    BY <1>a DEF Damaged
<1>2. ASSUME ~Damaged(ls)
      PROVE  Chain(r) /\ Started(r) /\ (l.whole => EndOK([o EXCEPT !.prev = l.id], r))
    <2>1. ~o.behind
        BY <1>2 DEF EndOK, Unfinished
    <2>2. ls # <<>> => Last(ls).whole /\ Last(ls).kind # "stray" /\ o.prev = Last(ls).id
        BY <1>2, <2>1 DEF EndOK
    <2>3. l.whole => EndOK([o EXCEPT !.prev = l.id], r)
        BY <1>0, <1>a, <2>1 DEF EndOK, Handles
    <2>4. ls # <<>> => Last(ls) = ls[Len(ls)] /\ r[Len(ls)] = ls[Len(ls)] /\ r[1] = ls[1]
        BY <1>a, <1>e DEF Last
    <2>5. Started(r)
        <3>1. ls = <<>> => r[1] = l
            BY <1>a, <1>e
        <3> QED  BY <1>0, <1>2, <1>a, <2>4, <3>1 DEF Started, Follows
    <2>6. Linked(ls)
        BY <1>2 DEF Chain
    <2>7. ASSUME NEW i \in DOMAIN r
          PROVE  /\ i # Len(r) => r[i].whole
                 /\ r[i].kind # "stray" /\ Links(r, i)
        <3>1. CASE i = Len(r)
            <4>1. ls = <<>> => i = 1
                BY <3>1, <1>a, <1>e
            <4>2. ls # <<>> => i # 1 /\ i - 1 = Len(ls)
                BY <3>1, <1>a, <1>e
            <4> QED  BY <3>1, <1>0, <1>a, <2>2, <2>4, <4>1, <4>2 DEF Links, Follows, HashFor
        <3>2. CASE i # Len(r)
            <4>1. i \in DOMAIN ls /\ r[i] = ls[i]
                BY <3>2, <1>a
            <4>2. ls # <<>> /\ r[1] = ls[1]
                BY <4>1, <1>e, <2>4
            <4>3. i # 1 => r[i - 1] = ls[i - 1]
                <5>1. i # 1 => i - 1 \in DOMAIN ls
                    BY <4>1, <1>e
                <5> QED  BY <5>1, <1>a
            <4>4. ls[i].whole /\ ls[i].kind # "stray"
                BY <4>1, <4>2, <2>2, <2>4, <2>6 DEF Linked
            <4>5. Links(ls, i)
                BY <4>1, <4>4, <2>6 DEF Linked
            <4> QED  BY <4>1, <4>2, <4>3, <4>4, <4>5 DEF Links
        <3> QED  BY <3>1, <3>2
    <2> QED  BY <2>3, <2>5, <2>7 DEF Chain, Linked
<1> QED  BY <1>1, <1>2 DEF r, Chain, EndOK, Started

\* Nothing of the line is left, and the stray bytes before it are gone with it.
Cut(o, ls, id) ==
    CASE ~o.behind -> ls
      [] o.behind /\ Last(ls).kind = "stray" /\ ~Last(ls).whole -> Front(ls)
      [] o.behind /\ Last(ls).whole -> Append(Front(ls), Remains(id, FALSE))
      [] OTHER -> ls

LEMMA CutLine ==
    ASSUME NEW ls \in Seq(LineSet), NEW o \in Handles, NEW id \in Ids,
           Chain(ls), EndOK(o, ls), ls = <<>> \/ Started(ls)
    PROVE  LET r == Cut(o, ls, id)
           IN  /\ r \in Seq(LineSet) /\ Keeps(ls, r) /\ Chain(r)
               /\ Started(ls) => Started(r) /\ EndOK([o EXCEPT !.behind = FALSE], r)
<1> DEFINE r == Cut(o, ls, id)
<1> DEFINE p == [o EXCEPT !.behind = FALSE]
<1>p. p.behind = FALSE /\ p.prev = o.prev
    BY DEF Handles
<1>e. /\ Len(ls) \in Nat /\ DOMAIN ls = 1..Len(ls) /\ (ls = <<>> <=> Len(ls) = 0)
      /\ \A i \in DOMAIN ls : ls[i] \in LineSet
    BY Elements
<1>b. o.behind \in BOOLEAN
    BY DEF Handles
<1>1. CASE r = ls /\ (~o.behind \/ (o.behind /\ ~Last(ls).whole /\ Last(ls).kind # "stray"))
    <2>1. Started(ls) => EndOK(p, ls)
        BY <1>1, <1>p DEF EndOK, Started
    <2> HIDE DEF p, r
    <2>2. Keeps(ls, r)
        BY <1>1, KeepsItself
    <2> QED  BY <1>1, <2>1, <2>2 DEF p, r
<1>2. CASE o.behind /\ Last(ls).whole /\ r = Append(Front(ls), Remains(id, FALSE))
    <2>1. Damaged(ls) /\ ls # <<>>
        BY <1>2 DEF EndOK, Damaged
    <2>2. Damaged(r) /\ Keeps(ls, r) /\ r \in Seq(LineSet)
        BY <1>2, <2>1, RemainsType, Torn, Relaid
    <2> HIDE DEF p, r
    <2>3. Chain(r) /\ Started(r) /\ EndOK(p, r)
        BY <2>2 DEF Chain, Started, EndOK
    <2> QED  BY <2>2, <2>3 DEF p, r
<1>3. CASE o.behind /\ Last(ls).kind = "stray" /\ ~Last(ls).whole /\ r = Front(ls)
    <2>1. ls # <<>>
        BY <1>3, <1>e DEF EndOK, Damaged
    <2>2. /\ r \in Seq(LineSet) /\ Len(r) = Len(ls) - 1 /\ Last(ls) = ls[Len(ls)]
          /\ \A i \in 1..(Len(ls) - 1) : r[i] = ls[i]
        BY <1>3, <2>1, LastLine
    <2>3. Len(r) \in Nat /\ DOMAIN r = 1..Len(r) /\ (r = <<>> <=> Len(r) = 0)
        BY <2>2, Elements
    <2>k. ls[Len(ls)].kind = "stray"
        BY <1>3, <2>2
    <2> HIDE DEF p, r
    <2>4. Damaged(ls) => Damaged(r)
        <3> SUFFICES ASSUME Damaged(ls) PROVE Damaged(r)
            OBVIOUS
        <3>1. PICK i \in DOMAIN ls : ls[i].kind = "torn"
            BY DEF Damaged
        <3>2. i # Len(ls)
            BY <3>1, <2>k
        <3>3. i \in 1..(Len(ls) - 1) /\ i \in DOMAIN r
            BY <3>1, <3>2, <1>e, <2>2, <2>3
        <3> QED  BY <3>1, <3>3, <2>2 DEF Damaged
    <2>5. Keeps(ls, r)
        <3> SUFFICES ASSUME NEW n \in Nat, HasEntry(ls, n) PROVE HasEntry(r, n)
            BY <2>4 DEF Keeps
        <3>1. PICK i \in DOMAIN ls : ls[i].id = n /\ ls[i].kind = "entry"
            BY DEF HasEntry
        <3>2. i # Len(ls)
            BY <3>1, <2>k
        <3>3. i \in 1..(Len(ls) - 1) /\ i \in DOMAIN r
            BY <3>1, <3>2, <1>e, <2>2, <2>3
        <3> QED  BY <3>1, <3>3, <2>2 DEF HasEntry
    <2>6. ASSUME ~Damaged(ls)
          PROVE  Chain(r) /\ (Started(ls) => Started(r) /\ EndOK(p, r))
        <3>1. Linked(ls)
            BY <2>6 DEF Chain
        <3>2. ls[1].kind # "stray" /\ Len(ls) > 1
            <4>1. ls[1].kind # "stray"
                BY <2>1, <2>6 DEF Started
            <4>2. Len(ls) # 1
                BY <4>1, <2>k
            <4> QED  BY <4>1, <4>2, <1>e, <2>1
        <3>3. ASSUME NEW i \in DOMAIN r
              PROVE  /\ r[i] = ls[i] /\ i \in DOMAIN ls /\ i # Len(ls)
                     /\ (i # 1 => r[i - 1] = ls[i - 1])
            BY <1>e, <2>2, <2>3
        <3>4. ASSUME NEW i \in DOMAIN r
              PROVE  r[i].whole /\ r[i].kind # "stray" /\ Links(r, i)
            <4>1. ls[i].whole /\ ls[i].kind # "stray" /\ Links(ls, i)
                BY <3>1, <3>3 DEF Linked
            <4> QED  BY <4>1, <3>3 DEF Links
        <3>5. Linked(r)
            BY <3>4 DEF Linked
        <3>6. 1 \in DOMAIN r /\ Len(r) \in DOMAIN r /\ r # <<>>
            BY <3>2, <2>2, <2>3
        <3>7. Last(r) = r[Len(r)] /\ r[Len(r)] = ls[Len(ls) - 1]
            BY <3>6, <2>2, <1>e, <3>2 DEF Last
        <3>8. o.prev = ls[Len(ls) - 1].id
            BY <2>6, <1>3, <3>2 DEF EndOK
        <3> QED  BY <3>4, <3>5, <3>6, <3>7, <3>8, <1>p DEF Chain, Started, EndOK
    <2>7. ASSUME Damaged(ls) PROVE Chain(r) /\ Started(r) /\ EndOK(p, r)
        BY <2>7, <2>4 DEF Chain, Started, EndOK
    <2> QED  BY <2>2, <2>5, <2>6, <2>7 DEF p, r
<1> QED  BY <1>1, <1>2, <1>3, <1>b DEF Cut

\* Stray bytes of the line are left.
Uncut(ls, id) ==
    IF Unfinished(ls) THEN ls ELSE Append(ls, [Remains(id, FALSE) EXCEPT !.kind = "stray"])

LEMMA UncutLine ==
    ASSUME NEW ls \in Seq(LineSet), NEW o \in Handles, NEW id \in Ids,
           Chain(ls), EndOK(o, ls)
    PROVE  LET r == Uncut(ls, id)
           IN  /\ r \in Seq(LineSet) /\ Keeps(ls, r) /\ Chain(r)
               /\ Started(ls) => Started(r) /\ EndOK([o EXCEPT !.behind = TRUE], r)
<1> DEFINE r == Uncut(ls, id)
<1> DEFINE p == [o EXCEPT !.behind = TRUE]
<1> DEFINE l == [Remains(id, FALSE) EXCEPT !.kind = "stray"]
<1>p. p.behind = TRUE /\ p.prev = o.prev
    BY DEF Handles
<1>1. CASE Unfinished(ls)
    <2>1. r = ls
        BY <1>1 DEF Uncut
    <2>2. EndOK(p, ls)
        <3>1. ls # <<>> /\ ~Last(ls).whole
            BY <1>1 DEF Unfinished
        <3> HIDE DEF p
        <3> QED  BY <3>1, <1>p DEF EndOK
    <2> HIDE DEF p, r
    <2> QED  BY <2>1, <2>2, KeepsItself DEF p, r
<1>2. CASE ~Unfinished(ls)
    <2>1. r = Append(ls, l) /\ l \in LineSet /\ l.kind = "stray" /\ ~l.whole
        BY <1>2, RemainsType DEF Uncut, Remains
    <2> HIDE DEF p, r, l
    <2>2. /\ r \in Seq(LineSet) /\ Len(r) = Len(ls) + 1 /\ r # <<>> /\ r[Len(r)] = l /\ Last(r) = l
          /\ \A i \in DOMAIN ls : i \in DOMAIN r /\ i # Len(r) /\ r[i] = ls[i]
          /\ \A i \in DOMAIN r : i # Len(r) => i \in DOMAIN ls
        BY <2>1, Appended
    <2>e. /\ Len(ls) \in Nat /\ DOMAIN ls = 1..Len(ls) /\ (ls = <<>> <=> Len(ls) = 0)
        BY Elements
    <2>3. Keeps(ls, r)
        BY <2>1, AppendKeeps
    <2>4. ASSUME Damaged(ls) PROVE Chain(r) /\ Started(r) /\ EndOK(p, r)
        BY <2>3, <2>4 DEF Chain, Started, EndOK, Keeps
    <2>5. ASSUME ~Damaged(ls)
          PROVE  Chain(r) /\ (Started(ls) => Started(r) /\ EndOK(p, r))
        <3>1. Linked(ls)
            BY <2>5 DEF Chain
        <3>2. ls # <<>> => Last(ls) = ls[Len(ls)] /\ Last(ls).whole /\ Last(ls).kind # "stray"
                           /\ o.prev = ls[Len(ls)].id
            BY <2>5, <1>2 DEF EndOK, Unfinished, Last
        <3>3. ASSUME NEW i \in DOMAIN r
              PROVE  /\ i # Len(r) => r[i].whole
                     /\ IF r[i].kind = "stray" THEN i = Len(r) /\ ~r[i].whole ELSE Links(r, i)
            <4>1. ASSUME i # Len(r)
                  PROVE  r[i].whole /\ r[i].kind # "stray" /\ Links(r, i)
                <5>1. i \in DOMAIN ls /\ r[i] = ls[i] /\ ls # <<>>
                    BY <4>1, <2>2, <2>e
                <5>2. r[1] = ls[1] /\ (i # 1 => r[i - 1] = ls[i - 1])
                    <6>1. 1 \in DOMAIN ls /\ (i # 1 => i - 1 \in DOMAIN ls)
                        BY <5>1, <2>e
                    <6> QED  BY <6>1, <2>2
                <5>3. ls[i].whole /\ ls[i].kind # "stray" /\ Links(ls, i)
                    BY <5>1, <3>1, <3>2 DEF Linked
                <5> QED  BY <5>1, <5>2, <5>3 DEF Links
            <4> QED  BY <4>1, <2>1, <2>2
        <3>4. Chain(r)
            BY <3>3 DEF Chain, Linked
        <3>5. ASSUME Started(ls) PROVE Started(r) /\ EndOK(p, r)
            <4>1. ls # <<>> /\ ls[1].kind # "stray"
                BY <2>5, <3>5 DEF Started
            <4>2. r[1] = ls[1] /\ r[Len(r) - 1] = ls[Len(ls)]
                BY <4>1, <2>2, <2>e
            <4> QED  BY <4>1, <4>2, <2>1, <2>2, <3>2, <1>p DEF Started, EndOK
        <3> QED  BY <3>4, <3>5
    <2> QED  BY <2>2, <2>3, <2>4, <2>5 DEF p, r
<1> QED  BY <1>1, <1>2

\* Opening mends the last line.
LEMMA MendedLines ==
    ASSUME NEW ls \in Seq(LineSet), Chain(ls)
    PROVE  LET r == RecoverTail(ls)
           IN  /\ r \in Seq(LineSet) /\ Keeps(ls, r) /\ Chain(r) /\ (r = <<>> <=> ls = <<>>)
               /\ r # <<>> => Started(r) /\ (Damaged(r) \/ (Last(r).whole /\ Last(r).kind # "stray"))
<1> DEFINE r == RecoverTail(ls)
<1>e. /\ Len(ls) \in Nat /\ DOMAIN ls = 1..Len(ls) /\ (ls = <<>> <=> Len(ls) = 0)
      /\ \A i \in DOMAIN ls : ls[i] \in LineSet
    BY Elements
<1>1. CASE ~Unfinished(ls)
    <2>1. r = ls
        BY <1>1 DEF RecoverTail
    <2>2. ASSUME ls # <<>>, ~Damaged(ls) PROVE Started(ls) /\ Last(ls).whole /\ Last(ls).kind # "stray"
        <3>1. Last(ls).whole /\ Last(ls) = ls[Len(ls)]
            BY <1>1, <2>2 DEF Unfinished, Last
        <3>2. Linked(ls)
            BY <2>2 DEF Chain
        <3>3. ls[Len(ls)].kind # "stray"
            BY <2>2, <3>1, <3>2, <1>e DEF Linked
        <3>4. ls[1].kind # "stray"
            BY <2>2, <3>1, <3>2, <1>e DEF Linked
        <3> QED  BY <2>2, <3>1, <3>3, <3>4 DEF Started
    <2> HIDE DEF r
    <2> QED  BY <2>1, <2>2, KeepsItself DEF r, Started
<1>2. CASE Unfinished(ls)
    <2> DEFINE n == Len(ls)
    <2> DEFINE l == Mended(ls[n])
    <2>1. ls # <<>> /\ n \in DOMAIN ls /\ ls[n] \in LineSet /\ ~ls[n].whole
        BY <1>2, <1>e DEF Unfinished, Last
    <2>2. r = [ls EXCEPT ![n] = l]
        BY <1>2, <2>1 DEF RecoverTail
    <2>3. l \in LineSet /\ l.whole /\ l.id = ls[n].id /\ l.prev = ls[n].prev /\ l.opens = ls[n].opens
          /\ l.long = ls[n].long
        BY <2>1 DEF LineSet, Kinds, Mended
    <2>4. l.kind = (IF ls[n].kind = "stray" THEN "torn" ELSE ls[n].kind)
        BY <2>1 DEF LineSet, Mended
    <2> HIDE DEF l
    <2>5. /\ r \in Seq(LineSet) /\ Len(r) = n /\ DOMAIN r = DOMAIN ls /\ r # <<>> /\ r[n] = l
          /\ \A i \in DOMAIN ls : i # n => r[i] = ls[i]
        BY <2>1, <2>2, <2>3, <1>e
    <2> HIDE DEF r
    <2>6. Damaged(ls) => Damaged(r)
        <3> SUFFICES ASSUME Damaged(ls) PROVE Damaged(r)
            OBVIOUS
        <3>1. PICK i \in DOMAIN ls : ls[i].kind = "torn"
            BY DEF Damaged
        <3>2. r[i].kind = "torn"
            BY <3>1, <2>4, <2>5
        <3> QED  BY <3>1, <3>2, <2>5 DEF Damaged
    <2>7. Keeps(ls, r)
        <3> SUFFICES ASSUME NEW m \in Nat, HasEntry(ls, m) PROVE HasEntry(r, m)
            BY <2>6 DEF Keeps
        <3>1. PICK i \in DOMAIN ls : ls[i].id = m /\ ls[i].kind = "entry"
            BY DEF HasEntry
        <3>2. r[i].id = m /\ r[i].kind = "entry"
            BY <3>1, <2>3, <2>4, <2>5
        <3> QED  BY <3>1, <3>2, <2>5 DEF HasEntry
    <2>8. Last(r) = l
        BY <2>5 DEF Last
    <2>9. ASSUME ls[n].kind = "stray" PROVE Damaged(r)
        BY <2>9, <2>1, <2>4, <2>5 DEF Damaged
    <2>10. ASSUME ~Damaged(r)
           PROVE  Chain(r) /\ Started(r) /\ Last(r).whole /\ Last(r).kind # "stray"
        <3>1. Linked(ls) /\ ls[n].kind # "stray"
            BY <2>10, <2>6, <2>9 DEF Chain
        <3>2. ASSUME NEW i \in DOMAIN ls
              PROVE  /\ r[i].whole /\ r[i].kind = ls[i].kind /\ r[i].id = ls[i].id
                     /\ r[i].prev = ls[i].prev /\ r[i].opens = ls[i].opens
                     /\ r[i].long = ls[i].long
            BY <3>1, <2>3, <2>4, <2>5 DEF Linked
        <3>3. ASSUME NEW i \in DOMAIN ls PROVE ls[i].kind # "stray" /\ Links(r, i)
            <4>1. ls[i].kind # "stray" /\ Links(ls, i)
                BY <3>1 DEF Linked
            <4>2. 1 \in DOMAIN ls /\ (i # 1 => i - 1 \in DOMAIN ls)
                BY <1>e
            <4>3. ASSUME i # 1 PROVE HashFor(r[i], r[i - 1]) = HashFor(ls[i], ls[i - 1])
                BY <4>2, <4>3, <3>2 DEF HashFor, TailHash
            <4> QED  BY <4>1, <4>2, <4>3, <3>2 DEF Links
        <3>4. Linked(r)
            BY <3>2, <3>3, <2>5 DEF Linked
        <3>5. 1 \in DOMAIN ls
            BY <2>1, <1>e
        <3> QED  BY <3>2, <3>3, <3>4, <3>5, <2>1, <2>3, <2>4, <2>5, <2>8 DEF Chain, Started
    <2> QED  BY <2>1, <2>5, <2>7, <2>10 DEF r, Chain, Started
<1> QED  BY <1>1, <1>2

---------------------------------------------------------------------------------
(* Steps of the process s on the disk. *)

\* It leaves the files of other processes alone and takes nothing from any file.
Steps(s, d, e) ==
    \A f \in Files :
        /\ d.lock[f] \notin {None, s} => e.lines[f] = d.lines[f] /\ e.lock[f] = d.lock[f]
        /\ Keeps(d.lines[f], e.lines[f])

\* It leaves every open file alone, its own too.
Spares(d, e) ==
    \A f \in Files :
        d.lock[f] # None =>
            e.lines[f] = d.lines[f] /\ e.lock[f] = d.lock[f] /\ e.name[f] = d.name[f]

LEMMA NoneIsNoServer == \A s \in Servers : s # None
    BY AuditAssumption

LEMMA NoneIsNoName == \A n \in FileNames : n # None
    BY AuditAssumption DEF FileNames

LEMMA StepsOn ==
    ASSUME NEW s, NEW d, NEW e, NEW g, Steps(s, d, e), Steps(s, e, g)
    PROVE  Steps(s, d, g)
    BY KeepsOn DEF Steps

LEMMA StepsItself == ASSUME NEW s, NEW d PROVE Steps(s, d, d)
    BY KeepsItself DEF Steps

LEMMA Names ==
    ASSUME NEW s \in Servers
    PROVE  BaseName(BaseOf[s]) \in FileNames /\ RotatedName(BaseOf[s]) \in FileNames /\ Elsewhere \in FileNames
    BY DEF BaseName, RotatedName, Elsewhere, FileNames

\* The lines of one file, or its name and lock, are new.
LEMMA DiskPut ==
    ASSUME NEW d, DiskOK(d), NEW f \in Files, NEW ls \in Seq(LineSet), Chain(ls)
    PROVE  LET e == Put(d, f, ls)
           IN  /\ DiskOK(e) /\ e.name = d.name /\ e.lock = d.lock /\ e.lines[f] = ls
               /\ \A g \in Files : g # f => e.lines[g] = d.lines[g]
<1> DEFINE e == Put(d, f, ls)
<1>1. d \in Disks /\ d.lines \in [Files -> Seq(LineSet)]
    BY DEF DiskOK, Disks
<1>2. e \in Disks /\ e.name = d.name /\ e.lock = d.lock /\ e.lines = [d.lines EXCEPT ![f] = ls]
    BY <1>1 DEF Put, Disks
<1> HIDE DEF e
<1>3. e.lines[f] = ls /\ \A g \in Files : g # f => e.lines[g] = d.lines[g]
    BY <1>1, <1>2
<1>4. \A g \in Files : Chain(e.lines[g]) /\ (e.lock[g] # None => e.name[g] # None)
    BY <1>2, <1>3 DEF DiskOK
<1> QED  BY <1>2, <1>3, <1>4 DEF e, DiskOK

LEMMA DiskWith ==
    ASSUME NEW d, DiskOK(d), NEW f \in Files, NEW ls \in Seq(LineSet), Chain(ls), NEW n \in Nat
    PROVE  LET e == Used(Put(d, f, ls), n)
           IN  /\ DiskOK(e) /\ e.name = d.name /\ e.lock = d.lock /\ e.lines[f] = ls
               /\ \A g \in Files : g # f => e.lines[g] = d.lines[g]
<1> DEFINE p == Put(d, f, ls)
<1> DEFINE e == Used(p, n)
<1>1. /\ DiskOK(p) /\ p.name = d.name /\ p.lock = d.lock /\ p.lines[f] = ls
      /\ \A g \in Files : g # f => p.lines[g] = d.lines[g]
    BY DiskPut
<1> HIDE DEF p
<1>2. e \in Disks /\ e.name = p.name /\ e.lock = p.lock /\ e.lines = p.lines
    <2>1. p \in Disks
        BY <1>1 DEF DiskOK
    <2>2. p.next \in Ids /\ p.next + n \in Ids
        BY <2>1 DEF Disks, Ids
    <2>3. e = [p EXCEPT !.next = p.next + n]
        BY DEF Used
    <2> QED  BY <2>1, <2>2, <2>3 DEF Disks
<1> HIDE DEF e
<1> QED  BY <1>1, <1>2 DEF p, e, DiskOK

LEMMA DiskLocked ==
    ASSUME NEW d, DiskOK(d), NEW f \in Files, NEW s \in Servers \cup {None},
           s # None => d.name[f] # None
    PROVE  LET e == Lock(d, f, s)
           IN  /\ DiskOK(e) /\ e.name = d.name /\ e.lines = d.lines /\ e.lock[f] = s
               /\ \A g \in Files : g # f => e.lock[g] = d.lock[g]
    BY DEF DiskOK, Disks, Lock

LEMMA DiskNamed ==
    ASSUME NEW d, DiskOK(d), NEW f \in Files, NEW n \in FileNames
    PROVE  LET e == [d EXCEPT !.name[f] = n]
           IN  /\ DiskOK(e) /\ e.lines = d.lines /\ e.lock = d.lock /\ e.name[f] = n
               /\ \A g \in Files : g # f => e.name[g] = d.name[g]
    BY NoneIsNoName DEF DiskOK, Disks

Outcome(r) == r.ok \in BOOLEAN /\ r = [ok |-> r.ok, open |-> r.open, disk |-> r.disk]

\* What one write leaves: the process goes on with the file it had.
Written(s, o, d, l, w) ==
    /\ Outcome(w) /\ DiskOK(w.disk) /\ Steps(s, d, w.disk)
    /\ w.disk.name = d.name /\ w.disk.lock = d.lock
    /\ \A g \in Files : g # o.file => w.disk.lines[g] = d.lines[g]
    /\ w.open \in Handles /\ w.open.file = o.file
    /\ w.ok \/ Started(d.lines[o.file]) => HeldOK(s, w.open, w.disk)
    /\ w.ok /\ l.kind = "entry" =>
           HasEntry(w.disk.lines[o.file], l.id) \/ Damaged(w.disk.lines[o.file])

LEMMA OneFileSteps ==
    ASSUME NEW s \in Servers, NEW d, NEW e, NEW f \in Files, d.lock[f] \in {None, s},
           Keeps(d.lines[f], e.lines[f]), e.lock = d.lock,
           \A g \in Files : g # f => e.lines[g] = d.lines[g]
    PROVE  Steps(s, d, e)
<1> SUFFICES ASSUME NEW g \in Files
             PROVE  /\ d.lock[g] \notin {None, s} => e.lines[g] = d.lines[g] /\ e.lock[g] = d.lock[g]
                    /\ Keeps(d.lines[g], e.lines[g])
    BY DEF Steps
<1>1. CASE g = f
    BY <1>1
<1>2. CASE g # f
    BY <1>2, KeepsItself
<1> QED  BY <1>1, <1>2

LEMMA Write ==
    ASSUME NEW s \in Servers, NEW d, DiskOK(d), NEW o, Held(s, o, d), NEW l,
           Fits(o, d.lines[o.file], l), NEW w \in WriteLine(o, d, l)
    PROVE  Written(s, o, d, l, w)
<1> DEFINE f == o.file
<1> DEFINE ls == d.lines[f]
<1>1. /\ f \in Files /\ o \in Handles /\ d.lock[f] = s /\ EndOK(o, ls) /\ d.next \in Ids
      /\ ls \in Seq(LineSet) /\ Chain(ls)
    BY DEF Held, Handles, DiskOK, Disks
<1>2. ls = <<>> \/ Started(ls)
    BY DEF Fits, Follows
<1>3. l \in LineSet /\ l.id \in Nat
    BY DEF Fits, Follows, LineSet, Ids
<1>4. ASSUME NEW r \in Seq(LineSet), Keeps(ls, r), Chain(r), NEW n \in Nat, NEW p \in Handles,
             p.file = f, NEW ok \in BOOLEAN, ok \/ Started(ls) => EndOK(p, r) /\ Started(r),
             ok /\ l.kind = "entry" => HasEntry(r, l.id) \/ Damaged(r),
             w = [ok |-> ok, open |-> p, disk |-> Used(Put(d, f, r), n)]
      PROVE  Written(s, o, d, l, w)
    <2> DEFINE e == Used(Put(d, f, r), n)
    <2>1. /\ DiskOK(e) /\ e.name = d.name /\ e.lock = d.lock /\ e.lines[f] = r
          /\ \A g \in Files : g # f => e.lines[g] = d.lines[g]
        <3>1. f \in Files /\ r \in Seq(LineSet) /\ Chain(r) /\ n \in Nat /\ DiskOK(d)
            BY <1>1, <1>4
        <3> QED  BY <3>1, DiskWith
    <2>2. w.ok = ok /\ w.open = p /\ w.disk = e /\ Outcome(w)
        BY <1>4 DEF Outcome
    <2> HIDE DEF e
    <2>3. Steps(s, d, e)
        BY <1>1, <1>4, <2>1, OneFileSteps
    <2>4. ok \/ Started(ls) => HeldOK(s, p, e)
        BY <1>1, <1>4, <2>1 DEF HeldOK, Held
    <2> QED  BY <1>1, <1>4, <2>1, <2>2, <2>3, <2>4 DEF Written
<1> HIDE DEF f, ls
<1>5. CASE w = WrittenInFull(o, d, l) /\ ~Unfinished(ls)
    <2> DEFINE r == Append(ls, l)
    <2> DEFINE p == [o EXCEPT !.prev = l.id]
    <2>1. w = [ok |-> TRUE, open |-> p, disk |-> Used(Put(d, f, r), 1)]
        BY <1>5 DEF WrittenInFull, f, ls
    <2>2. p \in Handles /\ p.file = f
        BY <1>1, <1>3 DEF Handles, f
    <2>3. r \in Seq(LineSet) /\ Keeps(ls, r)
        BY <1>1, <1>3, Appended, AppendKeeps
    <2>4. Chain(r) /\ EndOK(p, r) /\ Started(r)
        BY <1>1, <1>5, FullLine DEF f, ls, Fits
    <2>5. l.kind = "entry" => HasEntry(r, l.id)
        <3>1. Len(r) \in DOMAIN r /\ r[Len(r)] = l
            BY <1>1, <1>3, Appended, LastLine
        <3> QED  BY <3>1 DEF HasEntry
    <2> HIDE DEF r, p
    <2> QED  BY <1>4, <2>1, <2>2, <2>3, <2>4, <2>5
<1>6. CASE w = WrittenInFull(o, d, l) /\ Unfinished(ls)
    <2> DEFINE t == Remains(d.next + 1, TRUE)
    <2> DEFINE r == Append(Front(ls), t)
    <2> DEFINE p == [o EXCEPT !.prev = l.id]
    <2>1. w = [ok |-> TRUE, open |-> p, disk |-> Used(Put(d, f, r), 2)]
        BY <1>6 DEF WrittenInFull, f, ls
    <2>2. p \in Handles /\ p.file = f
        BY <1>1, <1>3 DEF Handles, f
    <2>3. t \in LineSet /\ t.kind = "torn"
        <3>1. d.next + 1 \in Ids
            BY <1>1 DEF Ids
        <3> QED  BY <3>1, RemainsType
    <2>4. ls # <<>>
        BY <1>6 DEF Unfinished
    <2> HIDE DEF t, p
    <2>5. r \in Seq(LineSet) /\ Keeps(ls, r) /\ Damaged(r)
        BY <1>1, <2>3, <2>4, Relaid, Torn
    <2> HIDE DEF r
    <2>6. Chain(r) /\ EndOK(p, r) /\ Started(r)
        BY <2>5 DEF Chain, EndOK, Started
    <2> QED  BY <1>4, <2>1, <2>2, <2>5, <2>6
<1>7. CASE w = CutBack(o, d)
    <2> DEFINE r == Cut(o, ls, d.next)
    <2> DEFINE p == [o EXCEPT !.behind = FALSE]
    <2>1. w = [ok |-> FALSE, open |-> p, disk |-> Used(Put(d, f, r), 1)]
        BY <1>7 DEF CutBack, Cut, f, ls
    <2>2. p \in Handles /\ p.file = f
        BY <1>1 DEF Handles, f
    <2>3. r \in Seq(LineSet) /\ Keeps(ls, r) /\ Chain(r) /\ (Started(ls) => Started(r) /\ EndOK(p, r))
        BY <1>1, <1>2, CutLine
    <2> HIDE DEF r, p
    <2> QED  BY <1>4, <2>1, <2>2, <2>3
<1>8. CASE w = LeftUncut(o, d)
    <2> DEFINE r == Uncut(ls, d.next)
    <2> DEFINE n == IF Unfinished(ls) THEN 0 ELSE 1
    <2> DEFINE p == [o EXCEPT !.behind = TRUE]
    <2>1. w = [ok |-> FALSE, open |-> p, disk |-> Used(Put(d, f, r), n)]
        <3>1. CASE Unfinished(ls)
            <4>1. d = Used(Put(d, f, ls), 0)
                <5>1. /\ d.lines \in [Files -> Seq(LineSet)] /\ d.next + 0 = d.next
                      /\ d = [lines |-> d.lines, name |-> d.name, lock |-> d.lock, next |-> d.next]
                    BY <1>1 DEF DiskOK, Disks, Ids
                <5>2. [d.lines EXCEPT ![f] = ls] = d.lines
                    BY <1>1, <5>1 DEF ls
                <5> QED  BY <5>1, <5>2 DEF Used, Put
            <4> QED  BY <1>8, <3>1, <4>1 DEF LeftUncut, Uncut, f, ls
        <3>2. CASE ~Unfinished(ls)
            BY <1>8, <3>2 DEF LeftUncut, Uncut, f, ls
        <3> QED  BY <3>1, <3>2
    <2>2. p \in Handles /\ p.file = f /\ n \in Nat
        BY <1>1 DEF Handles, f
    <2>3. r \in Seq(LineSet) /\ Keeps(ls, r) /\ Chain(r) /\ (Started(ls) => Started(r) /\ EndOK(p, r))
        BY <1>1, UncutLine
    <2> HIDE DEF r, p, n
    <2> QED  BY <1>4, <2>1, <2>2, <2>3
<1> QED  BY <1>5, <1>6, <1>7, <1>8 DEF WriteLine

LEMMA HashReplaced ==
    ASSUME NEW f, NEW n, NEW i, NEW a, NEW b
    PROVE  [[file |-> f, prev |-> n, rotated |-> a, behind |-> b] EXCEPT !.prev = i]
               = [file |-> f, prev |-> i, rotated |-> a, behind |-> b]
    OBVIOUS

\* A handle as open_file makes it.
Holding(f, prev) == [file |-> f, prev |-> prev, rotated |-> FALSE, behind |-> FALSE]
LEMMA HoldingNext ==
    ASSUME NEW f, NEW n, NEW i
    PROVE  [Holding(f, n) EXCEPT !.prev = i] = Holding(f, i)
<1>1. PICK no : no = FALSE
    OBVIOUS
<1>2. \A p : Holding(f, p) = [file |-> f, prev |-> p, rotated |-> no, behind |-> no]
    BY <1>1 DEF Holding
<1> HIDE DEF Holding
<1> QED  BY <1>2, HashReplaced

\* What is written does not turn on the hash the process has for the last line, and a line
\* written in full replaces it.
LEMMA SameOutcome ==
    ASSUME NEW f, NEW n, NEW m, NEW d, NEW l, NEW w \in WriteLine(Holding(f, n), d, l)
    PROVE  \E v \in WriteLine(Holding(f, m), d, l) :
              w.ok = v.ok /\ w.disk = v.disk /\ (w.ok => w = v)
<1> DEFINE o == Holding(f, n)
<1> DEFINE q == Holding(f, m)
<1>1. /\ o.file = q.file /\ o.behind = q.behind
      /\ [o EXCEPT !.prev = l.id] = Holding(f, l.id) /\ [q EXCEPT !.prev = l.id] = Holding(f, l.id)
    <2> DEFINE i == l.id
    <2> HIDE DEF i
    <2>1. /\ [o EXCEPT !.prev = i] = Holding(f, i) /\ [q EXCEPT !.prev = i] = Holding(f, i)
        BY HoldingNext
    <2>2. o.file = q.file /\ o.behind = q.behind
        BY DEF Holding
    <2> QED  BY <2>1, <2>2 DEF i
<1> HIDE DEF o, q
<1>2. WrittenInFull(o, d, l) = WrittenInFull(q, d, l)
    BY <1>1 DEF WrittenInFull
<1>3. /\ CutBack(o, d).disk = CutBack(q, d).disk 
      /\ CutBack(o, d).ok = FALSE /\ CutBack(q, d).ok = FALSE
      /\ LeftUncut(o, d).disk = LeftUncut(q, d).disk 
      /\ LeftUncut(o, d).ok = FALSE /\ LeftUncut(q, d).ok = FALSE
    BY <1>1 DEF CutBack, LeftUncut
<1>4. CASE w = WrittenInFull(o, d, l)
    <2>1. WrittenInFull(q, d, l) \in WriteLine(q, d, l)
        BY DEF WriteLine
    <2> QED  BY <1>2, <1>4, <2>1 DEF q
<1>5. CASE w = CutBack(o, d) /\ "write" \in Faults
    <2>1. CutBack(q, d) \in WriteLine(q, d, l)
        BY <1>5 DEF WriteLine
    <2> QED  BY <1>3, <1>5, <2>1 DEF q
<1>6. CASE w = LeftUncut(o, d) /\ "cut" \in Faults
    <2>1. LeftUncut(q, d) \in WriteLine(q, d, l)
        BY <1>6 DEF WriteLine
    <2> QED  BY <1>3, <1>6, <2>1 DEF q
<1> QED  BY <1>4, <1>5, <1>6 DEF WriteLine, o

\* What opening a file leaves.
Opened(s, d, r) ==
    /\ Outcome(r) /\ DiskOK(r.disk) /\ Steps(s, d, r.disk) /\ Spares(d, r.disk)
    /\ \A f \in Files : d.name[f] # None => r.disk.name[f] # None
    /\ r.ok => HeldOK(s, r.open, r.disk) /\ d.lock[r.open.file] = None

LEMMA OpenedFile ==
    ASSUME NEW s \in Servers, NEW d, DiskOK(d), NEW f \in Files, d.lock[f] = None,
           NEW start \in {"fresh", "resumed", "rotated"}, NEW carried \in Nat,
           start = "fresh" => carried = 0, NEW r \in OpenAt(s, d, start, carried, f)
    PROVE  Opened(s, d, r)
<1> DEFINE mended == RecoverTail(d.lines[f])
<1> DEFINE fresh == mended = <<>>
<1> DEFINE prev == IF fresh THEN carried ELSE TailHash(Last(mended))
<1> DEFINE last == IF fresh THEN carried ELSE Last(mended).id
<1> DEFINE named == [d EXCEPT !.name[f] = BaseName(BaseOf[s])]
<1> DEFINE put == Put(named, f, mended)
<1> DEFINE held == Lock(put, f, s)
<1> DEFINE open == Holding(f, last)
<1> DEFINE marker == [NewLine(d, "start", prev) EXCEPT !.opens = Opens(fresh, start, carried)]
<1>1. PICK w \in WriteLine(open, held, marker) : r = IF w.ok THEN w ELSE NotOpened(Lock(w.disk, f, None))
    <2>1. PICK v \in WriteLine(Holding(f, prev), held, marker) :
              r = IF v.ok THEN v ELSE NotOpened(Lock(v.disk, f, None))
        BY DEF OpenAt, Holding
    <2> HIDE DEF prev, last, held, marker
    <2>2. PICK w \in WriteLine(open, held, marker) :
              v.ok = w.ok /\ v.disk = w.disk /\ (v.ok => v = w)
        BY SameOutcome
    <2> QED  BY <2>1, <2>2
<1>2. d.lines[f] \in Seq(LineSet) /\ Chain(d.lines[f]) /\ d.next \in Ids
    BY DEF DiskOK, Disks
<1>3. /\ mended \in Seq(LineSet) /\ Keeps(d.lines[f], mended) /\ Chain(mended)
      /\ ~fresh => Started(mended) /\ (Damaged(mended) \/ (Last(mended).whole /\ Last(mended).kind # "stray"))
    BY <1>2, MendedLines
<1> HIDE DEF mended
<1>4. last \in Nat /\ prev \in Int
    <2>1. ASSUME ~fresh PROVE Last(mended).id \in Nat /\ Last(mended).long \in BOOLEAN
        <3>1. Last(mended) \in LineSet
            BY <1>3, <2>1, LastLine
        <3> QED  BY <3>1 DEF LineSet, Ids
    <2> QED  BY <2>1 DEF TailHash
<1>5. /\ DiskOK(named) /\ named.lines = d.lines /\ named.lock = d.lock /\ named.name[f] # None
      /\ \A g \in Files : g # f => named.name[g] = d.name[g]
    BY DiskNamed, Names, NoneIsNoName
<1> HIDE DEF named
<1>6. /\ DiskOK(put) /\ put.name = named.name /\ put.lock = named.lock /\ put.lines[f] = mended
      /\ \A g \in Files : g # f => put.lines[g] = named.lines[g]
    BY <1>3, <1>5, DiskPut
<1> HIDE DEF put
<1>7. /\ DiskOK(held) /\ held.name = put.name /\ held.lines = put.lines /\ held.lock[f] = s
      /\ \A g \in Files : g # f => held.lock[g] = put.lock[g]
    BY <1>5, <1>6, DiskLocked
<1> HIDE DEF held
<1>8. open \in Handles /\ open.file = f
    BY <1>4 DEF Handles, Holding
<1>9. EndOK(open, mended)
    BY <1>3 DEF EndOK, Holding
<1>10. Held(s, open, held) /\ held.lines[open.file] = mended
    BY <1>6, <1>7, <1>8, <1>9 DEF Held
<1>11. Fits(open, mended, marker)
    <2>1. /\ marker \in LineSet /\ marker.whole /\ marker.kind = "start" /\ marker.prev = prev
          /\ marker.opens = Opens(fresh, start, carried)
        <3>1. Opens(fresh, start, carried) \in BOOLEAN
            BY DEF Opens, OpensAnywhere
        <3> HIDE DEF prev
        <3> QED  BY <3>1, <1>2, <1>4 DEF NewLine, LineSet, Kinds
    <2> HIDE DEF marker
    <2>2. fresh => marker.prev = 0 \/ marker.opens
        BY <2>1 DEF Opens, OpensAnywhere
    <2>3. ~fresh => ~marker.opens /\ marker.prev = TailHash(Last(mended)) /\ Started(mended)
        BY <1>3, <2>1 DEF Opens
    <2> QED  BY <2>1, <2>2, <2>3 DEF Fits, Follows
<1> HIDE DEF open, marker
<1>12. Written(s, open, held, marker, w)
    BY <1>1, <1>7, <1>10, <1>11, Write
<1>13. Steps(s, d, w.disk)
    <2>1. Steps(s, d, held)
        <3> SUFFICES ASSUME NEW g \in Files
                     PROVE  /\ d.lock[g] \notin {None, s} =>
                                   held.lines[g] = d.lines[g] /\ held.lock[g] = d.lock[g]
                            /\ Keeps(d.lines[g], held.lines[g])
            BY DEF Steps
        <3>1. CASE g = f
            BY <3>1, <1>3, <1>6, <1>7
        <3>2. CASE g # f
            BY <3>2, <1>5, <1>6, <1>7, KeepsItself
        <3> QED  BY <3>1, <3>2
    <2> QED  BY <2>1, <1>12, StepsOn DEF Written
<1>14. Spares(d, w.disk)
    <2> SUFFICES ASSUME NEW g \in Files, d.lock[g] # None
                 PROVE  /\ w.disk.lines[g] = d.lines[g] /\ w.disk.lock[g] = d.lock[g]
                        /\ w.disk.name[g] = d.name[g]
        BY DEF Spares
    <2>1. g # f
        OBVIOUS
    <2> QED  BY <2>1, <1>5, <1>6, <1>7, <1>8, <1>12 DEF Written
<1>n. \A g \in Files : d.name[g] # None => w.disk.name[g] # None
    BY <1>5, <1>6, <1>7, <1>12 DEF Written
<1>15. CASE w.ok
    BY <1>15, <1>1, <1>8, <1>n, <1>12, <1>13, <1>14 DEF Written, Opened
<1>16. CASE ~w.ok
    <2> DEFINE e == Lock(w.disk, f, None)
    <2>1. r = NotOpened(e)
        BY <1>1, <1>16
    <2>2. /\ DiskOK(e) /\ e.name = w.disk.name /\ e.lines = w.disk.lines
          /\ \A g \in Files : g # f => e.lock[g] = w.disk.lock[g]
        BY <1>12, DiskLocked DEF Written
    <2> HIDE DEF e
    <2>3. Steps(s, w.disk, e)
        <3>1. w.disk.lock[f] = s
            BY <1>7, <1>12 DEF Written
        <3> QED  BY <2>2, <3>1, KeepsItself DEF Steps
    <2>4. Steps(s, d, e)
        BY <1>13, <2>3, StepsOn
    <2>5. Spares(d, e)
        BY <1>14, <2>2 DEF Spares
    <2> QED  BY <1>n, <2>1, <2>2, <2>4, <2>5 DEF NotOpened, Opened, Outcome
<1> QED  BY <1>15, <1>16

LEMMA Opening ==
    ASSUME NEW s \in Servers, NEW d, DiskOK(d), NEW start \in {"fresh", "resumed", "rotated"},
           NEW carried \in Nat, start = "fresh" => carried = 0,
           NEW r \in OpenFile(s, d, start, carried)
    PROVE  Opened(s, d, r)
<1> DEFINE f == CHOOSE f \in OpenedAt(s, d) : TRUE
<1>1. f \in OpenedAt(s, d)
    BY DEF OpenFile
<1>2. f \in Files
    BY <1>1 DEF OpenedAt
<1>3. \/ r = NotOpened(d)
      \/ d.lock[f] = None /\ r \in OpenAt(s, d, start, carried, f)
    BY DEF OpenFile
<1>4. CASE r = NotOpened(d)
    <2>1. Spares(d, d)
        BY DEF Spares
    <2> QED  BY <1>4, <2>1, StepsItself DEF NotOpened, Opened, Outcome
<1> HIDE DEF f
<1> QED  BY <1>2, <1>3, <1>4, OpenedFile

\* What keeping the files in order leaves the process, which goes on with an open file.
Kept(s, d, r) ==
    Outcome(r) /\ DiskOK(r.disk) /\ Steps(s, d, r.disk) /\ HeldOK(s, r.open, r.disk)

LEMMA KeptAsItWas ==
    ASSUME NEW s, NEW d, DiskOK(d), NEW o, HeldOK(s, o, d), NEW r, NEW ok \in BOOLEAN,
           r = [ok |-> ok, open |-> o, disk |-> d]
    PROVE  Kept(s, d, r)
    BY StepsItself DEF Kept, Outcome

LEMMA SparedHandle ==
    ASSUME NEW s \in Servers, NEW d, NEW e, NEW o, HeldOK(s, o, d), Spares(d, e)
    PROVE  HeldOK(s, o, e)
<1>1. o.file \in Files /\ d.lock[o.file] = s /\ s # None
    BY NoneIsNoServer DEF HeldOK, Held, Handles
<1>2. e.lines[o.file] = d.lines[o.file] /\ e.lock[o.file] = s
    BY <1>1 DEF Spares
<1> QED  BY <1>2 DEF HeldOK, Held

\* A marker or an entry after the last line.
LEMMA NextFits ==
    ASSUME NEW s, NEW d, DiskOK(d), NEW o, HeldOK(s, o, d),
           NEW kind \in Kinds \ {"start", "torn", "stray"}, NEW n \in Nat
    PROVE  /\ Fits(o, d.lines[o.file], [NewLine(d, kind, o.prev) EXCEPT !.dropped = n])
           /\ \A l \in AnyLength(NewLine(d, kind, o.prev)) :
                 Fits(o, d.lines[o.file], l) /\ l.id = d.next /\ l.kind = kind
<1>1. d.next \in Ids /\ o \in Handles /\ Started(d.lines[o.file])
    BY DEF DiskOK, Disks, HeldOK, Held
<1>2. o.prev \in Nat
    BY <1>1 DEF Handles
<1> DEFINE l == NewLine(d, kind, o.prev)
<1> DEFINE m == [l EXCEPT !.dropped = n]
<1>3. l \in LineSet /\ l.whole /\ l.kind = kind /\ l.prev = o.prev /\ ~l.opens
    BY <1>1, <1>2 DEF NewLine, LineSet
<1> HIDE DEF l
<1>4. m \in LineSet /\ m.whole /\ m.kind = kind /\ m.prev = o.prev /\ ~m.opens
    BY <1>3 DEF LineSet
<1> HIDE DEF m
<1>5. d.lines[o.file] # <<>>
    BY <1>1 DEF Started, Damaged
<1>6. ASSUME NEW k \in AnyLength(l)
      PROVE  k \in LineSet /\ k.whole /\ k.kind = kind /\ k.prev = o.prev /\ ~k.opens /\ k.id = l.id
    BY <1>3 DEF AnyLength, LineSet
<1>7. l.id = d.next
    BY DEF l, NewLine
<1> QED  BY <1>1, <1>4, <1>5, <1>6, <1>7 DEF l, m, Fits, Follows

LEMMA Pruning ==
    ASSUME NEW s \in Servers, NEW d, DiskOK(d), NEW o, HeldOK(s, o, d), NEW p \in Pruned(s, o, d)
    PROVE  Kept(s, d, p)
<1> DEFINE closed == Closed(s, o, d)
<1> DEFINE over == OverCount(Cardinality(closed))
<1> DEFINE gone(old) == {f \in closed : /\ Cardinality(Older(d, closed, f)) < over
                                           \/ Cardinality(Older(d, closed, f)) < old
                                        /\ RemoveClosed(d, f)}
<1> DEFINE removed(old) == [d EXCEPT !.name = [f \in Files |-> IF f \in gone(old) THEN None ELSE @[f]]]
<1>1. PICK old : \/ gone(old) = {} /\ p = [ok |-> TRUE, open |-> o, disk |-> d]
                 \/ \E l \in AnyLength(NewLine(d, "pruned", o.prev)) : p \in WriteLine(o, removed(old), l)
    BY DEF Pruned
<1> DEFINE e == removed(old)
<1>2. CASE p = [ok |-> TRUE, open |-> o, disk |-> d]
    BY <1>2, KeptAsItWas
<1>3. ASSUME NEW l \in AnyLength(NewLine(d, "pruned", o.prev)), p \in WriteLine(o, e, l)
      PROVE  Kept(s, d, p)
    <2>1. \A f \in gone(old) : d.lock[f] = None /\ f # o.file
        BY DEF RemoveClosed, Closed
    <2> HIDE DEF gone
    <2>2. /\ DiskOK(e) /\ e.lines = d.lines /\ e.lock = d.lock /\ e.next = d.next
        <3>1. d \in Disks /\ d.name \in [Files -> FileNames \cup {None}]
            BY DEF DiskOK, Disks
        <3> DEFINE names == [f \in Files |-> IF f \in gone(old) THEN None ELSE d.name[f]]
        <3>2. names \in [Files -> FileNames \cup {None}] /\ e = [d EXCEPT !.name = names]
            BY <3>1
        <3>n. \A f \in Files : d.lock[f] # None => names[f] # None
            BY <2>1 DEF DiskOK
        <3> HIDE DEF names, e
        <3>3. e \in Disks /\ e.lines = d.lines /\ e.lock = d.lock /\ e.next = d.next /\ e.name = names
            BY <3>1, <3>2 DEF Disks
        <3> QED  BY <3>3, <3>n DEF DiskOK
    <2> HIDE DEF e
    <2>3. HeldOK(s, o, e)
        BY <2>2 DEF HeldOK, Held
    <2>4. NewLine(e, "pruned", o.prev) = NewLine(d, "pruned", o.prev)
        BY <2>2 DEF NewLine
    <2>5. Fits(o, e.lines[o.file], l)
        <3>1. "pruned" \in Kinds \ {"start", "torn", "stray"} /\ 0 \in Nat
            BY DEF Kinds
        <3> QED  BY <1>3, <2>2, <2>3, <2>4, <3>1, NextFits
    <2>6. Written(s, o, e, l, p)
        BY <1>3, <2>2, <2>3, <2>5, Write DEF HeldOK
    <2>7. HeldOK(s, p.open, p.disk)
        BY <2>3, <2>6 DEF Written, HeldOK
    <2>8. Steps(s, d, e)
        BY <2>2, KeepsItself DEF Steps
    <2> QED  BY <2>6, <2>7, <2>8, StepsOn DEF Written, Kept
<1> QED  BY <1>1, <1>2, <1>3

\* The file the process had is closed for the one it opened.
LEMMA Replacing ==
    ASSUME NEW s \in Servers, NEW d, NEW o, HeldOK(s, o, d), NEW r, Opened(s, d, r), r.ok
    PROVE  DiskOK(Replaced(o, r)) /\ Steps(s, d, Replaced(o, r)) /\ HeldOK(s, r.open, Replaced(o, r))
<1> DEFINE e == Replaced(o, r)
<1>1. o.file \in Files /\ d.lock[o.file] = s /\ s # None
    BY NoneIsNoServer DEF HeldOK, Held, Handles
<1>2. r.open.file # o.file /\ r.disk.lock[o.file] = s /\ DiskOK(r.disk) /\ HeldOK(s, r.open, r.disk)
    BY <1>1 DEF Opened, Spares
<1>3. e = Lock(r.disk, o.file, None)
    BY <1>2 DEF Replaced
<1>4. /\ DiskOK(e) /\ e.name = r.disk.name /\ e.lines = r.disk.lines
      /\ \A g \in Files : g # o.file => e.lock[g] = r.disk.lock[g]
    BY <1>1, <1>2, <1>3, DiskLocked
<1> HIDE DEF e
<1>5. HeldOK(s, r.open, e)
    BY <1>2, <1>4 DEF HeldOK, Held, Handles
<1>6. Steps(s, r.disk, e)
    BY <1>2, <1>4, KeepsItself DEF Steps
<1> QED  BY <1>4, <1>5, <1>6, StepsOn DEF e, Opened

LEMMA Rotation ==
    ASSUME NEW s \in Servers, NEW d, DiskOK(d), NEW o, HeldOK(s, o, d), NEW r \in Rotated(s, o, d)
    PROVE  Kept(s, d, r)
<1> DEFINE moved == [d EXCEPT !.name[o.file] = RotatedName(BaseOf[s])]
<1> DEFINE aside == [o EXCEPT !.rotated = TRUE]
<1> DEFINE e == IF o.rotated THEN d ELSE moved
<1>1. \/ \E ok \in BOOLEAN : r = [ok |-> ok, open |-> o, disk |-> d]
      \/ \E q \in OpenFile(s, e, "rotated", o.prev) :
            \/ q.ok /\ \E p \in Pruned(s, q.open, Replaced(o, q)) : r = [p EXCEPT !.ok = TRUE]
            \/ ~q.ok /\ r = [ok |-> TRUE, open |-> aside, disk |-> q.disk]
    <2> DEFINE after(q) == IF q.ok
                           THEN {[p EXCEPT !.ok = TRUE] : p \in Pruned(s, q.open, Replaced(o, q))}
                           ELSE {[ok |-> TRUE, open |-> aside, disk |-> q.disk]}
    <2>1. CASE FileCap = 0 \/ Len(d.lines[o.file]) < FileCap
        BY <2>1 DEF Rotated
    <2>2. CASE ~(FileCap = 0 \/ Len(d.lines[o.file]) < FileCap)
        <3> DEFINE T == {after(q) : q \in OpenFile(s, e, "rotated", o.prev)}
        <3> DEFINE F == IF "rename" \in Faults /\ ~o.rotated
                        THEN {[ok |-> FALSE, open |-> o, disk |-> d]} ELSE {}
        <3>1. r \in (UNION T) \cup F
            <4>1. Rotated(s, o, d) =
                     IF FileCap = 0 \/ Len(d.lines[o.file]) < FileCap
                     THEN {[ok |-> TRUE, open |-> o, disk |-> d]} ELSE (UNION T) \cup F
                BY Zenon DEF Rotated
            <4> HIDE DEF T, F
            <4> QED  BY <2>2, <4>1
        <3>a. r \in F => r = [ok |-> FALSE, open |-> o, disk |-> d]
            OBVIOUS
        <3>b. ASSUME NEW t \in T
              PROVE  \E q \in OpenFile(s, e, "rotated", o.prev) : t = after(q)
            OBVIOUS
        <3> HIDE DEF T, F
        <3>2. \/ r = [ok |-> FALSE, open |-> o, disk |-> d]
              \/ \E q \in OpenFile(s, e, "rotated", o.prev) : r \in after(q)
            <4>1. r \in F \/ \E t \in T : r \in t
                BY <3>1
            <4> HIDE DEF after, e
            <4> QED  BY <4>1, <3>a, <3>b
        <3> HIDE DEF e, aside, after
        <3>3. ASSUME NEW q \in OpenFile(s, e, "rotated", o.prev), r \in after(q)
              PROVE  \/ q.ok /\ \E p \in Pruned(s, q.open, Replaced(o, q)) : r = [p EXCEPT !.ok = TRUE]
                     \/ ~q.ok /\ r = [ok |-> TRUE, open |-> aside, disk |-> q.disk]
            BY <3>3 DEF after
        <3> QED  BY <3>2, <3>3
    <2> QED  BY <2>1, <2>2
<1>2. o \in Handles /\ o.file \in Files /\ o.prev \in Nat
    BY DEF HeldOK, Held, Handles
<1>3. ASSUME NEW ok \in BOOLEAN, r = [ok |-> ok, open |-> o, disk |-> d]
      PROVE  Kept(s, d, r)
    BY <1>3, KeptAsItWas
<1>4. DiskOK(e) /\ e.lines = d.lines /\ e.lock = d.lock
    <2>1. DiskOK(moved) /\ moved.lines = d.lines /\ moved.lock = d.lock
        BY <1>2, Names, DiskNamed
    <2> QED  BY <2>1
<1> HIDE DEF e, moved
<1>5. HeldOK(s, o, e) /\ Steps(s, d, e)
    BY <1>4, KeepsItself DEF HeldOK, Held, Steps
<1>6. ASSUME NEW q \in OpenFile(s, e, "rotated", o.prev) PROVE Opened(s, e, q)
    BY <1>2, <1>4, <1>6, Opening
<1>7. ASSUME NEW q \in OpenFile(s, e, "rotated", o.prev), q.ok,
             NEW p \in Pruned(s, q.open, Replaced(o, q)), r = [p EXCEPT !.ok = TRUE]
      PROVE  Kept(s, d, r)
    <2>1. /\ DiskOK(Replaced(o, q)) /\ Steps(s, e, Replaced(o, q))
          /\ HeldOK(s, q.open, Replaced(o, q))
        BY <1>5, <1>6, <1>7, Replacing
    <2>2. Kept(s, Replaced(o, q), p)
        BY <1>7, <2>1, Pruning
    <2>3. r.ok = TRUE /\ r.open = p.open /\ r.disk = p.disk /\ Outcome(r)
        <3>1. p = [ok |-> p.ok, open |-> p.open, disk |-> p.disk]
            BY <2>2 DEF Kept, Outcome
        <3>2. r = [ok |-> TRUE, open |-> p.open, disk |-> p.disk]
            BY <1>7, <3>1
        <3> QED  BY <3>2 DEF Outcome
    <2>4. Steps(s, d, r.disk)
        BY <1>5, <2>1, <2>2, <2>3, StepsOn DEF Kept
    <2> QED  BY <2>2, <2>3, <2>4 DEF Kept
<1>8. ASSUME NEW q \in OpenFile(s, e, "rotated", o.prev), ~q.ok,
             r = [ok |-> TRUE, open |-> aside, disk |-> q.disk]
      PROVE  Kept(s, d, r)
    <2>1. Opened(s, e, q)
        BY <1>6
    <2>2. HeldOK(s, o, q.disk)
        BY <1>5, <2>1, SparedHandle DEF Opened
    <2>3. aside \in Handles /\ aside.file = o.file /\ aside.prev = o.prev /\ aside.behind = o.behind
        BY <1>2 DEF Handles
    <2> HIDE DEF aside
    <2>4. HeldOK(s, aside, q.disk)
        BY <2>2, <2>3 DEF HeldOK, Held, EndOK
    <2>5. Steps(s, d, q.disk)
        BY <1>5, <2>1, StepsOn DEF Opened
    <2> QED  BY <1>8, <2>1, <2>4, <2>5 DEF Kept, Outcome, Opened
<1> QED  BY <1>1, <1>3, <1>7, <1>8

LEMMA Resuming ==
    ASSUME NEW s \in Servers, NEW d, DiskOK(d), NEW o, HeldOK(s, o, d), NEW r \in Resumed(s, o, d)
    PROVE  Kept(s, d, r)
<1>1. \/ r = [ok |-> TRUE, open |-> o, disk |-> d]
      \/ \E q \in OpenFile(s, d, "resumed", o.prev) :
            r = IF q.ok THEN [q EXCEPT !.disk = Replaced(o, q)]
                ELSE [ok |-> FALSE, open |-> o, disk |-> q.disk]
    BY DEF Resumed
<1>2. o.prev \in Nat
    BY DEF HeldOK, Held, Handles
<1>3. CASE r = [ok |-> TRUE, open |-> o, disk |-> d]
    BY <1>3, KeptAsItWas
<1>4. ASSUME NEW q \in OpenFile(s, d, "resumed", o.prev),
             r = IF q.ok THEN [q EXCEPT !.disk = Replaced(o, q)]
                 ELSE [ok |-> FALSE, open |-> o, disk |-> q.disk]
      PROVE  Kept(s, d, r)
    <2>1. Opened(s, d, q)
        BY <1>2, Opening
    <2>2. CASE q.ok
        <3>1. /\ DiskOK(Replaced(o, q)) /\ Steps(s, d, Replaced(o, q))
              /\ HeldOK(s, q.open, Replaced(o, q))
            BY <2>1, <2>2, Replacing
        <3>2. q = [ok |-> q.ok, open |-> q.open, disk |-> q.disk]
            BY <2>1 DEF Opened, Outcome
        <3>3. r = [ok |-> q.ok, open |-> q.open, disk |-> Replaced(o, q)]
            BY <1>4, <2>2, <3>2
        <3> QED  BY <2>2, <3>1, <3>3 DEF Kept, Outcome
    <2>3. CASE ~q.ok
        <3>1. HeldOK(s, o, q.disk)
            BY <2>1, SparedHandle DEF Opened
        <3> QED  BY <1>4, <2>1, <2>3, <3>1 DEF Kept, Outcome, Opened
    <2> QED  BY <2>2, <2>3
<1> QED  BY <1>1, <1>3, <1>4

\* Whatever keep_current did, the process has a file locked that it can write on.
LEMMA KeepingCurrent ==
    ASSUME NEW s \in Servers, NEW d, DiskOK(d), NEW o, HeldOK(s, o, d), NEW r \in KeepCurrent(s, o, d)
    PROVE  Kept(s, d, r)
<1>1. PICK q \in Resumed(s, o, d) : r \in IF q.ok THEN Rotated(s, q.open, q.disk) ELSE {q}
    BY DEF KeepCurrent
<1>2. Kept(s, d, q)
    BY Resuming
<1>3. CASE r \in Rotated(s, q.open, q.disk)
    <2>1. Kept(s, q.disk, r)
        BY <1>2, <1>3, Rotation DEF Kept
    <2> QED  BY <1>2, <2>1, StepsOn DEF Kept
<1>4. CASE r = q
    BY <1>2, <1>4
<1> QED  BY <1>1, <1>3, <1>4

---------------------------------------------------------------------------------
(* Steps of the threads: what the parts of the invariant ask of a step of the thread c, whose *)
(* process alone changes.                                                                     *)

LEMMA Here ==
    ASSUME AuditInv, NEW c \in Calls
    PROVE  /\ ServerOf[c] \in Servers /\ sink[ServerOf[c]] \in Sinks
           /\ pc[c] \in Threads
    BY AuditAssumption DEF AuditInv, Typed

LEMMA FilesOn ==
    ASSUME AuditInv, NEW s \in Servers, DiskOK(disk'), Steps(s, disk, disk'),
           \A t \in Servers : t # s => sink'[t].open = sink[t].open,
           sink'[s].open # None => HeldOK(s, sink'[s].open, disk')
    PROVE  FilesOK'
<1> SUFFICES ASSUME NEW t \in Servers, sink'[t].open # None, t # s
             PROVE  HeldOK(t, sink'[t].open, disk')
    BY DEF FilesOK, HeldOK, Held, DiskOK, EndOK, Started, Chain
<1>1. HeldOK(t, sink[t].open, disk) /\ sink'[t].open = sink[t].open
    BY DEF AuditInv, FilesOK
<1> DEFINE o == sink[t].open
<1>2. o.file \in Files /\ disk.lock[o.file] = t /\ t # None
    BY <1>1, NoneIsNoServer DEF HeldOK, Held, Handles
<1>3. disk'.lines[o.file] = disk.lines[o.file] /\ disk'.lock[o.file] = t
    BY <1>2 DEF Steps
<1> QED  BY <1>1, <1>3 DEF HeldOK, Held

LEMMA AckedOn ==
    ASSUME AuditInv, NEW s \in Servers, Steps(s, disk, disk'), acked' = acked,
           pruned \subseteq pruned',
           \A f \in Files : disk.name[f] # None /\ disk'.name[f] = None => f \in pruned'
    PROVE  AckedOK'
<1> SUFFICES ASSUME NEW a \in acked, a.file \notin pruned'
             PROVE  /\ disk'.name[a.file] # None
                    /\ HasEntry(disk'.lines[a.file], a.id) \/ Damaged(disk'.lines[a.file])
    BY DEF AckedOK
<1>1. a.id \in Nat /\ a.file \in Files
    BY DEF AuditInv, Typed
<1>2. /\ disk.name[a.file] # None
      /\ HasEntry(disk.lines[a.file], a.id) \/ Damaged(disk.lines[a.file])
    BY DEF AuditInv, AckedOK
<1>3. Keeps(disk.lines[a.file], disk'.lines[a.file])
    BY <1>1 DEF Steps
<1> QED  BY <1>1, <1>2, <1>3 DEF Keeps

LEMMA NoFileLost ==
    ASSUME DiskOK(disk'), NowPruned(disk')
    PROVE  /\ pruned \subseteq pruned'
           /\ \A f \in Files : disk.name[f] # None /\ disk'.name[f] = None => f \in pruned'
    BY DEF DiskOK, NowPruned

OthersSame(c) ==
    /\ \A e \in Calls : e # c => pc'[e] = pc[e]
    /\ \A t \in Servers : t # ServerOf[c] => sink'[t] = sink[t]

LEMMA ThreadsOn ==
    ASSUME AuditInv, NEW c \in Calls, OthersSame(c),
           pc'[c].at \in InLock => pc[c].at \in InLock \/ LockFree(ServerOf[c]),
           sink[ServerOf[c]].open # None => sink'[ServerOf[c]].open # None,
           pc'[c].at # "idle" => sink[ServerOf[c]].open # None,
           pc'[c].at = "marking" => pc'[c].dropped <= sink'[ServerOf[c]].unreported,
           pc'[c].at = "clearing" => ~sink'[ServerOf[c]].failing,
           pc'[c].at \in {"line", "failed", "counted"} => pc'[c].does = "record",
           pc'[c].at = "admitting" => pc'[c].does = "admit",
           \/ LockFree(ServerOf[c]) \/ pc[c].at \in InLock
           \/ /\ sink'[ServerOf[c]].failing = sink[ServerOf[c]].failing
              /\ sink'[ServerOf[c]].unreported \in Nat
              /\ sink'[ServerOf[c]].unreported >= sink[ServerOf[c]].unreported
    PROVE  ThreadsOK'
<1> DEFINE s == ServerOf[c]
<1>1. \A e \in Calls : ServerOf[e] \in Servers
    BY Here
<1>2. \A e \in Calls : ServerOf[e] = s /\ e # c /\ pc[e].at \in InLock =>
          /\ ~LockFree(s) /\ pc[c].at \notin InLock
    BY DEF LockFree, AuditInv, ThreadsOK
<1>3. ASSUME NEW e \in Calls, e # c
      PROVE  /\ pc'[e].at # "idle" => sink'[ServerOf[e]].open # None
             /\ pc'[e].at = "marking" => pc'[e].dropped <= sink'[ServerOf[e]].unreported
             /\ pc'[e].at = "clearing" => ~sink'[ServerOf[e]].failing
             /\ pc'[e].at \in {"line", "failed", "counted"} => pc'[e].does = "record"
             /\ pc'[e].at = "admitting" => pc'[e].does = "admit"
    <2>1. pc'[e] = pc[e]
        BY <1>3 DEF OthersSame
    <2>2. /\ pc[e].at # "idle" => sink[ServerOf[e]].open # None
          /\ pc[e].at = "marking" => pc[e].dropped <= sink[ServerOf[e]].unreported
          /\ pc[e].at = "clearing" => ~sink[ServerOf[e]].failing
          /\ pc[e].at \in {"line", "failed", "counted"} => pc[e].does = "record"
          /\ pc[e].at = "admitting" => pc[e].does = "admit"
        BY DEF AuditInv, ThreadsOK
    <2>3. CASE ServerOf[e] # s
        BY <2>1, <2>2, <2>3, <1>1 DEF OthersSame
    <2>4. CASE ServerOf[e] = s
        <3>1. pc[e].dropped \in Nat /\ sink[s].unreported \in Nat
            BY Here DEF Sinks, Threads
        <3>2. pc[e].at \in InLock =>
                 /\ sink'[s].failing = sink[s].failing
                 /\ sink'[s].unreported \in Nat /\ sink'[s].unreported >= sink[s].unreported
            BY <1>2, <1>3, <2>4
        <3> HIDE DEF s
        <3>3. pc[e].at \in {"marking", "clearing"} => pc[e].at \in InLock
            BY DEF InLock
        <3> QED  BY <2>1, <2>2, <2>4, <3>1, <3>2, <3>3 DEF s
    <2> QED  BY <2>3, <2>4
<1>4. ASSUME NEW e \in Calls, NEW g \in Calls, pc'[e].at \in InLock, pc'[g].at \in InLock,
             ServerOf[e] = ServerOf[g], e # g
      PROVE  FALSE
    <2>1. CASE e # c /\ g # c
        BY <1>4, <2>1 DEF OthersSame, AuditInv, ThreadsOK
    <2>2. CASE e = c
        BY <1>4, <1>2, <2>2 DEF OthersSame
    <2>3. CASE g = c
        BY <1>4, <1>2, <2>3 DEF OthersSame
    <2> QED  BY <2>1, <2>2, <2>3
<1> QED  BY <1>3, <1>4 DEF ThreadsOK

LEMMA FailingOn ==
    ASSUME AuditInv, NEW c \in Calls, OthersSame(c),
           \/ pc'[c].at \in {"failed", "counted"}
           \/ sink'[ServerOf[c]].degraded
           \/ ~sink'[ServerOf[c]].failing
           \/ /\ sink[ServerOf[c]].failing /\ pc[c].at \notin {"failed", "counted"}
              /\ sink'[ServerOf[c]].degraded = sink[ServerOf[c]].degraded
    PROVE  FailingLogIsDegraded'
<1> SUFFICES ASSUME NEW t \in Servers, sink'[t].failing,
                    \A e \in Calls : ServerOf[e] = t => pc'[e].at \notin {"failed", "counted"}
             PROVE  sink'[t].degraded
    BY DEF FailingLogIsDegraded
<1>1. CASE t # ServerOf[c]
    BY <1>1 DEF OthersSame, AuditInv, FailingLogIsDegraded
<1>2. CASE t = ServerOf[c]
    BY <1>2 DEF OthersSame, AuditInv, FailingLogIsDegraded
<1> QED  BY <1>1, <1>2

LEMMA GapsOn ==
    ASSUME AuditInv, NEW c \in Calls, OthersSame(c),
           sink'[ServerOf[c]].noted = sink'[ServerOf[c]].marked + sink'[ServerOf[c]].unreported
    PROVE  GapsAddUp'
    BY DEF OthersSame, AuditInv, GapsAddUp

---------------------------------------------------------------------------------
(* The steps. *)

LEMMA InitAudit == Init => AuditInv
<1> SUFFICES ASSUME Init PROVE AuditInv
    OBVIOUS
<1>1. Typed
    BY DEF Init, Typed, Sinks, Down, Idle, Ats, Threads, InLock
<1>2. DiskOK(disk)
    <2>1. disk \in Disks
        BY DEF Init, Disks, Ids
    <2>2. \A f \in Files : disk.lines[f] = <<>> /\ disk.lock[f] = None
        BY DEF Init
    <2>3. Chain(<<>>)
        BY DEF Chain, Linked
    <2> QED  BY <2>1, <2>2, <2>3 DEF DiskOK
<1>3. FilesOK
    BY <1>2 DEF FilesOK, Init, Down
<1>4. \A c \in Calls : ServerOf[c] \in Servers
    BY AuditAssumption
<1>5. ThreadsOK
    BY <1>4 DEF Init, ThreadsOK, Idle, InLock
<1>6. AckedOK /\ GapsAddUp /\ FailingLogIsDegraded
    BY DEF Init, AckedOK, GapsAddUp, FailingLogIsDegraded, Down
<1> QED  BY <1>1, <1>3, <1>5, <1>6 DEF AuditInv

\* What a thread finds when it has taken the lock.
LEMMA Entering ==
    ASSUME AuditInv, NEW c \in Calls, sink[ServerOf[c]].open # None,
           NEW r \in KeepCurrent(ServerOf[c], sink[ServerOf[c]].open, disk),
           Enter(c, r), acked' = acked
    PROVE  /\ r.ok \in BOOLEAN /\ FilesOK' /\ AckedOK'
           /\ sink' \in [Servers -> Sinks] /\ sink'[ServerOf[c]].open # None
           /\ \A t \in Servers : t # ServerOf[c] => sink'[t] = sink[t]
           /\ sink'[ServerOf[c]] = [sink[ServerOf[c]] EXCEPT !.open = r.open,
                     !.failing = @ \/ (~r.ok /\ pc[c].does = "record")]
<1> DEFINE s == ServerOf[c]
<1>1. s \in Servers /\ sink[s] \in Sinks /\ sink \in [Servers -> Sinks]
    BY Here DEF AuditInv, Typed
<1>2. DiskOK(disk) /\ HeldOK(s, sink[s].open, disk)
    BY <1>1 DEF AuditInv, FilesOK
<1>3. Kept(s, disk, r)
    BY <1>1, <1>2, KeepingCurrent
<1>4. r.open \in Handles /\ r.open # None /\ r.ok \in BOOLEAN
    BY <1>3, AuditAssumption DEF Kept, HeldOK, Held, Outcome
<1>5. disk' = r.disk /\ NowPruned(r.disk)
    BY DEF Enter
<1>6. sink' = [sink EXCEPT ![s].open = r.open, ![s].failing = @ \/ (~r.ok /\ pc[c].does = "record")]
    BY DEF Enter
<1> DEFINE x == [sink[s] EXCEPT !.open = r.open, !.failing = @ \/ (~r.ok /\ pc[c].does = "record")]
<1>7. /\ sink'[s] = x /\ DOMAIN sink' = Servers
      /\ \A t \in Servers : t # s => sink'[t] = sink[t]
    BY <1>1, <1>6
<1>8. x \in Sinks /\ x.open = r.open
    <2>1. (sink[s].failing \/ (~r.ok /\ pc[c].does = "record")) \in BOOLEAN
        OBVIOUS
    <2> QED  BY <1>1, <1>4, <2>1 DEF Sinks
<1> HIDE DEF x, s
<1>9. sink' \in [Servers -> Sinks]
    <2>1. \A t \in Servers : sink'[t] \in Sinks
        BY <1>1, <1>7, <1>8
    <2>2. sink' = [t \in Servers |-> sink'[t]]
        BY <1>6, <1>1 DEF s
    <2> QED  BY <2>1, <2>2
<1>10. FilesOK'
    <2>1. \A t \in Servers : t # s => sink'[t].open = sink[t].open
        BY <1>7
    <2>2. sink'[s].open = r.open
        BY <1>7, <1>8
    <2> QED  BY <1>1, <1>3, <1>5, <2>1, <2>2, FilesOn DEF Kept
<1>11. AckedOK'
    <2>1. DiskOK(disk') /\ Steps(s, disk, disk') /\ NowPruned(disk')
        BY <1>3, <1>5 DEF Kept
    <2> QED  BY <1>1, <2>1, NoFileLost, AckedOn
<1> QED  BY <1>4, <1>7, <1>8, <1>9, <1>10, <1>11 DEF s, x

\* A thread's place is where Goto and Finish put it.
LEMMA Places ==
    ASSUME AuditInv, NEW c \in Calls, NEW at \in Ats
    PROVE  /\ Goto(c, at) => /\ pc'[c].at = at /\ pc'[c].does = pc[c].does
                             /\ pc'[c].dropped = pc[c].dropped
                             /\ pc' \in [Calls -> Threads]
                             /\ \A e \in Calls : e # c => pc'[e] = pc[e]
           /\ Finish(c) => /\ pc'[c] = Idle
                           /\ pc' \in [Calls -> Threads]
                           /\ \A e \in Calls : e # c => pc'[e] = pc[e]
<1>1. pc \in [Calls -> Threads]
    BY DEF AuditInv, Typed
<1>2. ASSUME Goto(c, at)
      PROVE  /\ pc'[c].at = at /\ pc'[c].does = pc[c].does
             /\ pc'[c].dropped = pc[c].dropped
             /\ pc' \in [Calls -> Threads]
             /\ \A e \in Calls : e # c => pc'[e] = pc[e]
    BY <1>1, <1>2 DEF Goto, Threads
<1>3. Idle \in Threads
    BY DEF Idle, Ats, Threads
<1>4. ASSUME Finish(c)
      PROVE  /\ pc'[c] = Idle
             /\ pc' \in [Calls -> Threads]
             /\ \A e \in Calls : e # c => pc'[e] = pc[e]
    BY <1>1, <1>3, <1>4 DEF Finish
<1> QED  BY <1>2, <1>4

LEMMA DiskStays ==
    ASSUME AuditInv, UNCHANGED <<disk, acked, pruned>>,
           \A t \in Servers : sink'[t].open = sink[t].open
    PROVE  FilesOK' /\ AckedOK'
<1>1. FilesOK'
    <2>1. DiskOK(disk') /\ disk' = disk
        BY DEF AuditInv, FilesOK
    <2>2. ASSUME NEW t \in Servers, sink'[t].open # None
          PROVE  HeldOK(t, sink'[t].open, disk')
        BY <2>1, <2>2 DEF AuditInv, FilesOK
    <2> QED  BY <2>1, <2>2 DEF FilesOK, HeldOK, Held, DiskOK, EndOK, Started, Chain
<1>2. AckedOK'
    BY DEF AuditInv, AckedOK, HasEntry, Damaged
<1> QED  BY <1>1, <1>2

\* What changes of the sink of a thread's process.
SinkFields(c, x) ==
    /\ sink' \in [Servers -> Sinks] /\ sink'[ServerOf[c]] = x
    /\ \A t \in Servers : t # ServerOf[c] => sink'[t] = sink[t]

LEMMA SinkSet ==
    ASSUME AuditInv, NEW c \in Calls, NEW x \in Sinks, sink' = [sink EXCEPT ![ServerOf[c]] = x]
    PROVE  SinkFields(c, x)
<1>1. ServerOf[c] \in Servers /\ sink \in [Servers -> Sinks]
    BY Here DEF AuditInv, Typed
<1> QED  BY <1>1 DEF SinkFields

LEMMA RecordStep ==
    ASSUME AuditInv, NEW c \in Calls, Record(c)
    PROVE  AuditInv'
<1> DEFINE s == ServerOf[c]
<1>1. /\ pc[c].at = "idle" /\ sink[s].open # None /\ LockFree(s) /\ acked' = acked
      /\ \E r \in KeepCurrent(s, sink[s].open, disk) :
             /\ pc' = [pc EXCEPT ![c] = [Idle EXCEPT !.at = IF r.ok THEN "gap" ELSE "failed"]]
             /\ Enter(c, r)
    BY DEF Record
<1>2. PICK r \in KeepCurrent(s, sink[s].open, disk) :
             /\ pc' = [pc EXCEPT ![c] = [Idle EXCEPT !.at = IF r.ok THEN "gap" ELSE "failed"]]
             /\ Enter(c, r)
    BY <1>1
<1>3. /\ r.ok \in BOOLEAN /\ FilesOK' /\ AckedOK'
      /\ sink' \in [Servers -> Sinks] /\ sink'[s].open # None
      /\ \A t \in Servers : t # s => sink'[t] = sink[t]
      /\ sink'[s] = [sink[s] EXCEPT !.open = r.open,
                     !.failing = @ \/ (~r.ok /\ pc[c].does = "record")]
    BY <1>1, <1>2, Entering
<1>4. sink[s] \in Sinks
    BY Here
<1>5. /\ sink'[s].degraded = sink[s].degraded /\ sink'[s].unreported = sink[s].unreported
      /\ sink'[s].noted = sink[s].noted /\ sink'[s].marked = sink[s].marked
      /\ r.ok => sink'[s].failing = sink[s].failing
    BY <1>3, <1>4 DEF Sinks
<1> DEFINE q == [Idle EXCEPT !.at = IF r.ok THEN "gap" ELSE "failed"]
<1>6. q \in Threads /\ q.at = (IF r.ok THEN "gap" ELSE "failed") /\ q.does = "record"
    BY DEF Idle, Threads, Ats, InLock
<1>7. pc \in [Calls -> Threads]
    BY DEF AuditInv, Typed
<1>8. pc'[c] = q /\ pc' \in [Calls -> Threads] /\ (\A e \in Calls : e # c => pc'[e] = pc[e])
    BY <1>2, <1>6, <1>7
<1> HIDE DEF q
<1>9. OthersSame(c)
    BY <1>3, <1>8 DEF OthersSame
<1>10. ThreadsOK'
    BY <1>1, <1>3, <1>6, <1>8, <1>9, ThreadsOn
<1>11. FailingLogIsDegraded'
    <2>1. CASE r.ok
        <3>1. ~sink'[s].failing \/ sink[s].failing
            BY <1>5, <2>1
        <3> QED  BY <1>1, <1>5, <1>9, <3>1, FailingOn
    <2>2. CASE ~r.ok
        BY <1>6, <1>8, <1>9, <2>2, FailingOn
    <2> QED  BY <2>1, <2>2
<1>12. GapsAddUp'
    <2>1. sink[s].noted = sink[s].marked + sink[s].unreported
        BY Here DEF AuditInv, GapsAddUp
    <2> QED  BY <1>5, <1>9, <2>1, GapsOn
<1>13. Typed'
    BY <1>1, <1>3, <1>8 DEF AuditInv, Typed
<1> QED  BY <1>3, <1>10, <1>11, <1>12, <1>13 DEF AuditInv

LEMMA AdmitStep ==
    ASSUME AuditInv, NEW c \in Calls, Admit(c)
    PROVE  AuditInv'
<1> DEFINE s == ServerOf[c]
<1> DEFINE q == [Idle EXCEPT !.at = "admitting", !.does = "admit"]
<1>1. /\ pc[c].at = "idle" /\ sink[s].open # None /\ pc' = [pc EXCEPT ![c] = q]
      /\ UNCHANGED <<disk, sink, acked, pruned>>
    BY DEF Admit
<1>2. q \in Threads /\ q.at = "admitting" /\ q.does = "admit"
    BY DEF Idle, Threads, Ats
<1>3. pc \in [Calls -> Threads] /\ sink[s] \in Sinks /\ s \in Servers
    BY Here DEF AuditInv, Typed
<1> HIDE DEF q
<1>4. pc'[c] = q /\ pc' \in [Calls -> Threads] /\ (\A e \in Calls : e # c => pc'[e] = pc[e])
    BY <1>1, <1>2, <1>3
<1>5. OthersSame(c)
    BY <1>1, <1>4 DEF OthersSame
<1>6. ThreadsOK'
    <2>1. pc'[c].at \notin InLock
        BY <1>2, <1>4 DEF InLock
    <2>2. sink[s].unreported \in Nat /\ sink' = sink
        BY <1>1, <1>3 DEF Sinks
    <2> QED  BY <1>1, <1>2, <1>4, <1>5, <2>1, <2>2, ThreadsOn
<1>7. FailingLogIsDegraded'
    BY <1>1, <1>4, <1>5, FailingOn
<1>8. FilesOK' /\ AckedOK'
    BY <1>1, DiskStays
<1> QED  BY <1>1, <1>4, <1>6, <1>7, <1>8 DEF AuditInv, Typed, GapsAddUp

LEMMA AdmitEnterStep ==
    ASSUME AuditInv, NEW c \in Calls, AdmitEnter(c)
    PROVE  AuditInv'
<1> DEFINE s == ServerOf[c]
<1>1. /\ pc[c].at = "admitting" /\ LockFree(s) /\ acked' = acked
      /\ \E r \in KeepCurrent(s, sink[s].open, disk) :
             /\ pc' = [pc EXCEPT ![c] = IF r.ok THEN [@ EXCEPT !.at = "gap"] ELSE Idle]
             /\ Enter(c, r)
    BY DEF AdmitEnter
<1>2. PICK r \in KeepCurrent(s, sink[s].open, disk) :
             /\ pc' = [pc EXCEPT ![c] = IF r.ok THEN [@ EXCEPT !.at = "gap"] ELSE Idle]
             /\ Enter(c, r)
    BY <1>1
<1>3. sink[s].open # None
    BY <1>1 DEF AuditInv, ThreadsOK
<1>4. /\ r.ok \in BOOLEAN /\ FilesOK' /\ AckedOK'
      /\ sink' \in [Servers -> Sinks] /\ sink'[s].open # None
      /\ \A t \in Servers : t # s => sink'[t] = sink[t]
      /\ sink'[s] = [sink[s] EXCEPT !.open = r.open,
                     !.failing = @ \/ (~r.ok /\ pc[c].does = "record")]
    BY <1>1, <1>2, <1>3, Entering
<1>5. sink[s] \in Sinks /\ pc[c] \in Threads /\ pc \in [Calls -> Threads]
    BY Here DEF AuditInv, Typed
<1>6. /\ sink'[s].degraded = sink[s].degraded /\ sink'[s].unreported = sink[s].unreported
      /\ sink'[s].noted = sink[s].noted /\ sink'[s].marked = sink[s].marked
      /\ pc[c].does = "record" \/ sink'[s].failing = sink[s].failing
    BY <1>4, <1>5 DEF Sinks
<1>d. pc[c].does = "admit"
    BY <1>1 DEF AuditInv, ThreadsOK
<1>7. /\ pc' \in [Calls -> Threads] /\ (\A e \in Calls : e # c => pc'[e] = pc[e])
      /\ pc'[c].at = "gap" \/ pc'[c].at = "idle"
    <2>1. [pc[c] EXCEPT !.at = "gap"] \in Threads /\ Idle \in Threads
        BY <1>5 DEF Threads, Ats, InLock, Idle
    <2>2. [pc[c] EXCEPT !.at = "gap"].at = "gap" /\ Idle.at = "idle"
        BY <1>5 DEF Threads, Idle
    <2> QED  BY <1>2, <1>5, <2>1, <2>2
<1>8. OthersSame(c)
    BY <1>4, <1>7 DEF OthersSame
<1>9. ThreadsOK'
    BY <1>1, <1>3, <1>4, <1>7, <1>8, ThreadsOn
<1>10. FailingLogIsDegraded'
    <2>1. sink'[s].failing => sink[s].failing
        BY <1>6, <1>d
    <2> QED  BY <1>1, <1>6, <1>8, <2>1, FailingOn
<1>11. GapsAddUp'
    <2>1. sink[s].noted = sink[s].marked + sink[s].unreported
        BY Here DEF AuditInv, GapsAddUp
    <2> QED  BY <1>6, <1>8, <2>1, GapsOn
<1>12. Typed'
    BY <1>1, <1>4, <1>7 DEF AuditInv, Typed
<1> QED  BY <1>4, <1>9, <1>10, <1>11, <1>12 DEF AuditInv

LEMMA GapLoadStep ==
    ASSUME AuditInv, NEW c \in Calls, GapLoad(c)
    PROVE  AuditInv'
<1> DEFINE s == ServerOf[c]
<1>1. pc[c].at = "gap" /\ UNCHANGED <<disk, sink, acked, pruned>>
    BY DEF GapLoad
<1>2. /\ sink[s] \in Sinks /\ pc[c] \in Threads /\ pc \in [Calls -> Threads]
      /\ sink[s].open # None /\ sink[s].unreported \in Nat /\ s \in Servers
    BY <1>1, Here DEF AuditInv, Typed, ThreadsOK, Sinks
<1>3. /\ pc' \in [Calls -> Threads] /\ (\A e \in Calls : e # c => pc'[e] = pc[e])
      /\ \/ pc'[c].at = "marking" /\ pc'[c].dropped = sink[s].unreported
         \/ pc'[c].at = "line" /\ pc'[c].does = "record"
         \/ pc'[c] = Idle
    <2>1. CASE sink[s].degraded
        <3> DEFINE q == [pc[c] EXCEPT !.at = "marking", !.dropped = sink[s].unreported]
        <3>1. pc' = [pc EXCEPT ![c] = q]
            BY <2>1, <1>2 DEF GapLoad
        <3>2. q \in Threads /\ q.at = "marking" /\ q.dropped = sink[s].unreported
            BY <1>2 DEF Threads, Ats, InLock
        <3> HIDE DEF q
        <3> QED  BY <3>1, <3>2, <1>2
    <2>2. CASE ~sink[s].degraded /\ pc[c].does = "record"
        <3>1. Goto(c, "line") /\ "line" \in Ats
            BY <2>2 DEF GapLoad, Ats, InLock
        <3> QED  BY <3>1, <2>2, Places
    <2>3. CASE ~sink[s].degraded /\ pc[c].does # "record"
        <3>1. Finish(c) /\ "idle" \in Ats
            BY <2>3 DEF GapLoad, Ats
        <3> QED  BY <3>1, Places
    <2> QED  BY <2>1, <2>2, <2>3
<1>4. OthersSame(c)
    BY <1>1, <1>3 DEF OthersSame
<1>5. ThreadsOK'
    <2>1. sink' = sink /\ Idle.at = "idle" /\ pc[c].at \in InLock /\ "idle" \notin InLock
        BY <1>1 DEF Idle, InLock
    <2>2. sink[s].unreported <= sink[s].unreported
        BY <1>2
    <2> HIDE DEF s
    <2> QED  BY <1>2, <1>3, <1>4, <2>1, <2>2, ThreadsOn DEF s
<1>6. FailingLogIsDegraded'
    BY <1>1, <1>4, FailingOn
<1>7. FilesOK' /\ AckedOK'
    BY <1>1, DiskStays
<1> QED  BY <1>1, <1>3, <1>5, <1>6, <1>7 DEF AuditInv, Typed, GapsAddUp


\* A thread in the lock writes a marker or an entry.
LEMMA Writing ==
    ASSUME AuditInv, NEW c \in Calls, pc[c].at # "idle",
           NEW l, Fits(sink[ServerOf[c]].open, disk.lines[sink[ServerOf[c]].open.file], l),
           NEW w \in WriteLine(sink[ServerOf[c]].open, disk, l)
    PROVE  /\ Written(ServerOf[c], sink[ServerOf[c]].open, disk, l, w)
           /\ HeldOK(ServerOf[c], w.open, w.disk) /\ w.open \in Handles /\ w.open # None
<1> DEFINE s == ServerOf[c]
<1> DEFINE o == sink[s].open
<1>1. s \in Servers /\ o # None
    BY Here DEF AuditInv, ThreadsOK
<1>2. DiskOK(disk) /\ HeldOK(s, o, disk)
    BY <1>1 DEF AuditInv, FilesOK
<1>3. Written(s, o, disk, l, w)
    BY <1>1, <1>2, Write DEF HeldOK
<1>4. HeldOK(s, w.open, w.disk) /\ w.open \in Handles
    BY <1>2, <1>3 DEF Written, HeldOK
<1> QED  BY <1>3, <1>4, AuditAssumption

LEMMA Fitting ==
    ASSUME AuditInv, NEW c \in Calls, pc[c].at # "idle",
           NEW kind \in {"gap", "entry"}, NEW n \in Nat
    PROVE  LET o == sink[ServerOf[c]].open
           IN  /\ Fits(o, disk.lines[o.file], [NewLine(disk, kind, o.prev) EXCEPT !.dropped = n])
               /\ \A l \in AnyLength(NewLine(disk, kind, o.prev)) :
                     Fits(o, disk.lines[o.file], l) /\ l.id = disk.next /\ l.kind = kind
<1> DEFINE s == ServerOf[c]
<1>1. s \in Servers /\ sink[s].open # None
    BY Here DEF AuditInv, ThreadsOK
<1>2. DiskOK(disk) /\ HeldOK(s, sink[s].open, disk)
    BY <1>1 DEF AuditInv, FilesOK
<1>3. kind \in Kinds \ {"start", "torn", "stray"}
    BY DEF Kinds
<1> DEFINE o == sink[s].open
<1> HIDE DEF s, o
<1>4. /\ Fits(o, disk.lines[o.file], [NewLine(disk, kind, o.prev) EXCEPT !.dropped = n])
      /\ \A l \in AnyLength(NewLine(disk, kind, o.prev)) :
            Fits(o, disk.lines[o.file], l) /\ l.id = disk.next /\ l.kind = kind
    BY <1>2, <1>3, NextFits DEF o
<1> QED  BY <1>4 DEF o, s

LEMMA WriteFiles ==
    ASSUME AuditInv, NEW c \in Calls, NEW l, NEW w,
           Written(ServerOf[c], sink[ServerOf[c]].open, disk, l, w),
           HeldOK(ServerOf[c], w.open, w.disk), disk' = w.disk, UNCHANGED pruned,
           sink'[ServerOf[c]].open = w.open, OthersSame(c)
    PROVE  FilesOK' /\ (acked' = acked => AckedOK')
<1>1. ServerOf[c] \in Servers
    BY Here
<1>2. DiskOK(disk') /\ Steps(ServerOf[c], disk, disk') /\ disk'.name = disk.name
    BY DEF Written
<1>3. FilesOK'
    BY <1>1, <1>2, FilesOn DEF OthersSame
<1>4. ASSUME acked' = acked PROVE AckedOK'
    BY <1>1, <1>2, <1>4, AckedOn
<1> QED  BY <1>3, <1>4

LEMMA GapMarkStep ==
    ASSUME AuditInv, NEW c \in Calls, GapMark(c)
    PROVE  AuditInv'
<1> DEFINE s == ServerOf[c]
<1> DEFINE marker == [NewLine(disk, "gap", sink[s].open.prev) EXCEPT !.dropped = pc[c].dropped]
<1>1. /\ pc[c].at = "marking" /\ UNCHANGED <<acked, pruned>>
      /\ \E w \in WriteLine(sink[s].open, disk, marker) :
             /\ disk' = w.disk
             /\ IF w.ok
                THEN /\ sink' = [sink EXCEPT ![s].open = w.open, ![s].failing = FALSE,
                                             ![s].unreported = Reported(@, pc[c].dropped),
                                             ![s].marked = @ + pc[c].dropped]
                     /\ Goto(c, "clearing")
                ELSE /\ sink' = [sink EXCEPT ![s].open = w.open,
                                             ![s].failing = @ \/ pc[c].does = "record"]
                     /\ IF pc[c].does = "record" THEN Goto(c, "failed") ELSE Finish(c)
    BY DEF GapMark
<1> HIDE DEF marker
<1>2. PICK w \in WriteLine(sink[s].open, disk, marker) :
             /\ disk' = w.disk
             /\ IF w.ok
                THEN /\ sink' = [sink EXCEPT ![s].open = w.open, ![s].failing = FALSE,
                                             ![s].unreported = Reported(@, pc[c].dropped),
                                             ![s].marked = @ + pc[c].dropped]
                     /\ Goto(c, "clearing")
                ELSE /\ sink' = [sink EXCEPT ![s].open = w.open,
                                             ![s].failing = @ \/ pc[c].does = "record"]
                     /\ IF pc[c].does = "record" THEN Goto(c, "failed") ELSE Finish(c)
    BY <1>1
<1>3. /\ s \in Servers /\ sink[s] \in Sinks /\ sink \in [Servers -> Sinks] /\ pc[c] \in Threads
      /\ sink[s].open # None /\ pc[c].dropped <= sink[s].unreported
    BY <1>1, Here DEF AuditInv, Typed, ThreadsOK
<1>4. /\ pc[c].dropped \in Nat /\ sink[s].unreported \in Nat /\ sink[s].marked \in Nat
      /\ sink[s].noted \in Nat /\ sink[s].failing \in BOOLEAN
    BY <1>3 DEF Sinks, Threads
<1>5. /\ Written(s, sink[s].open, disk, marker, w)
      /\ HeldOK(s, w.open, w.disk) /\ w.open \in Handles /\ w.open # None
    <2>1. Fits(sink[s].open, disk.lines[sink[s].open.file], marker)
        BY <1>1, <1>4, Fitting DEF marker
    <2> QED  BY <1>1, <2>1, Writing
<1>6. sink[s].noted = sink[s].marked + sink[s].unreported
    BY <1>3 DEF AuditInv, GapsAddUp
<1>7. pc[c].at \in InLock /\ {"clearing", "failed", "idle"} \subseteq Ats /\ Idle.at = "idle"
    BY <1>1 DEF InLock, Ats, Idle
<1>8. CASE w.ok
    <2> DEFINE x == [sink[s] EXCEPT !.open = w.open, !.failing = FALSE,
                                    !.unreported = @ - pc[c].dropped, !.marked = @ + pc[c].dropped]
    <2>1. /\ x \in Sinks /\ x.open = w.open /\ x.failing = FALSE
          /\ x.noted = x.marked + x.unreported
        <3>1. /\ sink[s].unreported - pc[c].dropped \in Nat
              /\ sink[s].marked + pc[c].dropped \in Nat
              /\ sink[s].noted = (sink[s].marked + pc[c].dropped)
                                     + (sink[s].unreported - pc[c].dropped)
            BY <1>3, <1>4, <1>6
        <3> QED  BY <1>3, <1>5, <3>1 DEF Sinks
    <2>2. sink' = [sink EXCEPT ![s] = x]
        BY <1>2, <1>3, <1>8 DEF Reported
    <2> HIDE DEF x
    <2>3. SinkFields(c, x)
        BY <2>1, <2>2, SinkSet
    <2>4. /\ pc'[c].at = "clearing" /\ pc' \in [Calls -> Threads]
          /\ \A e \in Calls : e # c => pc'[e] = pc[e]
        BY <1>2, <1>7, <1>8, Places
    <2>5. OthersSame(c)
        BY <2>3, <2>4 DEF SinkFields, OthersSame
    <2>6. ThreadsOK'
        BY <1>1, <1>3, <1>5, <1>7, <2>1, <2>3, <2>4, <2>5, ThreadsOn DEF SinkFields
    <2>7. FailingLogIsDegraded'
        BY <2>1, <2>3, <2>5, FailingOn DEF SinkFields
    <2>8. GapsAddUp'
        BY <2>1, <2>3, <2>5, GapsOn DEF SinkFields
    <2>9. FilesOK' /\ AckedOK'
        BY <1>1, <1>2, <1>5, <2>1, <2>3, <2>5, WriteFiles DEF SinkFields
    <2>10. Typed'
        BY <1>1, <2>3, <2>4 DEF AuditInv, Typed, SinkFields
    <2> QED  BY <2>6, <2>7, <2>8, <2>9, <2>10 DEF AuditInv
<1>9. CASE ~w.ok
    <2> DEFINE x == [sink[s] EXCEPT !.open = w.open, !.failing = @ \/ pc[c].does = "record"]
    <2>1. /\ x \in Sinks /\ x.open = w.open /\ x.noted = x.marked + x.unreported
          /\ x.degraded = sink[s].degraded
          /\ pc[c].does = "record" \/ x.failing = sink[s].failing
        <3>1. (sink[s].failing \/ pc[c].does = "record") \in BOOLEAN
            OBVIOUS
        <3> QED  BY <1>3, <1>5, <1>6, <3>1 DEF Sinks
    <2>2. sink' = [sink EXCEPT ![s] = x]
        BY <1>2, <1>3, <1>9
    <2> HIDE DEF x
    <2>3. SinkFields(c, x)
        BY <2>1, <2>2, SinkSet
    <2>4. /\ pc' \in [Calls -> Threads] /\ (\A e \in Calls : e # c => pc'[e] = pc[e])
          /\ IF pc[c].does = "record" THEN pc'[c].at = "failed" /\ pc'[c].does = "record"
             ELSE pc'[c].at = "idle"
        BY <1>2, <1>7, <1>9, Places
    <2>5. OthersSame(c)
        BY <2>3, <2>4 DEF SinkFields, OthersSame
    <2>6. ThreadsOK'
        <3>1. pc'[c].at \in {"failed", "idle"} /\ pc'[c].at \notin InLock
            BY <2>4 DEF InLock
        <3> QED  BY <1>1, <1>3, <1>5, <1>7, <2>1, <2>3, <2>4, <2>5, <3>1, ThreadsOn DEF SinkFields
    <2>7. FailingLogIsDegraded'
        <3>1. CASE pc[c].does = "record"
            BY <2>4, <2>5, <3>1, FailingOn
        <3>2. CASE pc[c].does # "record"
            <4>1. sink'[s].failing => sink[s].failing
                BY <2>1, <2>3, <3>2 DEF SinkFields
            <4> QED  BY <1>1, <2>1, <2>3, <2>5, <4>1, FailingOn DEF SinkFields
        <3> QED  BY <3>1, <3>2
    <2>8. GapsAddUp'
        BY <2>1, <2>3, <2>5, GapsOn DEF SinkFields
    <2>9. FilesOK' /\ AckedOK'
        BY <1>1, <1>2, <1>5, <2>1, <2>3, <2>5, WriteFiles DEF SinkFields
    <2>10. Typed'
        BY <1>1, <2>3, <2>4 DEF AuditInv, Typed, SinkFields
    <2> QED  BY <2>6, <2>7, <2>8, <2>9, <2>10 DEF AuditInv
<1> QED  BY <1>8, <1>9

LEMMA GapClearStep ==
    ASSUME AuditInv, NEW c \in Calls, GapClear(c)
    PROVE  AuditInv'
<1> DEFINE s == ServerOf[c]
<1> DEFINE x == [sink[s] EXCEPT !.degraded = FALSE]
<1>1. pc[c].at = "clearing" /\ UNCHANGED <<disk, acked, pruned>>
    BY DEF GapClear
<1>2. /\ s \in Servers /\ sink[s] \in Sinks /\ sink \in [Servers -> Sinks]
      /\ sink[s].open # None /\ ~sink[s].failing /\ sink[s].noted = sink[s].marked + sink[s].unreported
    BY <1>1, Here DEF AuditInv, Typed, ThreadsOK, GapsAddUp
<1>3. /\ x \in Sinks /\ x.open = sink[s].open /\ ~x.failing /\ x.noted = x.marked + x.unreported
    BY <1>2 DEF Sinks
<1>4. sink' = [sink EXCEPT ![s] = x]
    BY <1>2 DEF GapClear
<1> HIDE DEF x
<1>5. SinkFields(c, x)
    BY <1>3, <1>4, SinkSet
<1>6. /\ pc' \in [Calls -> Threads] /\ (\A e \in Calls : e # c => pc'[e] = pc[e])
      /\ \/ pc'[c].at = "line" /\ pc'[c].does = "record"
         \/ pc'[c].at = "idle"
    <2>1. "line" \in Ats /\ "idle" \in Ats /\ Idle.at = "idle"
        BY DEF Ats, InLock, Idle
    <2> QED  BY <2>1, Places DEF GapClear
<1>7. OthersSame(c)
    BY <1>5, <1>6 DEF SinkFields, OthersSame
<1>8. ThreadsOK'
    <2>1. pc[c].at \in InLock
        BY <1>1 DEF InLock
    <2> QED  BY <1>2, <1>3, <1>5, <1>6, <1>7, <2>1, ThreadsOn DEF SinkFields
<1>9. FailingLogIsDegraded'
    BY <1>3, <1>5, <1>7, FailingOn DEF SinkFields
<1>10. GapsAddUp'
    BY <1>3, <1>5, <1>7, GapsOn DEF SinkFields
<1>11. FilesOK' /\ AckedOK'
    <2>1. \A t \in Servers : sink'[t].open = sink[t].open
        BY <1>3, <1>5 DEF SinkFields
    <2> QED  BY <1>1, <2>1, DiskStays
<1> QED  BY <1>1, <1>5, <1>6, <1>8, <1>9, <1>10, <1>11 DEF AuditInv, Typed, SinkFields

LEMMA WriteEntryStep ==
    ASSUME AuditInv, NEW c \in Calls, WriteEntry(c)
    PROVE  AuditInv'
<1> DEFINE s == ServerOf[c]
<1> DEFINE o == sink[s].open
<1> DEFINE Does(l, w) ==
             /\ disk' = w.disk
             /\ sink' = [sink EXCEPT ![s].open = w.open, ![s].failing = ~w.ok]
             /\ IF w.ok
                THEN /\ acked' = acked \cup {[id |-> l.id, file |-> w.open.file]}
                     /\ Finish(c)
                ELSE Goto(c, "failed") /\ UNCHANGED acked
<1>a. PICK l \in AnyLength(NewLine(disk, "entry", o.prev)) : \E w \in WriteLine(o, disk, l) : Does(l, w)
    BY DEF WriteEntry
<1>1. PICK w \in WriteLine(o, disk, l) : Does(l, w)
    BY <1>a
<1>2. pc[c].at = "line" /\ UNCHANGED pruned
    BY DEF WriteEntry
<1>3. /\ s \in Servers /\ sink[s] \in Sinks /\ sink \in [Servers -> Sinks]
      /\ o # None /\ pc[c].does = "record" /\ sink[s].noted = sink[s].marked + sink[s].unreported
    BY <1>2, Here DEF AuditInv, Typed, ThreadsOK, GapsAddUp
<1>4. Fits(o, disk.lines[o.file], l) /\ l.id = disk.next /\ l.kind = "entry"
    <2>1. "entry" \in {"gap", "entry"} /\ 0 \in Nat /\ pc[c].at # "idle"
        BY <1>2
    <2> QED  BY <2>1, Fitting
<1>5. disk.next \in Ids
    BY DEF AuditInv, FilesOK, DiskOK, Disks
<1>6. /\ Written(s, o, disk, l, w)
      /\ HeldOK(s, w.open, w.disk) /\ w.open \in Handles /\ w.open # None
    BY <1>1, <1>2, <1>4, Writing
<1>7. w.ok \in BOOLEAN /\ w.open.file = o.file /\ w.open.file \in Files
    BY <1>6 DEF Written, Outcome, Handles
<1> DEFINE x == [sink[s] EXCEPT !.open = w.open, !.failing = ~w.ok]
<1>8. /\ x \in Sinks /\ x.open = w.open /\ x.noted = x.marked + x.unreported /\ x.failing = ~w.ok
    BY <1>3, <1>6, <1>7 DEF Sinks
<1>9. sink' = [sink EXCEPT ![s] = x]
    BY <1>1, <1>3
<1> HIDE DEF x
<1>10. SinkFields(c, x)
    BY <1>8, <1>9, SinkSet
<1>11. /\ pc' \in [Calls -> Threads] /\ (\A e \in Calls : e # c => pc'[e] = pc[e])
       /\ IF w.ok THEN pc'[c].at = "idle" ELSE pc'[c].at = "failed" /\ pc'[c].does = "record"
    <2>1. "failed" \in Ats /\ "idle" \in Ats /\ Idle.at = "idle"
        BY DEF Ats, Idle
    <2> QED  BY <1>1, <1>3, <2>1, Places
<1>12. OthersSame(c)
    BY <1>10, <1>11 DEF SinkFields, OthersSame
<1>13. ThreadsOK'
    <2>1. pc[c].at \in InLock /\ pc'[c].at \notin InLock /\ pc'[c].at \in {"idle", "failed"}
        BY <1>2, <1>11 DEF InLock
    <2> QED  BY <1>3, <1>6, <1>8, <1>10, <1>11, <1>12, <2>1, ThreadsOn DEF SinkFields
<1>14. FailingLogIsDegraded'
    <2>1. w.ok => ~sink'[s].failing
        BY <1>8, <1>10 DEF SinkFields
    <2> QED  BY <1>11, <1>12, <2>1, FailingOn
<1>15. GapsAddUp'
    BY <1>8, <1>10, <1>12, GapsOn DEF SinkFields
<1>16. FilesOK' /\ (acked' = acked => AckedOK')
    BY <1>1, <1>2, <1>6, <1>8, <1>10, <1>12, WriteFiles DEF SinkFields
<1>17. ASSUME w.ok PROVE AckedOK'
    <2>1. acked' = acked \cup {[id |-> l.id, file |-> o.file]}
        BY <1>1, <1>7, <1>17
    <2>2. HasEntry(disk'.lines[o.file], l.id) \/ Damaged(disk'.lines[o.file])
        BY <1>1, <1>4, <1>6, <1>17 DEF Written
    <2>3. disk'.name[o.file] # None
        <3>1. disk.lock[o.file] = s /\ s # None
            BY <1>3, NoneIsNoServer DEF AuditInv, FilesOK, HeldOK, Held
        <3>2. disk.name[o.file] # None
            BY <1>7, <3>1 DEF AuditInv, FilesOK, DiskOK
        <3> QED  BY <1>1, <1>6, <3>2 DEF Written
    <2>4. ASSUME NEW a \in acked, a.file \notin pruned'
          PROVE  /\ disk'.name[a.file] # None
                 /\ HasEntry(disk'.lines[a.file], a.id) \/ Damaged(disk'.lines[a.file])
        <3>1. a.id \in Nat /\ a.file \in Files
            BY DEF AuditInv, Typed
        <3>2. /\ disk.name[a.file] # None
              /\ HasEntry(disk.lines[a.file], a.id) \/ Damaged(disk.lines[a.file])
            BY <1>2, <2>4 DEF AuditInv, AckedOK
        <3>3. Keeps(disk.lines[a.file], disk'.lines[a.file]) /\ disk'.name = disk.name
            BY <1>1, <1>6, <3>1 DEF Steps, Written
        <3> QED  BY <3>1, <3>2, <3>3 DEF Keeps
    <2> DEFINE b == [id |-> l.id, file |-> o.file]
    <2>5. b.id = l.id /\ b.file = o.file
        OBVIOUS
    <2> HIDE DEF b
    <2>6. acked' = acked \cup {b}
        BY <2>1 DEF b
    <2> QED  BY <2>2, <2>3, <2>4, <2>5, <2>6 DEF AckedOK
<1>18. acked' \subseteq [id : Nat, file : Files]
    BY <1>1, <1>4, <1>5, <1>7 DEF AuditInv, Typed, Ids
<1>19. AckedOK'
    BY <1>1, <1>7, <1>16, <1>17
<1> QED  BY <1>10, <1>11, <1>13, <1>14, <1>15, <1>16, <1>18, <1>19 DEF AuditInv, Typed, SinkFields

LEMMA NoteCountStep ==
    ASSUME AuditInv, NEW c \in Calls, NoteCount(c)
    PROVE  AuditInv'
<1> DEFINE s == ServerOf[c]
<1> DEFINE x == [sink[s] EXCEPT !.unreported = @ + 1, !.noted = @ + 1]
<1>1. pc[c].at = "failed" /\ UNCHANGED <<disk, acked, pruned>> /\ Goto(c, "counted")
    BY DEF NoteCount
<1>2. /\ s \in Servers /\ sink[s] \in Sinks /\ sink \in [Servers -> Sinks] /\ sink[s].open # None
      /\ pc[c].does = "record" /\ sink[s].noted = sink[s].marked + sink[s].unreported
    BY <1>1, Here DEF AuditInv, Typed, ThreadsOK, GapsAddUp
<1>3. /\ x \in Sinks /\ x.open = sink[s].open /\ x.failing = sink[s].failing
      /\ x.unreported = sink[s].unreported + 1 /\ sink[s].unreported \in Nat
      /\ x.noted = x.marked + x.unreported
    <2>1. sink[s].unreported \in Nat /\ sink[s].noted \in Nat /\ sink[s].marked \in Nat
        BY <1>2 DEF Sinks
    <2>2. /\ x \in Sinks /\ x.open = sink[s].open /\ x.failing = sink[s].failing
          /\ x.unreported = sink[s].unreported + 1 /\ x.noted = sink[s].noted + 1
          /\ x.marked = sink[s].marked
        <3>1. sink[s].unreported + 1 \in Nat /\ sink[s].noted + 1 \in Nat
            BY <2>1
        <3> QED  BY <1>2, <3>1 DEF Sinks
    <2> HIDE DEF x
    <2> QED  BY <1>2, <2>1, <2>2
<1>4. sink' = [sink EXCEPT ![s] = x]
    BY <1>2 DEF NoteCount
<1> HIDE DEF x
<1>5. SinkFields(c, x)
    BY <1>3, <1>4, SinkSet
<1>6. /\ pc' \in [Calls -> Threads] /\ (\A e \in Calls : e # c => pc'[e] = pc[e])
      /\ pc'[c].at = "counted" /\ pc'[c].does = "record"
    <2>1. "counted" \in Ats
        BY DEF Ats
    <2> QED  BY <1>1, <1>2, <2>1, Places
<1>7. OthersSame(c)
    BY <1>5, <1>6 DEF SinkFields, OthersSame
<1>8. ThreadsOK'
    <2>1. pc'[c].at \notin InLock
        BY <1>6 DEF InLock
    <2>2. /\ sink'[s].failing = sink[s].failing
          /\ sink'[s].unreported \in Nat /\ sink'[s].unreported >= sink[s].unreported
        BY <1>3, <1>5 DEF SinkFields
    <2>3. sink'[s].open # None
        BY <1>2, <1>3, <1>5 DEF SinkFields
    <2> QED  BY <1>2, <1>6, <1>7, <2>1, <2>2, <2>3, ThreadsOn
<1>9. FailingLogIsDegraded'
    BY <1>6, <1>7, FailingOn
<1>10. GapsAddUp'
    BY <1>3, <1>5, <1>7, GapsOn DEF SinkFields
<1>11. FilesOK' /\ AckedOK'
    <2>1. \A t \in Servers : sink'[t].open = sink[t].open
        BY <1>3, <1>5 DEF SinkFields
    <2> QED  BY <1>1, <2>1, DiskStays
<1> QED  BY <1>1, <1>5, <1>6, <1>8, <1>9, <1>10, <1>11 DEF AuditInv, Typed, SinkFields

LEMMA NoteFlagStep ==
    ASSUME AuditInv, NEW c \in Calls, NoteFlag(c)
    PROVE  AuditInv'
<1> DEFINE s == ServerOf[c]
<1> DEFINE x == [sink[s] EXCEPT !.degraded = TRUE]
<1>1. pc[c].at = "counted" /\ UNCHANGED <<disk, acked, pruned>> /\ Finish(c)
    BY DEF NoteFlag
<1>2. /\ s \in Servers /\ sink[s] \in Sinks /\ sink \in [Servers -> Sinks] /\ sink[s].open # None
      /\ sink[s].noted = sink[s].marked + sink[s].unreported
    BY <1>1, Here DEF AuditInv, Typed, ThreadsOK, GapsAddUp
<1>3. /\ x \in Sinks /\ x.open = sink[s].open /\ x.failing = sink[s].failing /\ x.degraded
      /\ x.unreported = sink[s].unreported /\ sink[s].unreported \in Nat
      /\ x.noted = x.marked + x.unreported
    BY <1>2 DEF Sinks
<1>4. sink' = [sink EXCEPT ![s] = x]
    BY <1>2 DEF NoteFlag
<1> HIDE DEF x
<1>5. SinkFields(c, x)
    BY <1>3, <1>4, SinkSet
<1>6. /\ pc' \in [Calls -> Threads] /\ (\A e \in Calls : e # c => pc'[e] = pc[e])
      /\ pc'[c].at = "idle"
    <2>1. "idle" \in Ats /\ Idle.at = "idle"
        BY DEF Ats, Idle
    <2> QED  BY <1>1, <2>1, Places
<1>7. OthersSame(c)
    BY <1>5, <1>6 DEF SinkFields, OthersSame
<1>8. ThreadsOK'
    <2>1. pc'[c].at \notin InLock
        BY <1>6 DEF InLock
    <2>2. /\ sink'[s].failing = sink[s].failing
          /\ sink'[s].unreported \in Nat /\ sink'[s].unreported >= sink[s].unreported
        BY <1>3, <1>5 DEF SinkFields
    <2>3. sink'[s].open # None
        BY <1>2, <1>3, <1>5 DEF SinkFields
    <2> QED  BY <1>2, <1>6, <1>7, <2>1, <2>2, <2>3, ThreadsOn
<1>9. FailingLogIsDegraded'
    BY <1>3, <1>5, <1>7, FailingOn DEF SinkFields
<1>10. GapsAddUp'
    BY <1>3, <1>5, <1>7, GapsOn DEF SinkFields
<1>11. FilesOK' /\ AckedOK'
    <2>1. \A t \in Servers : sink'[t].open = sink[t].open
        BY <1>3, <1>5 DEF SinkFields
    <2> QED  BY <1>1, <2>1, DiskStays
<1> QED  BY <1>1, <1>5, <1>6, <1>8, <1>9, <1>10, <1>11 DEF AuditInv, Typed, SinkFields

LEMMA StartStep ==
    ASSUME AuditInv, NEW s \in Servers, Start(s)
    PROVE  AuditInv'
<1>1. sink[s].open = None /\ UNCHANGED <<pc, acked>>
    BY DEF Start
<1>2. PICK r \in OpenFile(s, disk, "fresh", 0) :
         IF r.ok
         THEN \E p \in Pruned(s, r.open, r.disk) :
                /\ disk' = p.disk
                /\ sink' = [sink EXCEPT ![s] = [Down EXCEPT !.open = p.open]]
                /\ NowPruned(p.disk)
         ELSE disk' = r.disk /\ UNCHANGED <<sink, pruned>>
    BY DEF Start
<1>3. DiskOK(disk) /\ sink \in [Servers -> Sinks]
    BY DEF AuditInv, FilesOK, Typed
<1>4. Opened(s, disk, r)
    BY <1>3, Opening
<1>5. CASE ~r.ok
    <2>1. disk' = r.disk /\ UNCHANGED <<sink, pruned>>
        BY <1>2, <1>5
    <2>2. DiskOK(disk') /\ Steps(s, disk, disk')
        BY <1>4, <2>1 DEF Opened
    <2>3. FilesOK'
        BY <1>1, <2>1, <2>2, FilesOn
    <2>4. AckedOK'
        BY <1>1, <1>4, <2>1, <2>2, AckedOn DEF Opened
    <2>5. ThreadsOK' /\ Typed' /\ GapsAddUp' /\ FailingLogIsDegraded'
        BY <1>1, <2>1 DEF AuditInv, ThreadsOK, Typed, GapsAddUp, FailingLogIsDegraded
    <2> QED  BY <2>3, <2>4, <2>5 DEF AuditInv
<1>6. CASE r.ok
    <2>1. PICK p \in Pruned(s, r.open, r.disk) :
                /\ disk' = p.disk
                /\ sink' = [sink EXCEPT ![s] = [Down EXCEPT !.open = p.open]]
                /\ NowPruned(p.disk)
        BY <1>2, <1>6
    <2>2. Kept(s, r.disk, p)
        BY <1>4, <1>6, <2>1, Pruning DEF Opened
    <2>3. DiskOK(disk') /\ Steps(s, disk, disk') /\ HeldOK(s, p.open, disk') /\ NowPruned(disk')
        BY <1>4, <2>1, <2>2, StepsOn DEF Opened, Kept
    <2> DEFINE x == [Down EXCEPT !.open = p.open]
    <2>4. /\ x \in Sinks /\ x.open = p.open /\ ~x.failing /\ x.noted = x.marked + x.unreported
        <3>1. p.open \in Handles
            BY <2>3 DEF HeldOK, Held
        <3>2. Down \in Sinks /\ Down.failing = FALSE /\ Down.noted = Down.marked + Down.unreported
            BY DEF Down, Sinks
        <3>3. /\ x \in Sinks /\ x.open = p.open /\ x.failing = Down.failing
              /\ x.noted = Down.noted /\ x.marked = Down.marked /\ x.unreported = Down.unreported
            BY <3>1, <3>2 DEF Sinks
        <3> QED  BY <3>2, <3>3
    <2> HIDE DEF x
    <2>5. sink' = [sink EXCEPT ![s] = x]
        BY <2>1 DEF x
    <2>6. sink' \in [Servers -> Sinks] /\ sink'[s] = x /\ \A t \in Servers : t # s => sink'[t] = sink[t]
        BY <1>3, <2>4, <2>5
    <2>7. FilesOK'
        BY <2>3, <2>4, <2>6, FilesOn
    <2>8. AckedOK'
        BY <1>1, <2>3, NoFileLost, AckedOn
    <2>9. \A c \in Calls : ServerOf[c] = s => pc[c].at = "idle"
        BY <1>1 DEF AuditInv, ThreadsOK
    <2>10. \A c \in Calls : ServerOf[c] \in Servers
        BY Here
    <2>11. ThreadsOK'
        <3>1. ASSUME NEW c \in Calls, ServerOf[c] # s
              PROVE  sink'[ServerOf[c]] = sink[ServerOf[c]]
            BY <2>6, <2>10, <3>1
        <3> QED  BY <1>1, <2>9, <3>1 DEF AuditInv, ThreadsOK, InLock
    <2>12. GapsAddUp'
        BY <2>4, <2>6 DEF AuditInv, GapsAddUp
    <2>13. FailingLogIsDegraded'
        BY <1>1, <2>4, <2>6 DEF AuditInv, FailingLogIsDegraded
    <2>14. Typed'
        BY <1>1, <2>6 DEF AuditInv, Typed
    <2> QED  BY <2>7, <2>8, <2>11, <2>12, <2>13, <2>14 DEF AuditInv
<1> QED  BY <1>5, <1>6

\* What a process that dies leaves of its file.
LEMMA CrashFiles ==
    ASSUME AuditInv, NEW s \in Servers, Crash(s)
    PROVE  DiskOK(disk') /\ Steps(s, disk, disk') /\ disk'.name = disk.name
<1> DEFINE o == sink[s].open
<1> DEFINE f == o.file
<1> DEFINE ls == disk.lines[f]
<1> DEFINE full == [NewLine(disk, "entry", o.prev) EXCEPT !.whole = FALSE]
<1> DEFINE part == [Remains(disk.next, FALSE) EXCEPT !.kind = "stray"]
<1>1. PICK d : /\ \/ d = disk
                  \/ ~Unfinished(ls) /\ \E l \in AnyLength(full) \cup {part} :
                                         d = Used(Put(disk, f, Append(ls, l)), 1)
               /\ disk' = Lock(d, f, None)
    BY DEF Crash
<1>2. o # None
    BY DEF Crash
<1>3. DiskOK(disk) /\ HeldOK(s, o, disk)
    BY <1>2 DEF AuditInv, FilesOK
<1>4. /\ f \in Files /\ o \in Handles /\ disk.lock[f] = s /\ EndOK(o, ls) /\ Started(ls)
      /\ ls \in Seq(LineSet) /\ Chain(ls) /\ disk.next \in Ids
    BY <1>3 DEF HeldOK, Held, Handles, DiskOK, Disks
<1>5. ASSUME NEW l \in AnyLength(full) \cup {part}, ~Unfinished(ls)
      PROVE  /\ Append(ls, l) \in Seq(LineSet) /\ Chain(Append(ls, l)) /\ Keeps(ls, Append(ls, l))
    <2>1. CASE l \in AnyLength(full)
        <3> DEFINE new == NewLine(disk, "entry", o.prev)
        <3>1. PICK b \in BOOLEAN : l = [full EXCEPT !.long = b]
            BY <2>1 DEF AnyLength
        <3> DEFINE m == [new EXCEPT !.long = b]
        <3>2. Fits(o, ls, m)
            <4>1. "entry" \in Kinds \ {"start", "torn", "stray"} /\ 0 \in Nat
                BY DEF Kinds
            <4>2. m \in AnyLength(new)
                BY DEF AnyLength
            <4> QED  BY <1>3, <4>1, <4>2, NextFits
        <3>3. /\ l.kind = m.kind /\ l.opens = m.opens /\ l.prev = m.prev
              /\ l = [m EXCEPT !.whole = FALSE]
            BY <3>1 DEF NewLine
        <3> HIDE DEF m, new, full
        <3>4. l \in LineSet
            BY <3>2, <3>3 DEF Fits, Follows, LineSet
        <3>5. Follows(o, ls, l)
            BY <3>2, <3>3, <3>4 DEF Fits, Follows
        <3> HIDE DEF ls
        <3>6. Chain(Append(ls, l))
            BY <1>4, <1>5, <3>5, FullLine
        <3> QED  BY <1>4, <3>4, <3>6, Appended, AppendKeeps
    <2>2. CASE l = part
        <3>1. Uncut(ls, disk.next) = Append(ls, l)
            BY <1>5, <2>2 DEF Uncut
        <3> HIDE DEF ls
        <3> QED  BY <1>4, <3>1, UncutLine
    <2> QED  BY <2>1, <2>2
<1> HIDE DEF full, part, f
<1>6. DiskOK(d) /\ d.name = disk.name /\ d.lock = disk.lock /\ Steps(s, disk, d)
    <2>1. CASE d = disk
        BY <1>3, <2>1, StepsItself
    <2>2. ASSUME ~Unfinished(ls), NEW l \in AnyLength(full) \cup {part}, d = Used(Put(disk, f, Append(ls, l)), 1)
          PROVE  DiskOK(d) /\ d.name = disk.name /\ d.lock = disk.lock /\ Steps(s, disk, d)
        <3>1. /\ DiskOK(d) /\ d.name = disk.name /\ d.lock = disk.lock /\ d.lines[f] = Append(ls, l)
              /\ \A g \in Files : g # f => d.lines[g] = disk.lines[g]
            <4> DEFINE q == Append(ls, l)
            <4>1. q \in Seq(LineSet) /\ Chain(q) /\ d = Used(Put(disk, f, q), 1)
                BY <1>5, <2>2
            <4> HIDE DEF q
            <4>2. 1 \in Nat /\ f \in Files
                BY <1>4
            <4>3. DiskOK(disk) /\ 1 \in Nat
                BY <1>3
            <4>4. /\ DiskOK(d) /\ d.name = disk.name /\ d.lock = disk.lock /\ d.lines[f] = q
                  /\ \A g \in Files : g # f => d.lines[g] = disk.lines[g]
                BY <4>1, <4>2, <4>3, DiskWith
            <4> QED  BY <4>4 DEF q
        <3> QED  BY <1>4, <1>5, <2>2, <3>1, OneFileSteps
    <2> QED  BY <1>1, <2>1, <2>2
<1>7. /\ DiskOK(disk') /\ disk'.name = d.name /\ disk'.lines = d.lines
      /\ \A g \in Files : g # f => disk'.lock[g] = d.lock[g]
    BY <1>1, <1>4, <1>6, DiskLocked
<1>8. Steps(s, d, disk')
    BY <1>4, <1>6, <1>7, KeepsItself DEF Steps
<1> QED  BY <1>6, <1>7, <1>8, StepsOn

LEMMA CrashStep ==
    ASSUME AuditInv, NEW s \in Servers, Crash(s)
    PROVE  AuditInv'
<1>1. /\ sink' = [sink EXCEPT ![s] = Down] /\ UNCHANGED <<acked, pruned>>
      /\ pc' = [c \in Calls |-> IF ServerOf[c] = s THEN Idle ELSE pc[c]]
    BY DEF Crash
<1>2. DiskOK(disk') /\ Steps(s, disk, disk') /\ disk'.name = disk.name
    BY CrashFiles
<1>3. /\ Down \in Sinks /\ Down.open = None /\ ~Down.failing /\ Down.noted = Down.marked + Down.unreported
      /\ Idle \in Threads /\ Idle.at = "idle"
    BY DEF Down, Idle, Sinks, Threads, Ats
<1>4. sink' \in [Servers -> Sinks] /\ sink'[s] = Down /\ \A t \in Servers : t # s => sink'[t] = sink[t]
    BY <1>1, <1>3 DEF AuditInv, Typed
<1>5. /\ pc' \in [Calls -> Threads]
      /\ \A c \in Calls : pc'[c] = IF ServerOf[c] = s THEN Idle ELSE pc[c]
    BY <1>1, <1>3 DEF AuditInv, Typed
<1>6. FilesOK'
    BY <1>2, <1>3, <1>4, FilesOn
<1>7. AckedOK'
    BY <1>1, <1>2, AckedOn
<1>8. ThreadsOK'
    <2>1. \A c \in Calls : ServerOf[c] \in Servers
        BY Here
    <2>2. ASSUME NEW c \in Calls, ServerOf[c] # s
          PROVE  sink'[ServerOf[c]] = sink[ServerOf[c]] /\ pc'[c] = pc[c]
        BY <1>4, <1>5, <2>1, <2>2
    <2>3. \A c \in Calls : ServerOf[c] = s => pc'[c].at = "idle"
        BY <1>3, <1>5
    <2> QED  BY <2>2, <2>3 DEF AuditInv, ThreadsOK, InLock
<1>9. GapsAddUp'
    BY <1>3, <1>4 DEF AuditInv, GapsAddUp
<1>10. FailingLogIsDegraded'
    <2>1. ASSUME NEW t \in Servers, t # s, NEW c \in Calls, ServerOf[c] = t
          PROVE  pc'[c] = pc[c]
        BY <1>5, <2>1
    <2> QED  BY <1>3, <1>4, <2>1 DEF AuditInv, FailingLogIsDegraded
<1> QED  BY <1>1, <1>4, <1>5, <1>6, <1>7, <1>8, <1>9, <1>10 DEF AuditInv, Typed

LEMMA MoveStep ==
    ASSUME AuditInv, NEW f \in Files, Move(f)
    PROVE  AuditInv'
<1>1. disk' = [disk EXCEPT !.name[f] = Elsewhere] /\ UNCHANGED <<sink, pc, acked, pruned>>
    BY DEF Move
<1>2. Elsewhere \in FileNames
    BY DEF Elsewhere, RotatedName, FileNames
<1>3. DiskOK(disk)
    BY DEF AuditInv, FilesOK
<1>4. /\ DiskOK(disk') /\ disk'.lines = disk.lines /\ disk'.lock = disk.lock /\ disk'.name[f] # None
      /\ \A g \in Files : g # f => disk'.name[g] = disk.name[g]
    BY <1>1, <1>2, <1>3, DiskNamed, NoneIsNoName
<1>5. ASSUME NEW t \in Servers, sink'[t].open # None
      PROVE  HeldOK(t, sink'[t].open, disk')
    BY <1>1, <1>4, <1>5 DEF AuditInv, FilesOK, HeldOK, Held
<1>6. FilesOK'
    BY <1>4, <1>5 DEF FilesOK, HeldOK, Held, DiskOK, EndOK, Started, Chain
<1>7. AckedOK'
    <2>1. \A a \in acked : a.file \in Files
        BY DEF AuditInv, Typed
    <2>2. ASSUME NEW a \in acked, a.file \notin pruned'
          PROVE  /\ disk'.name[a.file] # None
                 /\ HasEntry(disk'.lines[a.file], a.id) \/ Damaged(disk'.lines[a.file])
        BY <1>1, <1>4, <2>1, <2>2 DEF AuditInv, AckedOK
    <2> QED  BY <1>1, <2>2 DEF AckedOK
<1>8. ThreadsOK' /\ Typed' /\ GapsAddUp' /\ FailingLogIsDegraded'
    BY <1>1 DEF AuditInv, ThreadsOK, Typed, GapsAddUp, FailingLogIsDegraded
<1> QED  BY <1>6, <1>7, <1>8 DEF AuditInv

LEMMA AuditStep ==
    ASSUME AuditInv, [Next]_vars
    PROVE  AuditInv'
<1>1. ASSUME NEW c \in Calls, CallStep(c) PROVE AuditInv'
    BY <1>1, RecordStep, AdmitStep, AdmitEnterStep, GapLoadStep, GapMarkStep, GapClearStep,
       WriteEntryStep, NoteCountStep, NoteFlagStep DEF CallStep
<1>2. CASE UNCHANGED vars
    <2>1. FilesOK' /\ AckedOK'
        BY <1>2, DiskStays DEF vars
    <2> QED  BY <1>2, <2>1 DEF vars, AuditInv, ThreadsOK, Typed, GapsAddUp, FailingLogIsDegraded
<1> QED  BY <1>1, <1>2, StartStep, CrashStep, MoveStep DEF Next

---------------------------------------------------------------------------------
(* Theorems. *)

\* The inductive invariant: every file is a chain of hashes up to its first torn line, the end
\* of the file a process holds locked is what its sink takes it to be, an entry whose record
\* returned Ok is in its file or that file is torn, and one thread at a time is in a sink's lock
\* (write_line, open_file, with_log).
THEOREM AuditInvariant == Spec => []AuditInv
<1>1. Init => AuditInv
    BY InitAudit
<1>2. AuditInv /\ [Next]_vars => AuditInv'
    BY AuditStep
<1> QED  BY <1>1, <1>2, PTL DEF Spec

\* Of the files nothing went wrong with, after any number of restarts, rotations, prunings and
\* moves by any number of processes, verify_chain accepts all but those that were opened again
\* behind a line longer than recover_tail reads (open_file's chain-start markers).
THEOREM SoundFiles == Spec => []SoundFilesVerify
<1>1. AuditInv => SoundFilesVerify
    <2> SUFFICES ASSUME AuditInv, NEW f \in Files,
                        \A i \in DOMAIN disk.lines[f] :
                            /\ disk.lines[f][i].whole
                            /\ disk.lines[f][i].kind \notin {"torn", "stray"}
                 PROVE  Verifies(disk.lines[f]) <=> ~OpenedBehindLong(disk.lines[f])
        BY DEF SoundFilesVerify
    <2> DEFINE ls == disk.lines[f]
    <2>1. Linked(ls) /\ ls \in Seq(LineSet)
        BY DEF AuditInv, FilesOK, DiskOK, Disks, Chain, Damaged
    <2>2. DOMAIN ls = 1..Len(ls) /\ Len(ls) \in Nat /\ \A i \in DOMAIN ls : ls[i] \in LineSet
        BY <2>1, Elements
    <2> DEFINE Behind(i) == ls[i].kind = "start" /\ ls[i - 1].long
    <2> HIDE DEF ls
    <2>3. ASSUME NEW i \in 2..Len(ls)
          PROVE  (~ls[i].opens /\ ls[i].prev = ls[i - 1].id) <=> ~Behind(i)
        <3>1. i \in DOMAIN ls /\ i - 1 \in DOMAIN ls /\ i # 1
            BY <2>2
        <3>2. ~ls[i].opens /\ ls[i].prev = HashFor(ls[i], ls[i - 1])
            BY <2>1, <3>1 DEF Linked, Links, ls
        <3>3. ls[i - 1].id \in Nat /\ ls[i - 1].id # 0 /\ ls[i - 1].long \in BOOLEAN
            BY <2>2, <3>1 DEF LineSet, Ids
        <3> QED  BY <3>2, <3>3 DEF HashFor, TailHash
    <2>4. ASSUME NEW i \in DOMAIN ls
          PROVE  /\ ls[i].whole /\ ls[i].kind \notin {"torn", "stray"}
                 /\ i = 1 => ls[1].kind = "start" /\ (ls[1].prev = 0 \/ ls[1].opens)
                 /\ i # 1 => i \in 2..Len(ls)
        BY <2>1, <2>2 DEF Linked, Links, ls
    <2>5. Verifies(ls) <=> \A i \in 2..Len(ls) : ~ls[i].opens /\ ls[i].prev = ls[i - 1].id
        <3>1. \A i \in 2..Len(ls) : i \in DOMAIN ls /\ i # 1
            BY <2>2
        <3> QED  BY <2>4, <3>1 DEF Verifies
    <2>6. OpenedBehindLong(ls) <=> \E i \in 2..Len(ls) : Behind(i)
        BY DEF OpenedBehindLong
    <2> HIDE DEF Behind
    <2> QED  BY <2>3, <2>5, <2>6 DEF ls
<1> QED  BY <1>1, AuditInvariant, PTL

\* An entry whose record returned Ok is never lost unseen: it is in its file, or verify_chain
\* reports that file, or prune removed it after every process had closed it (write_line,
\* recover_tail, remove_closed).
THEOREM LossVisible == Spec => []LossIsVisible
<1>1. AuditInv => LossIsVisible
    <2> SUFFICES ASSUME AuditInv, NEW a \in acked, a.file \notin pruned
                 PROVE  /\ disk.name[a.file] # None
                        /\ \/ \E i \in DOMAIN disk.lines[a.file] :
                                  /\ disk.lines[a.file][i].id = a.id
                                  /\ disk.lines[a.file][i].kind = "entry"
                           \/ ~Verifies(disk.lines[a.file])
        BY DEF LossIsVisible
    <2>1. /\ disk.name[a.file] # None
          /\ HasEntry(disk.lines[a.file], a.id) \/ Damaged(disk.lines[a.file])
        BY DEF AuditInv, AckedOK
    <2>2. Damaged(disk.lines[a.file]) => ~Verifies(disk.lines[a.file])
        BY DEF Damaged, Verifies
    <2> QED  BY <2>1, <2>2 DEF HasEntry
<1> QED  BY <1>1, AuditInvariant, PTL

\* The gap markers and the count of a process add up to what it lost, however note_failure,
\* which takes no lock, and close_gap interleave.
THEOREM GapsSum == Spec => []GapsAddUp
<1>1. AuditInv => GapsAddUp
    BY DEF AuditInv
<1> QED  BY <1>1, AuditInvariant, PTL

\* No thread's success hides another's failure from admit (note_failure, close_gap).
THEOREM FailingIsDegraded == Spec => []FailingLogIsDegraded
<1>1. AuditInv => FailingLogIsDegraded
    BY DEF AuditInv
<1> QED  BY <1>1, AuditInvariant, PTL

=================================================================================
