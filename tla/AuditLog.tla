------------------------------- MODULE AuditLog -------------------------------
(***************************************************************************)
(* The hash-chained audit log (audit.rs): what servers that may share one  *)
(* audit path leave on the disk while their calls record entries from      *)
(* several threads, files rotate and are pruned, writes fail, processes    *)
(* die and somebody moves a file away.                                     *)
(*                                                                         *)
(* A line's hash is its own number: every line has a timestamp and the     *)
(* hash of the line before it, so no two lines are equal.  Numbers grow    *)
(* with time, so the last number of a file also stands for its             *)
(* modification time.  0 is the empty hash, and the negative of a line's   *)
(* number the hash of no line: that of the end of a line too long to be    *)
(* read back whole (TAIL_SCAN_BYTES).                                      *)
(***************************************************************************)
EXTENDS Integers, FiniteSets, Sequences, SequencesExt

CONSTANTS
    Servers,      \* processes with an audit sink
    Calls,        \* threads that record or ask for admission
    ServerOf,     \* the process a thread runs in
    BaseOf,       \* the audit path of each process
    PerProcess,   \* file names carry the process number (Family::PerProcess)
    Files,        \* inodes; a bound
    FileCap,      \* max_bytes, in lines; 0 never rotates
    KeepFiles,    \* keep_files; 0 keeps any number
    KeepDays,     \* keep_days is set: any closed file may be old enough
    MaxLines,     \* bound on the lines ever written
    MaxLost,      \* bound on the entries a process may lose
    Faults,       \* a subset of FaultKinds
    None

\* A file is named after an audit path, or after what no path is called; an open one is a
\* process's handle on it.
FileNames == [base : {BaseOf[s] : s \in Servers} \cup {None}, rotated : BOOLEAN]
Handles == [file : Files, prev : Nat, rotated : BOOLEAN, behind : BOOLEAN]

FaultKinds == {"write", "cut", "open", "rename", "crash", "move"}

ASSUME AuditAssumption ==
    /\ ServerOf \in [Calls -> Servers]
    /\ DOMAIN BaseOf = Servers
    /\ PerProcess \in BOOLEAN /\ KeepDays \in BOOLEAN
    /\ FileCap \in Nat /\ KeepFiles \in Nat /\ MaxLines \in Nat /\ MaxLost \in Nat
    /\ Faults \subseteq FaultKinds
    /\ None \notin Servers \cup FileNames \cup Handles

VARIABLES
    disk,    \* lines, name and lock of each inode, and the next line's number
    sink,    \* the sink of each process
    pc,      \* where each thread is in record or admit
    acked,   \* history: the entries whose record returned Ok, with their file
    pruned   \* history: the files removed while no process had them open

vars == <<disk, sink, pc, acked, pruned>>
-------------------------------------------------------------------------------
\* One line of a file: a chain-start, gap or pruned marker, an entry, the
\* remains of a line ("torn"), or bytes of a failed write that could not be cut
\* off again ("stray").  Only a whole line ends in a newline.
NewLine(d, kind, prev) ==
    [id |-> d.next, kind |-> kind, prev |-> prev, opens |-> FALSE,
     dropped |-> 0, whole |-> TRUE, long |-> FALSE]

Remains(id, whole) ==
    [id |-> id, kind |-> "torn", prev |-> 0, opens |-> FALSE,
     dropped |-> 0, whole |-> whole, long |-> FALSE]

\* Nothing bounds an entry's line, or a pruned marker's: it may be longer than what
\* recover_tail reads of a file.
AnyLength(l) == {[l EXCEPT !.long = b] : b \in BOOLEAN}

BaseName(b) == [base |-> b, rotated |-> FALSE]
RotatedName(b) == [base |-> b, rotated |-> TRUE]
Elsewhere == RotatedName(None)   \* moved out of the directory

Unfinished(ls) == ls # <<>> /\ ~Last(ls).whole

\* Family::owns: the names prune may touch.
Owns(s, n) ==
    /\ n \notin {None, Elsewhere}
    /\ PerProcess \/ (n.base = BaseOf[s] /\ n.rotated)

Put(d, f, ls) == [d EXCEPT !.lines[f] = ls]
Lock(d, f, s) == [d EXCEPT !.lock[f] = s]
Used(d, n) == [d EXCEPT !.next = @ + n]

(***************************************************************************)
(* write_line: the line in full; or nothing, cut back to the length the    *)
(* log had counted; or some of its bytes, when that cut fails too.  After  *)
(* such bytes the counted length is behind the file's, the next line is    *)
(* glued to them, and the next cut takes as many bytes off a good line.    *)
(***************************************************************************)
WrittenInFull(o, d, l) ==
    LET ls == d.lines[o.file]
    IN  [ok |-> TRUE, open |-> [o EXCEPT !.prev = l.id],
         disk |-> IF Unfinished(ls)
                  THEN Used(Put(d, o.file, Append(Front(ls), Remains(d.next + 1, TRUE))), 2)
                  ELSE Used(Put(d, o.file, Append(ls, l)), 1)]

CutBack(o, d) ==
    LET ls == d.lines[o.file]
        cut == CASE ~o.behind -> ls
                 [] o.behind /\ Last(ls).kind = "stray" /\ ~Last(ls).whole -> Front(ls)
                 [] o.behind /\ Last(ls).whole -> Append(Front(ls), Remains(d.next, FALSE))
                 [] OTHER -> ls
    IN  [ok |-> FALSE, open |-> [o EXCEPT !.behind = FALSE], disk |-> Used(Put(d, o.file, cut), 1)]

LeftUncut(o, d) ==
    LET ls == d.lines[o.file]
        stray == [Remains(d.next, FALSE) EXCEPT !.kind = "stray"]
    IN  [ok |-> FALSE, open |-> [o EXCEPT !.behind = TRUE],
         disk |-> IF Unfinished(ls) THEN d ELSE Used(Put(d, o.file, Append(ls, stray)), 1)]

WriteLine(o, d, l) ==
    {WrittenInFull(o, d, l)}
    \cup (IF "write" \in Faults THEN {CutBack(o, d)} ELSE {})
    \cup (IF "cut" \in Faults THEN {LeftUncut(o, d)} ELSE {})

\* A line at the end that crashed or failed writes left without its newline
\* gets one and is hashed as it stands.
Mended(l) == [l EXCEPT !.whole = TRUE, !.kind = IF @ = "stray" THEN "torn" ELSE @]
RecoverTail(ls) == IF Unfinished(ls) THEN [ls EXCEPT ![Len(ls)] = Mended(@)] ELSE ls

\* The hash recover_tail gives for a file's last line: of at most its last TAIL_SCAN_BYTES.
TailHash(l) == IF l.long THEN -l.id ELSE l.id

(***************************************************************************)
(* open_file: create or reopen the file at the audit path, lock it, mend   *)
(* its last line, and write the chain-start marker that links to the last  *)
(* line of the file, as far as recover_tail read it, or, in an empty file, *)
(* to the line carried over.                                               *)
(***************************************************************************)
OpensAnywhere(fresh, start, carried) == start = "rotated" \/ (start = "resumed" /\ carried # 0)
Opens(fresh, start, carried) == fresh /\ OpensAnywhere(fresh, start, carried)

OpenedAt(s, d) ==
    LET at == {f \in Files : d.name[f] = BaseName(BaseOf[s])}
    IN  IF at # {} THEN at
        ELSE {f \in Files : d.name[f] = None /\ d.lines[f] = <<>>}

NotOpened(d) == [ok |-> FALSE, open |-> None, disk |-> d]

OpenAt(s, d, start, carried, f) ==
    LET mended == RecoverTail(d.lines[f])
        fresh  == mended = <<>>
        prev   == IF fresh THEN carried ELSE TailHash(Last(mended))
        held   == Lock(Put([d EXCEPT !.name[f] = BaseName(BaseOf[s])], f, mended), f, s)
        open   == [file |-> f, prev |-> prev, rotated |-> FALSE, behind |-> FALSE]
        marker == [NewLine(d, "start", prev) EXCEPT !.opens = Opens(fresh, start, carried)]
    IN  {IF w.ok THEN w ELSE NotOpened(Lock(w.disk, f, None)) : w \in WriteLine(open, held, marker)}

OpenFile(s, d, start, carried) ==
    LET f == CHOOSE f \in OpenedAt(s, d) : TRUE
    IN  IF OpenedAt(s, d) = {} THEN {}
        ELSE IF d.lock[f] # None THEN {NotOpened(d)}
        ELSE OpenAt(s, d, start, carried, f)
             \cup (IF "open" \in Faults THEN {NotOpened(d)} ELSE {})

(***************************************************************************)
(* prune: of the closed files of the family, oldest first, those that have *)
(* expired and those over the number to keep; a file another process holds *)
(* locked stays (remove_closed).  A pruned marker keeps their last hashes; *)
(* a failure to write it is only logged.                                   *)
(***************************************************************************)
Closed(s, o, d) ==
    {f \in Files : /\ Owns(s, d.name[f])
                   /\ d.name[f] # BaseName(BaseOf[s]) /\ f # o.file}

Stamp(d, f) == IF d.lines[f] = <<>> THEN 0 ELSE Last(d.lines[f]).id
Older(d, fs, f) == {g \in fs : Stamp(d, g) < Stamp(d, f)}
OverCount(n) == IF KeepFiles > 0 /\ n > KeepFiles THEN n - KeepFiles ELSE 0

RemoveClosedAnyway(d, f) == TRUE
RemoveClosed(d, f) == d.lock[f] = None

Pruned(s, o, d) ==
    LET closed == Closed(s, o, d)
        over   == OverCount(Cardinality(closed))
        gone(old) == {f \in closed : /\ Cardinality(Older(d, closed, f)) < over
                                        \/ Cardinality(Older(d, closed, f)) < old
                                     /\ RemoveClosed(d, f)}
        removed(old) == [d EXCEPT !.name = [f \in Files |-> IF f \in gone(old) THEN None ELSE @[f]]]
        outcome(old) ==
            IF gone(old) = {} THEN {[ok |-> TRUE, open |-> o, disk |-> d]}
            ELSE UNION {WriteLine(o, removed(old), l) : l \in AnyLength(NewLine(d, "pruned", o.prev))}
    IN  UNION {outcome(old) : old \in IF KeepDays THEN 0..Cardinality(closed) ELSE {0}}

(***************************************************************************)
(* keep_current, before every line: a file that was moved away is replaced *)
(* by a new one that continues the chain; a full file is renamed and       *)
(* replaced.  When the new file cannot be opened after the renaming, the   *)
(* renamed one is written on and the opening tried again at the next line. *)
(***************************************************************************)
Replaced(o, r) == Lock(r.disk, o.file, IF r.open.file = o.file THEN r.disk.lock[o.file] ELSE None)

Rotated(s, o, d) ==
    IF FileCap = 0 \/ Len(d.lines[o.file]) < FileCap
    THEN {[ok |-> TRUE, open |-> o, disk |-> d]}
    ELSE LET moved == [d EXCEPT !.name[o.file] = RotatedName(BaseOf[s])]
             aside == [o EXCEPT !.rotated = TRUE]
             after(r) == IF r.ok
                         THEN {[p EXCEPT !.ok = TRUE] : p \in Pruned(s, r.open, Replaced(o, r))}
                         ELSE {[ok |-> TRUE, open |-> aside, disk |-> r.disk]}
         IN  (UNION {after(r) : r \in OpenFile(s, IF o.rotated THEN d ELSE moved, "rotated", o.prev)})
             \cup (IF "rename" \in Faults /\ ~o.rotated
                   THEN {[ok |-> FALSE, open |-> o, disk |-> d]} ELSE {})

Resumed(s, o, d) ==
    IF o.rotated \/ d.name[o.file] = BaseName(BaseOf[s])
    THEN {[ok |-> TRUE, open |-> o, disk |-> d]}
    ELSE {IF r.ok THEN [r EXCEPT !.disk = Replaced(o, r)]
          ELSE [ok |-> FALSE, open |-> o, disk |-> r.disk] : r \in OpenFile(s, d, "resumed", o.prev)}

KeepCurrent(s, o, d) ==
    UNION {IF r.ok THEN Rotated(s, r.open, r.disk) ELSE {r} : r \in Resumed(s, o, d)}
-------------------------------------------------------------------------------
Down == [open |-> None, degraded |-> FALSE, unreported |-> 0,
         noted |-> 0, marked |-> 0, failing |-> FALSE]
Idle == [at |-> "idle", does |-> "record", dropped |-> 0]

Init ==
    /\ disk = [lines |-> [f \in Files |-> <<>>], name |-> [f \in Files |-> None],
               lock |-> [f \in Files |-> None], next |-> 1]
    /\ sink = [s \in Servers |-> Down]
    /\ pc = [c \in Calls |-> Idle]
    /\ acked = {}
    /\ pruned = {}

InLock == {"gap", "marking", "clearing", "line"}
LockFree(s) == \A c \in Calls : ServerOf[c] = s => pc[c].at \notin InLock
Room == disk.next < MaxLines

Goto(c, at) == pc' = [pc EXCEPT ![c].at = at]
Finish(c) == pc' = [pc EXCEPT ![c] = Idle]

\* What the files lost between two disks, and nobody had open.
NowPruned(d) ==
    pruned' = pruned \cup {f \in Files : /\ disk.name[f] # None /\ d.name[f] = None
                                         /\ d.lock[f] = None}

\* Sink::open at the start of a process.
Start(s) ==
    /\ sink[s].open = None /\ Room
    /\ \E r \in OpenFile(s, disk, "fresh", 0) :
         IF r.ok
         THEN \E p \in Pruned(s, r.open, r.disk) :
                /\ disk' = p.disk
                /\ sink' = [sink EXCEPT ![s] = [Down EXCEPT !.open = p.open]]
                /\ NowPruned(p.disk)
         ELSE disk' = r.disk /\ UNCHANGED <<sink, pruned>>
    /\ UNCHANGED <<pc, acked>>

\* with_log: take the lock, keep the file current.
Enter(c, r) ==
    LET s == ServerOf[c]
    IN  /\ disk' = r.disk
        /\ NowPruned(r.disk)
        /\ sink' = [sink EXCEPT ![s].open = r.open,
                                ![s].failing = @ \/ (~r.ok /\ pc[c].does = "record")]

Record(c) ==
    LET s == ServerOf[c]
    IN  /\ pc[c].at = "idle" /\ sink[s].open # None /\ LockFree(s) /\ Room
        /\ sink[s].noted < MaxLost
        /\ \E r \in KeepCurrent(s, sink[s].open, disk) :
             /\ pc' = [pc EXCEPT ![c] = [Idle EXCEPT !.at = IF r.ok THEN "gap" ELSE "failed"]]
             /\ Enter(c, r)
        /\ UNCHANGED acked

\* admit returns at once unless the log is degraded; else it tries to close the
\* gap, and by then another thread may have closed it.
Admit(c) ==
    /\ pc[c].at = "idle" /\ sink[ServerOf[c]].open # None
    /\ sink[ServerOf[c]].degraded
    /\ pc' = [pc EXCEPT ![c] = [Idle EXCEPT !.at = "admitting", !.does = "admit"]]
    /\ UNCHANGED <<disk, sink, acked, pruned>>

AdmitEnter(c) ==
    LET s == ServerOf[c]
    IN  /\ pc[c].at = "admitting" /\ LockFree(s) /\ Room
        /\ \E r \in KeepCurrent(s, sink[s].open, disk) :
             /\ pc' = [pc EXCEPT ![c] = IF r.ok THEN [@ EXCEPT !.at = "gap"] ELSE Idle]
             /\ Enter(c, r)
        /\ UNCHANGED acked

\* close_gap loads how many entries were lost, writes a marker with that number,
\* takes it off the count and calls the log healthy again.  Other threads count
\* their own losses meanwhile: note_failure takes no lock.
GapLoadClearing(c) ==
    /\ pc[c].at = "gap"
    /\ IF sink[ServerOf[c]].degraded
       THEN pc' = [pc EXCEPT ![c].at = "marking", ![c].dropped = sink[ServerOf[c]].unreported]
       ELSE IF pc[c].does = "record" THEN Goto(c, "line") ELSE Finish(c)
    /\ sink' = [sink EXCEPT ![ServerOf[c]].degraded = FALSE]
    /\ UNCHANGED <<disk, acked, pruned>>

GapLoad(c) ==
    LET s == ServerOf[c]
    IN  /\ pc[c].at = "gap"
        /\ IF sink[s].degraded
           THEN pc' = [pc EXCEPT ![c].at = "marking", ![c].dropped = sink[s].unreported]
           ELSE IF pc[c].does = "record" THEN Goto(c, "line") ELSE Finish(c)
        /\ UNCHANGED <<disk, sink, acked, pruned>>

ReportedAll(unreported, n) == 0
Reported(unreported, n) == unreported - n

GapMark(c) ==
    LET s == ServerOf[c]
        marker == [NewLine(disk, "gap", sink[s].open.prev) EXCEPT !.dropped = pc[c].dropped]
    IN  /\ pc[c].at = "marking"
        /\ \E w \in WriteLine(sink[s].open, disk, marker) :
             /\ disk' = w.disk
             /\ IF w.ok
                THEN /\ sink' = [sink EXCEPT ![s].open = w.open, ![s].failing = FALSE,
                                             ![s].unreported = Reported(@, pc[c].dropped),
                                             ![s].marked = @ + pc[c].dropped]
                     /\ Goto(c, "clearing")
                ELSE /\ sink' = [sink EXCEPT ![s].open = w.open,
                                             ![s].failing = @ \/ pc[c].does = "record"]
                     /\ IF pc[c].does = "record" THEN Goto(c, "failed") ELSE Finish(c)
        /\ UNCHANGED <<acked, pruned>>

GapClear(c) ==
    /\ pc[c].at = "clearing"
    /\ sink' = [sink EXCEPT ![ServerOf[c]].degraded = FALSE]
    /\ IF pc[c].does = "record" THEN Goto(c, "line") ELSE Finish(c)
    /\ UNCHANGED <<disk, acked, pruned>>

WriteEntry(c) ==
    LET s == ServerOf[c]
    IN  /\ pc[c].at = "line"
        /\ \E l \in AnyLength(NewLine(disk, "entry", sink[s].open.prev)) :
           \E w \in WriteLine(sink[s].open, disk, l) :
             /\ disk' = w.disk
             /\ sink' = [sink EXCEPT ![s].open = w.open, ![s].failing = ~w.ok]
             /\ IF w.ok
                THEN /\ acked' = acked \cup {[id |-> l.id, file |-> w.open.file]}
                     /\ Finish(c)
                ELSE Goto(c, "failed") /\ UNCHANGED acked
        /\ UNCHANGED pruned

\* note_failure, outside the lock: count, then flag.
NoteCount(c) ==
    /\ pc[c].at = "failed"
    /\ sink' = [sink EXCEPT ![ServerOf[c]].unreported = @ + 1, ![ServerOf[c]].noted = @ + 1]
    /\ Goto(c, "counted")
    /\ UNCHANGED <<disk, acked, pruned>>

NoteFlag(c) ==
    /\ pc[c].at = "counted"
    /\ sink' = [sink EXCEPT ![ServerOf[c]].degraded = TRUE]
    /\ Finish(c)
    /\ UNCHANGED <<disk, acked, pruned>>

\* The process dies.  A line being written may stay behind in part, or in full
\* but for its newline.
Crash(s) ==
    LET o == sink[s].open
        ls == disk.lines[o.file]
        writing == \E c \in Calls : ServerOf[c] = s /\ pc[c].at \in {"marking", "line"}
        full == [NewLine(disk, "entry", o.prev) EXCEPT !.whole = FALSE]
        part == [Remains(disk.next, FALSE) EXCEPT !.kind = "stray"]
        left == {disk} \cup (IF writing /\ ~Unfinished(ls)
                             THEN {Used(Put(disk, o.file, Append(ls, l)), 1) : l \in AnyLength(full) \cup {part}}
                             ELSE {})
    IN  /\ "crash" \in Faults /\ o # None
        /\ \E d \in left : disk' = Lock(d, o.file, None)
        /\ sink' = [sink EXCEPT ![s] = Down]
        /\ pc' = [c \in Calls |-> IF ServerOf[c] = s THEN Idle ELSE pc[c]]
        /\ UNCHANGED <<acked, pruned>>

\* Somebody moves the file at an audit path out of the directory.
Move(f) ==
    /\ "move" \in Faults
    /\ disk.name[f] # None /\ ~disk.name[f].rotated /\ disk.lines[f] # <<>>
    /\ disk' = [disk EXCEPT !.name[f] = Elsewhere]
    /\ UNCHANGED <<sink, pc, acked, pruned>>

CallStep(c) ==
    \/ Record(c) \/ Admit(c) \/ AdmitEnter(c)
    \/ GapLoad(c) \/ GapMark(c) \/ GapClear(c) \/ WriteEntry(c)
    \/ NoteCount(c) \/ NoteFlag(c)

Next ==
    \/ \E c \in Calls : CallStep(c)
    \/ \E s \in Servers : Start(s) \/ Crash(s)
    \/ \E f \in Files : Move(f)

Spec == Init /\ [][Next]_vars
-------------------------------------------------------------------------------
\* verify_chain, as `ownpg audit verify` runs it on one file.
Verifies(ls) ==
    \A i \in DOMAIN ls :
        /\ ls[i].whole /\ ls[i].kind \notin {"torn", "stray"}
        /\ IF i = 1
           THEN ls[1].kind = "start" /\ (ls[1].prev = 0 \/ ls[1].opens)
           ELSE ~ls[i].opens /\ ls[i].prev = ls[i - 1].id

\* A process opened the file again behind a line too long for recover_tail.
OpenedBehindLong(ls) == \E i \in 2..Len(ls) : ls[i].kind = "start" /\ ls[i - 1].long

\* Of the files nothing went wrong with, verify_chain reports those that were opened
\* again behind a line longer than TAIL_SCAN_BYTES, and no other: neither restarts
\* nor rotations, prunings or files carried on after a move break the chain of a file.
SoundFilesVerify ==
    \A f \in Files :
        (\A i \in DOMAIN disk.lines[f] :
            disk.lines[f][i].whole /\ disk.lines[f][i].kind \notin {"torn", "stray"})
        => (Verifies(disk.lines[f]) <=> ~OpenedBehindLong(disk.lines[f]))

\* An entry whose record returned Ok is in its file for good, or verify_chain
\* reports the file, or the file was pruned after every process had closed it.
LossIsVisible ==
    \A a \in acked :
        \/ a.file \in pruned
        \/ /\ disk.name[a.file] # None
           /\ \/ \E i \in DOMAIN disk.lines[a.file] :
                    disk.lines[a.file][i].id = a.id /\ disk.lines[a.file][i].kind = "entry"
              \/ ~Verifies(disk.lines[a.file])

\* What the gap markers of a process say was lost and what they have yet to say
\* is what was lost, however note_failure and close_gap interleave.
GapsAddUp ==
    \A s \in Servers : sink[s].noted = sink[s].marked + sink[s].unreported

\* While entries fail to be written the log is degraded, so that admit refuses
\* what audit_on_failure says: no success of another thread hides the failure.
FailingLogIsDegraded ==
    \A s \in Servers :
        sink[s].failing /\ (\A c \in Calls : ServerOf[c] = s => pc[c].at \notin {"failed", "counted"})
        => sink[s].degraded

===============================================================================
