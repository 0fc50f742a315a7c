----------------------------- MODULE MeteringWAL -----------------------------
(***************************************************************************)
(* The segmented write-ahead log of the metering chain                     *)
(* (internal/kernel/metering_wal.go).                                      *)
(*                                                                         *)
(* Append, Stop and the snapshot at the head of replaySealed run under the *)
(* mutex and are atomic.  The retry loop then opens, reads and deletes the *)
(* files of its snapshot WITHOUT the mutex, so every file operation of a   *)
(* pass is a step of its own, interleaved with appends, rotations and Stop.*)
(* A crash ends the process at any step; what survives is the directory.   *)
(*                                                                         *)
(* A file is its number: "segment_%04d" sorts like the number below 10000, *)
(* a range the bound MaxSegment stays in.  An entry is a member of Entries *)
(* and is appended once, so it can be followed through the log.            *)
(***************************************************************************)
EXTENDS Integers, Sequences, FiniteSets

CONSTANTS
    Entries,       \* the failed writes that may be appended
    SegmentSize,   \* entries in a segment before it is rotated (MaxSegmentSize)
    MaxSegment,    \* bound on the segment counter
    MaxRestarts    \* bound on process restarts

ASSUME WALAssumption ==
    /\ SegmentSize \in Nat \ {0}
    /\ MaxSegment \in Nat \ {0}
    /\ MaxRestarts \in Nat

VARIABLES
    files,      \* the directory: numbers of the segment files that exist
    disk,       \* contents of each file, in the order written
    counter,    \* segmentCounter
    active,     \* number of the file activeFile has open, 0 when nil
    size,       \* activeSize: entries written since the file was opened
    aged,       \* time.Since(activeCreatedAt) >= MaxSegmentAge
    stopped,    \* set by Stop
    loop,       \* what the retry loop is doing: see LoopState
    todo,       \* files of its snapshot still to visit
    seg, pos,   \* the file it is in and the entries read from it
    allOk,      \* allSucceeded
    up,         \* does the backend accept replayed writes?
    delivered,  \* history: entries replayed with success
    log,        \* history: entries whose Append returned nil, in order
    home,       \* history: the segment each of them was written to
    reused,     \* history: segments opened although the file existed
    restarts    \* bound

passVars == <<loop, todo, seg, pos, allOk>>
walVars  == <<files, disk, counter, active, size, aged, stopped>>
histVars == <<log, home, reused, restarts>>
vars     == <<walVars, passVars, up, delivered, histVars>>

Segments == 1 .. MaxSegment

LoopState == {"idle", "open", "scan", "remove", "exited"}

TypeOK ==
    /\ files \subseteq Segments
    /\ disk \in [Segments -> Seq(Entries)]
    /\ counter \in 0 .. MaxSegment
    /\ active \in 0 .. MaxSegment
    /\ size \in Nat
    /\ aged \in BOOLEAN
    /\ stopped \in BOOLEAN
    /\ loop \in LoopState
    /\ todo \subseteq Segments
    /\ seg \in 0 .. MaxSegment
    /\ loop \in {"scan", "remove"} => seg # 0
    /\ pos \in Nat
    /\ allOk \in BOOLEAN
    /\ up \in BOOLEAN
    /\ delivered \subseteq Entries
    /\ log \in Seq(Entries)
    /\ home \in [Entries -> 0 .. MaxSegment]
    /\ reused \subseteq Segments
    /\ restarts \in 0 .. MaxRestarts

EntriesOf(s) == {disk[s][i] : i \in 1 .. Len(disk[s])}

\* NewMeteringWAL on an empty directory: the count is 0, segment 1 is opened.
Init ==
    /\ files = {1}
    /\ disk = [s \in Segments |-> <<>>]
    /\ counter = 1
    /\ active = 1
    /\ size = 0
    /\ aged = FALSE
    /\ stopped = FALSE
    /\ loop = "idle"
    /\ todo = {}
    /\ seg = 0
    /\ pos = 0
    /\ allOk = TRUE
    /\ up = TRUE
    /\ delivered = {}
    /\ log = <<>>
    /\ home = [e \in Entries |-> 0]
    /\ reused = {}
    /\ restarts = 0

-----------------------------------------------------------------------------
(* Writing *)

ShouldRotate == active = 0 \/ size >= SegmentSize \/ aged

(* rotateSegment: the next number, opened O_CREATE|O_APPEND, so an existing*)
(* file of that name is continued.                                         *)
OpenSegment(n) ==
    /\ n \in Segments
    /\ counter' = n
    /\ active' = n
    /\ files' = files \cup {n}
    /\ reused' = IF n \in files THEN reused \cup {n} ELSE reused

\* The entry reaches the file activeFile has open: segment n.
WriteTo(n, e) ==
    /\ disk' = [disk EXCEPT ![n] = Append(@, e)]
    /\ log' = Append(log, e)
    /\ home' = [home EXCEPT ![e] = n]

NotYetLogged(e) == home[e] = 0

(* Append to the active segment.  If a retry pass has meanwhile deleted    *)
(* that file the descriptor still works, and the entry goes to a file no   *)
(* directory lists: active \notin files.                                   *)
AppendEntry(e) ==
    /\ ~stopped
    /\ NotYetLogged(e)
    /\ ~ShouldRotate
    /\ WriteTo(active, e)
    /\ size' = size + 1
    /\ UNCHANGED <<files, counter, active, aged, stopped, passVars, up, delivered,
                   reused, restarts>>

\* Append that rotates first: both under the same lock.
RotateAndAppend(e) ==
    /\ ~stopped
    /\ NotYetLogged(e)
    /\ ShouldRotate
    /\ OpenSegment(counter + 1)
    /\ WriteTo(counter + 1, e)
    /\ size' = 1
    /\ aged' = FALSE
    /\ UNCHANGED <<stopped, passVars, up, delivered, restarts>>

(* Append whose rotation fails to open the new file: the number is spent,  *)
(* the caller gets an error, activeFile still names the closed segment.    *)
RotationFails ==
    /\ ~stopped
    /\ ShouldRotate
    /\ counter + 1 \in Segments
    /\ counter' = counter + 1
    /\ UNCHANGED <<files, disk, active, size, aged, stopped, passVars, up,
                   delivered, histVars>>

\* MaxSegmentAge passes for the active segment.
SegmentAges ==
    /\ active # 0
    /\ ~aged
    /\ aged' = TRUE
    /\ UNCHANGED <<files, disk, counter, active, size, stopped, passVars, up,
                   delivered, histVars>>

-----------------------------------------------------------------------------
(* The retry loop *)

\* Mutant of StartPass: the active segment is in the snapshot.
StartPassTakesActive ==
    /\ loop = "idle"
    /\ files # {}
    /\ loop' = "open"
    /\ todo' = files
    /\ UNCHANGED <<walVars, seg, pos, allOk, up, delivered, histVars>>

\* replaySealed takes its snapshot under the lock: every file but the active.
StartPass ==
    /\ loop = "idle"
    /\ files \ {active} # {}
    /\ loop' = "open"
    /\ todo' = files \ {active}
    /\ UNCHANGED <<walVars, seg, pos, allOk, up, delivered, histVars>>

\* Mutants of OpenNext: another order, or another segment's outcome.
OpenNextNewestFirst ==
    /\ loop = "open"
    /\ \E s \in todo :
         /\ \A t \in todo : s >= t
         /\ todo' = todo \ {s}
         /\ seg' = s
    /\ pos' = 0
    /\ allOk' = TRUE
    /\ loop' = "scan"
    /\ UNCHANGED <<walVars, up, delivered, histVars>>

OpenNextKeepsFlag ==
    /\ loop = "open"
    /\ \E s \in todo :
         /\ \A t \in todo : s <= t
         /\ todo' = todo \ {s}
         /\ seg' = s
    /\ pos' = 0
    /\ loop' = "scan"
    /\ UNCHANGED <<walVars, allOk, up, delivered, histVars>>

\* The next segment of the sorted snapshot is opened.
OpenNext ==
    /\ loop = "open"
    /\ \E s \in todo :
         /\ \A t \in todo : s <= t
         /\ todo' = todo \ {s}
         /\ seg' = s
    /\ pos' = 0
    /\ allOk' = TRUE
    /\ loop' = "scan"
    /\ UNCHANGED <<walVars, up, delivered, histVars>>

\* One line is read and handed to replayFn, which writes to the backend.
ReplayEntry ==
    /\ loop = "scan"
    /\ pos < Len(disk[seg])
    /\ pos' = pos + 1
    /\ \/ up /\ delivered' = delivered \cup {disk[seg][pos + 1]} /\ UNCHANGED allOk
       \/ ~up /\ allOk' = FALSE /\ UNCHANGED delivered
    /\ UNCHANGED <<walVars, loop, todo, seg, up, histVars>>

\* Mutant of EndOfSegment: the segment goes even if an entry failed.
EndOfSegmentRemovesAll ==
    /\ loop = "scan"
    /\ pos = Len(disk[seg])
    /\ loop' = "remove"
    /\ UNCHANGED <<walVars, todo, seg, pos, allOk, up, delivered, histVars>>

\* End of file: the segment is kept if any entry failed.
EndOfSegment ==
    /\ loop = "scan"
    /\ pos = Len(disk[seg])
    /\ loop' = IF allOk THEN "remove" ELSE "open"
    /\ UNCHANGED <<walVars, todo, seg, pos, allOk, up, delivered, histVars>>

\* os.Remove, without the lock and without looking at the file again.
RemoveSegment ==
    /\ loop = "remove"
    /\ files' = files \ {seg}
    /\ loop' = "open"
    /\ UNCHANGED <<disk, counter, active, size, aged, stopped, todo, seg, pos, allOk,
                   up, delivered, histVars>>

EndPass ==
    /\ loop = "open"
    /\ todo = {}
    /\ loop' = "idle"
    /\ UNCHANGED <<walVars, todo, seg, pos, allOk, up, delivered, histVars>>

(* The goroutine returns on stopCh.  When a tick is pending as well the    *)
(* select picks either, so a pass may still start after Stop.              *)
LoopExits ==
    /\ stopped
    /\ loop = "idle"
    /\ loop' = "exited"
    /\ UNCHANGED <<walVars, todo, seg, pos, allOk, up, delivered, histVars>>

-----------------------------------------------------------------------------
(* Environment *)

BackendChanges ==
    /\ up' = ~up
    /\ UNCHANGED <<walVars, passVars, delivered, histVars>>

\* Stop closes the active segment.  A pass under way is not interrupted.
Stop ==
    /\ ~stopped
    /\ stopped' = TRUE
    /\ active' = 0
    /\ UNCHANGED <<files, disk, counter, size, aged, passVars, up, delivered, histVars>>

(* The process ends, in a crash or after Stop, and NewMeteringWAL runs     *)
(* again: the counter restarts from the NUMBER of files in the directory.  *)
Restart ==
    /\ restarts < MaxRestarts
    /\ restarts' = restarts + 1
    /\ OpenSegment(Cardinality(files) + 1)
    /\ size' = 0
    /\ aged' = FALSE
    /\ stopped' = FALSE
    /\ loop' = "idle"
    /\ todo' = {}
    /\ seg' = 0
    /\ pos' = 0
    /\ allOk' = TRUE
    /\ UNCHANGED <<disk, up, delivered, log, home>>

RetryLoop ==
    \/ StartPass \/ OpenNext \/ ReplayEntry
    \/ EndOfSegment \/ RemoveSegment \/ EndPass
    \/ LoopExits

Next ==
    \/ \E e \in Entries : AppendEntry(e) \/ RotateAndAppend(e)
    \/ RotationFails
    \/ SegmentAges
    \/ RetryLoop
    \/ BackendChanges
    \/ Stop
    \/ Restart

(***************************************************************************)
(* The retry goroutine is driven by a ticker and its file operations end.  *)
(* Segments age.  Nobody is obliged to append, to stop or to restart.      *)
(***************************************************************************)
Spec == Init /\ [][Next]_vars /\ WF_vars(RetryLoop) /\ WF_vars(SegmentAges)

-----------------------------------------------------------------------------
(* Properties *)

OnDisk(e) == \E s \in files : e \in EntriesOf(s)

Logged == {log[i] : i \in 1 .. Len(log)}

(* "Successfully replayed segments are deleted" and no others: an entry    *)
(* whose Append returned nil is in the backend or still in the directory.  *)
NothingLost == \A e \in Logged : e \in delivered \/ OnDisk(e)

(* Over restarts, the only entries that can be lost are those written to a *)
(* segment whose file already existed when it was opened.                  *)
LostOnlyByReuse == \A e \in Logged : e \in delivered \/ OnDisk(e) \/ home[e] \in reused

(* The retry loop never reads or deletes the segment that is being         *)
(* appended to ("skip the active segment - it's still being written to"),  *)
(* unless that segment's number was reused after a restart.                *)
ActiveNotReplayed ==
    loop \in {"scan", "remove"} /\ seg = active => active \in reused

\* e was appended before f.
Before(e, f) == \E i, j \in 1 .. Len(log) : i < j /\ log[i] = e /\ log[j] = f

(* "Retry loop processes sealed segments oldest-first": what is replayed   *)
(* was appended before everything the pass has not reached yet.            *)
OldestFirst ==
    loop = "scan" =>
        \A t \in todo : \A e \in EntriesOf(seg), f \in EntriesOf(t) : Before(e, f)

Sealed(s) == s \in files /\ s # active

(* Once the backend accepts writes for good, every sealed segment of a log *)
(* that is not stopped is replayed and deleted, whatever failed before.    *)
SealedDrains ==
    <>[](up /\ ~stopped) => \A s \in Segments : Sealed(s) ~> (s \notin files)

(* The log implements DurableLog: what has been logged leaves the          *)
(* directory only after it has been delivered.                             *)
Abstract == INSTANCE DurableLog
    WITH logged <- UNION {EntriesOf(s) : s \in files}, delivered <- delivered

ImplementsDurableLog == Abstract!Spec
=============================================================================
