----------------------------- MODULE CatalogWAL -----------------------------
(***************************************************************************)
(* The write-ahead log of the catalog (internal/kernel/catalog_wal.go): a  *)
(* directory of segments in the order of their names, which is the order   *)
(* of their creation, and the active segment of this process.  A segment   *)
(* is listed for replay only once it has been renamed from .active to      *)
(* .sealed.  Empty segments are left out: they replay to nothing.          *)
(***************************************************************************)
EXTENDS Naturals, Sequences, FiniteSets

CONSTANT SegmentSize     \* entries that fill a segment

ASSUME WALAssumption == SegmentSize \in Nat \ {0}

VARIABLES
    segments,     \* closed segments, oldest first: entries, and sealed or not
    active,       \* the entries of the active segment
    open,         \* activeFile # nil
    stopped,      \* Stop has been called
    pass          \* replaySealed: position, last segment listed, line, allOK

walVars == <<segments, active, open, stopped, pass>>

\* pos = 0: waiting for the ticker; over: the loop has returned.
NoPass == [pos |-> 0, last |-> 0, line |-> 1, ok |-> TRUE, over |-> FALSE]

WALInit ==
    /\ segments = <<>>
    /\ active = <<>>
    /\ open = TRUE
    /\ stopped = FALSE
    /\ pass = NoPass

\* sealActiveSegment: closed, and renamed unless the rename fails.
Closed(renamed) ==
    IF active = <<>> THEN segments
    ELSE Append(segments, [entries |-> active, sealed |-> renamed])

\* rotateSegment, with age a matter of time, so that any append may rotate.
Rotate(first) ==
    /\ segments' = Closed(TRUE)
    /\ active' = first
    /\ open' = TRUE

RotateFails ==
    /\ \E renamed \in BOOLEAN : segments' = Closed(renamed)
    /\ active' = <<>>
    /\ open' = FALSE

WalAppend(e) ==
    /\ ~stopped
    /\ \/ /\ open
          /\ Len(active) < SegmentSize
          /\ active' = Append(active, e)
          /\ UNCHANGED <<segments, open>>
       \/ Rotate(<<e>>)
    /\ UNCHANGED <<stopped, pass>>

\* Append returns an error: stopped, a failed write or a failed rotation.
WalAppendFails ==
    /\ \/ UNCHANGED <<segments, active, open>>
       \/ ~stopped /\ RotateFails
    /\ UNCHANGED <<stopped, pass>>

\* Mutant: the active segment waits for its rotation.
StartPassSealedOnly ==
    /\ pass.pos = 0 /\ ~pass.over
    /\ segments # <<>>
    /\ pass' = [NoPass EXCEPT !.pos = 1, !.last = Len(segments)]
    /\ UNCHANGED <<segments, active, open, stopped>>

\* Everything is sealed under the lock, then what is sealed is listed.
StartPass ==
    /\ pass.pos = 0 /\ ~pass.over
    /\ segments # <<>> \/ active # <<>>
    /\ Rotate(<<>>) \/ RotateFails
    /\ pass' = [NoPass EXCEPT !.pos = 1, !.last = Len(segments')]
    /\ UNCHANGED stopped

InPass == pass.pos \in 1..pass.last

\* A segment that was never sealed is not in the list.
SkipUnsealed ==
    /\ InPass
    /\ ~segments[pass.pos].sealed
    /\ pass' = [pass EXCEPT !.pos = @ + 1]
    /\ UNCHANGED <<segments, active, open, stopped>>

Replaying ==
    /\ InPass
    /\ segments[pass.pos].sealed
    /\ pass.line <= Len(segments[pass.pos].entries)

Line == segments[pass.pos].entries[pass.line]

\* replaySegment: a line that cannot be replayed keeps the segment.
Replayed(ok) ==
    /\ Replaying
    /\ pass' = [pass EXCEPT !.line = @ + 1, !.ok = @ /\ ok]
    /\ UNCHANGED <<segments, active, open, stopped>>

WithoutCurrent ==
    SubSeq(segments, 1, pass.pos - 1) \o SubSeq(segments, pass.pos + 1, Len(segments))

\* Mutant: the listing is not shortened by the deletion.
EndSegmentKeepsLast ==
    /\ InPass
    /\ segments[pass.pos].sealed
    /\ pass.line > Len(segments[pass.pos].entries)
    /\ IF pass.ok
         THEN /\ segments' = WithoutCurrent
              /\ pass' = [NoPass EXCEPT !.pos = pass.pos, !.last = pass.last]
         ELSE /\ pass' = [NoPass EXCEPT !.pos = pass.pos + 1, !.last = pass.last]
              /\ UNCHANGED segments
    /\ UNCHANGED <<active, open, stopped>>

EndSegment ==
    /\ InPass
    /\ segments[pass.pos].sealed
    /\ pass.line > Len(segments[pass.pos].entries)
    /\ IF pass.ok
         THEN /\ segments' = WithoutCurrent
              /\ pass' = [NoPass EXCEPT !.pos = pass.pos, !.last = pass.last - 1]
         ELSE /\ pass' = [NoPass EXCEPT !.pos = pass.pos + 1, !.last = pass.last]
              /\ UNCHANGED segments
    /\ UNCHANGED <<active, open, stopped>>

EndPass ==
    /\ pass.pos > pass.last
    /\ pass' = NoPass
    /\ UNCHANGED <<segments, active, open, stopped>>

\* The loop may take one more tick before it notices that it was stopped.
LoopExits ==
    /\ stopped /\ pass.pos = 0 /\ ~pass.over
    /\ pass' = [pass EXCEPT !.over = TRUE]
    /\ UNCHANGED <<segments, active, open, stopped>>

\* Stop seals the active segment "so it can be replayed on next startup".
Stop ==
    /\ ~stopped
    /\ stopped' = TRUE
    /\ \E renamed \in BOOLEAN : segments' = Closed(renamed)
    /\ active' = <<>>
    /\ open' = FALSE
    /\ UNCHANGED pass

\* The process ends without Stop, or after it, and NewCatalogWAL opens a new
\* segment: what was active stays .active.
Reopen ==
    /\ segments' = Closed(FALSE)
    /\ active' = <<>>
    /\ open' = TRUE
    /\ stopped' = FALSE
    /\ pass' = NoPass

In(e, entries) == \E i \in DOMAIN entries : entries[i] = e

\* The entries the retry loop of this process can still reach.
Pending(e) ==
    \/ In(e, active)
    \/ \E i \in DOMAIN segments : segments[i].sealed /\ In(e, segments[i].entries)

Logged(e) == In(e, active) \/ \E i \in DOMAIN segments : In(e, segments[i].entries)

WALTypeOK(Entries) ==
    /\ \A i \in DOMAIN segments : segments[i].sealed \in BOOLEAN
                                    /\ segments[i].entries \in Seq(Entries)
    /\ active \in Seq(Entries)
    /\ open \in BOOLEAN
    /\ stopped \in BOOLEAN
    /\ pass \in [pos : Nat, last : Nat, line : Nat, ok : BOOLEAN, over : BOOLEAN]
    /\ pass.last <= Len(segments)
=============================================================================
