------------------------- MODULE MeteringWAL_proofs --------------------------
(***************************************************************************)
(* Proofs about MeteringWAL, for every set of entries, every segment size  *)
(* and every bound.                                                        *)
(***************************************************************************)
EXTENDS MeteringWAL, TLAPS

USE WALAssumption DEF Segments

(***************************************************************************)
(* The inductive invariant, part by part.                                  *)
(***************************************************************************)

\* The retry loop is inside the file seg.
InFile == loop \in {"scan", "remove"}

\* The files a pass still has to do something with exist, each once.
PassFilesExist ==
    /\ \A s \in todo : s \in files
    /\ InFile => seg \in files /\ seg \notin todo

\* None of them is the active segment, unless its number was reused.
PassAvoidsActive ==
    \A s \in todo \cup {seg} :
        (s \in todo \/ InFile) /\ s = active => s \in reused

\* allSucceeded means what it says for the part of the file that was read.
ReadIsDelivered ==
    InFile => /\ pos <= Len(disk[seg])
              /\ allOk => \A i \in 1 .. pos : disk[seg][i] \in delivered

\* A file about to be deleted has been read to its end.
RemoveIsComplete ==
    loop = "remove" =>
        allOk /\ (seg \notin reused => pos = Len(disk[seg]))

\* Where the entries are.
HomeIsRight ==
    /\ \A i \in 1 .. Len(log) : home[log[i]] # 0
    /\ \A s \in Segments : \A i \in 1 .. Len(disk[s]) : home[disk[s][i]] = s

Accounted(e) ==
    \/ home[e] = 0
    \/ e \in delivered
    \/ home[e] \in reused
    \/ home[e] \in files /\ e \in EntriesOf(home[e])

AllAccounted == \A e \in Entries : Accounted(e)

\* Only a reused segment can be deleted while it is active.
ActiveExists == active # 0 /\ active \notin files => active \in reused

IInv ==
    /\ TypeOK
    /\ PassFilesExist
    /\ PassAvoidsActive
    /\ ReadIsDelivered
    /\ RemoveIsComplete
    /\ HomeIsRight
    /\ AllAccounted
    /\ ActiveExists

-----------------------------------------------------------------------------
LEMMA InitTypeOK == Init => TypeOK
<1> SUFFICES ASSUME Init PROVE TypeOK
  OBVIOUS
<1> USE DEF Init
<1>1. disk \in [Segments -> Seq(Entries)] /\ home \in [Entries -> 0 .. MaxSegment]
  OBVIOUS
<1>2. loop \in LoopState /\ todo \subseteq Segments /\ seg \in 0 .. MaxSegment
  BY DEF LoopState
<1>3. files \subseteq Segments /\ counter \in 0 .. MaxSegment /\ active \in 0 .. MaxSegment
  OBVIOUS
<1>4. log \in Seq(Entries) /\ delivered \subseteq Entries /\ reused \subseteq Segments
  OBVIOUS
<1>5. restarts \in 0 .. MaxRestarts /\ size \in Nat /\ pos \in Nat
  OBVIOUS
<1>6. aged \in BOOLEAN /\ stopped \in BOOLEAN /\ up \in BOOLEAN /\ allOk \in BOOLEAN
  OBVIOUS
<1>7. QED
  BY <1>1, <1>2, <1>3, <1>4, <1>5, <1>6 DEF TypeOK

LEMMA NextTypeOK == TypeOK /\ [Next]_vars => TypeOK'
<1> SUFFICES ASSUME TypeOK, [Next]_vars PROVE TypeOK'
  OBVIOUS
<1> USE DEF TypeOK, LoopState, walVars, passVars, histVars
<1>1. ASSUME NEW e \in Entries, AppendEntry(e) PROVE TypeOK'
  <2>1. active \in Segments
    BY <1>1 DEF AppendEntry, ShouldRotate
  <2>2. QED
    BY <1>1, <2>1 DEF AppendEntry, WriteTo
<1>2. ASSUME NEW e \in Entries, RotateAndAppend(e) PROVE TypeOK'
  <2>1. counter + 1 \in Segments
    BY <1>2 DEF RotateAndAppend, OpenSegment
  <2>2. files' \subseteq Segments /\ reused' \subseteq Segments
    BY <1>2, <2>1 DEF RotateAndAppend, OpenSegment
  <2>3. disk' \in [Segments -> Seq(Entries)] /\ log' \in Seq(Entries)
    BY <1>2, <2>1 DEF RotateAndAppend, WriteTo
  <2>4. home' \in [Entries -> 0 .. MaxSegment]
    BY <1>2, <2>1 DEF RotateAndAppend, WriteTo
  <2>5. counter' \in 0 .. MaxSegment /\ active' \in 0 .. MaxSegment
    BY <1>2, <2>1 DEF RotateAndAppend, OpenSegment
  <2>6. QED
    BY <1>2, <2>2, <2>3, <2>4, <2>5 DEF RotateAndAppend
<1>3. CASE RotationFails
  BY <1>3 DEF RotationFails
<1>4. CASE SegmentAges
  BY <1>4 DEF SegmentAges
<1>5. CASE StartPass
  BY <1>5 DEF StartPass
<1>6. CASE OpenNext
  BY <1>6 DEF OpenNext
<1>7. CASE ReplayEntry
  <2>1. seg \in Segments
    BY <1>7 DEF ReplayEntry
  <2>2. disk[seg][pos + 1] \in Entries
    BY <1>7, <2>1 DEF ReplayEntry
  <2>3. delivered' \subseteq Entries
    BY <1>7, <2>2 DEF ReplayEntry
  <2>4. pos' \in Nat
    BY <1>7 DEF ReplayEntry
  <2>5. allOk' \in BOOLEAN
    BY <1>7, Zenon DEF ReplayEntry
  <2>6. QED
    BY <1>7, <2>3, <2>4, <2>5 DEF ReplayEntry
<1>8. CASE EndOfSegment
  BY <1>8 DEF EndOfSegment
<1>9. CASE RemoveSegment
  BY <1>9 DEF RemoveSegment
<1>10. CASE EndPass
  BY <1>10 DEF EndPass
<1>11. CASE LoopExits
  BY <1>11 DEF LoopExits
<1>12. CASE BackendChanges
  BY <1>12 DEF BackendChanges
<1>13. CASE Stop
  BY <1>13 DEF Stop
<1>14. CASE Restart
  <2> DEFINE n == Cardinality(files) + 1
  <2>1. n \in Segments /\ counter' = n /\ active' = n
    BY <1>14 DEF Restart, OpenSegment
  <2>2. files' \subseteq Segments /\ reused' \subseteq Segments
    BY <1>14, <2>1 DEF Restart, OpenSegment
  <2>3. counter' \in 0 .. MaxSegment /\ active' \in 0 .. MaxSegment
    BY <2>1
  <2>4. restarts' \in 0 .. MaxRestarts /\ size' \in Nat
    BY <1>14 DEF Restart
  <2>5. aged' \in BOOLEAN /\ stopped' \in BOOLEAN /\ allOk' \in BOOLEAN /\ up' \in BOOLEAN
    BY <1>14 DEF Restart
  <2>6. /\ loop' \in LoopState /\ todo' \subseteq Segments
        /\ seg' \in 0 .. MaxSegment /\ pos' \in Nat
        /\ loop' \in {"scan", "remove"} => seg' # 0
    BY <1>14 DEF Restart
  <2>7. /\ disk' \in [Segments -> Seq(Entries)] /\ delivered' \subseteq Entries
        /\ log' \in Seq(Entries) /\ home' \in [Entries -> 0 .. MaxSegment]
    BY <1>14 DEF Restart
  <2>8. QED
    BY <2>2, <2>3, <2>4, <2>5, <2>6, <2>7
<1>15. CASE UNCHANGED vars
  BY <1>15 DEF vars
<1>16. QED
  BY <1>1, <1>2, <1>3, <1>4, <1>5, <1>6, <1>7, <1>8, <1>9, <1>10, <1>11, <1>12,
     <1>13, <1>14, <1>15 DEF Next, RetryLoop

(* The log's variables stay in the sets their definitions name. *)
THEOREM TypeCorrect == Spec => []TypeOK
BY InitTypeOK, NextTypeOK, PTL DEF Spec

-----------------------------------------------------------------------------
(* The invariant, step by step. *)

LEMMA InitIInv == Init => IInv
<1> SUFFICES ASSUME Init PROVE IInv
  OBVIOUS
<1> USE DEF Init
<1>1. PassFilesExist /\ PassAvoidsActive /\ ReadIsDelivered /\ RemoveIsComplete
  BY DEF PassFilesExist, PassAvoidsActive, ReadIsDelivered, RemoveIsComplete, InFile
<1>2. HomeIsRight
  BY DEF HomeIsRight
<1>3. AllAccounted /\ ActiveExists
  BY DEF AllAccounted, Accounted, ActiveExists
<1>4. QED
  BY <1>1, <1>2, <1>3, InitTypeOK DEF IInv

(* A write of a fresh entry to the active segment n keeps every entry      *)
(* where it was and puts the new one in n.                                 *)
LEMMA WriteKeepsHomes ==
    ASSUME TypeOK, HomeIsRight, NEW e \in Entries, NEW n \in Segments,
           NotYetLogged(e), WriteTo(n, e)
    PROVE  /\ HomeIsRight'
           /\ \A f \in Entries : f # e => home'[f] = home[f]
           /\ \A s \in Segments : EntriesOf(s) \subseteq EntriesOf(s)'
           /\ home'[e] = n /\ e \in EntriesOf(n)'
<1> USE DEF TypeOK, WriteTo, NotYetLogged, HomeIsRight
<1>1. home'[e] = n /\ \A f \in Entries : f # e => home'[f] = home[f]
  OBVIOUS
<1>2. \A i \in 1 .. Len(log') : home'[log'[i]] # 0
  <2> SUFFICES ASSUME NEW i \in 1 .. Len(log') PROVE home'[log'[i]] # 0
    OBVIOUS
  <2>1. CASE i = Len(log) + 1
    BY <2>1, <1>1
  <2>2. CASE i \in 1 .. Len(log)
    <3>1. log'[i] = log[i] /\ log[i] \in Entries /\ home[log[i]] # 0
      BY <2>2
    <3>2. QED
      BY <3>1, <1>1
  <2>3. Len(log') = Len(log) + 1 /\ Len(log) \in Nat
    OBVIOUS
  <2>4. i = Len(log) + 1 \/ i \in 1 .. Len(log)
    BY ONLY <2>3, i \in 1 .. Len(log')
  <2>5. QED
    BY <2>1, <2>2, <2>4
<1>3. \A s \in Segments : \A i \in 1 .. Len(disk'[s]) : home'[disk'[s][i]] = s
  <2> SUFFICES ASSUME NEW s \in Segments, NEW i \in 1 .. Len(disk'[s])
               PROVE  home'[disk'[s][i]] = s
    OBVIOUS
  <2>1. CASE s = n /\ i = Len(disk[s]) + 1
    BY <2>1
  <2>2. CASE i \in 1 .. Len(disk[s])
    <3>1. disk'[s][i] = disk[s][i] /\ disk[s][i] \in Entries /\ disk[s][i] # e
      BY <2>2
    <3>2. QED
      BY <2>2, <3>1
  <2>3. QED
    BY <2>1, <2>2
<1>4. \A s \in Segments : EntriesOf(s) \subseteq EntriesOf(s)'
  <2> SUFFICES ASSUME NEW s \in Segments, NEW i \in 1 .. Len(disk[s])
               PROVE  \E j \in 1 .. Len(disk'[s]) : disk[s][i] = disk'[s][j]
    BY DEF EntriesOf
  <2>1. i \in 1 .. Len(disk'[s]) /\ disk[s][i] = disk'[s][i]
    OBVIOUS
  <2>2. QED
    BY <2>1
<1>5. e \in EntriesOf(n)'
  <2>1. disk'[n][Len(disk'[n])] = e /\ Len(disk'[n]) \in 1 .. Len(disk'[n])
    OBVIOUS
  <2>2. QED
    BY <2>1 DEF EntriesOf
<1>6. QED
  BY <1>1, <1>2, <1>3, <1>4, <1>5

(* What a pass has read of a file, and that it has read all of a file it   *)
(* is about to delete, survive a write to segment n if n is not the file   *)
(* being read, or is a reused one.                                         *)
LEMMA WriteKeepsRead ==
    ASSUME TypeOK, ReadIsDelivered, RemoveIsComplete,
           NEW e \in Entries, NEW n \in Segments, WriteTo(n, e),
           UNCHANGED <<passVars, delivered>>, reused \subseteq reused',
           InFile /\ seg = n => n \in reused'
    PROVE  ReadIsDelivered' /\ RemoveIsComplete'
<1> USE DEF TypeOK, WriteTo, passVars, InFile
<1>1. ReadIsDelivered'
  <2> SUFFICES ASSUME InFile
               PROVE  /\ pos <= Len(disk'[seg])
                      /\ allOk => \A i \in 1 .. pos : disk'[seg][i] \in delivered
    BY DEF ReadIsDelivered
  <2>1. seg \in Segments /\ pos <= Len(disk[seg])
    BY DEF ReadIsDelivered
  <2>2. Len(disk[seg]) <= Len(disk'[seg]) /\ \A i \in 1 .. Len(disk[seg]) : disk'[seg][i] = disk[seg][i]
    BY <2>1
  <2>3. QED
    BY <2>1, <2>2 DEF ReadIsDelivered
<1>2. RemoveIsComplete'
  <2> SUFFICES ASSUME loop = "remove"
               PROVE  allOk /\ (seg \notin reused' => pos = Len(disk'[seg]))
    BY DEF RemoveIsComplete
  <2>1. allOk
    BY DEF RemoveIsComplete
  <2>2. ASSUME seg \notin reused' PROVE pos = Len(disk'[seg])
    <3>1. seg # n /\ seg \in Segments
      BY <2>2
    <3>2. disk'[seg] = disk[seg]
      BY <3>1
    <3>3. QED
      BY <2>2, <3>2 DEF RemoveIsComplete
  <2>3. QED
    BY <2>1, <2>2
<1>3. QED
  BY <1>1, <1>2

LEMMA AppendEntryIInv ==
    ASSUME IInv, NEW e \in Entries, AppendEntry(e), TypeOK'
    PROVE  IInv'
<1> USE DEF IInv, AppendEntry
<1> PICK n \in Segments : n = active
  BY DEF ShouldRotate, TypeOK
<1>1. n \in Segments /\ WriteTo(n, e)
  OBVIOUS
<1>2. /\ HomeIsRight' /\ home'[e] = n /\ e \in EntriesOf(n)'
      /\ \A f \in Entries : f # e => home'[f] = home[f]
      /\ \A s \in Segments : EntriesOf(s) \subseteq EntriesOf(s)'
  BY <1>1, WriteKeepsHomes
<1>3. PassFilesExist' /\ PassAvoidsActive' /\ ActiveExists'
  BY DEF PassFilesExist, PassAvoidsActive, ActiveExists, InFile, passVars
<1>4. InFile /\ seg = n => n \in reused
  BY DEF PassAvoidsActive, InFile
<1>5. ReadIsDelivered' /\ RemoveIsComplete'
  BY <1>1, <1>4, WriteKeepsRead
<1>6. AllAccounted'
  <2> SUFFICES ASSUME NEW f \in Entries PROVE Accounted(f)'
    BY DEF AllAccounted
  <2>1. CASE f = e
    BY <1>1, <1>2, <2>1 DEF Accounted, ActiveExists
  <2>2. CASE f # e
    BY <1>2, <2>2 DEF Accounted, AllAccounted, TypeOK
  <2>3. QED
    BY <2>1, <2>2
<1>7. QED
  BY <1>2, <1>3, <1>5, <1>6

LEMMA RotateAndAppendIInv ==
    ASSUME IInv, NEW e \in Entries, RotateAndAppend(e), TypeOK'
    PROVE  IInv'
<1> USE DEF IInv, RotateAndAppend
<1> PICK n \in Segments : n = counter + 1
  BY DEF OpenSegment
<1>1. /\ n \in Segments /\ WriteTo(n, e) /\ active' = n
      /\ files' = files \cup {n} /\ reused \subseteq reused'
      /\ n \in files => n \in reused'
  BY DEF OpenSegment
<1>2. /\ HomeIsRight' /\ home'[e] = n /\ e \in EntriesOf(n)'
      /\ \A f \in Entries : f # e => home'[f] = home[f]
      /\ \A s \in Segments : EntriesOf(s) \subseteq EntriesOf(s)'
  BY <1>1, WriteKeepsHomes
<1>3. PassFilesExist' /\ ActiveExists'
  BY <1>1 DEF PassFilesExist, ActiveExists, InFile, passVars
<1>4. PassAvoidsActive'
  BY <1>1 DEF PassAvoidsActive, PassFilesExist, InFile, passVars
<1>5. InFile /\ seg = n => n \in reused'
  BY <1>1 DEF PassFilesExist
<1>6. ReadIsDelivered' /\ RemoveIsComplete'
  BY <1>1, <1>5, WriteKeepsRead
<1>7. AllAccounted'
  <2> SUFFICES ASSUME NEW f \in Entries PROVE Accounted(f)'
    BY DEF AllAccounted
  <2>1. CASE f = e
    BY <1>1, <1>2, <2>1 DEF Accounted
  <2>2. CASE f # e
    BY <1>1, <1>2, <2>2 DEF Accounted, AllAccounted, TypeOK
  <2>3. QED
    BY <2>1, <2>2
<1>8. QED
  BY <1>2, <1>3, <1>4, <1>6, <1>7

LEMMA ReplayEntryIInv ==
    ASSUME IInv, ReplayEntry, TypeOK'
    PROVE  IInv'
<1> USE DEF IInv, ReplayEntry, walVars, histVars
<1>1. PassFilesExist' /\ PassAvoidsActive' /\ ActiveExists' /\ RemoveIsComplete'
  BY DEF PassFilesExist, PassAvoidsActive, ActiveExists, RemoveIsComplete, InFile
<1>2. HomeIsRight'
  BY DEF HomeIsRight
<1>3. AllAccounted'
  BY DEF AllAccounted, Accounted, EntriesOf
<1>4. ReadIsDelivered'
  <2>1. pos' <= Len(disk[seg])
    BY DEF TypeOK
  <2>2. ASSUME allOk', NEW i \in 1 .. pos' PROVE disk[seg][i] \in delivered'
    <3>1. CASE up
      <4>1. allOk /\ i \in 1 .. pos + 1
        BY <2>2, <3>1
      <4>2. CASE i = pos + 1
        BY <3>1, <4>2
      <4>3. CASE i \in 1 .. pos
        BY <3>1, <4>1, <4>3 DEF ReadIsDelivered, InFile
      <4>4. QED
        BY <4>1, <4>2, <4>3 DEF TypeOK
    <3>2. CASE ~up
      BY <2>2, <3>2
    <3>3. QED
      BY <3>1, <3>2
  <2>3. QED
    BY <2>1, <2>2 DEF ReadIsDelivered
<1>5. QED
  BY <1>1, <1>2, <1>3, <1>4

LEMMA RemoveSegmentIInv ==
    ASSUME IInv, RemoveSegment, TypeOK'
    PROVE  IInv'
<1> USE DEF IInv, RemoveSegment, histVars
<1>1. PassFilesExist' /\ PassAvoidsActive' /\ ReadIsDelivered' /\ RemoveIsComplete'
  BY DEF PassFilesExist, PassAvoidsActive, ReadIsDelivered, RemoveIsComplete, InFile
<1>2. HomeIsRight'
  BY DEF HomeIsRight
<1>3. ActiveExists'
  BY DEF ActiveExists, PassAvoidsActive, InFile
<1>4. AllAccounted'
  <2> SUFFICES ASSUME NEW f \in Entries PROVE Accounted(f)'
    BY DEF AllAccounted
  <2>1. CASE home[f] = seg /\ seg \notin reused /\ f \in EntriesOf(seg)
    <3>1. pos = Len(disk[seg]) /\ \A i \in 1 .. pos : disk[seg][i] \in delivered
      BY <2>1 DEF RemoveIsComplete, ReadIsDelivered, InFile
    <3>2. QED
      BY <2>1, <3>1 DEF EntriesOf, Accounted
  <2>2. CASE ~(home[f] = seg /\ seg \notin reused /\ f \in EntriesOf(seg))
    BY <2>2 DEF AllAccounted, Accounted, EntriesOf
  <2>3. QED
    BY <2>1, <2>2
<1>5. QED
  BY <1>1, <1>2, <1>3, <1>4

LEMMA NextIInv == IInv /\ [Next]_vars => IInv'
<1> SUFFICES ASSUME IInv, [Next]_vars PROVE IInv'
  OBVIOUS
<1> TypeOK'
  BY NextTypeOK DEF IInv
<1> USE DEF walVars, passVars, histVars
<1>1. ASSUME NEW e \in Entries, AppendEntry(e) PROVE IInv'
  BY <1>1, AppendEntryIInv
<1>2. ASSUME NEW e \in Entries, RotateAndAppend(e) PROVE IInv'
  BY <1>2, RotateAndAppendIInv
<1>3. ASSUME UNCHANGED <<files, disk, active, passVars, delivered, log, home, reused>>
      PROVE  IInv'
  BY <1>3 DEF IInv, PassFilesExist, PassAvoidsActive, ReadIsDelivered, RemoveIsComplete,
              HomeIsRight, AllAccounted, Accounted, ActiveExists, InFile, EntriesOf
<1>4. CASE StartPass
  <2> USE <1>4 DEF StartPass, IInv
  <2>1. PassFilesExist' /\ PassAvoidsActive' /\ ReadIsDelivered' /\ RemoveIsComplete'
    BY DEF PassFilesExist, PassAvoidsActive, ReadIsDelivered, RemoveIsComplete, InFile
  <2>2. HomeIsRight' /\ AllAccounted' /\ ActiveExists'
    BY DEF HomeIsRight, AllAccounted, Accounted, EntriesOf, ActiveExists
  <2>3. QED
    BY <2>1, <2>2
<1>5. CASE OpenNext
  <2> USE <1>5 DEF OpenNext, IInv
  <2>1. PassFilesExist' /\ PassAvoidsActive'
    BY DEF PassFilesExist, PassAvoidsActive, InFile
  <2>2. ReadIsDelivered' /\ RemoveIsComplete'
    BY DEF ReadIsDelivered, RemoveIsComplete, InFile, TypeOK
  <2>3. HomeIsRight' /\ AllAccounted' /\ ActiveExists'
    BY DEF HomeIsRight, AllAccounted, Accounted, EntriesOf, ActiveExists
  <2>4. QED
    BY <2>1, <2>2, <2>3
<1>6. CASE ReplayEntry
  BY <1>6, ReplayEntryIInv
<1>7. CASE EndOfSegment
  <2> USE <1>7 DEF EndOfSegment, IInv
  <2>1. PassFilesExist' /\ PassAvoidsActive' /\ ReadIsDelivered' /\ RemoveIsComplete'
    BY DEF PassFilesExist, PassAvoidsActive, ReadIsDelivered, RemoveIsComplete, InFile
  <2>2. HomeIsRight' /\ AllAccounted' /\ ActiveExists'
    BY DEF HomeIsRight, AllAccounted, Accounted, EntriesOf, ActiveExists
  <2>3. QED
    BY <2>1, <2>2
<1>8. CASE RemoveSegment
  BY <1>8, RemoveSegmentIInv
<1>9. CASE EndPass \/ LoopExits
  <2> USE <1>9 DEF EndPass, LoopExits, IInv
  <2>1. PassFilesExist' /\ PassAvoidsActive' /\ ReadIsDelivered' /\ RemoveIsComplete'
    BY DEF PassFilesExist, PassAvoidsActive, ReadIsDelivered, RemoveIsComplete, InFile
  <2>2. HomeIsRight' /\ AllAccounted' /\ ActiveExists'
    BY DEF HomeIsRight, AllAccounted, Accounted, EntriesOf, ActiveExists
  <2>3. QED
    BY <2>1, <2>2
<1>10. CASE Stop
  <2> USE <1>10 DEF Stop, IInv
  <2>1. PassFilesExist' /\ PassAvoidsActive' /\ ReadIsDelivered' /\ RemoveIsComplete'
    BY DEF PassFilesExist, PassAvoidsActive, ReadIsDelivered, RemoveIsComplete, InFile, TypeOK
  <2>2. HomeIsRight' /\ AllAccounted' /\ ActiveExists'
    BY DEF HomeIsRight, AllAccounted, Accounted, EntriesOf, ActiveExists
  <2>3. QED
    BY <2>1, <2>2
<1>11. CASE Restart
  <2> USE <1>11 DEF Restart, IInv
  <2>1. PassFilesExist' /\ PassAvoidsActive' /\ ReadIsDelivered' /\ RemoveIsComplete'
    BY DEF PassFilesExist, PassAvoidsActive, ReadIsDelivered, RemoveIsComplete, InFile
  <2>2. files \subseteq files' /\ reused \subseteq reused' /\ active' \in files'
    BY DEF OpenSegment
  <2>3. HomeIsRight' /\ ActiveExists'
    BY <2>2 DEF HomeIsRight, ActiveExists
  <2>4. AllAccounted'
    BY <2>2 DEF AllAccounted, Accounted, EntriesOf
  <2>5. QED
    BY <2>1, <2>3, <2>4
<1>12. CASE RotationFails \/ SegmentAges \/ BackendChanges \/ UNCHANGED vars
  BY <1>3, <1>12 DEF RotationFails, SegmentAges, BackendChanges, vars
<1>13. QED
  BY <1>1, <1>2, <1>4, <1>5, <1>6, <1>7, <1>8, <1>9, <1>10, <1>11, <1>12
     DEF Next, RetryLoop

LEMMA IInvHolds == Spec => []IInv
BY InitIInv, NextIInv, PTL DEF Spec

-----------------------------------------------------------------------------
(* Results *)

(* The retry loop does not touch the segment being appended to, unless its *)
(* number was reused.                                                      *)
THEOREM ActiveNotReplayedHolds == Spec => []ActiveNotReplayed
<1>1. IInv => ActiveNotReplayed
  BY DEF IInv, PassAvoidsActive, InFile, ActiveNotReplayed
<1>2. QED
  BY <1>1, IInvHolds, PTL

(* Through any number of crashes, restarts, failed replays and failed      *)
(* rotations, an entry whose Append returned nil can be lost only if it was *)
(* written to a segment whose number was reused.                           *)
THEOREM LostOnlyByReuseHolds == Spec => []LostOnlyByReuse
<1>1. IInv => LostOnlyByReuse
  <2> SUFFICES ASSUME IInv, NEW e \in Logged
               PROVE  e \in delivered \/ OnDisk(e) \/ home[e] \in reused
    BY DEF LostOnlyByReuse
  <2>1. e \in Entries /\ home[e] # 0
    BY DEF IInv, TypeOK, HomeIsRight, Logged
  <2>2. Accounted(e)
    BY <2>1 DEF IInv, AllAccounted
  <2>3. QED
    BY <2>1, <2>2 DEF Accounted, OnDisk
<1>2. QED
  BY <1>1, IInvHolds, PTL

(***************************************************************************)
(* One incarnation: before the first restart the counter is the highest    *)
(* number in the directory, so no number is reused and a new file is empty.*)
(***************************************************************************)
CounterIsHighest ==
    restarts = 0 =>
        /\ reused = {}
        /\ files \subseteq 1 .. counter
        /\ active <= counter
        /\ \A s \in Segments : s > counter => disk[s] = <<>>

LEMMA CounterIsHighestHolds == Spec => []CounterIsHighest
<1>1. Init => CounterIsHighest
  BY DEF Init, CounterIsHighest
<1>2. TypeOK /\ CounterIsHighest /\ [Next]_vars => CounterIsHighest'
  <2> SUFFICES ASSUME TypeOK, CounterIsHighest, [Next]_vars PROVE CounterIsHighest'
    OBVIOUS
  <2> USE DEF TypeOK, CounterIsHighest, walVars, histVars, passVars
  <2>1. ASSUME NEW e \in Entries, AppendEntry(e) PROVE CounterIsHighest'
    <3>1. active \in Segments
      BY <2>1 DEF AppendEntry, ShouldRotate
    <3>2. \A s \in Segments : s # active => disk'[s] = disk[s]
      BY <2>1, <3>1 DEF AppendEntry, WriteTo
    <3>3. /\ restarts' = restarts /\ reused' = reused /\ files' = files
          /\ counter' = counter /\ active' = active
      BY <2>1 DEF AppendEntry
    <3>4. SUFFICES ASSUME restarts = 0
                   PROVE  /\ reused = {}
                          /\ files \subseteq 1 .. counter
                          /\ active <= counter
                          /\ \A s \in Segments : s > counter => disk'[s] = <<>>
      BY <3>3
    <3>5. \A s \in Segments : s > counter => s # active /\ disk[s] = <<>>
      BY <3>1, <3>4 DEF Segments
    <3>6. QED
      BY <3>2, <3>4, <3>5
  <2>2. ASSUME NEW e \in Entries, RotateAndAppend(e) PROVE CounterIsHighest'
    <3>1. counter + 1 \in Segments
      BY <2>2 DEF RotateAndAppend, OpenSegment
    <3>2. \A s \in Segments : s # counter + 1 => disk'[s] = disk[s]
      BY <2>2, <3>1 DEF RotateAndAppend, WriteTo
    <3>3. /\ restarts' = restarts /\ files' = files \cup {counter + 1}
          /\ counter' = counter + 1 /\ active' = counter + 1
          /\ counter + 1 \notin files => reused' = reused
      BY <2>2 DEF RotateAndAppend, OpenSegment
    <3>4. SUFFICES ASSUME restarts = 0
                   PROVE  /\ reused' = {}
                          /\ files' \subseteq 1 .. counter'
                          /\ active' <= counter'
                          /\ \A s \in Segments : s > counter' => disk'[s] = <<>>
      BY <3>3
    <3>5. counter + 1 \notin files
      BY <3>4
    <3>6. files' \subseteq 1 .. counter'
      BY <3>3, <3>4
    <3>7. \A s \in Segments : s > counter' => disk'[s] = <<>>
      BY <3>2, <3>3, <3>4
    <3>8. reused' = {}
      BY <3>3, <3>4, <3>5
    <3>9. active' <= counter'
      BY <3>3
    <3>10. QED
      BY <3>6, <3>7, <3>8, <3>9
  <2>3. CASE RotationFails
    BY <2>3 DEF RotationFails
  <2>4. CASE RemoveSegment
    BY <2>4 DEF RemoveSegment
  <2>5. CASE Stop
    BY <2>5 DEF Stop
  <2>6. CASE Restart
    BY <2>6 DEF Restart
  <2>7. ASSUME UNCHANGED <<files, disk, counter, active, reused, restarts>>
        PROVE  CounterIsHighest'
    BY <2>7
  <2>8. QED
    BY <2>1, <2>2, <2>3, <2>4, <2>5, <2>6, <2>7
       DEF Next, RetryLoop, SegmentAges, StartPass, OpenNext, ReplayEntry, EndOfSegment,
           EndPass, LoopExits, BackendChanges, vars
<1>3. QED
  BY <1>1, <1>2, TypeCorrect, PTL DEF Spec

(* Until the first restart nothing that was logged is lost. *)
THEOREM NothingLostHolds == Spec => [](restarts = 0 => NothingLost)
<1>1. LostOnlyByReuse /\ CounterIsHighest => (restarts = 0 => NothingLost)
  BY DEF LostOnlyByReuse, CounterIsHighest, NothingLost
<1>2. QED
  BY <1>1, LostOnlyByReuseHolds, CounterIsHighestHolds, PTL

-----------------------------------------------------------------------------
(***************************************************************************)
(* Order: before the first restart numbers grow, so that the segments are  *)
(* in the order of what was appended to them.                              *)
(***************************************************************************)
WrittenIsLogged == \A s \in Segments : EntriesOf(s) \subseteq Logged

\* What is appended goes after everything that was.
ActiveIsNewest ==
    restarts = 0 /\ ~stopped => \A s \in Segments : s > active => EntriesOf(s) = {}

SegmentsInOrder ==
    restarts = 0 =>
        \A s, t \in Segments : s < t =>
            \A e \in EntriesOf(s), f \in EntriesOf(t) : Before(e, f)

PassAscends == loop = "scan" => \A t \in todo : seg < t

OrderInv == WrittenIsLogged /\ ActiveIsNewest /\ SegmentsInOrder /\ PassAscends

\* A write adds its entry to one segment, and to the log after all others.
LEMMA WriteAdds ==
    ASSUME TypeOK, NEW e \in Entries, NEW n \in Segments, WriteTo(n, e)
    PROVE  /\ EntriesOf(n)' = EntriesOf(n) \cup {e}
           /\ \A s \in Segments : s # n => EntriesOf(s)' = EntriesOf(s)
           /\ Logged' = Logged \cup {e}
           /\ \A f \in Logged : Before(f, e)'
           /\ \A f, g : Before(f, g) => Before(f, g)'
<1> USE DEF TypeOK, WriteTo
<1>1. EntriesOf(n)' = EntriesOf(n) \cup {e}
  <2>1. disk'[n] = Append(disk[n], e) /\ disk[n] \in Seq(Entries)
    OBVIOUS
  <2>2. Len(disk'[n]) = Len(disk[n]) + 1 /\ Len(disk[n]) \in Nat
    BY <2>1
  <2>3. disk'[n][Len(disk[n]) + 1] = e
    BY <2>1
  <2>4. \A i \in 1 .. Len(disk[n]) : disk'[n][i] = disk[n][i]
    BY <2>1
  <2>5. 1 .. Len(disk'[n]) = 1 .. Len(disk[n]) \cup {Len(disk[n]) + 1}
    BY ONLY <2>2
  <2>6. QED
    BY <2>3, <2>4, <2>5 DEF EntriesOf
<1>2. \A s \in Segments : s # n => EntriesOf(s)' = EntriesOf(s)
  BY DEF EntriesOf
<1>3. /\ Len(log) \in Nat /\ Len(log') = Len(log) + 1
      /\ log'[Len(log) + 1] = e
      /\ \A i \in 1 .. Len(log) : log'[i] = log[i]
  OBVIOUS
<1>4. 1 .. Len(log') = 1 .. Len(log) \cup {Len(log) + 1}
  BY ONLY <1>3
<1>5. Logged' = Logged \cup {e}
  BY <1>3, <1>4 DEF Logged
<1>6. ASSUME NEW f \in Logged PROVE Before(f, e)'
  <2>1. PICK i \in 1 .. Len(log) : log[i] = f
    BY DEF Logged
  <2>2. i < Len(log) + 1 /\ i \in 1 .. Len(log') /\ Len(log) + 1 \in 1 .. Len(log')
    BY <1>3
  <2>3. QED
    BY <1>3, <2>1, <2>2 DEF Before
<1>7. ASSUME NEW f, NEW g, Before(f, g) PROVE Before(f, g)'
  <2>1. PICK i, j \in 1 .. Len(log) : i < j /\ log[i] = f /\ log[j] = g
    BY <1>7 DEF Before
  <2>2. QED
    BY <1>3, <1>4, <2>1 DEF Before
<1>8. QED
  BY <1>1, <1>2, <1>5, <1>6, <1>7

\* So a write to the newest segment keeps the order.
LEMMA WriteKeepsOrder ==
    ASSUME TypeOK, OrderInv, NEW e \in Entries, NEW n \in Segments, WriteTo(n, e),
           restarts = 0 => \A s \in Segments : s > n => EntriesOf(s) = {},
           active' = n, UNCHANGED <<restarts, loop, todo, seg>>
    PROVE  OrderInv'
<1> USE WriteAdds
<1>1. WrittenIsLogged'
  <2> SUFFICES ASSUME NEW s \in Segments PROVE EntriesOf(s)' \subseteq Logged'
    BY DEF WrittenIsLogged
  <2>1. CASE s = n
    BY <2>1 DEF OrderInv, WrittenIsLogged
  <2>2. CASE s # n
    BY <2>2 DEF OrderInv, WrittenIsLogged
  <2>3. QED
    BY <2>1, <2>2
<1>2. ActiveIsNewest'
  <2> SUFFICES ASSUME restarts = 0, NEW s \in Segments, s > n PROVE EntriesOf(s)' = {}
    BY DEF ActiveIsNewest
  <2>1. s # n
    OBVIOUS
  <2>2. QED
    BY <2>1
<1>3. SegmentsInOrder'
  <2> SUFFICES ASSUME restarts = 0, NEW s \in Segments, NEW t \in Segments, s < t,
                      NEW f \in EntriesOf(s)', NEW g \in EntriesOf(t)'
               PROVE  Before(f, g)'
    BY DEF SegmentsInOrder
  <2>1. s # n
    <3>1. CASE s = n
      <4>1. t # n /\ EntriesOf(t) = {}
        BY <3>1
      <4>2. QED
        BY <4>1
    <3>2. QED
      BY <3>1
  <2>2. f \in EntriesOf(s) /\ f \in Logged
    BY <2>1 DEF OrderInv, WrittenIsLogged
  <2>3. CASE t = n /\ g = e
    BY <2>2, <2>3
  <2>4. CASE g \in EntriesOf(t)
    BY <2>2, <2>4 DEF OrderInv, SegmentsInOrder
  <2>5. QED
    BY <2>3, <2>4
<1>4. PassAscends'
  BY DEF OrderInv, PassAscends
<1>5. QED
  BY <1>1, <1>2, <1>3, <1>4 DEF OrderInv

LEMMA NextOrder == TypeOK /\ CounterIsHighest /\ OrderInv /\ [Next]_vars => OrderInv'
<1> SUFFICES ASSUME TypeOK, CounterIsHighest, OrderInv, [Next]_vars PROVE OrderInv'
  OBVIOUS
<1>1. ASSUME NEW e \in Entries, AppendEntry(e) PROVE OrderInv'
  <2>1. active \in Segments
    BY <1>1 DEF AppendEntry, ShouldRotate, TypeOK
  <2>2. /\ WriteTo(active, e) /\ ~stopped /\ active' = active
        /\ UNCHANGED <<restarts, loop, todo, seg>>
    BY <1>1 DEF AppendEntry, passVars
  <2>3. restarts = 0 => \A s \in Segments : s > active => EntriesOf(s) = {}
    BY <2>2 DEF OrderInv, ActiveIsNewest
  <2>4. QED
    BY <2>1, <2>2, <2>3, WriteKeepsOrder
<1>2. ASSUME NEW e \in Entries, RotateAndAppend(e) PROVE OrderInv'
  <2> DEFINE n == counter + 1
  <2>1. n \in Segments /\ WriteTo(n, e) /\ active' = n /\ UNCHANGED <<restarts, loop, todo, seg>>
    BY <1>2 DEF RotateAndAppend, OpenSegment, passVars
  <2>2. restarts = 0 => \A s \in Segments : s > n => EntriesOf(s) = {}
    <3> SUFFICES ASSUME restarts = 0, NEW s \in Segments, s > n PROVE EntriesOf(s) = {}
      OBVIOUS
    <3>1. s > counter
      BY DEF TypeOK
    <3>2. disk[s] = <<>>
      BY <3>1 DEF CounterIsHighest
    <3>3. QED
      BY <3>2 DEF EntriesOf
  <2> HIDE DEF n
  <2>3. QED
    BY <2>1, <2>2, WriteKeepsOrder
<1>3. ASSUME UNCHANGED <<disk, log>>
      PROVE  /\ \A s \in Segments : EntriesOf(s)' = EntriesOf(s)
             /\ Logged' = Logged
             /\ \A e, f : Before(e, f)' <=> Before(e, f)
  BY <1>3 DEF EntriesOf, Logged, Before
<1>4. ASSUME UNCHANGED <<disk, log>>, restarts' = 0 => restarts = 0,
             UNCHANGED <<active, stopped>> \/ stopped' \/ restarts' # 0,
             loop' # "scan" \/ UNCHANGED <<loop, todo, seg>>
      PROVE  OrderInv'
  <2>1. WrittenIsLogged' /\ SegmentsInOrder'
    BY <1>3, <1>4 DEF OrderInv, WrittenIsLogged, SegmentsInOrder
  <2>2. ActiveIsNewest'
    BY <1>3, <1>4 DEF OrderInv, ActiveIsNewest
  <2>3. PassAscends'
    BY <1>4 DEF OrderInv, PassAscends
  <2>4. QED
    BY <2>1, <2>2, <2>3 DEF OrderInv
<1>5. CASE OpenNext
  <2>1. /\ UNCHANGED <<disk, log, active, stopped, restarts>>
        /\ \E s \in todo : /\ \A t \in todo : s <= t
                           /\ todo' = todo \ {s} /\ seg' = s
    BY <1>5 DEF OpenNext, walVars, histVars
  <2>2. todo \subseteq Segments
    BY DEF TypeOK
  <2>3. PassAscends'
    BY <2>1, <2>2 DEF PassAscends
  <2>4. WrittenIsLogged' /\ SegmentsInOrder' /\ ActiveIsNewest'
    BY <1>3, <2>1 DEF OrderInv, WrittenIsLogged, SegmentsInOrder, ActiveIsNewest
  <2>5. QED
    BY <2>3, <2>4 DEF OrderInv
<1>6. CASE ReplayEntry
  BY <1>4, <1>6 DEF ReplayEntry, walVars, histVars
<1>7. CASE Restart
  <2>1. restarts' # 0 /\ loop' = "idle" /\ UNCHANGED <<disk, log>>
    BY <1>7 DEF Restart, TypeOK
  <2>2. QED
    BY <1>4, <2>1
<1>8. CASE Stop
  BY <1>4, <1>8 DEF Stop, passVars, histVars
<1>9. CASE \/ RotationFails \/ SegmentAges \/ StartPass \/ EndOfSegment \/ RemoveSegment
           \/ EndPass \/ LoopExits \/ BackendChanges \/ UNCHANGED vars
  <2>1. /\ UNCHANGED <<disk, log, restarts, active, stopped>>
        /\ loop' # "scan" \/ UNCHANGED <<loop, todo, seg>>
    BY <1>9 DEF RotationFails, SegmentAges, StartPass, EndOfSegment, RemoveSegment,
                EndPass, LoopExits, BackendChanges, vars, walVars, passVars, histVars
  <2>2. QED
    BY <1>4, <2>1
<1>10. QED
  BY <1>1, <1>2, <1>5, <1>6, <1>7, <1>8, <1>9 DEF Next, RetryLoop

(* Until the first restart what a pass replays was appended before all it  *)
(* has still to reach.                                                     *)
THEOREM OldestFirstHolds == Spec => [](restarts = 0 => OldestFirst)
<1>1. Init => OrderInv
  BY DEF Init, OrderInv, WrittenIsLogged, ActiveIsNewest, SegmentsInOrder, PassAscends,
         EntriesOf
<1>2. TypeOK /\ OrderInv => (restarts = 0 => OldestFirst)
  <2> SUFFICES ASSUME TypeOK, OrderInv, restarts = 0, loop = "scan", NEW t \in todo,
                      NEW e \in EntriesOf(seg), NEW f \in EntriesOf(t)
               PROVE  Before(e, f)
    BY DEF OldestFirst
  <2>1. seg \in Segments /\ t \in Segments /\ seg < t
    BY DEF TypeOK, OrderInv, PassAscends
  <2>2. QED
    BY <2>1 DEF OrderInv, SegmentsInOrder
<1>3. QED
  BY <1>1, <1>2, NextOrder, CounterIsHighestHolds, TypeCorrect, PTL DEF Spec

-----------------------------------------------------------------------------
(***************************************************************************)
(* Refinement: a log that is never restarted implements DurableLog.        *)
(***************************************************************************)
InFiles == UNION {EntriesOf(s) : s \in files}

LEMMA AppendLogs ==
    ASSUME TypeOK, NEW e \in Entries, NEW n \in Segments, WriteTo(n, e),
           files' = files \cup {n}, n \in files \/ disk[n] = <<>>
    PROVE  InFiles' = InFiles \cup {e}
<1> USE DEF TypeOK, WriteTo
<1>1. EntriesOf(n)' = EntriesOf(n) \cup {e}
  BY WriteAdds
<1>2. \A s \in Segments : s # n => EntriesOf(s)' = EntriesOf(s)
  BY WriteAdds
<1>3. n \notin files => EntriesOf(n) = {}
  BY DEF EntriesOf
<1>4. QED
  BY <1>1, <1>2, <1>3 DEF InFiles

(* Replaying an entry delivers one that is in the log. *)
LEMMA ReplayDelivers ==
    ASSUME IInv, ReplayEntry
    PROVE  (\E e \in Entries : Abstract!Deliver(e)) \/ UNCHANGED Abstract!vars
<1> USE DEF TypeOK
<1>1. seg \in files /\ seg \in Segments
  BY DEF ReplayEntry, IInv, PassFilesExist, InFile
<1>2. UNCHANGED InFiles
  BY DEF ReplayEntry, walVars, InFiles, EntriesOf
<1>3. CASE delivered' = delivered
  BY <1>2, <1>3 DEF Abstract!vars, InFiles
<1>4. CASE delivered' = delivered \cup {disk[seg][pos + 1]}
  <2>1. pos + 1 \in 1 .. Len(disk[seg]) /\ disk[seg][pos + 1] \in Entries
    BY <1>1 DEF ReplayEntry, IInv
  <2>2. disk[seg][pos + 1] \in InFiles
    BY <1>1, <2>1 DEF InFiles, EntriesOf
  <2>3. QED
    BY <1>2, <1>4, <2>1, <2>2 DEF Abstract!Deliver, InFiles
<1>5. QED
  BY <1>3, <1>4 DEF ReplayEntry

(* Deleting a segment forgets delivered entries only. *)
LEMMA RemoveForgets ==
    ASSUME IInv, reused = {}, RemoveSegment
    PROVE  \E done \in SUBSET Entries : Abstract!Forget(done)
<1> USE DEF TypeOK
<1>1. seg \in files /\ seg \in Segments
  BY DEF RemoveSegment, IInv, PassFilesExist, InFile
<1>2. \A s \in Segments : EntriesOf(s)' = EntriesOf(s)
  BY DEF RemoveSegment, EntriesOf
<1>3. EntriesOf(seg) \subseteq delivered
  <2>1. allOk /\ pos = Len(disk[seg])
    BY DEF RemoveSegment, IInv, RemoveIsComplete
  <2>2. \A i \in 1 .. Len(disk[seg]) : disk[seg][i] \in delivered
    BY <2>1 DEF RemoveSegment, IInv, ReadIsDelivered, InFile
  <2>3. QED
    BY <2>2 DEF EntriesOf
<1>4. files' = files \ {seg} /\ files \subseteq Segments
  BY DEF RemoveSegment, IInv
<1>5. InFiles' \subseteq InFiles
  BY <1>2, <1>4 DEF InFiles
<1>6. InFiles \ InFiles' \subseteq delivered
  BY <1>2, <1>3, <1>4 DEF InFiles
<1>7. InFiles \ InFiles' \in SUBSET Entries
  <2>1. \A s \in Segments : EntriesOf(s) \subseteq Entries
    BY DEF IInv, EntriesOf
  <2>2. QED
    BY <1>4, <2>1 DEF InFiles
<1>8. Abstract!Forget(InFiles \ InFiles')
  BY <1>5, <1>6 DEF Abstract!Forget, InFiles, RemoveSegment
<1>9. QED
  BY <1>7, <1>8

LEMMA StepRefines ==
    ASSUME MaxRestarts = 0, IInv, CounterIsHighest, [Next]_vars
    PROVE  [Abstract!Next]_(Abstract!vars)
<1> USE DEF TypeOK
<1>1. restarts = 0 /\ reused = {} /\ TypeOK
  BY DEF IInv, CounterIsHighest
<1>2. ASSUME NEW e \in Entries, AppendEntry(e) PROVE Abstract!Log(e)
  <2>1. PICK n \in Segments : n = active
    BY <1>1, <1>2 DEF AppendEntry, ShouldRotate
  <2>2. n \in files
    BY <1>1, <2>1 DEF IInv, ActiveExists
  <2>3. WriteTo(n, e) /\ files' = files \cup {n} /\ delivered' = delivered
    BY <1>2, <2>1, <2>2 DEF AppendEntry
  <2>4. InFiles' = InFiles \cup {e}
    BY <1>1, <2>2, <2>3, AppendLogs
  <2>5. QED
    BY <2>3, <2>4 DEF Abstract!Log, InFiles
<1>3. ASSUME NEW e \in Entries, RotateAndAppend(e) PROVE Abstract!Log(e)
  <2>1. PICK n \in Segments : n = counter + 1
    BY <1>3 DEF RotateAndAppend, OpenSegment
  <2>2. disk[n] = <<>>
    BY <1>1, <2>1 DEF CounterIsHighest
  <2>3. WriteTo(n, e) /\ files' = files \cup {n} /\ delivered' = delivered
    BY <1>3, <2>1 DEF RotateAndAppend, OpenSegment
  <2>4. InFiles' = InFiles \cup {e}
    BY <1>1, <2>2, <2>3, AppendLogs
  <2>5. QED
    BY <2>3, <2>4 DEF Abstract!Log, InFiles
<1>4. CASE ReplayEntry
  BY <1>4, ReplayDelivers DEF Abstract!Next
<1>5. CASE RemoveSegment
  BY <1>1, <1>5, RemoveForgets DEF Abstract!Next
<1>6. CASE Restart
  BY <1>1, <1>6 DEF Restart
<1>7. ASSUME UNCHANGED <<files, disk, delivered>> PROVE UNCHANGED Abstract!vars
  BY <1>7 DEF Abstract!vars, EntriesOf
<1>8. QED
  BY <1>2, <1>3, <1>4, <1>5, <1>6, <1>7
     DEF Next, RetryLoop, RotationFails, SegmentAges, StartPass, OpenNext, EndOfSegment,
         EndPass, LoopExits, BackendChanges, Stop, vars, walVars, Abstract!Next

(***************************************************************************)
(* A log whose process is never restarted implements DurableLog: no entry  *)
(* leaves the directory before the backend has accepted it, whatever fails *)
(* in between.                                                             *)
(***************************************************************************)
THEOREM RefinesDurableLog ==
    ASSUME MaxRestarts = 0
    PROVE  Spec => ImplementsDurableLog
<1>1. Init => Abstract!Init
  BY DEF Init, Abstract!Init, EntriesOf
<1>2. IInv /\ CounterIsHighest /\ [Next]_vars => [Abstract!Next]_(Abstract!vars)
  BY StepRefines
<1>3. QED
  BY <1>1, <1>2, IInvHolds, CounterIsHighestHolds, PTL
     DEF Spec, ImplementsDurableLog, Abstract!Spec
=============================================================================
