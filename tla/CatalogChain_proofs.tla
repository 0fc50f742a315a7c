------------------------- MODULE CatalogChain_proofs -------------------------
(***************************************************************************)
(* Proofs about CatalogChain and the log it extends, for any number of     *)
(* layers, entities, concurrent requests and restarts, and any size of a   *)
(* segment.                                                                *)
(***************************************************************************)
EXTENDS CatalogChain, FiniteSetTheorems, SequenceTheorems, TLAPS

USE WALAssumption, ChainAssumption

-----------------------------------------------------------------------------
(* The log: what its operations keep                                       *)

Segment == [entries : Seq(Entries), sealed : BOOLEAN]

Pass == [pos : Nat, last : Nat, line : Nat \ {0}, ok : BOOLEAN, over : BOOLEAN]

\* A pass stays within the listing, and has read nothing of what it skips.
LogOK ==
    /\ segments \in Seq(Segment)
    /\ active \in Seq(Entries)
    /\ open \in BOOLEAN
    /\ stopped \in BOOLEAN
    /\ pass \in Pass
    /\ pass.last <= Len(segments)
    /\ InPass /\ ~segments[pass.pos].sealed => pass.line = 1

\* The segments stay where they are; the active one is kept or closed.
Keeps ==
    /\ segments' \in Seq(Segment)
    /\ active' \in Seq(Entries)
    /\ Len(segments) <= Len(segments')
    /\ \A i \in 1 .. Len(segments) : segments'[i] = segments[i]
    /\ \A e : In(e, active) =>
          \/ In(e, active')
          \/ \E i \in 1 .. Len(segments') : i > Len(segments) /\ In(e, segments'[i].entries)

LEMMA ClosedStep ==
    ASSUME LogOK, NEW renamed \in BOOLEAN, segments' = Closed(renamed),
           active' \in Seq(Entries)
    PROVE  Keeps
<1>1. CASE active = <<>>
  BY <1>1 DEF LogOK, Closed, Keeps, In
<1>2. CASE active # <<>>
  <2> DEFINE segment == [entries |-> active, sealed |-> renamed]
  <2>1. segment \in Segment /\ segment.entries = active
    BY DEF LogOK, Segment
  <2>2. segments' = Append(segments, segment)
    BY <1>2 DEF Closed
  <2> HIDE DEF segment
  <2>3. /\ segments' \in Seq(Segment)
        /\ Len(segments') = Len(segments) + 1
        /\ \A i \in 1 .. Len(segments) : segments'[i] = segments[i]
        /\ segments'[Len(segments) + 1] = segment
    BY <2>1, <2>2, AppendProperties DEF LogOK
  <2>4. Len(segments) \in Nat
    BY DEF LogOK
  <2>5. Len(segments) + 1 \in 1 .. Len(segments')
    BY <2>3, <2>4
  <2>6. \A e : In(e, active) => In(e, segments'[Len(segments) + 1].entries)
    BY <2>1, <2>3
  <2>7. QED
    BY <2>3, <2>4, <2>5, <2>6 DEF Keeps
<1>3. QED
  BY <1>1, <1>2

LEMMA NothingChanges ==
    ASSUME LogOK, UNCHANGED <<segments, active>>
    PROVE  Keeps
BY DEF LogOK, Keeps

LEMMA RotateFailsStep ==
    ASSUME LogOK, RotateFails
    PROVE  Keeps /\ open' \in BOOLEAN
<1>1. PICK renamed \in BOOLEAN : segments' = Closed(renamed)
  BY DEF RotateFails
<1>2. active' = <<>> /\ active' \in Seq(Entries) /\ open' = FALSE
  BY DEF RotateFails
<1>3. QED
  BY <1>1, <1>2, ClosedStep

LEMMA AppendStep ==
    ASSUME LogOK, NEW e \in Entries, WalAppend(e)
    PROVE  /\ Keeps /\ In(e, active')
           /\ open' \in BOOLEAN
           /\ UNCHANGED <<stopped, pass>>
<1>1. CASE active' = Append(active, e) /\ UNCHANGED <<segments, open>>
  <2>1. /\ active' \in Seq(Entries)
        /\ Len(active') = Len(active) + 1
        /\ \A i \in 1 .. Len(active) : active'[i] = active[i]
        /\ active'[Len(active) + 1] = e
    BY <1>1, AppendProperties DEF LogOK
  <2>2. DOMAIN active = 1 .. Len(active) /\ Len(active) \in Nat
          /\ DOMAIN active' = 1 .. Len(active')
    BY <2>1 DEF LogOK
  <2>3. \A f : In(f, active) => In(f, active')
    BY <2>1, <2>2 DEF In
  <2>4. In(e, active')
    BY <2>1, <2>2 DEF In
  <2>5. Keeps
    BY <1>1, <2>1, <2>3 DEF Keeps, LogOK
  <2>6. QED
    BY <1>1, <2>4, <2>5 DEF WalAppend, LogOK
<1>2. CASE Rotate(<<e>>)
  <2>1. active' = <<e>> /\ segments' = Closed(TRUE) /\ open' = TRUE
    BY <1>2 DEF Rotate
  <2>2. <<e>> \in Seq(Entries) /\ In(e, <<e>>)
    BY DEF In
  <2>3. Keeps
    BY <2>1, <2>2, ClosedStep
  <2>4. QED
    BY <2>1, <2>2, <2>3 DEF WalAppend
<1>3. QED
  BY <1>1, <1>2 DEF WalAppend

LEMMA AppendFailsStep ==
    ASSUME LogOK, WalAppendFails
    PROVE  Keeps /\ open' \in BOOLEAN /\ UNCHANGED <<stopped, pass>>
BY NothingChanges, RotateFailsStep DEF WalAppendFails, LogOK

\* The log stays well formed under everything that keeps it, pass and all.
LEMMA KeepsLogOK ==
    ASSUME LogOK, Keeps, UNCHANGED pass, open' \in BOOLEAN, stopped' \in BOOLEAN
    PROVE  LogOK'
<1>1. Len(segments) \in Nat /\ Len(segments') \in Nat /\ pass.last \in Nat /\ pass.pos \in Nat
  BY DEF LogOK, Keeps, Pass
<1>2. InPass => pass.pos \in 1 .. Len(segments)
  BY <1>1 DEF InPass, LogOK
<1>3. InPass => segments'[pass.pos] = segments[pass.pos]
  BY <1>2 DEF Keeps
<1>4. pass.last <= Len(segments')
  BY <1>1 DEF LogOK, Keeps
<1>5. QED
  BY <1>3, <1>4 DEF LogOK, Keeps, InPass

\* What is in the log stays in it.
LEMMA KeepsLogged ==
    ASSUME LogOK, Keeps, NEW e, Logged(e)
    PROVE  Logged(e)'
<1>1. /\ DOMAIN segments = 1 .. Len(segments) /\ DOMAIN segments' = 1 .. Len(segments')
      /\ Len(segments) \in Nat /\ Len(segments') \in Nat
  BY DEF LogOK, Keeps
<1>2. CASE In(e, active)
  BY <1>1, <1>2 DEF Keeps, Logged
<1>3. CASE \E i \in DOMAIN segments : In(e, segments[i].entries)
  <2>1. PICK i \in DOMAIN segments : In(e, segments[i].entries)
    BY <1>3
  <2>2. i \in DOMAIN segments' /\ segments'[i] = segments[i]
    BY <1>1 DEF Keeps
  <2>3. QED
    BY <2>1, <2>2 DEF Logged
<1>4. QED
  BY <1>2, <1>3 DEF Logged


-----------------------------------------------------------------------------
(* The log: a pass over it, and its end                                    *)

LEMMA NoPassTyped == NoPass \in Pass /\ NoPass.pos = 0 /\ NoPass.last = 0
BY DEF NoPass, Pass

LEMMA StartPassStep ==
    ASSUME LogOK, StartPass
    PROVE  Keeps /\ LogOK' /\ pass'.line = 1
<1>1. Keeps /\ open' \in BOOLEAN
  <2>1. CASE Rotate(<<>>)
    <3>1. active' = <<>> /\ active' \in Seq(Entries) /\ segments' = Closed(TRUE) /\ open' = TRUE
      BY <2>1 DEF Rotate
    <3>2. QED
      BY <3>1, ClosedStep
  <2>2. CASE RotateFails
    BY <2>2, RotateFailsStep
  <2>3. QED
    BY <2>1, <2>2 DEF StartPass
<1>2. pass' = [pos |-> 1, last |-> Len(segments'), line |-> 1, ok |-> TRUE, over |-> FALSE]
  BY DEF StartPass, NoPass
<1>3. Len(segments') \in Nat
  BY <1>1 DEF Keeps
<1>4. pass' \in Pass /\ pass'.last = Len(segments') /\ pass'.line = 1
  BY <1>2, <1>3 DEF Pass
<1>5. stopped' \in BOOLEAN
  BY DEF StartPass, LogOK
<1>6. LogOK'
  BY <1>1, <1>3, <1>4, <1>5 DEF LogOK, Keeps
<1>7. QED
  BY <1>1, <1>4, <1>6

LEMMA SkipStep ==
    ASSUME LogOK, SkipUnsealed
    PROVE  Keeps /\ LogOK' /\ pass'.line = 1
<1>1. /\ pass' = [pass EXCEPT !.pos = pass.pos + 1] /\ InPass /\ ~segments[pass.pos].sealed
      /\ UNCHANGED <<segments, active, open, stopped>>
  BY DEF SkipUnsealed
<1>2. pass' \in Pass /\ pass'.line = 1 /\ pass'.last = pass.last
  <2> DEFINE next == pass.pos + 1
  <2>1. next \in Nat /\ pass \in Pass /\ pass.line = 1
    BY <1>1 DEF LogOK, Pass
  <2>2. pass' = [pass EXCEPT !.pos = next]
    BY <1>1
  <2> HIDE DEF next
  <2>3. QED
    BY <2>1, <2>2 DEF Pass
<1>3. Keeps
  BY <1>1, NothingChanges
<1>4. QED
  BY <1>1, <1>2, <1>3 DEF LogOK, InPass

LEMMA ReplayedStep ==
    ASSUME LogOK, NEW ok \in BOOLEAN, Replayed(ok)
    PROVE  /\ LogOK'
           /\ InPass /\ pass.pos \in 1 .. Len(segments)
           /\ pass.line \in DOMAIN segments[pass.pos].entries /\ Line \in Entries
           /\ pass'.pos = pass.pos /\ pass'.line = pass.line + 1
           /\ pass'.ok = (pass.ok /\ ok)
           /\ UNCHANGED <<segments, active>>
<1> DEFINE both == pass.ok /\ ok
<1>1. /\ pass' = [pass EXCEPT !.line = pass.line + 1, !.ok = both]
      /\ InPass /\ segments[pass.pos].sealed
      /\ pass.line <= Len(segments[pass.pos].entries)
      /\ UNCHANGED <<segments, active, open, stopped>>
  BY DEF Replayed, Replaying
<1>2. /\ pass' \in Pass /\ pass'.pos = pass.pos /\ pass'.last = pass.last
      /\ pass'.line = pass.line + 1 /\ pass'.ok = both
  <2>1. both \in BOOLEAN
    BY DEF LogOK, Pass
  <2> DEFINE next == pass.line + 1
  <2>2. next \in Nat \ {0} /\ pass \in Pass
    BY DEF LogOK, Pass
  <2>3. pass' = [pass EXCEPT !.line = next, !.ok = both]
    BY <1>1
  <2> HIDE DEF both, next
  <2>4. /\ pass'.pos = pass.pos /\ pass'.last = pass.last
        /\ pass'.line = next /\ pass'.ok = both
    BY <2>2, <2>3 DEF Pass
  <2>5. pass' \in Pass
    BY <2>1, <2>2, <2>3, Zenon DEF Pass
  <2>6. QED
    BY <2>4, <2>5 DEF next
<1>3. pass.pos \in 1 .. Len(segments) /\ pass.line \in Nat \ {0} /\ Len(segments) \in Nat
  <2>1. pass.pos \in Nat /\ pass.last \in Nat /\ pass.line \in Nat \ {0}
    BY DEF LogOK, Pass
  <2>2. QED
    BY <1>1, <2>1 DEF InPass, LogOK
<1>4. segments[pass.pos].entries \in Seq(Entries)
  <2>1. segments[pass.pos] \in Segment
    BY <1>3 DEF LogOK
  <2>2. QED
    BY <2>1 DEF Segment
<1>5. pass.line \in DOMAIN segments[pass.pos].entries /\ Line \in Entries
  BY <1>1, <1>3, <1>4 DEF Line
<1>6. LogOK'
  BY <1>1, <1>2 DEF LogOK, InPass
<1>7. QED
  BY <1>1, <1>2, <1>3, <1>5, <1>6

\* A deletion moves the later segments up by one.
LEMMA WithoutCurrentIs ==
    ASSUME LogOK, InPass
    PROVE  /\ pass.pos \in 1 .. Len(segments) /\ Len(segments) \in Nat
           /\ WithoutCurrent \in Seq(Segment)
           /\ Len(WithoutCurrent) = Len(segments) - 1
           /\ \A i \in 1 .. Len(segments) - 1 :
                WithoutCurrent[i] = IF i < pass.pos THEN segments[i] ELSE segments[i + 1]
<1> DEFINE n == Len(segments)
           p == pass.pos
           before == SubSeq(segments, 1, p - 1)
           after == SubSeq(segments, p + 1, n)
<1>1. p \in 1 .. n /\ n \in Nat
  BY DEF LogOK, InPass, Pass
<1>2. \A i \in 1 .. n : segments[i] \in Segment
  BY DEF LogOK
<1> HIDE DEF n, p
<1>3. /\ before \in Seq(Segment)
      /\ Len(before) = p - 1
      /\ \A i \in 1 .. p - 1 : before[i] = segments[i]
  <2>1. p - 1 \in Int /\ \A i \in 1 .. p - 1 : segments[i] \in Segment
    BY <1>1, <1>2
  <2>2. /\ SubSeq(segments, 1, p - 1) \in Seq(Segment)
        /\ Len(SubSeq(segments, 1, p - 1)) = IF 1 <= p - 1 THEN p - 1 - 1 + 1 ELSE 0
        /\ \A i \in 1 .. p - 1 - 1 + 1 : SubSeq(segments, 1, p - 1)[i] = segments[1 + i - 1]
    BY <2>1, SubSeqProperties
  <2>3. QED
    BY <1>1, <2>2
<1>4. /\ after \in Seq(Segment)
      /\ Len(after) = n - p
      /\ \A i \in 1 .. n - p : after[i] = segments[p + i]
  <2>1. p + 1 \in Int /\ n \in Int /\ \A i \in p + 1 .. n : segments[i] \in Segment
    BY <1>1, <1>2
  <2>2. /\ SubSeq(segments, p + 1, n) \in Seq(Segment)
        /\ Len(SubSeq(segments, p + 1, n)) = IF p + 1 <= n THEN n - (p + 1) + 1 ELSE 0
        /\ \A i \in 1 .. n - (p + 1) + 1 : SubSeq(segments, p + 1, n)[i] = segments[p + 1 + i - 1]
    BY <2>1, SubSeqProperties
  <2>3. QED
    BY <1>1, <2>2
<1> HIDE DEF before, after
<1>5. /\ before \o after \in Seq(Segment)
      /\ Len(before \o after) = Len(before) + Len(after)
      /\ \A i \in 1 .. Len(before) + Len(after) :
           (before \o after)[i] = IF i <= Len(before) THEN before[i] ELSE after[i - Len(before)]
  BY <1>3, <1>4, ConcatProperties
<1>6. Len(before \o after) = n - 1
  BY <1>1, <1>3, <1>4, <1>5
<1>7. \A i \in 1 .. n - 1 :
        (before \o after)[i] = IF i < p THEN segments[i] ELSE segments[i + 1]
  <2>1. SUFFICES ASSUME NEW i \in 1 .. n - 1
                 PROVE  (before \o after)[i] = IF i < p THEN segments[i] ELSE segments[i + 1]
    OBVIOUS
  <2>2. CASE i < p
    BY <1>1, <1>3, <1>4, <1>5, <2>2
  <2>3. CASE ~(i < p)
    <3>1. i - (p - 1) \in 1 .. n - p /\ p + (i - (p - 1)) = i + 1
      BY <1>1, <2>3
    <3>2. (before \o after)[i] = after[i - (p - 1)]
      BY <1>1, <1>3, <1>4, <1>5, <2>3
    <3>3. QED
      BY <1>4, <2>3, <3>1, <3>2
  <2>4. QED
    BY <2>2, <2>3
<1>8. WithoutCurrent = before \o after
  BY DEF WithoutCurrent, before, after, p, n
<1>9. QED
  BY <1>1, <1>5, <1>6, <1>7, <1>8 DEF n, p

LEMMA EndSegmentStep ==
    ASSUME LogOK, EndSegment
    PROVE  /\ LogOK' /\ UNCHANGED active /\ pass'.line = 1
           /\ InPass /\ pass.line > Len(segments[pass.pos].entries)
           /\ segments' = IF pass.ok THEN WithoutCurrent ELSE segments
<1>1. /\ InPass /\ pass.line > Len(segments[pass.pos].entries)
      /\ UNCHANGED <<active, open, stopped>>
  BY DEF EndSegment
<1>2. CASE pass.ok
  <2>1. /\ segments' = WithoutCurrent
        /\ pass' = [pos |-> pass.pos, last |-> pass.last - 1, line |-> 1,
                    ok |-> TRUE, over |-> FALSE]
    BY <1>2 DEF EndSegment, NoPass
  <2>2. pass.pos \in Nat /\ pass.last \in Nat /\ pass.pos \in 1 .. pass.last
    BY <1>1 DEF LogOK, Pass, InPass
  <2>3. pass' \in Pass /\ pass'.last = pass.last - 1 /\ pass'.line = 1
    BY <2>1, <2>2 DEF Pass
  <2>4. segments' \in Seq(Segment) /\ Len(segments') = Len(segments) - 1
    BY <1>1, <2>1, WithoutCurrentIs
  <2>5. pass'.last <= Len(segments')
    BY <2>2, <2>3, <2>4 DEF LogOK
  <2>6. LogOK'
    BY <1>1, <2>3, <2>4, <2>5 DEF LogOK
  <2>7. QED
    BY <1>1, <1>2, <2>1, <2>3, <2>6
<1>3. CASE ~pass.ok
  <2>1. /\ segments' = segments
        /\ pass' = [pos |-> pass.pos + 1, last |-> pass.last, line |-> 1,
                    ok |-> TRUE, over |-> FALSE]
    BY <1>3 DEF EndSegment, NoPass
  <2>2. pass' \in Pass /\ pass'.last = pass.last /\ pass'.line = 1
    BY <2>1 DEF Pass, LogOK
  <2>3. LogOK'
    BY <1>1, <2>1, <2>2 DEF LogOK
  <2>4. QED
    BY <1>1, <1>3, <2>1, <2>2, <2>3
<1>4. QED
  BY <1>2, <1>3

\* Nothing is being read after these.
LEMMA RestOfLog ==
    ASSUME LogOK, EndPass \/ LoopExits
    PROVE  Keeps /\ LogOK' /\ ~InPass'
<1>1. UNCHANGED <<segments, active, open, stopped>>
  BY DEF EndPass, LoopExits
<1>2. pass' \in Pass /\ pass'.last <= Len(segments) /\ pass'.pos = 0
  <2>1. CASE EndPass
    BY <2>1, NoPassTyped DEF EndPass, LogOK
  <2>2. CASE LoopExits
    <3>1. pass' = [pass EXCEPT !.over = TRUE] /\ pass.pos = 0
      BY <2>2 DEF LoopExits
    <3>2. QED
      BY <3>1 DEF LogOK, Pass
  <2>3. QED
    BY <2>1, <2>2
<1>3. Keeps
  BY <1>1, NothingChanges
<1>4. QED
  BY <1>1, <1>2, <1>3 DEF LogOK, InPass

LEMMA StopStep ==
    ASSUME LogOK, Stop
    PROVE  Keeps /\ LogOK' /\ UNCHANGED pass
<1>1. PICK renamed \in BOOLEAN : segments' = Closed(renamed)
  BY DEF Stop
<1>2. active' = <<>> /\ active' \in Seq(Entries) /\ open' = FALSE /\ stopped' = TRUE
  BY DEF Stop
<1>3. QED
  BY <1>1, <1>2, ClosedStep, KeepsLogOK DEF Stop

LEMMA ReopenStep ==
    ASSUME LogOK, Reopen
    PROVE  Keeps /\ LogOK' /\ ~InPass'
<1>1. active' = <<>> /\ active' \in Seq(Entries) /\ segments' = Closed(FALSE)
        /\ open' = TRUE /\ stopped' = FALSE
  BY DEF Reopen
<1>2. Keeps
  BY <1>1, ClosedStep
<1>3. pass' \in Pass /\ pass'.last = 0 /\ pass'.pos = 0
  BY NoPassTyped DEF Reopen
<1>4. pass'.last <= Len(segments') /\ ~InPass'
  <2>1. Len(segments') \in Nat
    BY <1>2 DEF Keeps
  <2>2. QED
    BY <1>3, <2>1 DEF InPass
<1>5. QED
  BY <1>1, <1>2, <1>3, <1>4 DEF LogOK, Keeps


-----------------------------------------------------------------------------
(* Layers                                                                  *)

\* A finite set of naturals has a least element and a greatest one: of the
\* elements below (above) each, some set has nothing in it.
LEMMA Extremes ==
    ASSUME NEW S \in SUBSET Nat, S # {}, IsFiniteSet(S)
    PROVE  /\ \E c \in S : \A d \in S : c <= d
           /\ \E c \in S : \A d \in S : d <= c
<1> DEFINE Below(c) == {d \in S : d < c}
           Above(c) == {d \in S : d > c}
           order == StrictSubsetOrdering(S)
<1>0. /\ \A c \in S : Below(c) \subseteq S /\ Above(c) \subseteq S
      /\ \A c, d \in S : /\ d \in Below(c) <=> d < c
                         /\ d \in Above(c) <=> d > c
      /\ S \subseteq Nat
  OBVIOUS
<1> HIDE DEF Below, Above
<1>1. IsWellFoundedOn(order, FiniteSubsetsOf(S))
  BY FS_StrictSubsetOrderingWellFounded
<1>2. \A c \in S : Below(c) \in FiniteSubsetsOf(S) /\ Above(c) \in FiniteSubsetsOf(S)
  BY <1>0, FS_Subset DEF FiniteSubsetsOf
<1>3. \E c \in S : \A d \in S : c <= d
  <2> DEFINE T == {Below(c) : c \in S}
  <2>1. T \subseteq FiniteSubsetsOf(S) /\ T # {}
    <3>1. ASSUME NEW x \in T PROVE x \in FiniteSubsetsOf(S)
      BY <1>2
    <3>2. QED
      BY <3>1
  <2>2. PICK x \in T : \A y \in T : <<y, x>> \notin order
    <3> HIDE DEF T, order
    <3>1. QED
      BY <1>1, <2>1, WFMin
  <2>3. PICK c \in S : x = Below(c)
    OBVIOUS
  <2>4. ASSUME NEW d \in S, ~(c <= d) PROVE FALSE
    <3>1. Below(d) \subseteq x /\ d \in x /\ d \notin Below(d) /\ x \in SUBSET S
      BY <1>0, <2>3, <2>4
    <3>2. <<Below(d), x>> \in order
      BY <3>1 DEF StrictSubsetOrdering
    <3>3. QED
      BY <2>2, <3>2
  <2>5. QED
    BY <2>4
<1>4. \E c \in S : \A d \in S : d <= c
  <2> DEFINE T == {Above(c) : c \in S}
  <2>1. T \subseteq FiniteSubsetsOf(S) /\ T # {}
    <3>1. ASSUME NEW x \in T PROVE x \in FiniteSubsetsOf(S)
      BY <1>2
    <3>2. QED
      BY <3>1
  <2>2. PICK x \in T : \A y \in T : <<y, x>> \notin order
    <3> HIDE DEF T, order
    <3>1. QED
      BY <1>1, <2>1, WFMin
  <2>3. PICK c \in S : x = Above(c)
    OBVIOUS
  <2>4. ASSUME NEW d \in S, ~(d <= c) PROVE FALSE
    <3>1. Above(d) \subseteq x /\ d \in x /\ d \notin Above(d) /\ x \in SUBSET S
      BY <1>0, <2>3, <2>4
    <3>2. <<Above(d), x>> \in order
      BY <3>1 DEF StrictSubsetOrdering
    <3>3. QED
      BY <2>2, <3>2
  <2>5. QED
    BY <2>4
<1>5. QED
  BY <1>3, <1>4

LEMMA ChainTyped ==
    ASSUME joined \subseteq Durable
    PROVE  /\ Chain \subseteq Layers /\ Chain \subseteq Nat /\ 1 \in Chain
           /\ IsFiniteSet(Chain)
<1>1. IsFiniteSet(joined)
  BY FS_Subset
<1>2. IsFiniteSet({1} \cup joined)
  BY <1>1, FS_AddElement
<1>3. QED
  BY <1>2 DEF Chain, Layers

LEMMA AfterTyped ==
    ASSUME joined \subseteq Durable, NEW i \in Layers, After(i) # 0
    PROVE  After(i) \in Durable /\ After(i) \in joined
<1> DEFINE rest == {j \in Chain : j > i}
<1>1. rest # {}
  BY DEF After
<1>2. rest \subseteq joined /\ rest \subseteq Nat
  <2>1. i \in Nat /\ ~(1 > i) /\ joined \subseteq Nat
    BY DEF Layers
  <2>2. QED
    BY <2>1 DEF Chain
<1>3. IsFiniteSet(rest)
  BY ChainTyped, FS_Subset
<1>4. \E j \in rest : \A k \in rest : j <= k
  <2> HIDE DEF rest
  <2>1. QED
    BY <1>1, <1>2, <1>3, Extremes
<1>5. (CHOOSE j \in rest : \A k \in rest : j <= k) \in rest
  <2> HIDE DEF rest
  <2>1. QED
    BY <1>4
<1>6. QED
  BY <1>1, <1>2, <1>5 DEF After

LEMMA LastTyped ==
    ASSUME joined \subseteq Durable
    PROVE  Last \in Chain /\ Last \in Layers
<1>1. \E i \in Chain : \A j \in Chain : j <= i
  BY ChainTyped, Extremes
<1>2. QED
  BY <1>1, ChainTyped DEF Last


-----------------------------------------------------------------------------
(* Requests, and what memory remembers                                     *)

LayersOK ==
    /\ copy \in [Layers -> [Ids -> Values \cup {None}]]
    /\ up \subseteq Durable
    /\ joined \subseteq Durable
    /\ answered \subseteq Ids
    /\ owed \subseteq Entries
    /\ restarts \in 0..MaxRestarts
    /\ \A id \in answered : copy[1][id] # None

\* What a request has in hand at each step.
Shaped(q) ==
    /\ q \in RequestState
    /\ q.at \in {"get", "write", "log"} => q.id \in Ids
    /\ q.at \in {"write", "log"} \/ q.goal = "register" => q.value \in Values
    /\ q.at = "log" => q.layer \in Durable

\* A second registration gets no further than memory; a first one is in memory
\* before it is anywhere else.
Remembered(q, memory, known) ==
    /\ q.again => q.at = "get" /\ q.layer = 1 /\ q.id \in known
    /\ q.at = "log" \/ (q.at = "write" /\ q.layer # 1) => memory[q.id] # None

RequestsOK ==
    /\ request \in [Requests -> RequestState]
    /\ \A r \in Requests : /\ Shaped(request[r])
                           /\ Remembered(request[r], copy[1], answered)

\* Memory forgets nothing.
Grows ==
    /\ \A id \in Ids : copy[1][id] # None => copy'[1][id] # None
    /\ answered \subseteq answered'

LEMMA Same == ASSUME UNCHANGED <<copy, answered>> PROVE Grows
BY DEF Grows

LEMMA IdleShaped ==
    /\ Idle \in RequestState /\ Shaped(Idle)
    /\ \A memory, known : Remembered(Idle, memory, known)
BY DEF Idle, RequestState, Shaped, Remembered, Layers

LEMMA RequestAt ==
    ASSUME RequestsOK, NEW r \in Requests
    PROVE  /\ request[r] \in RequestState /\ Shaped(request[r])
           /\ Remembered(request[r], copy[1], answered)
BY DEF RequestsOK

LEMMA RequestsStay ==
    ASSUME RequestsOK, Grows, UNCHANGED request
    PROVE  RequestsOK'
<1>1. ASSUME NEW r \in Requests PROVE Remembered(request[r], copy'[1], answered')
  BY RequestAt DEF Grows, Remembered, Shaped
<1>2. QED
  BY <1>1 DEF RequestsOK

LEMMA RequestChanges ==
    ASSUME RequestsOK, Grows, NEW r \in Requests, NEW q, Shaped(q),
           Remembered(q, copy'[1], answered'), request' = [request EXCEPT ![r] = q]
    PROVE  RequestsOK'
<1>1. \A s \in Requests : request'[s] = IF s = r THEN q ELSE request[s]
  BY DEF RequestsOK
<1>2. request' \in [Requests -> RequestState]
  BY DEF RequestsOK, Shaped
<1>3. ASSUME NEW s \in Requests, s # r
      PROVE  Shaped(request[s]) /\ Remembered(request[s], copy'[1], answered')
  BY RequestAt DEF Grows, Remembered, Shaped
<1>4. QED
  BY <1>1, <1>2, <1>3 DEF RequestsOK

LEMMA DoneStep ==
    ASSUME RequestsOK, Grows, NEW r \in Requests, Become(r, Idle)
    PROVE  RequestsOK'
BY IdleShaped, RequestChanges DEF Become

\* One layer is given one entity.
LEMMA Put ==
    ASSUME LayersOK, NEW l \in Layers, NEW id \in Ids, NEW value \in Values,
           copy' = [copy EXCEPT ![l][id] = value]
    PROVE  /\ copy' \in [Layers -> [Ids -> Values \cup {None}]]
           /\ copy'[l][id] # None
           /\ \A j \in Layers, k \in Ids : copy[j][k] # None => copy'[j][k] # None
<1>1. copy[l] \in [Ids -> Values \cup {None}]
  BY DEF LayersOK
<1>2. copy' = [copy EXCEPT ![l] = [copy[l] EXCEPT ![id] = value]]
  OBVIOUS
<1>3. [copy[l] EXCEPT ![id] = value] \in [Ids -> Values \cup {None}]
  BY <1>1
<1>4. \A k \in Ids : [copy[l] EXCEPT ![id] = value][k] = IF k = id THEN value ELSE copy[l][k]
  BY <1>1
<1> DEFINE new == [copy[l] EXCEPT ![id] = value]
<1> HIDE DEF new
<1>5. \A j \in Layers : copy'[j] = IF j = l THEN new ELSE copy[j]
  BY <1>2 DEF LayersOK, new
<1>6. copy' \in [Layers -> [Ids -> Values \cup {None}]]
  BY <1>2, <1>3 DEF LayersOK, new
<1>7. QED
  BY <1>4, <1>5, <1>6 DEF new

\* Layers may be given something as long as memory keeps what it has.
LEMMA LayersGrow ==
    ASSUME LayersOK, Grows, copy' \in [Layers -> [Ids -> Values \cup {None}]],
           UNCHANGED <<up, joined, answered, restarts>>, owed' \subseteq Entries
    PROVE  LayersOK'
BY DEF LayersOK, Grows

LEMMA LayersStay ==
    ASSUME LayersOK, UNCHANGED <<copy, up, joined, answered, owed, restarts>>
    PROVE  LayersOK' /\ Grows
BY DEF LayersOK, Grows


-----------------------------------------------------------------------------
(* The steps of a request                                                  *)

LEMMA BeginStep ==
    ASSUME LayersOK, RequestsOK, NEW r \in Requests,
           BeginGet(r) \/ BeginRegister(r) \/ BeginList(r)
    PROVE  LayersOK' /\ RequestsOK'
<1>0. UNCHANGED <<copy, up, joined, answered, owed, restarts>>
  <2>1. CASE BeginGet(r)
    BY <2>1 DEF BeginGet, historyVars
  <2>2. CASE BeginRegister(r)
    BY <2>2 DEF BeginRegister, historyVars
  <2>3. CASE BeginList(r)
    BY <2>3 DEF BeginList, historyVars
  <2>4. QED
    BY <2>1, <2>2, <2>3
<1>1. LayersOK' /\ Grows
  BY <1>0, LayersStay
<1>2. Idle \in RequestState
  BY IdleShaped
<1>3. CASE BeginGet(r)
  <2>1. PICK id \in Ids :
          Become(r, [Idle EXCEPT !.at = "get", !.goal = "get", !.id = id])
    BY <1>3 DEF BeginGet
  <2> DEFINE q == [Idle EXCEPT !.at = "get", !.goal = "get", !.id = id]
  <2>2. q \in RequestState /\ q.at = "get" /\ q.goal = "get" /\ q.id = id /\ q.again = FALSE
    BY <1>2 DEF RequestState, Idle
  <2>3. request' = [request EXCEPT ![r] = q]
    BY <2>1 DEF Become
  <2> HIDE DEF q
  <2>4. Shaped(q) /\ Remembered(q, copy'[1], answered')
    BY <2>2 DEF Shaped, Remembered
  <2>5. QED
    BY <1>1, <2>3, <2>4, RequestChanges
<1>4. CASE BeginRegister(r)
  <2>1. PICK id \in Ids, value \in Values :
          Become(r, [Idle EXCEPT !.at = "get", !.goal = "register", !.id = id,
                                !.value = value, !.again = id \in answered])
    BY <1>4 DEF BeginRegister
  <2> DEFINE again == id \in answered
             q == [Idle EXCEPT !.at = "get", !.goal = "register", !.id = id,
                               !.value = value, !.again = again]
  <2>2. again \in BOOLEAN
    OBVIOUS
  <2>3. request' = [request EXCEPT ![r] = q]
    BY <2>1 DEF Become
  <2>4. /\ q \in RequestState /\ q.at = "get" /\ q.goal = "register" /\ q.id = id
        /\ q.value = value /\ q.again = again /\ q.layer = 1
    <3> HIDE DEF again
    <3>1. QED
      BY <1>2, <2>2 DEF RequestState, Idle
  <2>5. UNCHANGED answered
    BY <1>4 DEF BeginRegister, historyVars
  <2> HIDE DEF q
  <2>6. Shaped(q) /\ Remembered(q, copy'[1], answered')
    BY <2>4, <2>5 DEF Shaped, Remembered
  <2>7. QED
    BY <1>1, <2>3, <2>6, RequestChanges
<1>5. CASE BeginList(r)
  <2> DEFINE fills == {[layer |-> i, id |-> id, value |-> copy[Last][id]] :
                    i \in Chain \ {Last}, id \in {id \in Ids : copy[Last][id] # None}}
             q == [Idle EXCEPT !.at = "fill", !.fills = fills]
  <2>1. Become(r, q)
    BY <1>5 DEF BeginList
  <2>2. ASSUME NEW f \in fills PROVE f \in [layer : Layers, id : Ids, value : Values]
    BY ChainTyped, LastTyped DEF LayersOK
  <2> HIDE DEF fills
  <2>3. q \in RequestState /\ q.at = "fill" /\ q.goal = "none" /\ q.again = FALSE
    BY <1>2, <2>2 DEF RequestState, Idle
  <2>4. request' = [request EXCEPT ![r] = q]
    BY <2>1 DEF Become
  <2> HIDE DEF q
  <2>5. Shaped(q) /\ Remembered(q, copy'[1], answered')
    BY <2>3 DEF Shaped, Remembered
  <2>6. QED
    BY <1>1, <2>4, <2>5, RequestChanges
<1>6. QED
  BY <1>3, <1>4, <1>5

LEMMA HitStep ==
    ASSUME LayersOK, RequestsOK, NEW r \in Requests, Hit(r)
    PROVE  LayersOK' /\ RequestsOK'
<1>1. LayersOK' /\ Grows /\ UNCHANGED <<copy, answered>>
  BY LayersStay DEF Hit, historyVars
<1> DEFINE req == request[r]
           i == req.layer
           fills == {[layer |-> j, id |-> req.id, value |-> copy[i][req.id]] :
                       j \in {k \in Chain : k < i}}
<1>2. /\ req \in RequestState /\ Shaped(req) /\ Remembered(req, copy[1], answered)
      /\ i \in Layers /\ req.id \in Ids
  BY RequestAt DEF Hit, At, Shaped, RequestState
<1>3. CASE fills = {}
  <2>1. Become(r, Idle)
    BY <1>3 DEF Hit
  <2>2. QED
    BY <1>1, <2>1, DoneStep
<1>4. CASE fills # {}
  <2> DEFINE q == [req EXCEPT !.at = "fill", !.fills = fills]
  <2>1. Become(r, q) /\ copy[i][req.id] # None
    BY <1>4 DEF Hit
  <2>2. ASSUME NEW f \in fills PROVE f \in [layer : Layers, id : Ids, value : Values]
    BY <1>2, <2>1, ChainTyped DEF LayersOK
  <2>3. i # 1
    <3>1. PICK k \in Chain : k < i
      BY <1>4
    <3>2. k # 0 /\ k \in Nat
      BY DEF Chain, LayersOK
    <3>3. QED
      BY <3>1, <3>2
  <2>4. ~req.again
    BY <1>2, <2>3 DEF Remembered
  <2>5. request' = [request EXCEPT ![r] = q]
    BY <2>1 DEF Become
  <2> HIDE DEF fills
  <2>6. /\ q \in RequestState /\ q.at = "fill" /\ q.goal = req.goal /\ q.value = req.value
        /\ q.again = req.again
    BY <1>2, <2>2 DEF RequestState
  <2> HIDE DEF q
  <2>7. Shaped(q) /\ Remembered(q, copy'[1], answered')
    BY <1>2, <2>4, <2>6 DEF Shaped, Remembered
  <2>8. QED
    BY <1>1, <2>5, <2>7, RequestChanges
<1>5. QED
  BY <1>3, <1>4

\* A second registration finds its entity in memory, and is not here.
LEMMA MissStep ==
    ASSUME LayersOK, RequestsOK, NEW r \in Requests, Miss(r)
    PROVE  LayersOK' /\ RequestsOK'
<1>1. LayersOK' /\ Grows /\ UNCHANGED <<copy, answered>>
  BY LayersStay DEF Miss, historyVars
<1> DEFINE req == request[r]
<1>2. /\ req \in RequestState /\ Shaped(req) /\ Remembered(req, copy[1], answered)
      /\ req.at = "get" /\ req.layer \in Layers /\ req.id \in Ids
  BY RequestAt DEF Miss, At, Shaped, RequestState
<1>3. ~req.again
  BY <1>2 DEF Miss, Answers, Remembered, LayersOK
<1>4. \/ After(req.layer) # 0 /\ Become(r, [req EXCEPT !.layer = After(req.layer)])
      \/ req.goal = "register" /\ Become(r, [req EXCEPT !.at = "write", !.layer = 1])
      \/ Become(r, Idle)
  BY DEF Miss
<1>5. CASE After(req.layer) # 0 /\ Become(r, [req EXCEPT !.layer = After(req.layer)])
  <2> DEFINE next == After(req.layer)
             q == [req EXCEPT !.layer = next]
  <2>1. next \in Layers
    BY <1>2, <1>5, AfterTyped DEF LayersOK, Layers
  <2>2. request' = [request EXCEPT ![r] = q]
    BY <1>5 DEF Become
  <2> HIDE DEF next
  <2>3. /\ q \in RequestState /\ q.at = "get" /\ q.goal = req.goal /\ q.value = req.value
        /\ q.again = req.again /\ q.id = req.id
    BY <1>2, <2>1 DEF RequestState
  <2> HIDE DEF q
  <2>4. Shaped(q) /\ Remembered(q, copy'[1], answered')
    BY <1>2, <1>3, <2>3 DEF Shaped, Remembered
  <2>5. QED
    BY <1>1, <2>2, <2>4, RequestChanges
<1>6. CASE req.goal = "register" /\ Become(r, [req EXCEPT !.at = "write", !.layer = 1])
  <2> DEFINE q == [req EXCEPT !.at = "write", !.layer = 1]
  <2>1. request' = [request EXCEPT ![r] = q]
    BY <1>6 DEF Become
  <2>2. /\ q \in RequestState /\ q.at = "write" /\ q.goal = req.goal /\ q.value = req.value
        /\ q.again = req.again /\ q.id = req.id /\ q.layer = 1
    BY <1>2 DEF RequestState, Layers
  <2> HIDE DEF q
  <2>3. Shaped(q) /\ Remembered(q, copy'[1], answered')
    BY <1>2, <1>3, <1>6, <2>2 DEF Shaped, Remembered
  <2>4. QED
    BY <1>1, <2>1, <2>3, RequestChanges
<1>7. CASE Become(r, Idle)
  BY <1>1, <1>7, DoneStep
<1>8. QED
  BY <1>4, <1>5, <1>6, <1>7

LEMMA FillStep ==
    ASSUME LayersOK, RequestsOK, NEW r \in Requests, Fill(r)
    PROVE  LayersOK' /\ RequestsOK'
<1> DEFINE req == request[r]
<1>1. /\ req \in RequestState /\ Shaped(req) /\ Remembered(req, copy[1], answered)
      /\ req.at = "fill"
  BY RequestAt DEF Fill, At
<1>2. PICK f \in req.fills :
        /\ copy' = [copy EXCEPT ![f.layer][f.id] = f.value] \/ UNCHANGED copy
        /\ Become(r, IF req.fills # {f} THEN [req EXCEPT !.fills = req.fills \ {f}]
                     ELSE Idle)
  BY DEF Fill
<1>3. f.layer \in Layers /\ f.id \in Ids /\ f.value \in Values
  BY <1>1 DEF RequestState
<1>4. UNCHANGED <<up, joined, answered, owed, restarts>>
  BY DEF Fill, historyVars
<1>5. copy' \in [Layers -> [Ids -> Values \cup {None}]] /\ Grows
  <2>1. CASE UNCHANGED copy
    BY <1>4, <2>1 DEF Grows, LayersOK
  <2>2. CASE copy' = [copy EXCEPT ![f.layer][f.id] = f.value]
    <3>1. /\ copy' \in [Layers -> [Ids -> Values \cup {None}]]
          /\ \A j \in Layers, k \in Ids : copy[j][k] # None => copy'[j][k] # None
      BY <1>3, <2>2, Put
    <3>2. QED
      BY <1>4, <3>1 DEF Grows, Layers
  <2>3. QED
    BY <1>2, <2>1, <2>2
<1>6. LayersOK'
  <2>1. owed' \subseteq Entries
    BY <1>4 DEF LayersOK
  <2>2. QED
    BY <1>4, <1>5, <2>1, LayersGrow
<1>7. CASE Become(r, Idle)
  BY <1>5, <1>6, <1>7, DoneStep
<1>8. CASE Become(r, [req EXCEPT !.fills = req.fills \ {f}])
  <2> DEFINE q == [req EXCEPT !.fills = req.fills \ {f}]
  <2>1. request' = [request EXCEPT ![r] = q]
    BY <1>8 DEF Become
  <2>2. /\ q \in RequestState /\ q.at = "fill" /\ q.goal = req.goal /\ q.value = req.value
        /\ q.again = req.again
    BY <1>1 DEF RequestState
  <2> HIDE DEF q
  <2>3. Shaped(q) /\ Remembered(q, copy'[1], answered')
    BY <1>1, <2>2 DEF Shaped, Remembered
  <2>4. QED
    BY <1>5, <1>6, <2>1, <2>3, RequestChanges
<1>9. QED
  BY <1>2, <1>6, <1>7, <1>8


\* A request at work on a layer has an entity in hand, and goes on with it.
LEMMA OnwardStep ==
    ASSUME LayersOK, RequestsOK, NEW r \in Requests,
           At(r, "write") \/ At(r, "log"), Onward(r),
           \A id \in Ids : copy[1][id] # None => copy'[1][id] # None,
           copy'[1][request[r].id] # None
    PROVE  /\ answered' \subseteq Ids
           /\ Grows
           /\ answered' \subseteq answered \cup {request[r].id}
           /\ RequestsOK'
<1> DEFINE req == request[r]
           next == After(req.layer)
<1>1. /\ req \in RequestState /\ Shaped(req) /\ Remembered(req, copy[1], answered)
      /\ req.layer \in Layers /\ req.id \in Ids /\ req.value \in Values
      /\ req.at \in {"write", "log"} /\ ~req.again
  BY RequestAt DEF At, Shaped, RequestState, Remembered
<1>2. CASE next # 0
  <2> DEFINE q == [req EXCEPT !.at = "write", !.layer = next]
  <2>1. Become(r, q) /\ UNCHANGED answered
    BY <1>2 DEF Onward
  <2>2. next \in Layers
    BY <1>1, <1>2, AfterTyped DEF LayersOK, Layers
  <2>3. request' = [request EXCEPT ![r] = q]
    BY <2>1 DEF Become
  <2> HIDE DEF next
  <2>4. /\ q \in RequestState /\ q.at = "write" /\ q.goal = req.goal /\ q.value = req.value
        /\ q.again = req.again /\ q.id = req.id
    BY <1>1, <2>2 DEF RequestState
  <2> HIDE DEF q
  <2>5. Shaped(q) /\ Remembered(q, copy'[1], answered')
    BY <1>1, <2>4 DEF Shaped, Remembered
  <2>6. Grows
    BY <2>1 DEF Grows
  <2>7. RequestsOK'
    BY <2>3, <2>5, <2>6, RequestChanges
  <2>8. QED
    BY <2>1, <2>6, <2>7 DEF LayersOK
<1>3. CASE next = 0
  <2>1. Become(r, Idle) /\ answered' = answered \cup {req.id}
    BY <1>3 DEF Onward
  <2>2. answered' \subseteq Ids /\ Grows
    BY <1>1, <2>1 DEF Grows, LayersOK
  <2>3. RequestsOK'
    BY <2>1, <2>2, DoneStep
  <2>4. QED
    BY <2>1, <2>2, <2>3
<1>4. QED
  BY <1>2, <1>3

\* The layers after a step that may have answered the registration of an entity.
LEMMA LayersAnswer ==
    ASSUME LayersOK, Grows, copy' \in [Layers -> [Ids -> Values \cup {None}]],
           UNCHANGED <<up, joined, restarts>>, owed' \subseteq Entries,
           NEW id \in Ids, copy'[1][id] # None,
           answered' \subseteq answered \cup {id}
    PROVE  LayersOK'
<1>1. answered' \subseteq Ids
  BY DEF LayersOK
<1>2. \A k \in answered' : copy'[1][k] # None
  BY DEF LayersOK, Grows
<1>3. QED
  BY <1>1, <1>2 DEF LayersOK

LEMMA WriteLayerStep ==
    ASSUME LayersOK, RequestsOK, NEW r \in Requests, WriteLayer(r)
    PROVE  LayersOK' /\ RequestsOK'
<1> DEFINE req == request[r]
<1>1. /\ req \in RequestState /\ Shaped(req) /\ Remembered(req, copy[1], answered)
      /\ req.layer \in Layers /\ req.id \in Ids /\ req.value \in Values
      /\ req.at = "write"
  BY RequestAt DEF WriteLayer, At, Shaped, RequestState
<1>2. /\ copy' = [copy EXCEPT ![req.layer][req.id] = req.value]
      /\ At(r, "write") /\ Onward(r) /\ UNCHANGED <<up, joined, restarts>>
      /\ owed' \subseteq owed
  BY DEF WriteLayer
<1>3. /\ copy' \in [Layers -> [Ids -> Values \cup {None}]]
      /\ copy'[req.layer][req.id] # None
      /\ \A j \in Layers, k \in Ids : copy[j][k] # None => copy'[j][k] # None
  BY <1>1, <1>2, Put
<1>4. /\ copy'[1][req.id] # None
      /\ \A k \in Ids : copy[1][k] # None => copy'[1][k] # None
  BY <1>1, <1>3 DEF Layers, Remembered
<1>5. Grows /\ answered' \subseteq answered \cup {req.id} /\ RequestsOK'
  BY <1>2, <1>4, OnwardStep
<1>6. owed' \subseteq Entries
  BY <1>2 DEF LayersOK
<1>7. QED
  BY <1>1, <1>2, <1>3, <1>4, <1>5, <1>6, LayersAnswer

LEMMA WriteFailsStep ==
    ASSUME LayersOK, RequestsOK, NEW r \in Requests, WriteFails(r)
    PROVE  LayersOK' /\ RequestsOK' /\ Copy(request[r]) \in Entries
<1> DEFINE req == request[r]
           q == [req EXCEPT !.at = "log"]
<1>1. /\ req \in RequestState /\ Shaped(req) /\ Remembered(req, copy[1], answered)
      /\ req.layer \in Layers /\ req.id \in Ids /\ req.value \in Values
      /\ req.at = "write"
  BY RequestAt DEF WriteFails, At, Shaped, RequestState
<1>2. /\ UNCHANGED copy \/ copy' = [copy EXCEPT ![req.layer][req.id] = req.value]
      /\ request' = [request EXCEPT ![r] = q]
      /\ UNCHANGED <<up, joined, answered, restarts>>
      /\ owed' = owed \cup {Copy(req)}
  BY DEF WriteFails, Become
<1>3. req.layer \in Durable /\ req.layer # 1
  BY <1>1 DEF WriteFails, Answers, Layers
<1>4. Copy(req) \in Entries
  BY <1>1, <1>3 DEF Copy, Entries
<1>5. copy' \in [Layers -> [Ids -> Values \cup {None}]] /\ Grows
  <2>1. CASE UNCHANGED copy
    BY <1>2, <2>1 DEF Grows, LayersOK
  <2>2. CASE copy' = [copy EXCEPT ![req.layer][req.id] = req.value]
    <3>1. /\ copy' \in [Layers -> [Ids -> Values \cup {None}]]
          /\ \A j \in Layers, k \in Ids : copy[j][k] # None => copy'[j][k] # None
      BY <1>1, <2>2, Put
    <3>2. QED
      BY <1>2, <3>1 DEF Grows, Layers
  <2>3. QED
    BY <1>2, <2>1, <2>2
<1>6. LayersOK'
  <2>1. owed' \subseteq Entries
    BY <1>2, <1>4 DEF LayersOK
  <2>2. QED
    BY <1>2, <1>5, <2>1, LayersGrow
<1>7. /\ q \in RequestState /\ q.at = "log" /\ q.goal = req.goal /\ q.value = req.value
      /\ q.again = req.again /\ q.id = req.id /\ q.layer = req.layer
  BY <1>1 DEF RequestState
<1>8. Shaped(q)
  BY <1>1, <1>3, <1>7 DEF Shaped
<1>9. Remembered(q, copy'[1], answered')
  BY <1>1, <1>3, <1>5, <1>7 DEF Remembered, Grows
<1>10. RequestsOK'
  <2> HIDE DEF q
  <2>1. QED
    BY <1>2, <1>5, <1>8, <1>9, RequestChanges
<1>11. QED
  BY <1>4, <1>6, <1>10

LEMMA SpillStep ==
    ASSUME LogOK, LayersOK, RequestsOK, NEW r \in Requests, Spill(r)
    PROVE  LayersOK' /\ RequestsOK' /\ Copy(request[r]) \in Entries
<1> DEFINE req == request[r]
<1>1. /\ Shaped(req) /\ Remembered(req, copy[1], answered) /\ req.id \in Ids
      /\ req.value \in Values /\ req.at = "log" /\ req.layer \in Durable
  BY RequestAt DEF Spill, At, Shaped
<1>2. /\ At(r, "log") /\ Onward(r) /\ UNCHANGED <<copy, up, joined, restarts>>
      /\ owed' \subseteq owed
  BY DEF Spill
<1>3. /\ copy'[1][req.id] # None
      /\ \A k \in Ids : copy[1][k] # None => copy'[1][k] # None
      /\ copy' \in [Layers -> [Ids -> Values \cup {None}]]
  BY <1>1, <1>2 DEF Remembered, LayersOK
<1>4. Grows /\ answered' \subseteq answered \cup {req.id} /\ RequestsOK'
  BY <1>2, <1>3, OnwardStep
<1>5. owed' \subseteq Entries
  BY <1>2 DEF LayersOK
<1>6. Copy(req) \in Entries
  BY <1>1 DEF Copy, Entries
<1>7. LayersOK'
  BY <1>1, <1>2, <1>3, <1>4, <1>5, LayersAnswer
<1>8. QED
  BY <1>4, <1>6, <1>7


-----------------------------------------------------------------------------
(* Replay, the environment and a restart                                   *)

LEMMA ReplayStep ==
    ASSUME LogOK, LayersOK, RequestsOK, ReplayWrites \/ ReplayFails \/ ReplayDiscards
    PROVE  LayersOK' /\ RequestsOK'
<1>1. Line \in Entries
  BY ReplayedStep DEF ReplayWrites, ReplayFails, ReplayDiscards
<1> DEFINE e == Line
<1>2. e.layer \in Layers /\ e.layer # 1 /\ e.id \in Ids /\ e.value \in Values
  BY <1>1 DEF Entries, Layers
<1>3. /\ UNCHANGED copy \/ copy' = [copy EXCEPT ![e.layer][e.id] = e.value]
      /\ UNCHANGED <<up, joined, request, answered, restarts>>
      /\ owed' \subseteq owed
  BY DEF ReplayWrites, ReplayFails, ReplayDiscards, historyVars
<1> HIDE DEF e
<1>4. copy' \in [Layers -> [Ids -> Values \cup {None}]] /\ Grows
  <2>1. CASE UNCHANGED copy
    BY <1>3, <2>1 DEF Grows, LayersOK
  <2>2. CASE copy' = [copy EXCEPT ![e.layer][e.id] = e.value]
    <3>1. /\ copy' \in [Layers -> [Ids -> Values \cup {None}]]
          /\ \A j \in Layers, k \in Ids : copy[j][k] # None => copy'[j][k] # None
      BY <1>2, <2>2, Put
    <3>2. QED
      BY <1>3, <3>1 DEF Grows, Layers
  <2>3. QED
    BY <1>3, <2>1, <2>2
<1>5. owed' \subseteq Entries
  BY <1>3 DEF LayersOK
<1>6. QED
  BY <1>3, <1>4, <1>5, LayersGrow, RequestsStay

LEMMA LayerChangesStep ==
    ASSUME LayersOK, RequestsOK, NEW i \in Durable, LayerChanges(i)
    PROVE  LayersOK' /\ RequestsOK'
<1>1. UNCHANGED <<copy, joined, request, answered, owed, restarts>>
  BY DEF LayerChanges, historyVars
<1>2. up' \subseteq Durable
  BY DEF LayerChanges, LayersOK
<1>3. QED
  BY <1>1, <1>2, Same, RequestsStay DEF LayersOK

\* What expires is not in memory.
LEMMA ExpiresStep ==
    ASSUME LayersOK, RequestsOK, NEW i \in Expiring, Expires(i)
    PROVE  LayersOK' /\ RequestsOK'
<1>1. /\ UNCHANGED <<up, joined, request, answered, owed, restarts>>
      /\ i \in Layers /\ i # 1
  BY DEF Expires, historyVars, Layers
<1>2. PICK id \in Ids : copy' = [copy EXCEPT ![i][id] = None]
  BY DEF Expires
<1>3. copy'[1] = copy[1] /\ copy' \in [Layers -> [Ids -> Values \cup {None}]]
  <2> DEFINE new == [copy[i] EXCEPT ![id] = None]
  <2>1. copy' = [copy EXCEPT ![i] = new]
    BY <1>2
  <2>2. new \in [Ids -> Values \cup {None}]
    BY <1>1 DEF LayersOK
  <2> HIDE DEF new
  <2>3. QED
    BY <1>1, <2>1, <2>2 DEF LayersOK, Layers
<1>4. Grows
  BY <1>1, <1>3 DEF Grows
<1>5. QED
  BY <1>1, <1>3, <1>4, RequestsStay DEF LayersOK

LEMMA RestartStep ==
    ASSUME LayersOK, RequestsOK, Restart
    PROVE  LayersOK' /\ RequestsOK'
<1>1. /\ copy' = [copy EXCEPT ![1] = [id \in Ids |-> None]]
      /\ request' = [r \in Requests |-> Idle]
      /\ answered' = {} /\ joined' = up /\ UNCHANGED up
      /\ restarts < MaxRestarts /\ restarts' = restarts + 1
      /\ owed' \subseteq owed
  BY DEF Restart
<1>2. copy' \in [Layers -> [Ids -> Values \cup {None}]]
  <2> DEFINE new == [id \in Ids |-> None]
  <2>1. copy' = [copy EXCEPT ![1] = new] /\ new \in [Ids -> Values \cup {None}]
    BY <1>1
  <2> HIDE DEF new
  <2>2. QED
    BY <2>1 DEF LayersOK
<1>3. LayersOK'
  <2>1. restarts' \in 0 .. MaxRestarts
    BY <1>1 DEF LayersOK
  <2>2. joined' \subseteq Durable /\ up' \subseteq Durable /\ owed' \subseteq Entries
    BY <1>1 DEF LayersOK
  <2>3. QED
    BY <1>1, <1>2, <2>1, <2>2 DEF LayersOK
<1>4. RequestsOK'
  <2> HIDE DEF Idle
  <2>1. Idle \in RequestState /\ Shaped(Idle) /\ Remembered(Idle, copy'[1], answered')
    BY IdleShaped
  <2>2. QED
    BY <1>1, <2>1 DEF RequestsOK
<1>5. QED
  BY <1>3, <1>4

-----------------------------------------------------------------------------
(* The log, the layers and the requests stay well formed                   *)

ChainInv == LogOK /\ LayersOK /\ RequestsOK

LEMMA ChainInit == Init => ChainInv
<1> SUFFICES ASSUME Init PROVE ChainInv
  OBVIOUS
<1>1. LogOK
  <2>1. segments = <<>> /\ active = <<>> /\ open = TRUE /\ stopped = FALSE
    BY DEF Init, WALInit
  <2>2. segments \in Seq(Segment) /\ Len(segments) = 0 /\ active \in Seq(Entries)
    BY <2>1
  <2>3. pass \in Pass /\ pass.pos = 0 /\ pass.last = 0
    BY NoPassTyped DEF Init, WALInit
  <2>4. ~InPass
    BY <2>3 DEF InPass
  <2>5. pass.last <= Len(segments)
    BY <2>2, <2>3
  <2>6. open \in BOOLEAN /\ stopped \in BOOLEAN
    BY <2>1
  <2>7. QED
    BY <2>2, <2>3, <2>4, <2>5, <2>6 DEF LogOK
<1>2. LayersOK
  BY DEF Init, LayersOK
<1>3. RequestsOK
  <2>1. request = [r \in Requests |-> Idle] /\ answered = {}
    BY DEF Init
  <2>2. QED
    BY <2>1, IdleShaped DEF RequestsOK
<1>4. QED
  BY <1>1, <1>2, <1>3 DEF ChainInv

\* A step of the log that the requests and the layers do not see.
LEMMA LogStepKeeps ==
    ASSUME LayersOK, RequestsOK, UNCHANGED <<copy, up, joined, request, historyVars>>
    PROVE  LayersOK' /\ RequestsOK'
<1>1. UNCHANGED <<copy, up, joined, request, answered, owed, restarts>>
  BY DEF historyVars
<1>2. QED
  BY <1>1, LayersStay, RequestsStay

LEMMA LogUnchanged ==
    ASSUME LogOK, UNCHANGED walVars
    PROVE  LogOK' /\ Keeps /\ UNCHANGED pass
BY NothingChanges DEF walVars, LogOK, InPass

LEMMA SpillLog ==
    ASSUME LogOK, NEW r \in Requests, Spill(r), Copy(request[r]) \in Entries
    PROVE  /\ LogOK' /\ Keeps /\ UNCHANGED pass
           /\ \/ In(Copy(request[r]), active') /\ UNCHANGED owed
              \/ owed' = owed \ {Copy(request[r])}
<1>1. CASE WalAppend(Copy(request[r])) /\ UNCHANGED owed
  <2> DEFINE e == Copy(request[r])
  <2> HIDE DEF e
  <2>1. WalAppend(e) /\ e \in Entries
    BY <1>1 DEF e
  <2>2. Keeps /\ In(e, active') /\ open' \in BOOLEAN /\ UNCHANGED <<stopped, pass>>
    BY <2>1, AppendStep
  <2>3. LogOK'
    BY <2>2, KeepsLogOK DEF LogOK
  <2>4. QED
    BY <1>1, <2>2, <2>3 DEF e
<1>2. CASE WalAppendFails /\ owed' = owed \ {Copy(request[r])}
  <2>1. Keeps /\ open' \in BOOLEAN /\ UNCHANGED <<stopped, pass>>
    BY <1>2, AppendFailsStep
  <2>2. LogOK'
    BY <2>1, KeepsLogOK DEF LogOK
  <2>3. QED
    BY <1>2, <2>1, <2>2
<1>3. QED
  BY <1>1, <1>2 DEF Spill

LEMMA ChainStep == ChainInv /\ [Next]_vars => ChainInv'
<1> SUFFICES ASSUME LogOK, LayersOK, RequestsOK, [Next]_vars
             PROVE  LogOK' /\ LayersOK' /\ RequestsOK'
  BY DEF ChainInv
<1>1. ASSUME NEW r \in Requests, Serve(r) PROVE LogOK' /\ LayersOK' /\ RequestsOK'
  <2>1. CASE BeginGet(r)
    <3>1. UNCHANGED walVars
      BY <2>1 DEF BeginGet
    <3>2. QED
      BY <2>1, <3>1, BeginStep, LogUnchanged
  <2>2. CASE BeginRegister(r)
    <3>1. UNCHANGED walVars
      BY <2>2 DEF BeginRegister
    <3>2. QED
      BY <2>2, <3>1, BeginStep, LogUnchanged
  <2>3. CASE BeginList(r)
    <3>1. UNCHANGED walVars
      BY <2>3 DEF BeginList
    <3>2. QED
      BY <2>3, <3>1, BeginStep, LogUnchanged
  <2>4. CASE Hit(r)
    <3>1. UNCHANGED walVars
      BY <2>4 DEF Hit
    <3>2. QED
      BY <2>4, <3>1, HitStep, LogUnchanged
  <2>5. CASE Miss(r)
    <3>1. UNCHANGED walVars
      BY <2>5 DEF Miss
    <3>2. QED
      BY <2>5, <3>1, MissStep, LogUnchanged
  <2>6. CASE Fill(r)
    <3>1. UNCHANGED walVars
      BY <2>6 DEF Fill
    <3>2. QED
      BY <2>6, <3>1, FillStep, LogUnchanged
  <2>7. CASE WriteLayer(r)
    <3>1. UNCHANGED walVars
      BY <2>7 DEF WriteLayer
    <3>2. QED
      BY <2>7, <3>1, WriteLayerStep, LogUnchanged
  <2>8. CASE WriteFails(r)
    <3>1. UNCHANGED walVars
      BY <2>8 DEF WriteFails
    <3>2. QED
      BY <2>8, <3>1, WriteFailsStep, LogUnchanged
  <2>9. CASE Spill(r)
    BY <2>9, SpillStep, SpillLog
  <2>10. QED
    BY <1>1, <2>1, <2>2, <2>3, <2>4, <2>5, <2>6, <2>7, <2>8, <2>9 DEF Serve
<1>2. CASE ReplayWrites \/ ReplayFails \/ ReplayDiscards
  <2>1. LogOK'
    BY <1>2, ReplayedStep DEF ReplayWrites, ReplayFails, ReplayDiscards
  <2>2. QED
    BY <1>2, <2>1, ReplayStep
<1>3. CASE LogStep /\ UNCHANGED <<copy, up, joined, request, historyVars>>
  <2>1. LogOK'
    BY <1>3, StartPassStep, SkipStep, EndSegmentStep, RestOfLog DEF LogStep
  <2>2. QED
    BY <1>3, <2>1, LogStepKeeps
<1>4. CASE Close
  BY <1>4, StopStep, LogStepKeeps DEF Close
<1>5. ASSUME NEW i \in Durable, LayerChanges(i) PROVE LogOK' /\ LayersOK' /\ RequestsOK'
  BY <1>5, LayerChangesStep, LogUnchanged DEF LayerChanges
<1>6. ASSUME NEW i \in Expiring, Expires(i) PROVE LogOK' /\ LayersOK' /\ RequestsOK'
  <2>1. UNCHANGED walVars
    BY <1>6 DEF Expires
  <2>2. QED
    BY <1>6, <2>1, ExpiresStep, LogUnchanged
<1>7. CASE Restart
  <2>1. Reopen
    BY <1>7 DEF Restart
  <2>2. QED
    BY <1>7, <2>1, RestartStep, ReopenStep
<1>8. CASE UNCHANGED vars
  BY <1>8, LogUnchanged, LogStepKeeps DEF vars
<1>9. QED
  BY <1>1, <1>2, <1>3, <1>4, <1>5, <1>6, <1>7, <1>8 DEF Next, Housekeeping

LEMMA ChainInvHolds == Spec => []ChainInv
BY ChainInit, ChainStep, PTL DEF Spec

\* The types of the catalog's state, its log included.
THEOREM TypeCorrect == Spec => []TypeOK
<1>1. ChainInv => TypeOK
  <2> SUFFICES ASSUME ChainInv PROVE TypeOK
    OBVIOUS
  <2>1. WALTypeOK(Entries)
    <3>1. \A i \in DOMAIN segments : segments[i] \in Segment
      BY DEF ChainInv, LogOK
    <3>2. pass \in [pos : Nat, last : Nat, line : Nat, ok : BOOLEAN, over : BOOLEAN]
      BY DEF ChainInv, LogOK, Pass
    <3>3. QED
      BY <3>1, <3>2 DEF ChainInv, LogOK, WALTypeOK, Segment
  <2>2. QED
    BY <2>1 DEF ChainInv, LayersOK, RequestsOK, TypeOK
<1>2. QED
  BY <1>1, ChainInvHolds, PTL

\* A registration of an ID that this process has answered finds it in memory,
\* which forgets nothing while the process runs, and never comes to a write.
THEOREM DuplicateRefusedHolds == Spec => []DuplicateRefused
<1>1. ChainInv => DuplicateRefused
  BY DEF ChainInv, RequestsOK, Remembered, DuplicateRefused
<1>2. QED
  BY <1>1, ChainInvHolds, PTL


-----------------------------------------------------------------------------
(* Nothing is forgotten                                                    *)

Carried(e) == \E r \in Requests : At(r, "log") /\ Copy(request[r]) = e

\* In the log, but not in the segment being replayed.
Elsewhere(e) ==
    \/ In(e, active)
    \/ \E i \in 1 .. Len(segments) : i # pass.pos /\ In(e, segments[i].entries)

\* The pass deletes a segment of which every line was replayed: by then each
\* copy it held has arrived, or is owed again and in the log elsewhere.
ReadOK ==
    InPass /\ pass.ok =>
        \A l \in DOMAIN segments[pass.pos].entries :
            LET e == segments[pass.pos].entries[l]
            IN  l < pass.line /\ e \in owed => Elsewhere(e) \/ Carried(e)

OwedInv == ReadOK /\ \A e \in owed : Logged(e) \/ Carried(e)

LEMMA ElsewhereKept ==
    ASSUME LogOK, Keeps, UNCHANGED pass, InPass, NEW e, Elsewhere(e)
    PROVE  Elsewhere(e)'
<1>1. /\ Len(segments) \in Nat /\ Len(segments') \in Nat /\ Len(segments) <= Len(segments')
      /\ pass.pos \in 1 .. Len(segments) /\ pass'.pos = pass.pos
  BY DEF LogOK, Keeps, InPass, Pass
<1>2. CASE In(e, active)
  <2>1. CASE In(e, active')
    BY <2>1 DEF Elsewhere
  <2>2. CASE \E i \in 1 .. Len(segments') : i > Len(segments) /\ In(e, segments'[i].entries)
    <3>1. PICK i \in 1 .. Len(segments') : i > Len(segments) /\ In(e, segments'[i].entries)
      BY <2>2
    <3>2. i # pass'.pos
      BY <1>1, <3>1
    <3>3. QED
      BY <3>1, <3>2 DEF Elsewhere
  <2>3. QED
    BY <1>2, <2>1, <2>2 DEF Keeps
<1>3. CASE \E i \in 1 .. Len(segments) : i # pass.pos /\ In(e, segments[i].entries)
  <2>1. PICK i \in 1 .. Len(segments) : i # pass.pos /\ In(e, segments[i].entries)
    BY <1>3
  <2>2. i \in 1 .. Len(segments') /\ segments'[i] = segments[i]
    BY <1>1 DEF Keeps
  <2>3. QED
    BY <1>1, <2>1, <2>2 DEF Elsewhere
<1>4. QED
  BY <1>2, <1>3 DEF Elsewhere

\* The log keeps what it has, and whoever carries a copy goes on or logs it.
LEMMA LoggedKept ==
    ASSUME LogOK, Keeps, OwedInv, owed' \subseteq owed,
           \A e \in owed' : Carried(e) => In(e, active') \/ Carried(e)'
    PROVE  \A e \in owed' : Logged(e)' \/ Carried(e)'
<1> SUFFICES ASSUME NEW e \in owed' PROVE Logged(e)' \/ Carried(e)'
  OBVIOUS
<1>1. CASE Logged(e)
  BY <1>1, KeepsLogged
<1>2. CASE Carried(e)
  BY <1>2 DEF Logged
<1>3. QED
  BY <1>1, <1>2 DEF OwedInv

LEMMA ReadKept ==
    ASSUME LogOK, Keeps, UNCHANGED pass, OwedInv, owed' \subseteq owed,
           \A e \in owed' : Carried(e) => In(e, active') \/ Carried(e)'
    PROVE  OwedInv'
<1>1. \A e \in owed' : Logged(e)' \/ Carried(e)'
  BY LoggedKept
<1>2. ReadOK'
  <2> SUFFICES ASSUME InPass, pass.ok,
                      NEW l \in DOMAIN segments'[pass.pos].entries,
                      NEW e, e = segments'[pass.pos].entries[l],
                      l < pass.line, e \in owed'
               PROVE  Elsewhere(e)' \/ Carried(e)'
    BY DEF ReadOK, InPass
  <2>1. pass.pos \in 1 .. Len(segments)
    BY DEF LogOK, InPass, Pass
  <2>2. segments'[pass.pos] = segments[pass.pos]
    BY <2>1 DEF Keeps
  <2>3. Elsewhere(e) \/ Carried(e)
    BY <2>2 DEF OwedInv, ReadOK
  <2>4. Elsewhere(e) => Elsewhere(e)'
    BY ElsewhereKept
  <2>5. QED
    BY <2>3, <2>4 DEF Elsewhere
<1>3. QED
  BY <1>1, <1>2 DEF OwedInv

\* A pass that has read nothing of its segment owes nothing to it.
LEMMA UnreadOK ==
    ASSUME LogOK', pass'.line = 1 \/ ~InPass',
           \A e \in owed' : Logged(e)' \/ Carried(e)'
    PROVE  OwedInv'
<1>1. ASSUME InPass', NEW l \in DOMAIN segments'[pass'.pos].entries PROVE ~(l < 1)
  <2>1. pass'.pos \in 1 .. Len(segments')
    BY <1>1 DEF LogOK, InPass, Pass
  <2>2. segments'[pass'.pos] \in Segment
    BY <2>1 DEF LogOK
  <2>3. segments'[pass'.pos].entries \in Seq(Entries)
    BY <2>2 DEF Segment
  <2>4. QED
    BY <2>3
<1>2. ReadOK'
  BY <1>1 DEF ReadOK
<1>3. QED
  BY <1>2 DEF OwedInv

\* A request that is not at the log carries nothing.
LEMMA OthersCarry ==
    ASSUME RequestsOK, NEW r \in Requests, ~At(r, "log"), NEW q, Become(r, q)
    PROVE  \A e : Carried(e) => Carried(e)'
BY DEF RequestsOK, Carried, At, Become


LEMMA RequestOwes ==
    ASSUME LogOK, RequestsOK, OwedInv, NEW r \in Requests, ~At(r, "log"), NEW q,
           Become(r, q), UNCHANGED walVars, owed' \subseteq owed
    PROVE  OwedInv'
<1>1. \A e \in owed' : Carried(e) => Carried(e)'
  BY OthersCarry
<1>2. QED
  BY <1>1, LogUnchanged, ReadKept

\* What another layer did not take is carried by the request that logs it.
LEMMA WriteFailsOwes ==
    ASSUME LogOK, RequestsOK, OwedInv, NEW r \in Requests, WriteFails(r)
    PROVE  OwedInv'
<1> DEFINE req == request[r]
           q == [req EXCEPT !.at = "log"]
           new == Copy(req)
<1>1. /\ At(r, "write") /\ Become(r, q) /\ UNCHANGED walVars
      /\ owed' = owed \cup {new}
  BY DEF WriteFails
<1>2. req \in RequestState
  BY RequestAt
<1>3. request'[r] = q /\ q.at = "log" /\ Copy(q) = new
  BY <1>1, <1>2 DEF Become, RequestsOK, RequestState, Copy
<1>4. ASSUME NEW e, e = new PROVE Carried(e)'
  BY <1>3, <1>4 DEF Carried, At
<1>5. \A e : Carried(e) => Carried(e)'
  <2> HIDE DEF q
  <2>1. ~At(r, "log")
    BY <1>1 DEF At
  <2>2. QED
    BY <1>1, <2>1, OthersCarry
<1>6. Keeps /\ LogOK' /\ UNCHANGED pass /\ UNCHANGED <<segments, active>>
  BY <1>1, LogUnchanged DEF walVars
<1> HIDE DEF q, new
<1>7. \A e : Logged(e) => Logged(e)'
  BY <1>6 DEF Logged
<1>8. \A e \in owed' : Logged(e)' \/ Carried(e)'
  BY <1>1, <1>4, <1>5, <1>7 DEF OwedInv
<1>9. ReadOK'
  <2> SUFFICES ASSUME InPass, pass.ok,
                      NEW l \in DOMAIN segments[pass.pos].entries,
                      NEW e, e = segments[pass.pos].entries[l],
                      l < pass.line, e \in owed'
               PROVE  Elsewhere(e)' \/ Carried(e)'
    BY <1>6 DEF ReadOK, InPass
  <2>1. CASE e = new
    BY <1>4, <2>1
  <2>2. CASE e \in owed
    <3>1. Elsewhere(e) \/ Carried(e)
      BY <2>2 DEF OwedInv, ReadOK
    <3>2. Elsewhere(e) => Elsewhere(e)'
      BY <1>6, ElsewhereKept
    <3>3. QED
      BY <1>5, <3>1, <3>2
  <2>3. QED
    BY <1>1, <2>1, <2>2
<1>10. QED
  BY <1>8, <1>9 DEF OwedInv

LEMMA SpillOwes ==
    ASSUME LogOK, RequestsOK, OwedInv, NEW r \in Requests, Spill(r),
           Copy(request[r]) \in Entries
    PROVE  OwedInv'
<1> DEFINE spilt == Copy(request[r])
<1>1. PICK q : Become(r, q)
  BY DEF Spill, Onward
<1>2. ASSUME NEW e, Carried(e), e # spilt PROVE Carried(e)'
  <2>1. PICK s \in Requests : At(s, "log") /\ Copy(request[s]) = e
    BY <1>2 DEF Carried
  <2>2. s # r
    BY <1>2, <2>1
  <2>3. request'[s] = request[s]
    BY <1>1, <2>2 DEF Become, RequestsOK
  <2>4. QED
    BY <2>1, <2>3 DEF Carried, At
<1>3. Keeps /\ UNCHANGED pass
  BY SpillLog
<1>4. \/ In(spilt, active') /\ UNCHANGED owed
      \/ owed' = owed \ {spilt}
  BY SpillLog
<1> HIDE DEF spilt
<1>5. \A e \in owed' : Carried(e) => In(e, active') \/ Carried(e)'
  BY <1>2, <1>4
<1>6. owed' \subseteq owed
  BY <1>4
<1>7. QED
  BY <1>3, <1>5, <1>6, ReadKept

\* A line is behind the pass only if its copy arrived or the segment stays.
LEMMA ReplayOwes ==
    ASSUME LogOK, OwedInv, ReplayWrites \/ ReplayFails \/ ReplayDiscards
    PROVE  OwedInv'
<1> DEFINE here == segments[pass.pos].entries
           read == Line
<1>1. PICK ok \in BOOLEAN :
        /\ Replayed(ok) /\ UNCHANGED request
        /\ (~ok /\ UNCHANGED owed) \/ owed' = owed \ {read}
  BY DEF ReplayWrites, ReplayFails, ReplayDiscards, historyVars
<1>2. /\ InPass /\ pass.pos \in 1 .. Len(segments) /\ pass.line \in DOMAIN here
      /\ pass'.pos = pass.pos /\ pass'.line = pass.line + 1
      /\ pass'.ok = (pass.ok /\ ok) /\ UNCHANGED <<segments, active>>
  BY <1>1, ReplayedStep
<1>3. \A e : Carried(e) => Carried(e)'
  BY <1>1 DEF Carried, At
<1>4. \A e : (Logged(e) => Logged(e)') /\ (Elsewhere(e) => Elsewhere(e)')
  BY <1>2 DEF Logged, Elsewhere
<1>5. owed' \subseteq owed
  BY <1>1
<1>6. \A e \in owed' : Logged(e)' \/ Carried(e)'
  BY <1>3, <1>4, <1>5 DEF OwedInv
<1>7. ASSUME pass'.ok, NEW l \in DOMAIN here, NEW e, e = here[l], l < pass'.line,
             e \in owed'
      PROVE  Elsewhere(e)' \/ Carried(e)'
  <2>1. pass.ok /\ ok
    BY <1>2, <1>7
  <2>2. e # read
    BY <1>1, <1>7, <2>1
  <2>3. l # pass.line
    BY <1>7, <2>2 DEF Line
  <2>4. l < pass.line
    <3>1. l \in Nat /\ pass.line \in Nat
      <4>1. segments[pass.pos] \in Segment
        BY <1>2 DEF LogOK
      <4>2. here \in Seq(Entries)
        BY <4>1 DEF Segment
      <4>3. QED
        BY <1>2, <4>2
    <3>2. QED
      BY <1>2, <1>7, <2>3, <3>1
  <2>5. Elsewhere(e) \/ Carried(e)
    BY <1>2, <1>5, <1>7, <2>1, <2>4 DEF OwedInv, ReadOK
  <2>6. QED
    BY <1>3, <1>4, <2>5
<1>8. ReadOK'
  BY <1>2, <1>7 DEF ReadOK
<1>9. QED
  BY <1>6, <1>8 DEF OwedInv

\* What a replayed segment leaves behind is not owed, or is elsewhere.
LEMMA EndSegmentOwes ==
    ASSUME LogOK, OwedInv, EndSegment, UNCHANGED <<request, owed>>
    PROVE  OwedInv'
<1> DEFINE here == segments[pass.pos].entries
<1>1. /\ LogOK' /\ UNCHANGED active /\ pass'.line = 1
      /\ InPass /\ pass.line > Len(here)
      /\ segments' = IF pass.ok THEN WithoutCurrent ELSE segments
  BY EndSegmentStep
<1>2. \A e : Carried(e) => Carried(e)'
  BY DEF Carried, At
<1>3. CASE ~pass.ok
  <2>1. \A e : Logged(e) => Logged(e)'
    BY <1>1, <1>3 DEF Logged
  <2>2. QED
    BY <1>1, <1>2, <2>1, UnreadOK DEF OwedInv
<1>4. CASE pass.ok
  <2>1. /\ pass.pos \in 1 .. Len(segments) /\ Len(segments) \in Nat
        /\ segments' \in Seq(Segment) /\ Len(segments') = Len(segments) - 1
        /\ \A i \in 1 .. Len(segments) - 1 :
             segments'[i] = IF i < pass.pos THEN segments[i] ELSE segments[i + 1]
    BY <1>1, <1>4, WithoutCurrentIs
  <2>2. DOMAIN segments = 1 .. Len(segments) /\ DOMAIN segments' = 1 .. Len(segments')
    BY <2>1 DEF LogOK
  <2>3. ASSUME NEW e, Elsewhere(e) PROVE Logged(e)'
    <3>1. CASE In(e, active)
      BY <1>1, <3>1 DEF Logged
    <3>2. CASE \E i \in 1 .. Len(segments) : i # pass.pos /\ In(e, segments[i].entries)
      <4>1. PICK i \in 1 .. Len(segments) : i # pass.pos /\ In(e, segments[i].entries)
        BY <3>2
      <4>2. CASE i < pass.pos
        <5>1. i \in DOMAIN segments' /\ segments'[i] = segments[i]
          BY <2>1, <2>2, <4>1, <4>2
        <5>2. QED
          BY <4>1, <5>1 DEF Logged
      <4>3. CASE ~(i < pass.pos)
        <5>1. i - 1 \in DOMAIN segments' /\ segments'[i - 1] = segments[i]
          BY <2>1, <2>2, <4>1, <4>3
        <5>2. QED
          BY <4>1, <5>1 DEF Logged
      <4>4. QED
        BY <4>2, <4>3
    <3>3. QED
      BY <2>3, <3>1, <3>2 DEF Elsewhere
  <2>4. ASSUME NEW e \in owed PROVE Logged(e)' \/ Carried(e)'
    <3>1. CASE In(e, here)
      <4>1. PICK l \in DOMAIN here : here[l] = e
        BY <3>1 DEF In
      <4>2. l < pass.line
        <5>1. segments[pass.pos] \in Segment
          BY <2>1 DEF LogOK
        <5>2. here \in Seq(Entries)
          BY <5>1 DEF Segment
        <5>3. pass.line \in Nat
          BY DEF LogOK, Pass
        <5>4. QED
          BY <1>1, <4>1, <5>2, <5>3
      <4>3. Elsewhere(e) \/ Carried(e)
        BY <1>1, <1>4, <4>1, <4>2 DEF OwedInv, ReadOK
      <4>4. QED
        BY <1>2, <2>3, <4>3
    <3>2. CASE ~In(e, here)
      <4>1. Logged(e) => Elsewhere(e)
        BY <2>2, <3>2 DEF Logged, Elsewhere
      <4>2. QED
        BY <1>2, <2>3, <4>1 DEF OwedInv
    <3>3. QED
      BY <3>1, <3>2
  <2>5. QED
    BY <1>1, <2>4, UnreadOK
<1>5. QED
  BY <1>3, <1>4

LEMMA OtherLogOwes ==
    ASSUME LogOK, OwedInv, UNCHANGED <<request, owed>>,
           StartPass \/ SkipUnsealed \/ EndPass \/ LoopExits \/ Stop
    PROVE  OwedInv'
<1>1. \A e : Carried(e) => Carried(e)'
  BY DEF Carried, At
<1>2. CASE Stop
  BY <1>1, <1>2, StopStep, ReadKept
<1>3. CASE StartPass \/ SkipUnsealed \/ EndPass \/ LoopExits
  <2>1. LogOK' /\ Keeps /\ (pass'.line = 1 \/ ~InPass')
    BY <1>3, StartPassStep, SkipStep, RestOfLog
  <2>2. \A e \in owed' : Logged(e)' \/ Carried(e)'
    BY <1>1, <2>1, LoggedKept
  <2>3. QED
    BY <2>1, <2>2, UnreadOK
<1>4. QED
  BY <1>2, <1>3

\* A copy whose append a crash prevented was not answered, and is not owed.
LEMMA RestartOwes ==
    ASSUME LogOK, OwedInv, Restart
    PROVE  OwedInv'
<1>1. Keeps /\ LogOK' /\ ~InPass'
  BY ReopenStep DEF Restart
<1>2. owed' \subseteq owed /\ \A e \in owed' : ~Carried(e)
  BY DEF Restart, Carried
<1>3. \A e \in owed' : Logged(e)' \/ Carried(e)'
  BY <1>1, <1>2, LoggedKept
<1>4. QED
  BY <1>1, <1>3, UnreadOK

LEMMA OwedStep == ChainInv /\ OwedInv /\ [Next]_vars => OwedInv'
<1> SUFFICES ASSUME LogOK, LayersOK, RequestsOK, OwedInv, [Next]_vars
             PROVE  OwedInv'
  BY DEF ChainInv
<1>1. ASSUME NEW r \in Requests, Serve(r) PROVE OwedInv'
  <2>1. ASSUME BeginGet(r) \/ BeginRegister(r) \/ BeginList(r) \/ Hit(r) \/ Miss(r) \/ Fill(r)
        PROVE  UNCHANGED walVars /\ UNCHANGED owed /\ ~At(r, "log") /\ \E q : Become(r, q)
    <3>1. CASE BeginGet(r)
      BY <3>1 DEF BeginGet, historyVars, At
    <3>2. CASE BeginRegister(r)
      BY <3>2 DEF BeginRegister, historyVars, At
    <3>3. CASE BeginList(r)
      BY <3>3 DEF BeginList, historyVars, At
    <3>4. CASE Hit(r)
      BY <3>4 DEF Hit, historyVars, At
    <3>5. CASE Miss(r)
      BY <3>5 DEF Miss, historyVars, At
    <3>6. CASE Fill(r)
      BY <3>6 DEF Fill, historyVars, At
    <3>7. QED
      BY <2>1, <3>1, <3>2, <3>3, <3>4, <3>5, <3>6
  <2>2. CASE WriteLayer(r)
    <3>1. /\ UNCHANGED walVars /\ owed' \subseteq owed /\ ~At(r, "log")
          /\ \E q : Become(r, q)
      BY <2>2 DEF WriteLayer, Onward, At
    <3>2. QED
      BY <3>1, RequestOwes
  <2>3. CASE WriteFails(r)
    BY <2>3, WriteFailsOwes
  <2>4. CASE Spill(r)
    BY <2>4, SpillStep, SpillOwes
  <2>5. QED
    BY <1>1, <2>1, <2>2, <2>3, <2>4, RequestOwes DEF Serve
<1>2. CASE ReplayWrites \/ ReplayFails \/ ReplayDiscards
  BY <1>2, ReplayOwes
<1>3. CASE LogStep /\ UNCHANGED <<copy, up, joined, request, historyVars>>
  BY <1>3, OtherLogOwes, EndSegmentOwes DEF LogStep, historyVars
<1>4. CASE Close
  BY <1>4, OtherLogOwes DEF Close, historyVars
<1>5. ASSUME UNCHANGED <<walVars, request, owed>> PROVE OwedInv'
  <2>1. \A e : Carried(e) => Carried(e)'
    BY <1>5 DEF Carried, At
  <2>2. QED
    BY <1>5, <2>1, LogUnchanged, ReadKept
<1>6. ASSUME NEW i \in Durable, LayerChanges(i) PROVE OwedInv'
  BY <1>5, <1>6 DEF LayerChanges, historyVars
<1>7. ASSUME NEW i \in Expiring, Expires(i) PROVE OwedInv'
  BY <1>5, <1>7 DEF Expires, historyVars
<1>8. CASE Restart
  BY <1>8, RestartOwes
<1>9. CASE UNCHANGED vars
  BY <1>5, <1>9 DEF vars, historyVars
<1>10. QED
  BY <1>1, <1>2, <1>3, <1>4, <1>6, <1>7, <1>8, <1>9 DEF Next, Housekeeping

\* What a layer still has to get is in the log, or carried to it: a segment is
\* deleted only when each of its lines has been delivered or logged again.
THEOREM NothingForgottenHolds == Spec => []NothingForgotten
<1>1. Init => OwedInv
  <2> SUFFICES ASSUME Init PROVE OwedInv
    OBVIOUS
  <2>1. owed = {} /\ pass.pos = 0 /\ pass.last = 0
    BY NoPassTyped DEF Init, WALInit
  <2>2. QED
    BY <2>1 DEF OwedInv, ReadOK
<1>2. OwedInv => NothingForgotten
  BY DEF OwedInv, NothingForgotten, Carried
<1>3. ChainInv /\ [Next]_vars => ChainInv'
  BY ChainStep
<1>4. QED
  BY <1>1, <1>2, <1>3, ChainInit, OwedStep, PTL DEF Spec
=============================================================================
