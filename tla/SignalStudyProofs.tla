--------------------------- MODULE SignalStudyProofs ---------------------------
(***************************************************************************)
(* Proofs about SignalStudy, for all arrivals, segments, horizons, costs   *)
(* and thresholds.                                                         *)
(***************************************************************************)
EXTENDS SignalStudy, SequencingProofs

Quotes == [id : Nat, stream : Nat, mono : Nat, wall : Nat, bid : Nat, bsz : Nat, ask : Nat,
           asz : Nat, flags : SUBSET STRING]

\* What the streams and the clock hold.
StreamTypeOK ==
    /\ phase \in Int
    /\ books \in [1..Segments -> Seq(Quotes)]
    /\ refs \in [1..Segments -> Seq(Quotes)]
    /\ clock \in [mono : Nat, wall : Nat, odd : Nat]

\* The quotes of a stream as they were received: on the monotonic clock, which
\* also names them.
Received(s, now) ==
    /\ \A i, j \in 1..Len(s) : i < j => s[i].mono < s[j].mono
    /\ \A i \in 1..Len(s) : s[i].mono <= now /\ s[i].id = s[i].mono

StreamsInv == \A s \in 1..Segments : Received(books[s], clock.mono) /\ Received(refs[s], clock.mono)

\* The frozen rows are those of the streams, which do not grow any more.
FrozenInv == dataset # <<>> => dataset = Rows(books, refs) /\ phase \notin 1..(Segments + 1)

\* The report is that on the selection.
ReportInv ==
    report # Undecided =>
        /\ phase = Segments + 3
        /\ report.trials = <<TrialResult(FrozenSelection, H1), TrialResult(FrozenSelection, H2)>>
        /\ report.decision = Decision(report.trials)

StudyInv == StreamTypeOK /\ StreamsInv /\ FrozenInv /\ ReportInv
-----------------------------------------------------------------------------
(* The invariant *)

LEMMA Stamped ==
    ASSUME NEW b \in Books, NEW mono \in Nat, NEW wall \in Nat
    PROVE  /\ Stamp(b, mono, wall, mono) \in Quotes
           /\ Stamp(b, mono, wall, mono).mono = mono /\ Stamp(b, mono, wall, mono).id = mono
  BY DEF Stamp, Books, Quotes

LEMMA SegmentCount == Segments \in Nat
  BY StudyAssumption DEF Segments

\* A quote that is received later goes behind the others.
LEMMA ReceivedNext ==
    ASSUME NEW s \in Seq(Quotes), NEW now \in Nat, Received(s, now),
           NEW q \in Quotes, now < q.mono, q.id = q.mono
    PROVE  Append(s, q) \in Seq(Quotes) /\ Received(Append(s, q), q.mono)
<1> DEFINE t == Append(s, q)
<1>1. /\ t \in Seq(Quotes) /\ Len(t) = Len(s) + 1 /\ t[Len(s) + 1] = q /\ Len(s) \in Nat
      /\ \A i \in 1..Len(s) : t[i] = s[i] /\ s[i].mono \in Nat
  <2>1. /\ t \in Seq(Quotes) /\ Len(t) = Len(s) + 1 /\ t[Len(s) + 1] = q
        /\ \A i \in 1..Len(s) : t[i] = s[i]
    BY AppendProperties
  <2>2. \A i \in 1..Len(s) : s[i] \in Quotes
    BY ElementOfSeq
  <2>3. \A x \in Quotes : x.mono \in Nat
    BY DEF Quotes
  <2>4. QED
    BY <2>1, <2>2, <2>3
<1> HIDE DEF t
<1>2. q.mono \in Nat
  BY DEF Quotes
<1>3. /\ \A i, j \in 1..Len(s) : i < j => s[i].mono < s[j].mono
      /\ \A i \in 1..Len(s) : s[i].mono <= now /\ s[i].id = s[i].mono
  BY DEF Received
<1>4. \A i \in 1..Len(t) : i \in 1..Len(s) \/ i = Len(s) + 1
  BY <1>1
<1>5. ASSUME NEW i \in 1..Len(t) PROVE t[i].mono <= q.mono /\ t[i].id = t[i].mono
  <2>1. CASE i \in 1..Len(s)
    BY <1>1, <1>2, <1>3, <2>1
  <2>2. CASE i = Len(s) + 1
    BY <1>1, <1>2, <2>2
  <2>3. QED
    BY <1>4, <2>1, <2>2
<1>6. ASSUME NEW i \in 1..Len(t), NEW j \in 1..Len(t), i < j PROVE t[i].mono < t[j].mono
  <2>1. i \in 1..Len(s)
    BY <1>1, <1>6
  <2>2. CASE j \in 1..Len(s)
    BY <1>1, <1>3, <1>6, <2>1, <2>2
  <2>3. CASE j = Len(s) + 1
    BY <1>1, <1>2, <1>3, <2>1, <2>3
  <2>4. QED
    BY <1>4, <2>2, <2>3
<1>7. QED
  BY <1>1, <1>5, <1>6 DEF Received, t

LEMMA ReceivedSince ==
    ASSUME NEW s \in Seq(Quotes), NEW now \in Nat, NEW later \in Nat, Received(s, now), now <= later
    PROVE  Received(s, later)
<1>1. \A i \in 1..Len(s) : s[i] \in Quotes
  BY ElementOfSeq
<1>2. \A x \in Quotes : x.mono \in Nat
  BY DEF Quotes
<1>3. \A i \in 1..Len(s) : s[i].mono <= now => s[i].mono <= later
  BY <1>1, <1>2
<1>4. QED
  BY <1>3 DEF Received

LEMMA ReceivedFirst ==
    ASSUME NEW q \in Quotes, NEW now \in Nat, q.mono <= now, q.id = q.mono
    PROVE  <<q>> \in Seq(Quotes) /\ Received(<<q>>, now)
  BY DEF Received

LEMMA ReceivedNothing == ASSUME NEW now PROVE <<>> \in Seq(Quotes) /\ Received(<<>>, now)
  BY DEF Received

LEMMA StudyInit == Init => StudyInv
<1> SUFFICES ASSUME Init PROVE StudyInv
  OBVIOUS
<1>1. Opening \in Books /\ Segments \in Nat
  BY StudyAssumption, SegmentCount
<1> DEFINE q == Stamp(Opening, 9, 9, 9)
<1>2. q \in Quotes /\ q.mono = 9 /\ q.id = 9
  BY <1>1, Stamped
<1>3. <<q>> \in Seq(Quotes) /\ Received(<<q>>, 10)
  <2> HIDE DEF q
  <2>1. QED
    BY <1>2, ReceivedFirst
<1>4. <<>> \in Seq(Quotes) /\ Received(<<>>, 10)
  BY ReceivedNothing
<1>5. \A s \in 1..Segments : refs[s] \in {<<q>>, <<>>} /\ books[s] = <<>>
  BY DEF Init
<1>6. clock.mono = 10 /\ clock \in [mono : Nat, wall : Nat, odd : Nat] /\ phase = 1
  BY DEF Init
<1> HIDE DEF q
<1>7. StreamTypeOK
  <2>1. refs = [s \in 1..Segments |-> refs[s]] /\ books = [s \in 1..Segments |-> books[s]]
    BY DEF Init
  <2>2. \A s \in 1..Segments : refs[s] \in Seq(Quotes) /\ books[s] \in Seq(Quotes)
    BY <1>3, <1>4, <1>5
  <2>3. refs \in [1..Segments -> Seq(Quotes)]
    BY <2>1, <2>2
  <2>4. books \in [1..Segments -> Seq(Quotes)]
    BY <2>1, <2>2
  <2>5. QED
    BY <1>6, <2>3, <2>4 DEF StreamTypeOK
<1>8. StreamsInv
  BY <1>3, <1>4, <1>5, <1>6 DEF StreamsInv
<1>9. FrozenInv /\ ReportInv
  BY DEF Init, FrozenInv, ReportInv
<1>10. QED
  BY <1>7, <1>8, <1>9 DEF StudyInv

LEMMA ReceiveKeeps ==
    ASSUME StudyInv, NEW a \in Arrivals, Receive(a) PROVE StudyInv'
<1> DEFINE mono == clock.mono + a.step
<1> DEFINE wall == clock.wall + a.step - a.back
<1> DEFINE odd == clock.odd + (IF a.odd THEN 1 ELSE 0)
<1> DEFINE q == Stamp(a.quote, mono, wall, mono)
<1> DEFINE r == Stamp(a.reference, mono, wall, mono)
<1>1. /\ phase \in 1..Segments /\ wall >= 0
      /\ clock' = [mono |-> mono, wall |-> wall, odd |-> odd]
      /\ books' = [books EXCEPT ![phase] = Append(@, q)]
      /\ refs' = [refs EXCEPT ![phase] = IF a.reference.stream = 0 THEN @ ELSE Append(@, r)]
      /\ phase' = phase /\ dataset' = dataset /\ plan' = plan /\ report' = report
  <2>1. /\ phase \in 1..Segments /\ wall >= 0
        /\ clock' = [mono |-> mono, wall |-> wall, odd |-> odd]
        /\ phase' = phase /\ dataset' = dataset /\ plan' = plan /\ report' = report
    BY DEF Receive
  <2>2. books' = [books EXCEPT ![phase] = Append(@, q)]
    BY DEF Receive
  <2>3. refs' = [refs EXCEPT ![phase] = IF a.reference.stream = 0 THEN @ ELSE Append(@, r)]
    BY DEF Receive
  <2>4. QED
    BY <2>1, <2>2, <2>3
<1>2. StreamTypeOK /\ StreamsInv /\ FrozenInv /\ ReportInv
  BY DEF StudyInv
<1>3. /\ a.step \in Nat \ {0} /\ a.back \in Nat /\ a.odd \in BOOLEAN
      /\ a.quote \in Books /\ a.reference \in Books
  BY StudyAssumption
<1>4. /\ clock.mono \in Nat /\ clock.wall \in Nat /\ clock.odd \in Nat
      /\ books \in [1..Segments -> Seq(Quotes)] /\ refs \in [1..Segments -> Seq(Quotes)]
  BY <1>2 DEF StreamTypeOK
<1>5. mono \in Nat /\ wall \in Nat /\ odd \in Nat /\ clock.mono < mono
  <2>1. mono \in Nat /\ clock.mono < mono
    BY <1>3, <1>4
  <2>2. wall \in Nat
    BY <1>1, <1>3, <1>4
  <2>3. odd \in Nat
    BY <1>4
  <2>4. QED
    BY <2>1, <2>2, <2>3
<1> HIDE DEF mono, wall, odd
<1>6. q \in Quotes /\ q.mono = mono /\ q.id = mono /\ r \in Quotes /\ r.mono = mono /\ r.id = mono
  BY <1>3, <1>5, Stamped
<1> HIDE DEF q, r
<1>7. ASSUME NEW s \in 1..Segments
      PROVE  /\ books'[s] \in Seq(Quotes) /\ Received(books'[s], mono)
             /\ refs'[s] \in Seq(Quotes) /\ Received(refs'[s], mono)
  <2>1. /\ books[s] \in Seq(Quotes) /\ Received(books[s], clock.mono)
        /\ refs[s] \in Seq(Quotes) /\ Received(refs[s], clock.mono)
    BY <1>2, <1>4 DEF StreamsInv
  <2>2. /\ Append(books[s], q) \in Seq(Quotes) /\ Received(Append(books[s], q), mono)
        /\ Append(refs[s], r) \in Seq(Quotes) /\ Received(Append(refs[s], r), mono)
    BY <1>4, <1>5, <1>6, <2>1, ReceivedNext
  <2>3. Received(books[s], mono) /\ Received(refs[s], mono)
    BY <1>4, <1>5, <2>1, ReceivedSince
  <2>4. books'[s] \in {books[s], Append(books[s], q)} /\ refs'[s] \in {refs[s], Append(refs[s], r)}
    BY <1>1, <1>4
  <2>5. QED
    BY <2>1, <2>2, <2>3, <2>4
<1>8. StreamTypeOK'
  <2>1. books' = [s \in 1..Segments |-> books'[s]] /\ refs' = [s \in 1..Segments |-> refs'[s]]
    BY <1>1, <1>4
  <2>2. phase' \in Int
    BY <1>1
  <2>3. refs' \in [1..Segments -> Seq(Quotes)]
    BY <1>7, <2>1
  <2>4. books' \in [1..Segments -> Seq(Quotes)]
    BY <1>7, <2>1
  <2>5. clock' \in [mono : Nat, wall : Nat, odd : Nat]
    BY <1>1, <1>5
  <2>6. QED
    BY <2>2, <2>3, <2>4, <2>5 DEF StreamTypeOK
<1>9. StreamsInv'
  BY <1>1, <1>7 DEF StreamsInv
<1>10. FrozenInv'
  BY <1>1, <1>2, SegmentCount DEF FrozenInv
<1>11. ReportInv'
  BY <1>1, <1>2, SegmentCount DEF ReportInv
<1>12. QED
  BY <1>8, <1>9, <1>10, <1>11 DEF StudyInv

LEMMA NextSegmentKeeps ==
    ASSUME StudyInv, NextSegment PROVE StudyInv'
<1> DEFINE mono == clock.mono + 19
<1> DEFINE wall == clock.wall + 19
<1> DEFINE q == Stamp(Opening, mono, wall, mono)
<1>1. StreamTypeOK /\ StreamsInv /\ FrozenInv /\ ReportInv
  BY DEF StudyInv
<1>2. /\ clock \in [mono : Nat, wall : Nat, odd : Nat]
      /\ books \in [1..Segments -> Seq(Quotes)] /\ refs \in [1..Segments -> Seq(Quotes)]
  BY <1>1 DEF StreamTypeOK
<1>3. /\ phase \in 1..Segments /\ phase' = phase + 1
      /\ clock' = [clock EXCEPT !.mono = @ + 20, !.wall = @ + 20]
      /\ books' = books /\ dataset' = dataset /\ plan' = plan /\ report' = report
  BY DEF NextSegment
<1>4. /\ clock' \in [mono : Nat, wall : Nat, odd : Nat]
      /\ clock'.mono = clock.mono + 20 /\ clock'.wall = clock.wall + 20
      /\ clock'.mono - 1 = mono /\ clock'.wall - 1 = wall
  <2>1. clock' = [mono |-> clock.mono + 20, wall |-> clock.wall + 20, odd |-> clock.odd]
    BY <1>2, <1>3
  <2>2. clock.mono \in Nat /\ clock.wall \in Nat /\ clock.odd \in Nat
    BY <1>2
  <2>3. QED
    BY <2>1, <2>2
<1>5. refs' = [s \in 1..Segments |-> IF s = phase' THEN <<q>> ELSE refs[s]]
  BY <1>4 DEF NextSegment
<1>6. mono \in Nat /\ wall \in Nat /\ clock'.mono \in Nat /\ mono <= clock'.mono
      /\ clock.mono \in Nat /\ clock.mono <= clock'.mono
  BY <1>2, <1>4
<1> HIDE DEF mono, wall
<1>7. q \in Quotes /\ q.mono = mono /\ q.id = mono
  BY <1>6, StudyAssumption, Stamped
<1> HIDE DEF q
<1>8. <<q>> \in Seq(Quotes) /\ Received(<<q>>, clock'.mono)
  BY <1>6, <1>7, ReceivedFirst
<1>9. ASSUME NEW s \in 1..Segments
      PROVE  /\ Received(books'[s], clock'.mono)
             /\ refs'[s] \in Seq(Quotes) /\ Received(refs'[s], clock'.mono)
  <2>1. /\ books[s] \in Seq(Quotes) /\ Received(books[s], clock.mono)
        /\ refs[s] \in Seq(Quotes) /\ Received(refs[s], clock.mono)
    BY <1>1, <1>2 DEF StreamsInv
  <2>2. Received(books[s], clock'.mono) /\ Received(refs[s], clock'.mono)
    BY <1>6, <2>1, ReceivedSince
  <2>3. refs'[s] \in {<<q>>, refs[s]}
    BY <1>5
  <2>4. QED
    BY <1>3, <1>8, <2>1, <2>2, <2>3
<1>10. StreamTypeOK'
  <2>1. refs' = [s \in 1..Segments |-> refs'[s]]
    BY <1>5
  <2>2. phase' \in Int
    BY <1>3
  <2>3. refs' \in [1..Segments -> Seq(Quotes)]
    BY <1>9, <2>1
  <2>4. QED
    BY <1>2, <1>3, <1>4, <2>2, <2>3 DEF StreamTypeOK
<1>11. StreamsInv'
  BY <1>9 DEF StreamsInv
<1>12. dataset = <<>> /\ report = Undecided
  BY <1>1, <1>3, SegmentCount DEF FrozenInv, ReportInv
<1>13. FrozenInv' /\ ReportInv'
  BY <1>3, <1>12 DEF FrozenInv, ReportInv
<1>14. QED
  BY <1>10, <1>11, <1>13 DEF StudyInv

LEMMA FreezeKeeps ==
    ASSUME StudyInv, Freeze PROVE StudyInv'
<1>1. StreamTypeOK /\ StreamsInv /\ FrozenInv /\ ReportInv
  BY DEF StudyInv
<1>2. /\ phase = Segments + 1 /\ dataset = <<>>
      /\ books' = books /\ refs' = refs /\ clock' = clock /\ report' = report
      /\ phase' \in {-1, phase + 1}
      /\ dataset' = dataset \/ dataset' = Rows(books, refs)
  BY Zenon DEF Freeze
<1>3. phase' \in Int /\ phase' \notin 1..(Segments + 1)
  BY <1>2, SegmentCount
<1>4. StreamTypeOK' /\ StreamsInv'
  BY <1>1, <1>2, <1>3 DEF StreamTypeOK, StreamsInv
<1>5. FrozenInv'
  BY <1>2, <1>3 DEF FrozenInv
<1>6. report = Undecided
  BY <1>1, <1>2, SegmentCount DEF ReportInv
<1>7. ReportInv'
  BY <1>2, <1>6 DEF ReportInv
<1>8. QED
  BY <1>4, <1>5, <1>7 DEF StudyInv

LEMMA SelectKeeps ==
    ASSUME StudyInv, Select PROVE StudyInv'
<1>1. StreamTypeOK /\ StreamsInv /\ FrozenInv /\ ReportInv
  BY DEF StudyInv
<1>2. /\ phase = Segments + 2 /\ books' = books /\ refs' = refs /\ clock' = clock
      /\ dataset' = dataset /\ plan' = plan
  BY DEF Select
<1>3. Segments \in Nat
  BY SegmentCount
<1> DEFINE rows == RebuiltSelection
<1> DEFINE trials == <<TrialResult(rows, H1), TrialResult(rows, H2)>>
<1>4. \/ phase' = -2 /\ report' = report
      \/ /\ phase' = phase + 1 /\ rows = FrozenSelection
         /\ report' = [trials |-> trials, decision |-> Decision(trials)]
  BY Zenon DEF Select
<1>5. phase' \in Int /\ phase' \notin 1..(Segments + 1)
  BY <1>2, <1>3, <1>4
<1>6. StreamTypeOK' /\ StreamsInv' /\ FrozenInv'
  BY <1>1, <1>2, <1>5 DEF StreamTypeOK, StreamsInv, FrozenInv
<1>7. FrozenSelection' = FrozenSelection
  BY <1>2 DEF FrozenSelection, SelectionOf, InSelection
<1>8. report = Undecided
  BY <1>1, <1>2, <1>3 DEF ReportInv
<1>9. ReportInv'
  <2>1. CASE report' = report
    BY <1>8, <2>1 DEF ReportInv, Undecided
  <2>2. CASE /\ phase' = phase + 1 /\ rows = FrozenSelection
             /\ report' = [trials |-> trials, decision |-> Decision(trials)]
    <3> HIDE DEF rows
    <3>1. /\ report'.trials = <<TrialResult(FrozenSelection, H1), TrialResult(FrozenSelection, H2)>>
          /\ report'.decision = Decision(report'.trials) /\ phase' = Segments + 3
      BY <1>2, <1>3, <2>2
    <3>2. QED
      BY <1>7, <3>1 DEF ReportInv
  <2>3. QED
    BY <1>4, <2>1, <2>2
<1>10. QED
  BY <1>6, <1>9 DEF StudyInv

LEMMA StudyStep == StudyInv /\ [Next]_vars => StudyInv'
<1> SUFFICES ASSUME StudyInv, [Next]_vars PROVE StudyInv'
  OBVIOUS
<1>1. CASE Next
  BY <1>1, ReceiveKeeps, NextSegmentKeeps, FreezeKeeps, SelectKeeps DEF Next
<1>2. CASE UNCHANGED vars
  BY <1>2 DEF vars, StudyInv, StreamTypeOK, StreamsInv, FrozenInv, ReportInv, FrozenSelection,
              SelectionOf, InSelection
<1>3. QED
  BY <1>1, <1>2

\* The streams hold what was received, in the order of the monotonic clock; the
\* frozen rows and the report are those of the streams.
THEOREM StudyInvariant == Spec => []StudyInv
  BY StudyInit, StudyStep, PTL DEF Spec
-----------------------------------------------------------------------------
(* The opportunities of a stream *)

\* The readers of a stream find it in order.
LEMMA CausalSame ==
    ASSUME NEW s \in Seq(Quotes), NEW now, Received(s, now)
    PROVE  CausalOrder(s) = s
<1> DEFINE keys == [i \in DOMAIN s |-> QuoteKey(s[i])]
<1>1. DOMAIN s = 1..Len(s) /\ Len(s) \in Nat
  OBVIOUS
<1>2. Len(keys) = Len(s) /\ \A i \in 1..Len(s) : keys[i] = QuoteKey(s[i])
  BY <1>1
<1>3. ASSUME NEW i \in 1..Len(s), NEW j \in 1..Len(s), i < j
      PROVE  ~Precedes(keys[j], keys[i])
  <2>1. s[i].mono < s[j].mono /\ s[i].mono \in Nat /\ s[j].mono \in Nat
    <3>1. s[i] \in Quotes /\ s[j] \in Quotes
      BY ElementOfSeq
    <3>2. QED
      BY <1>3, <3>1 DEF Received, Quotes
  <2> DEFINE a == keys[j]
  <2> DEFINE b == keys[i]
  <2>2. a[1] = s[j].mono /\ b[1] = s[i].mono /\ DOMAIN a = 1..3
    BY <1>2 DEF QuoteKey
  <2> HIDE DEF a, b, keys
  <2>3. ASSUME NEW m \in 1..3, a[m] < b[m], \A l \in 1..(m - 1) : a[l] = b[l] PROVE FALSE
    <3>1. CASE m = 1
      BY <2>1, <2>2, <2>3, <3>1
    <3>2. CASE m # 1
      <4>1. 1 \in 1..(m - 1)
        BY <3>2
      <4>2. a[1] = b[1]
        BY <2>3, <4>1
      <4>3. QED
        BY <2>1, <2>2, <4>2
    <3>3. QED
      BY <3>1, <3>2
  <2>4. ~Precedes(a, b)
    BY <2>2, <2>3 DEF Precedes
  <2>5. QED
    BY <2>4 DEF a, b
<1> HIDE DEF keys
<1>4. Sorted(s, keys) = s
  BY <1>2, <1>3, SortedIsSame
<1>5. QED
  BY <1>4 DEF CausalOrder, keys

\* The exit of the quote at i, and the trial that starts there.
ExitAt(q, i) == Min(ExitsOf(q, i, Horizon))
TrialAt(q, i) ==
    IF ExitsOf(q, i, Horizon) = {}
    THEN [entry |-> q[i], exit |-> NoExit, interval |-> {"HORIZON_EXIT_UNAVAILABLE"}]
    ELSE [entry |-> q[i], exit |-> q[ExitAt(q, i)],
          interval |-> IntervalDefects(q, i, ExitAt(q, i), MaxStep)]

LEMMA ExitIsFirst ==
    ASSUME NEW q, Len(q) \in Nat, NEW i \in Nat, ExitsOf(q, i, Horizon) # {}
    PROVE  /\ ExitAt(q, i) \in (i + 1)..Len(q)
           /\ q[ExitAt(q, i)].mono >= q[i].mono + Horizon
           /\ \A k \in (i + 1)..Len(q) : q[k].mono >= q[i].mono + Horizon => ExitAt(q, i) <= k
<1> DEFINE exits == ExitsOf(q, i, Horizon)
<1>1. exits \subseteq Nat
  BY DEF ExitsOf
<1>2. PICK j \in exits : \A k \in exits : j <= k
  <2> HIDE DEF exits
  <2>1. exits # {}
    BY DEF exits
  <2>2. QED
    BY <1>1, <2>1, LeastNat
<1>3. ExitAt(q, i) \in exits /\ \A k \in exits : ExitAt(q, i) <= k
  <2> HIDE DEF exits
  <2>1. ExitAt(q, i) = CHOOSE x \in exits : \A y \in exits : x <= y
    BY DEF ExitAt, Min, exits
  <2>2. QED
    BY <1>2, <2>1
<1>4. QED
  BY <1>3 DEF ExitsOf

\* The n trials of the quotes from the first on, each just behind the exit of the
\* one before.
Linked(q, n, first, a) ==
    /\ n = 0 => first > Len(q)
    /\ n # 0 => a[1] = first
    /\ \A k \in 1..n :
          /\ k # n => ExitsOf(q, a[k], Horizon) # {} /\ a[k + 1] = ExitAt(q, a[k]) + 1
          /\ k = n => ExitsOf(q, a[k], Horizon) = {} \/ ExitAt(q, a[k]) + 1 > Len(q)

\* They start in order, each behind the exit of those before.
Chain(q, trials, first, a) ==
    /\ Linked(q, Len(trials), first, a)
    /\ a \in [1..Len(trials) -> first..Len(q)]
    /\ \A k \in 1..Len(trials) : trials[k] = TrialAt(q, a[k])
    /\ \A k, l \in 1..Len(trials) : k < l =>
          ExitsOf(q, a[k], Horizon) # {} /\ ExitAt(q, a[k]) < a[l]

LEMMA ChainNext ==
    ASSUME NEW T, NEW q, Len(q) \in Nat, NEW i \in 1..Len(q), ExitsOf(q, i, Horizon) # {},
           NEW trials \in Seq(T), TrialAt(q, i) \in T,
           NEW a, Chain(q, trials, ExitAt(q, i) + 1, a)
    PROVE  \E b : Chain(q, <<TrialAt(q, i)>> \o trials, i, b)
<1> DEFINE n == Len(trials)
<1> DEFINE r == <<TrialAt(q, i)>> \o trials
<1> DEFINE b == [k \in 1..(n + 1) |-> IF k = 1 THEN i ELSE a[k - 1]]
<1> DEFINE j == ExitAt(q, i)
<1>1. /\ n \in Nat /\ Len(r) = n + 1 /\ r[1] = TrialAt(q, i)
      /\ \A k \in 2..(n + 1) : r[k] = trials[k - 1]
  <2>1. <<TrialAt(q, i)>> \in Seq(T) /\ Len(<<TrialAt(q, i)>>) = 1
        /\ <<TrialAt(q, i)>>[1] = TrialAt(q, i)
    OBVIOUS
  <2> DEFINE h == <<TrialAt(q, i)>>
  <2> HIDE DEF h
  <2>2. Len(h \o trials) = Len(h) + n /\ \A k \in 1..(Len(h) + n) :
          (h \o trials)[k] = IF k <= Len(h) THEN h[k] ELSE trials[k - Len(h)]
    BY <2>1, ConcatProperties DEF h
  <2>3. n \in Nat /\ Len(h) = 1 /\ h[1] = TrialAt(q, i)
    BY <2>1 DEF h
  <2>4. Len(h \o trials) = n + 1 /\ (h \o trials)[1] = TrialAt(q, i)
        /\ \A k \in 2..(n + 1) : (h \o trials)[k] = trials[k - 1]
    BY <2>2, <2>3
  <2>5. QED
    BY <2>3, <2>4 DEF h
<1>2. j \in (i + 1)..Len(q) /\ i \in Nat
  BY ExitIsFirst
<1>3. /\ a \in [1..n -> (j + 1)..Len(q)]
      /\ \A k \in 1..n : trials[k] = TrialAt(q, a[k])
      /\ \A k, l \in 1..n : k < l => ExitsOf(q, a[k], Horizon) # {} /\ ExitAt(q, a[k]) < a[l]
      /\ Linked(q, n, j + 1, a)
  BY DEF Chain
<1>4. \A k \in 1..(n + 1) : b[k] = IF k = 1 THEN i ELSE a[k - 1]
  OBVIOUS
<1>5. \A k \in 2..(n + 1) : k - 1 \in 1..n /\ b[k] = a[k - 1] /\ b[k] \in (j + 1)..Len(q)
  <2> SUFFICES ASSUME NEW k \in 2..(n + 1)
               PROVE  k - 1 \in 1..n /\ b[k] = a[k - 1] /\ b[k] \in (j + 1)..Len(q)
    OBVIOUS
  <2>1. k - 1 \in 1..n /\ k \in 1..(n + 1) /\ k # 1
    BY <1>1
  <2> HIDE DEF b, j
  <2>2. b[k] = a[k - 1] /\ a[k - 1] \in (j + 1)..Len(q)
    BY <1>3, <1>4, <2>1
  <2>3. QED
    BY <2>1, <2>2
<1>6. b[1] = i /\ \A k \in 1..(n + 1) : k = 1 \/ k \in 2..(n + 1)
  BY <1>1
<1>7. b \in [1..(n + 1) -> i..Len(q)]
  <2>1. \A k \in 1..(n + 1) : b[k] \in i..Len(q)
    <3> HIDE DEF b
    <3>1. QED
      BY <1>2, <1>5, <1>6
  <2>2. QED
    BY <2>1
<1> HIDE DEF b, r, j
<1>8. \A k \in 1..(n + 1) : r[k] = TrialAt(q, b[k])
  BY <1>1, <1>3, <1>5, <1>6
<1>9. ASSUME NEW k \in 1..(n + 1), NEW l \in 1..(n + 1), k < l
      PROVE  ExitsOf(q, b[k], Horizon) # {} /\ ExitAt(q, b[k]) < b[l]
  <2>1. l \in 2..(n + 1)
    BY <1>1, <1>9
  <2>2. CASE k = 1
    <3>1. b[k] = i /\ b[l] \in (j + 1)..Len(q) /\ j \in Int
      BY <1>2, <1>5, <1>6, <2>1, <2>2
    <3>2. j < b[l]
      BY <3>1
    <3>3. QED
      BY <3>1, <3>2 DEF j
  <2>3. CASE k \in 2..(n + 1)
    <3>1. k - 1 \in 1..n /\ l - 1 \in 1..n /\ k - 1 < l - 1 /\ b[k] = a[k - 1] /\ b[l] = a[l - 1]
      BY <1>5, <1>9, <2>1, <2>3
    <3>2. QED
      BY <1>3, <3>1
  <2>4. QED
    BY <1>6, <2>2, <2>3
<1>10. Linked(q, n + 1, i, b)
  <2>1. /\ n = 0 => j + 1 > Len(q)
        /\ n # 0 => a[1] = j + 1
        /\ \A k \in 1..n :
              /\ k # n => ExitsOf(q, a[k], Horizon) # {} /\ a[k + 1] = ExitAt(q, a[k]) + 1
              /\ k = n => ExitsOf(q, a[k], Horizon) = {} \/ ExitAt(q, a[k]) + 1 > Len(q)
    BY <1>3 DEF Linked
  <2>2. n + 1 # 0 /\ b[1] = i /\ j = ExitAt(q, i)
    BY <1>1, <1>6 DEF j
  <2>3. ASSUME NEW k \in 1..(n + 1)
        PROVE  /\ k # n + 1 => ExitsOf(q, b[k], Horizon) # {} /\ b[k + 1] = ExitAt(q, b[k]) + 1
               /\ k = n + 1 => ExitsOf(q, b[k], Horizon) = {} \/ ExitAt(q, b[k]) + 1 > Len(q)
    <3>1. CASE k = 1
      <4>1. n # 0 => b[2] = a[1]
        <5>1. n # 0 => 2 \in 2..(n + 1) /\ 2 - 1 = 1
          BY <1>1
        <5>2. QED
          BY <1>5, <5>1
      <4>2. k = n + 1 => n = 0
        BY <1>1, <3>1
      <4>3. k # n + 1 => n # 0
        BY <3>1
      <4>4. QED
        BY <2>1, <2>2, <3>1, <4>1, <4>2, <4>3
    <3>2. CASE k \in 2..(n + 1)
      <4>1. /\ k - 1 \in 1..n /\ b[k] = a[k - 1] /\ (k - 1 = n <=> k = n + 1) /\ (k - 1) + 1 = k
            /\ k # n + 1 => k + 1 \in 2..(n + 1) /\ (k + 1) - 1 = k
        BY <1>1, <1>5, <3>2
      <4>2. k # n + 1 => b[k + 1] = a[k]
        BY <1>5, <4>1
      <4>3. /\ k - 1 # n => ExitsOf(q, a[k - 1], Horizon) # {} /\ a[(k - 1) + 1] = ExitAt(q, a[k - 1]) + 1
            /\ k - 1 = n => ExitsOf(q, a[k - 1], Horizon) = {} \/ ExitAt(q, a[k - 1]) + 1 > Len(q)
        BY <2>1, <4>1
      <4>4. ASSUME k # n + 1 PROVE ExitsOf(q, b[k], Horizon) # {} /\ b[k + 1] = ExitAt(q, b[k]) + 1
        <5>1. k - 1 # n /\ a[(k - 1) + 1] = a[k]
          BY <4>1, <4>4
        <5>2. QED
          BY <4>1, <4>2, <4>3, <4>4, <5>1
      <4>5. ASSUME k = n + 1 PROVE ExitsOf(q, b[k], Horizon) = {} \/ ExitAt(q, b[k]) + 1 > Len(q)
        BY <4>1, <4>3, <4>5
      <4>6. QED
        BY <4>4, <4>5
    <3>3. QED
      BY <1>6, <3>1, <3>2
  <2>4. QED
    BY <2>2, <2>3 DEF Linked
<1>11. Chain(q, r, i, b)
  BY <1>1, <1>7, <1>8, <1>9, <1>10 DEF Chain
<1>12. QED
  BY <1>11 DEF r

\* The loop over start_index gives a chain of all its trials.
LEMMA OpportunitiesAreChained ==
    ASSUME NEW T, NEW q, Len(q) \in Nat, \A i \in 1..Len(q) : TrialAt(q, i) \in T,
           CausalOrder(q) = q
    PROVE  /\ Opportunities(q, Horizon, MaxStep) \in Seq(T)
           /\ \E a : Chain(q, Opportunities(q, Horizon, MaxStep), 1, a)
<1> DEFINE n == Len(q)
<1> DEFINE Body(f, i) ==
        IF i > n THEN <<>>
        ELSE IF ExitsOf(q, i, Horizon) = {} THEN <<TrialAt(q, i)>>
        ELSE <<TrialAt(q, i)>> \o f[ExitAt(q, i) + 1]
<1> DEFINE Rule(f) == f = [i \in 1..(n + 2) |-> Body(f, i)]
<1> DEFINE from == CHOOSE f : Rule(f)
<1>1. Opportunities(q, Horizon, MaxStep) = from[1]
  <2>1. Opportunities(q, Horizon, MaxStep) = TrialLoop(q, Horizon, MaxStep)
    BY DEF Opportunities
  <2>2. TrialLoop(q, Horizon, MaxStep) = from[1]
    BY Zenon DEF TrialLoop, TrialAt, ExitAt, NextStart
  <2>3. QED
    BY <2>1, <2>2
<1> HIDE DEF Body, from
<1>2. n \in Nat
  OBVIOUS
<1>3. ASSUME NEW i \in 1..n, ExitsOf(q, i, Horizon) # {}
      PROVE  ExitAt(q, i) + 1 \in (i + 2)..(n + 1)
  BY <1>2, <1>3, ExitIsFirst
<1> DEFINE K == {k \in 0..(n + 1) : \E f : \A i \in (n + 2 - k)..(n + 2) : f[i] = Body(f, i)}
<1>4. 0 \in K
  <2> DEFINE f == [i \in {n + 2} |-> <<>>]
  <2>1. \A i \in (n + 2 - 0)..(n + 2) : f[i] = Body(f, i)
    BY <1>2 DEF Body
  <2>2. QED
    BY <1>2, <2>1
<1>5. \A k \in 0..(n + 1) : k < n + 1 /\ k \in K => k + 1 \in K
  <2> SUFFICES ASSUME NEW k \in 0..(n + 1), k < n + 1, k \in K PROVE k + 1 \in K
    OBVIOUS
  <2>1. PICK f : \A i \in (n + 2 - k)..(n + 2) : f[i] = Body(f, i)
    OBVIOUS
  <2>2. k \in Nat /\ n + 2 - (k + 1) = n + 1 - k /\ n + 1 - k \in 1..(n + 1) /\ k + 1 \in 0..(n + 1)
    BY <1>2
  <2> DEFINE g == [i \in 1..(n + 2) |-> IF i = n + 1 - k THEN Body(f, i) ELSE f[i]]
  <2>3. \A i \in (n + 1 - k)..(n + 2) : g[i] = IF i = n + 1 - k THEN Body(f, i) ELSE f[i]
    BY <1>2, <2>2
  <2>4. \A i \in (n + 2 - k)..(n + 2) : g[i] = f[i]
    BY <1>2, <2>2, <2>3
  <2> HIDE DEF g, K
  <2>5. ASSUME NEW i \in (n + 1 - k)..(n + 2) PROVE Body(g, i) = Body(f, i)
    <3>1. CASE i \in 1..n /\ ExitsOf(q, i, Horizon) # {}
      <4>1. ExitAt(q, i) + 1 \in (n + 2 - k)..(n + 2)
        BY <1>2, <1>3, <2>2, <3>1
      <4>2. QED
        BY <2>4, <4>1 DEF Body
    <3>2. CASE ~(i \in 1..n /\ ExitsOf(q, i, Horizon) # {})
      <4>1. i > n \/ ExitsOf(q, i, Horizon) = {}
        BY <1>2, <2>2, <3>2
      <4>2. QED
        BY <4>1 DEF Body
    <3>3. QED
      BY <3>1, <3>2
  <2>6. \A i \in (n + 1 - k)..(n + 2) : i = n + 1 - k \/ i \in (n + 2 - k)..(n + 2)
    BY <1>2, <2>2
  <2>7. \A i \in (n + 1 - k)..(n + 2) : g[i] = Body(f, i)
    BY <2>1, <2>3, <2>4, <2>6
  <2>8. \A i \in (n + 2 - (k + 1))..(n + 2) : g[i] = Body(g, i)
    BY <2>2, <2>5, <2>7
  <2>9. QED
    BY <2>2, <2>8 DEF K
<1>6. Rule(from)
  <2>1. n + 1 \in K
    <3> HIDE DEF K
    <3>1. n + 1 \in Nat /\ n + 1 \in 0..(n + 1)
      BY <1>2
    <3>2. \A k \in 0..(n + 1) : k \in K
      BY <1>4, <1>5, <3>1, UpTo
    <3>3. QED
      BY <3>1, <3>2
  <2>2. n + 2 - (n + 1) = 1
    BY <1>2
  <2>3. PICK f : \A i \in 1..(n + 2) : f[i] = Body(f, i)
    BY <2>1, <2>2
  <2> DEFINE g == [i \in 1..(n + 2) |-> f[i]]
  <2>4. \A i \in 1..(n + 2) : g[i] = f[i]
    OBVIOUS
  <2>5. ASSUME NEW i \in 1..(n + 2) PROVE Body(g, i) = Body(f, i)
    <3> HIDE DEF g
    <3>1. CASE i \in 1..n /\ ExitsOf(q, i, Horizon) # {}
      <4>1. ExitAt(q, i) + 1 \in 1..(n + 2)
        BY <1>2, <1>3, <3>1
      <4>2. QED
        BY <2>4, <4>1 DEF Body
    <3>2. CASE ~(i \in 1..n /\ ExitsOf(q, i, Horizon) # {})
      <4>1. i > n \/ ExitsOf(q, i, Horizon) = {}
        BY <1>2, <3>2
      <4>2. QED
        BY <4>1 DEF Body
    <3>3. QED
      BY <3>1, <3>2
  <2>6. Rule(g)
    BY <2>3, <2>5
  <2>7. QED
    BY <2>6 DEF from
<1>7. \A i \in 1..(n + 2) : from[i] = Body(from, i)
  BY <1>6
<1> DEFINE R == {k \in 0..(n + 1) : \A i \in (n + 2 - k)..(n + 2) :
                    from[i] \in Seq(T) /\ \E a : Chain(q, from[i], i, a)}
<1>8. ASSUME NEW i, i > n, from[i] = <<>>
      PROVE  from[i] \in Seq(T) /\ \E a : Chain(q, from[i], i, a)
  <2>1. 1..0 = {} /\ Len(<<>>) = 0
    OBVIOUS
  <2>2. Chain(q, <<>>, i, [k \in {} |-> i])
    BY <1>8, <2>1 DEF Chain, Linked
  <2>3. QED
    BY <1>8, <2>2
<1>9. 0 \in R
  <2> SUFFICES ASSUME NEW i \in (n + 2 - 0)..(n + 2)
               PROVE  from[i] \in Seq(T) /\ \E a : Chain(q, from[i], i, a)
    BY <1>2
  <2>1. i \in 1..(n + 2) /\ i > n
    BY <1>2
  <2>2. from[i] = <<>>
    BY <1>7, <2>1 DEF Body
  <2>3. QED
    BY <1>8, <2>1, <2>2
<1>10. \A k \in 0..(n + 1) : k < n + 1 /\ k \in R => k + 1 \in R
  <2> SUFFICES ASSUME NEW k \in 0..(n + 1), k < n + 1, k \in R PROVE k + 1 \in R
    OBVIOUS
  <2> SUFFICES ASSUME NEW i \in (n + 2 - (k + 1))..(n + 2)
               PROVE  from[i] \in Seq(T) /\ \E a : Chain(q, from[i], i, a)
    <3>1. k + 1 \in 0..(n + 1)
      BY <1>2
    <3>2. QED
      BY <3>1
  <2>1. i \in 1..(n + 2) /\ k \in Nat /\ from[i] = Body(from, i)
    BY <1>2, <1>7
  <2>2. CASE i > n
    <3>1. from[i] = <<>>
      BY <2>1, <2>2 DEF Body
    <3>2. QED
      BY <1>8, <2>2, <3>1
  <2>3. CASE i <= n /\ ExitsOf(q, i, Horizon) = {}
    <3>1. from[i] = <<TrialAt(q, i)>> /\ i \in 1..n
      BY <1>2, <2>1, <2>3 DEF Body
    <3>2. TrialAt(q, i) \in T
      BY <3>1
    <3>3. Len(<<TrialAt(q, i)>>) = 1 /\ <<TrialAt(q, i)>>[1] = TrialAt(q, i)
          /\ <<TrialAt(q, i)>> \in Seq(T)
      BY <3>2
    <3>4. Chain(q, from[i], i, [m \in 1..1 |-> i])
      <4>1. [m \in 1..1 |-> i] \in [1..1 -> i..n]
        BY <1>2, <3>1
      <4>2. \A m, l \in 1..1 : ~(m < l)
        OBVIOUS
      <4>3. \A m \in 1..1 : m = 1
        OBVIOUS
      <4>4. Linked(q, 1, i, [m \in 1..1 |-> i])
        BY <2>3, <4>3 DEF Linked
      <4>5. QED
        BY <3>1, <3>3, <4>1, <4>2, <4>3, <4>4 DEF Chain
    <3>5. QED
      BY <3>1, <3>3, <3>4
  <2>4. CASE i <= n /\ ExitsOf(q, i, Horizon) # {}
    <3>1. i \in 1..n /\ from[i] = <<TrialAt(q, i)>> \o from[ExitAt(q, i) + 1]
      BY <1>2, <2>1, <2>4 DEF Body
    <3>2. ExitAt(q, i) + 1 \in (n + 2 - k)..(n + 2)
      BY <1>2, <1>3, <2>1, <2>4, <3>1
    <3>3. from[ExitAt(q, i) + 1] \in Seq(T)
          /\ \E a : Chain(q, from[ExitAt(q, i) + 1], ExitAt(q, i) + 1, a)
      BY <3>2
    <3> DEFINE rest == from[ExitAt(q, i) + 1]
    <3> HIDE DEF rest, R
    <3>4. rest \in Seq(T) /\ \E a : Chain(q, rest, ExitAt(q, i) + 1, a)
      BY <3>3 DEF rest
    <3>5. TrialAt(q, i) \in T
      BY <3>1
    <3>6. \E b : Chain(q, <<TrialAt(q, i)>> \o rest, i, b)
      BY <1>2, <2>4, <3>1, <3>4, <3>5, ChainNext
    <3>7. <<TrialAt(q, i)>> \o rest \in Seq(T)
      BY <3>4, <3>5
    <3>8. QED
      BY <3>1, <3>6, <3>7 DEF rest
  <2>5. QED
    BY <1>2, <2>1, <2>2, <2>3, <2>4
<1>11. from[1] \in Seq(T) /\ \E a : Chain(q, from[1], 1, a)
  <2>1. n + 1 \in Nat /\ n + 1 \in 0..(n + 1) /\ n + 2 - (n + 1) = 1 /\ 1 \in 1..(n + 2)
    BY <1>2
  <2>2. n + 1 \in R
    <3> HIDE DEF R
    <3>1. \A k \in 0..(n + 1) : k \in R
      BY <1>9, <1>10, <2>1, UpTo
    <3>2. QED
      BY <2>1, <3>1
  <2>3. QED
    BY <2>1, <2>2
<1>12. QED
  BY <1>1, <1>11

TrialSet ==
    [entry : Quotes, exit : Quotes,
     interval : SUBSET {"HORIZON_EXIT_UNAVAILABLE", "GAP_EXCEEDS_MAX_STEP_NS"}]
TrialsOf(q) == Opportunities(q, Horizon, MaxStep)

LEMMA NoExitIsQuote == NoExit \in Quotes
  BY DEF NoExit, NoPrice, Quotes

LEMMA QuoteOf ==
    ASSUME NEW q \in Seq(Quotes), NEW i \in 1..Len(q)
    PROVE  q[i] \in Quotes /\ q[i].mono \in Nat /\ q[i].wall \in Nat /\ q[i].id \in Nat
<1>1. q[i] \in Quotes
  BY ElementOfSeq
<1>2. \A x \in Quotes : x.mono \in Nat /\ x.wall \in Nat /\ x.id \in Nat
  BY DEF Quotes
<1>3. QED
  BY <1>1, <1>2

LEMMA TrialTyped ==
    ASSUME NEW q \in Seq(Quotes), NEW i \in 1..Len(q)
    PROVE  TrialAt(q, i) \in TrialSet /\ TrialAt(q, i).entry = q[i]
<1>1. Len(q) \in Nat /\ i \in Nat /\ q[i] \in Quotes
  BY ElementOfSeq
<1> DEFINE e == q[i]
<1>2. CASE ExitsOf(q, i, Horizon) = {}
  <2>1. TrialAt(q, i) = [entry |-> e, exit |-> NoExit, interval |-> {"HORIZON_EXIT_UNAVAILABLE"}]
    BY <1>2 DEF TrialAt
  <2>2. {"HORIZON_EXIT_UNAVAILABLE"} \in SUBSET {"HORIZON_EXIT_UNAVAILABLE", "GAP_EXCEEDS_MAX_STEP_NS"}
    OBVIOUS
  <2> HIDE DEF e
  <2>3. e \in Quotes
    BY <1>1 DEF e
  <2>4. TrialAt(q, i) \in TrialSet /\ TrialAt(q, i).entry = e
    BY <2>1, <2>2, <2>3, NoExitIsQuote DEF TrialSet
  <2>5. QED
    BY <2>4 DEF e
<1>3. CASE ExitsOf(q, i, Horizon) # {}
  <2> DEFINE x == q[ExitAt(q, i)]
  <2> DEFINE d == IntervalDefects(q, i, ExitAt(q, i), MaxStep)
  <2>1. ExitAt(q, i) \in 1..Len(q)
    BY <1>1, <1>3, ExitIsFirst
  <2>2. TrialAt(q, i) = [entry |-> e, exit |-> x, interval |-> d]
    BY <1>3 DEF TrialAt
  <2>3. d \in SUBSET {"HORIZON_EXIT_UNAVAILABLE", "GAP_EXCEEDS_MAX_STEP_NS"}
    <3>1. {{"GAP_EXCEEDS_MAX_STEP_NS"}, {}} \subseteq SUBSET {"HORIZON_EXIT_UNAVAILABLE", "GAP_EXCEEDS_MAX_STEP_NS"}
      OBVIOUS
    <3>2. d \in {{"GAP_EXCEEDS_MAX_STEP_NS"}, {}}
      BY Zenon DEF IntervalDefects
    <3>3. QED
      BY <3>1, <3>2
  <2> HIDE DEF d, e, x
  <2>4. e \in Quotes /\ x \in Quotes
    BY <1>1, <2>1, ElementOfSeq DEF e, x
  <2>5. TrialAt(q, i) \in TrialSet /\ TrialAt(q, i).entry = e
    BY <2>2, <2>3, <2>4 DEF TrialSet
  <2>6. QED
    BY <2>5 DEF e
<1>4. QED
  BY <1>2, <1>3

LEMMA TrialsOfStream ==
    ASSUME NEW q \in Seq(Quotes), NEW now, Received(q, now)
    PROVE  TrialsOf(q) \in Seq(TrialSet) /\ \E a : Chain(q, TrialsOf(q), 1, a)
<1>1. Len(q) \in Nat /\ \A i \in 1..Len(q) : TrialAt(q, i) \in TrialSet
  BY TrialTyped
<1>2. CausalOrder(q) = q
  BY CausalSame
<1>3. QED
  BY <1>1, <1>2, OpportunitiesAreChained DEF TrialsOf

\* The rows of the segments.
RowSet(primary, reference) ==
    UNION {{Row(s, TrialsOf(primary[s])[k], reference[s]) : k \in 1..Len(TrialsOf(primary[s]))} :
              s \in 1..Segments}

LEMMA RowsAreOfSegments ==
    ASSUME NEW primary, NEW reference, NEW now,
           \A s \in 1..Segments : /\ primary[s] \in Seq(Quotes) /\ Received(primary[s], now)
                                  /\ reference[s] \in Seq(Quotes) /\ Received(reference[s], now)
    PROVE  Rows(primary, reference) \in Seq(RowSet(primary, reference))
<1> DEFINE T == RowSet(primary, reference)
<1> DEFINE of == [s \in 1..Segments |-> SegmentRows(s, primary[s], reference[s])]
<1> DEFINE rows == FlattenSeq(of)
<1> DEFINE keys == [i \in DOMAIN rows |-> <<rows[i].trial.entry.wall, rows[i].trial.entry.mono>>]
<1>1. ASSUME NEW s \in 1..Segments
      PROVE  SegmentRows(s, primary[s], reference[s]) \in Seq(T)
  <2> DEFINE trials == TrialsOf(primary[s])
  <2>1. trials \in Seq(TrialSet)
    BY TrialsOfStream
  <2>2. CausalOrder(reference[s]) = reference[s]
    BY CausalSame
  <2>3. SegmentRows(s, primary[s], reference[s]) =
          [i \in DOMAIN trials |-> Row(s, trials[i], reference[s])]
    BY <2>2 DEF SegmentRows, TrialsOf
  <2>4. \A k \in 1..Len(trials) : Row(s, trials[k], reference[s]) \in T
    BY DEF RowSet
  <2> HIDE DEF trials, T
  <2>5. DOMAIN trials = 1..Len(trials) /\ Len(trials) \in Nat
    BY <2>1
  <2>6. QED
    BY <2>3, <2>4, <2>5
<1> HIDE DEF T
<1>2. of \in Seq(Seq(T))
  <2>1. of \in [1..Segments -> Seq(T)]
    BY <1>1
  <2>2. QED
    BY <2>1, SegmentCount
<1>3. Rows(primary, reference) = Sorted(rows, keys)
  BY DEF Rows, ByEntry
<1> HIDE DEF of
<1>4. rows \in Seq(T)
  BY <1>2, FlattenIsOrdered
<1> HIDE DEF rows
<1>5. Len(keys) = Len(rows)
  BY <1>4
<1> HIDE DEF keys
<1>6. QED
  BY <1>3, <1>4, <1>5, SortedIsRearranged DEF T, Rearranged

\* A frozen row is that of a trial of its segment, on the books of its segment.
LEMMA FrozenRow ==
    ASSUME StudyInv, NEW i \in DOMAIN dataset
    PROVE  \E s \in 1..Segments : \E k \in 1..Len(TrialsOf(books[s])) :
              dataset[i] = Row(s, TrialsOf(books[s])[k], refs[s])
<1>1. StreamTypeOK /\ StreamsInv /\ FrozenInv
  BY DEF StudyInv
<1>2. \A s \in 1..Segments : /\ books[s] \in Seq(Quotes) /\ Received(books[s], clock.mono)
                             /\ refs[s] \in Seq(Quotes) /\ Received(refs[s], clock.mono)
  BY <1>1 DEF StreamTypeOK, StreamsInv
<1>3. dataset = Rows(books, refs)
  <2>1. DOMAIN <<>> = {}
    OBVIOUS
  <2>2. QED
    BY <1>1, <2>1 DEF FrozenInv
<1>4. dataset \in Seq(RowSet(books, refs))
  BY <1>2, <1>3, RowsAreOfSegments
<1>5. dataset[i] \in RowSet(books, refs)
  BY <1>4
<1>6. QED
  BY <1>5 DEF RowSet

LEMMA RowParts ==
    ASSUME NEW s, NEW o, NEW series
    PROVE  Row(s, o, series).segment = s /\ Row(s, o, series).trial = o
  BY Zenon DEF Row
-----------------------------------------------------------------------------
(* Trials *)

\* A trial with a valid interval is bounded by its steps.
LEMMA TrialIsBounded ==
    ASSUME NEW q \in Seq(Quotes), NEW now, Received(q, now), NEW i \in 1..Len(q),
           TrialAt(q, i).interval = {}
    PROVE  TrialAt(q, i).exit.mono - TrialAt(q, i).entry.mono \in Horizon..(Horizon + MaxStep - 1)
<1> DEFINE j == ExitAt(q, i)
<1>1. Len(q) \in Nat /\ Horizon \in Nat \ {0} /\ MaxStep \in Nat \ {0}
  BY StudyAssumption
<1>2. ExitsOf(q, i, Horizon) # {}
  BY DEF TrialAt
<1>3. /\ j \in (i + 1)..Len(q) /\ q[j].mono >= q[i].mono + Horizon
      /\ \A k \in (i + 1)..Len(q) : q[k].mono >= q[i].mono + Horizon => j <= k
  BY <1>1, <1>2, ExitIsFirst
<1>4. TrialAt(q, i).exit = q[j] /\ TrialAt(q, i).entry = q[i]
      /\ TrialAt(q, i).interval = IntervalDefects(q, i, j, MaxStep)
  BY <1>2 DEF TrialAt
<1> HIDE DEF j
<1>5. \A k \in i..(j - 1) : ~(q[k + 1].mono - q[k].mono > MaxStep)
  BY <1>4 DEF IntervalDefects
<1>6. j - 1 \in i..(j - 1) /\ (j - 1) + 1 = j /\ j \in 1..Len(q) /\ j - 1 \in 1..Len(q)
  BY <1>1, <1>3
<1>7. ~(q[j].mono - q[j - 1].mono > MaxStep)
  BY <1>5, <1>6
<1>8. q[i].mono \in Nat /\ q[j].mono \in Nat /\ q[j - 1].mono \in Nat
  <2>1. \A k \in 1..Len(q) : q[k].mono \in Nat
    BY QuoteOf
  <2>2. QED
    BY <1>6, <2>1
<1>9. q[j - 1].mono < q[i].mono + Horizon
  <2>1. CASE j - 1 = i
    BY <1>1, <1>8, <2>1
  <2>2. CASE j - 1 # i
    <3>1. j - 1 \in (i + 1)..Len(q) /\ ~(j <= j - 1)
      BY <1>1, <1>3, <2>2
    <3>2. ~(q[j - 1].mono >= q[i].mono + Horizon)
      BY <1>3, <3>1
    <3>3. QED
      BY <1>1, <1>8, <3>2
  <2>3. QED
    BY <2>1, <2>2
<1> DEFINE x == q[j].mono
<1> DEFINE y == q[i].mono
<1> DEFINE z == q[j - 1].mono
<1>10. /\ x \in Nat /\ y \in Nat /\ z \in Nat /\ x >= y + Horizon /\ ~(x - z > MaxStep)
       /\ z < y + Horizon /\ TrialAt(q, i).exit.mono - TrialAt(q, i).entry.mono = x - y
  BY <1>3, <1>4, <1>7, <1>8, <1>9
<1> HIDE DEF x, y, z
<1>11. x - y \in Horizon..(Horizon + MaxStep - 1)
  BY <1>1, <1>10
<1>12. QED
  BY <1>10, <1>11

\* Of two trials of a stream, the one that starts later starts behind the exit
\* of the other.
LEMMA TrialsAreApart ==
    ASSUME NEW q \in Seq(Quotes), NEW now, Received(q, now),
           NEW k \in 1..Len(TrialsOf(q)), NEW l \in 1..Len(TrialsOf(q)),
           TrialsOf(q)[k].entry.mono < TrialsOf(q)[l].entry.mono
    PROVE  /\ HasExit(TrialsOf(q)[k])
           /\ TrialsOf(q)[k].exit.mono <= TrialsOf(q)[l].entry.mono
           /\ TrialsOf(q)[k].exit.id # TrialsOf(q)[l].entry.id
<1> DEFINE trials == TrialsOf(q)
<1>1. trials \in Seq(TrialSet) /\ \E a : Chain(q, trials, 1, a)
  BY TrialsOfStream
<1>2. PICK a : Chain(q, trials, 1, a)
  BY <1>1
<1> HIDE DEF trials
<1>3. /\ k \in 1..Len(trials) /\ l \in 1..Len(trials) /\ Len(trials) \in Nat /\ Len(q) \in Nat
      /\ trials[k].entry.mono < trials[l].entry.mono
  BY <1>1 DEF trials
<1>4. /\ a[k] \in 1..Len(q) /\ trials[k] = TrialAt(q, a[k])
      /\ a[l] \in 1..Len(q) /\ trials[l] = TrialAt(q, a[l])
      /\ k < l => ExitsOf(q, a[k], Horizon) # {} /\ ExitAt(q, a[k]) < a[l]
      /\ l < k => ExitsOf(q, a[l], Horizon) # {} /\ ExitAt(q, a[l]) < a[k]
  BY <1>2, <1>3 DEF Chain
<1>5. trials[k].entry = q[a[k]] /\ trials[l].entry = q[a[l]]
  BY <1>4, TrialTyped
<1>6. /\ \A m \in 1..Len(q) : q[m].mono \in Nat /\ q[m].id = q[m].mono
      /\ \A m, n \in 1..Len(q) : m < n => q[m].mono < q[n].mono
  <2>1. \A m \in 1..Len(q) : q[m].mono \in Nat
    BY QuoteOf
  <2>2. QED
    BY <2>1 DEF Received
<1>7. k < l
  <2>1. ~(l < k)
    <3> SUFFICES ASSUME l < k PROVE FALSE
      OBVIOUS
    <3>1. ExitAt(q, a[l]) \in (a[l] + 1)..Len(q) /\ ExitAt(q, a[l]) < a[k]
      BY <1>3, <1>4, ExitIsFirst
    <3>2. a[l] < a[k]
      BY <1>4, <3>1
    <3>3. q[a[l]].mono < q[a[k]].mono /\ q[a[l]].mono \in Nat /\ q[a[k]].mono \in Nat
      BY <1>4, <1>6, <3>2
    <3>4. q[a[k]].mono < q[a[l]].mono
      BY <1>3, <1>5
    <3>5. QED
      BY <3>3, <3>4
  <2>2. k # l
    <3> SUFFICES ASSUME k = l PROVE FALSE
      OBVIOUS
    <3>1. q[a[k]].mono < q[a[k]].mono /\ q[a[k]].mono \in Nat
      BY <1>3, <1>4, <1>5, <1>6
    <3>2. QED
      BY <3>1
  <2>3. QED
    BY <1>3, <2>1, <2>2
<1> DEFINE j == ExitAt(q, a[k])
<1>8. /\ j \in (a[k] + 1)..Len(q) /\ q[j].mono >= q[a[k]].mono + Horizon /\ j < a[l]
      /\ trials[k].exit = q[j]
  BY <1>3, <1>4, <1>7, ExitIsFirst DEF TrialAt
<1> HIDE DEF j
<1>9. /\ q[j].mono < q[a[l]].mono /\ q[j].mono \in Nat /\ q[a[l]].mono \in Nat /\ q[a[k]].mono \in Nat
      /\ q[j].id = q[j].mono /\ q[a[l]].id = q[a[l]].mono
  <2>1. j \in 1..Len(q)
    BY <1>4, <1>8
  <2>2. QED
    BY <1>4, <1>6, <1>8, <2>1
<1>10. HasExit(trials[k])
  <2>1. Horizon \in Nat \ {0}
    BY StudyAssumption
  <2> DEFINE x == q[j].mono
  <2> DEFINE y == q[a[k]].mono
  <2>5. x \in Nat /\ y \in Nat /\ x >= y + Horizon
    BY <1>8, <1>9
  <2> HIDE DEF x, y
  <2>6. x # 0
    BY <2>1, <2>5
  <2>2. q[j].mono # 0
    BY <2>6 DEF x
  <2>3. NoExit.mono = 0
    BY DEF NoExit
  <2>4. QED
    BY <1>8, <2>2, <2>3 DEF HasExit
<1>11. trials[k].exit.mono <= trials[l].entry.mono /\ trials[k].exit.id # trials[l].entry.id
  BY <1>5, <1>8, <1>9
<1>12. QED
  BY <1>10, <1>11 DEF trials

\* build_fixed_horizon_opportunities: no stream whatever gives overlapping trials
\* or a valid one outside the horizon and one step.
THEOREM TrialsHoldHorizonHolds == Spec => []TrialsHoldHorizon
<1>1. StudyInv => TrialsHoldHorizon
  <2> SUFFICES ASSUME StudyInv, NEW i \in DOMAIN dataset
               PROVE  /\ dataset[i].trial.interval = {} =>
                             dataset[i].trial.exit.mono - dataset[i].trial.entry.mono
                                \in Horizon..(Horizon + MaxStep - 1)
                      /\ \A j \in DOMAIN dataset :
                            dataset[i].segment = dataset[j].segment
                            /\ dataset[i].trial.entry.mono < dataset[j].trial.entry.mono =>
                               /\ HasExit(dataset[i].trial)
                               /\ dataset[i].trial.exit.mono <= dataset[j].trial.entry.mono
                               /\ dataset[i].trial.exit.id # dataset[j].trial.entry.id
    BY Zenon DEF TrialsHoldHorizon
  <2>1. \A s \in 1..Segments : books[s] \in Seq(Quotes) /\ Received(books[s], clock.mono)
    BY DEF StudyInv, StreamTypeOK, StreamsInv
  <2>2. PICK s \in 1..Segments : \E k \in 1..Len(TrialsOf(books[s])) :
              dataset[i] = Row(s, TrialsOf(books[s])[k], refs[s])
    BY FrozenRow
  <2>3. PICK k \in 1..Len(TrialsOf(books[s])) : dataset[i] = Row(s, TrialsOf(books[s])[k], refs[s])
    BY <2>2
  <2>4. dataset[i].segment = s /\ dataset[i].trial = TrialsOf(books[s])[k]
    <3> DEFINE o == TrialsOf(books[s])[k]
    <3>1. Row(s, o, refs[s]).segment = s /\ Row(s, o, refs[s]).trial = o
      BY RowParts
    <3>2. QED
      BY <2>3, <3>1, Zenon
  <2>5. ASSUME dataset[i].trial.interval = {}
        PROVE  dataset[i].trial.exit.mono - dataset[i].trial.entry.mono
                  \in Horizon..(Horizon + MaxStep - 1)
    <3>1. PICK a : Chain(books[s], TrialsOf(books[s]), 1, a)
      BY <2>1, TrialsOfStream
    <3>2. a[k] \in 1..Len(books[s]) /\ TrialsOf(books[s])[k] = TrialAt(books[s], a[k])
      BY <3>1 DEF Chain
    <3>3. QED
      BY <2>1, <2>4, <2>5, <3>2, TrialIsBounded
  <2>6. ASSUME NEW j \in DOMAIN dataset, dataset[i].segment = dataset[j].segment,
               dataset[i].trial.entry.mono < dataset[j].trial.entry.mono
        PROVE  /\ HasExit(dataset[i].trial)
               /\ dataset[i].trial.exit.mono <= dataset[j].trial.entry.mono
               /\ dataset[i].trial.exit.id # dataset[j].trial.entry.id
    <3>1. PICK t \in 1..Segments : \E l \in 1..Len(TrialsOf(books[t])) :
                dataset[j] = Row(t, TrialsOf(books[t])[l], refs[t])
      BY FrozenRow
    <3>2. PICK l \in 1..Len(TrialsOf(books[t])) : dataset[j] = Row(t, TrialsOf(books[t])[l], refs[t])
      BY <3>1
    <3>3. dataset[j].segment = t /\ dataset[j].trial = TrialsOf(books[t])[l]
      <4> DEFINE o == TrialsOf(books[t])[l]
      <4>1. Row(t, o, refs[t]).segment = t /\ Row(t, o, refs[t]).trial = o
        BY RowParts
      <4>2. QED
        BY <3>2, <4>1, Zenon
    <3>4. t = s
      BY <2>4, <2>6, <3>3
    <3>5. QED
      BY <2>1, <2>4, <2>6, <3>3, <3>4, TrialsAreApart
  <2>7. QED
    BY <2>5, <2>6
<1>2. QED
  BY <1>1, StudyInvariant, PTL
-----------------------------------------------------------------------------
(* What a decision reads *)

LEMMA MaxOf ==
    ASSUME NEW n \in Nat, NEW S, S \subseteq 1..n, S # {}
    PROVE  Max(S) \in S /\ \A k \in S : k <= Max(S)
<1> DEFINE Left == {n - k : k \in S}
<1>1. Left \subseteq Nat /\ Left # {}
  <2>1. \A k \in S : n - k \in Nat
    OBVIOUS
  <2>2. Left \subseteq Nat
    BY <2>1, Zenon
  <2>3. PICK k \in S : TRUE
    OBVIOUS
  <2>4. n - k \in Left
    OBVIOUS
  <2>5. QED
    BY <2>2, <2>4
<1>2. PICK l \in Left : \A m \in Left : l <= m
  <2> HIDE DEF Left
  <2>1. QED
    BY <1>1, LeastNat
<1>3. PICK x \in S : l = n - x
  OBVIOUS
<1>4. \A k \in S : x >= k
  <2> SUFFICES ASSUME NEW k \in S PROVE x >= k
    OBVIOUS
  <2>1. n - x <= n - k
    BY <1>2, <1>3
  <2>2. k \in Int /\ x \in Int
    OBVIOUS
  <2>3. QED
    BY <2>1, <2>2
<1>5. Max(S) \in S /\ \A k \in S : Max(S) >= k
  BY <1>4 DEF Max
<1>6. QED
  BY <1>5

\* The places at which a book is known at a target and a wall.
KnownAt(series, target, wall) ==
    {k \in DOMAIN series : series[k].mono <= target /\ series[k].wall <= wall}

\* The last book known at a target is the last one known there among any books
\* that those known there belong to.
LEMMA LatestAmong ==
    ASSUME NEW series \in Seq(Quotes), NEW wall, NEW target, NEW P,
           KnownAt(series, target, wall) \subseteq P, P \subseteq DOMAIN series
    PROVE  Latest(Keep(series, P), target, wall) = Latest(series, target, wall)
<1> DEFINE q == Keep(series, P)
<1> DEFINE I == KnownAt(series, target, wall)
<1> DEFINE J == KnownAt(q, target, wall)
<1>1. DOMAIN series = 1..Len(series) /\ Len(series) \in Nat
  OBVIOUS
<1>2. I \subseteq P /\ P \subseteq DOMAIN series /\ I \subseteq 1..Len(series)
  OBVIOUS
<1>3. q \in Seq(Quotes) /\ \E g : Kept(q, series, P, g)
  BY <1>2, KeepIsOrdered
<1>4. PICK g : Kept(q, series, P, g)
  BY <1>3
<1> HIDE DEF q
<1>5. DOMAIN q = 1..Len(q) /\ Len(q) \in Nat
  BY <1>3
<1>6. /\ g \in [1..Len(q) -> P]
      /\ \A k \in 1..Len(q) : q[k] = series[g[k]]
      /\ \A k, l \in 1..Len(q) : k < l => g[k] < g[l]
      /\ \A p \in P : \E k \in 1..Len(q) : g[k] = p
  BY <1>4, Zenon DEF Kept
<1>7. \A k \in 1..Len(q) : g[k] \in 1..Len(series) /\ (k \in J <=> g[k] \in I)
  <2> SUFFICES ASSUME NEW k \in 1..Len(q)
               PROVE  g[k] \in 1..Len(series) /\ (k \in J <=> g[k] \in I)
    OBVIOUS
  <2>1. g[k] \in P /\ g[k] \in DOMAIN series /\ q[k] = series[g[k]]
    BY <1>2, <1>6
  <2>2. QED
    BY <1>1, <1>5, <2>1 DEF KnownAt
<1>8. J \subseteq 1..Len(q)
  BY <1>5 DEF KnownAt
<1>9. \A p \in I : \E k \in J : g[k] = p
  <2> HIDE DEF I, J
  <2>1. QED
    BY <1>2, <1>6, <1>7
<1>10. Latest(series, target, wall) = IF I = {} THEN {} ELSE {series[Max(I)]}
  BY DEF Latest, KnownAt
<1>11. Latest(q, target, wall) = IF J = {} THEN {} ELSE {q[Max(J)]}
  BY DEF Latest, KnownAt
<1> HIDE DEF I, J
<1>12. CASE I = {}
  <2>1. J = {}
    BY <1>7, <1>8, <1>12
  <2>2. QED
    BY <1>10, <1>11, <1>12, <2>1 DEF q
<1>13. CASE I # {}
  <2>1. J # {}
    BY <1>9, <1>13
  <2>2. Max(I) \in I /\ \A p \in I : p <= Max(I)
    BY <1>1, <1>2, <1>13, MaxOf
  <2>3. Max(J) \in J /\ \A k \in J : k <= Max(J)
    BY <1>5, <1>8, <2>1, MaxOf
  <2>4. PICK k \in J : g[k] = Max(I)
    BY <1>9, <2>2
  <2>5. k \in 1..Len(q) /\ Max(J) \in 1..Len(q) /\ k <= Max(J) /\ g[Max(J)] \in I
    BY <1>7, <1>8, <2>3
  <2>6. g[Max(J)] <= g[k] /\ g[Max(J)] \in Int /\ g[k] \in Int
    BY <1>7, <2>2, <2>4, <2>5
  <2>7. k = Max(J)
    <3>1. k < Max(J) => g[k] < g[Max(J)]
      BY <1>6, <2>5
    <3>2. QED
      BY <2>5, <2>6, <3>1
  <2>8. q[Max(J)] = series[Max(I)]
    BY <1>6, <2>4, <2>5, <2>7
  <2>9. QED
    BY <1>10, <1>11, <1>13, <2>1, <2>8 DEF q
<1>14. QED
  BY <1>12, <1>13

\* The last book known at an earlier target is among those known.
LEMMA LatestKept ==
    ASSUME NEW series \in Seq(Quotes), NEW mono \in Int, NEW wall, NEW target \in Int, target <= mono
    PROVE  LET known == Keep(series, KnownAt(series, mono, wall))
           IN Latest(known, target, wall) = Latest(series, target, wall)
<1> DEFINE P == KnownAt(series, mono, wall)
<1>1. DOMAIN series = 1..Len(series) /\ P \subseteq DOMAIN series
  BY DEF KnownAt
<1>2. ASSUME NEW k \in KnownAt(series, target, wall) PROVE k \in P
  <2>1. series[k].mono \in Nat /\ series[k].mono <= target /\ k \in DOMAIN series
    BY <1>1, QuoteOf DEF KnownAt
  <2>2. QED
    BY <2>1, <1>2 DEF KnownAt
<1>3. KnownAt(series, target, wall) \subseteq P
  BY <1>2
<1> HIDE DEF P
<1>4. Latest(Keep(series, P), target, wall) = Latest(series, target, wall)
  BY <1>1, <1>3, LatestAmong
<1>5. QED
  BY <1>4 DEF P

LEMMA SomeFails ==
    ASSUME NEW n \in Nat, NEW checks, DOMAIN checks = 1..n, NEW i \in 1..n, ~checks[i].holds,
           \A k \in 1..n : checks[k].code # None
    PROVE  FirstFailed(checks, None) # None
<1> DEFINE failed == {k \in DOMAIN checks : ~checks[k].holds}
<1>1. failed \subseteq 1..n /\ failed \subseteq Nat /\ failed # {}
  OBVIOUS
<1>2. PICK x \in failed : \A k \in failed : x <= k
  <2> HIDE DEF failed
  <2>1. QED
    BY <1>1, LeastNat
<1>3. Min(failed) \in failed
  <2> HIDE DEF failed
  <2>1. QED
    BY <1>2 DEF Min
<1>4. FirstFailed(checks, None) = checks[Min(failed)].code
  BY <1>1 DEF FirstFailed
<1>5. QED
  BY <1>1, <1>3, <1>4

\* The reference feature, of what its checks read.
ReturnOf(some, current, anchor, entry) ==
    LET failed == FirstFailed(
          << Check(some, "REFERENCE_BBO_UNAVAILABLE"),
             Check(current # {}, "REFERENCE_CURRENT_UNAVAILABLE"),
             Check(entry.mono >= Lookback, "REFERENCE_LOOKBACK_BEFORE_DOMAIN_START"),
             Check(anchor # {}, "REFERENCE_LOOKBACK_UNAVAILABLE"),
             Check(\A b \in current : entry.mono - b.mono <= MaxAge, "REFERENCE_CURRENT_STALE"),
             Check(\A b \in anchor : entry.mono - Lookback - b.mono <= MaxAge,
                   "REFERENCE_LOOKBACK_STALE"),
             Check(\A b \in current \cup anchor : HasMid(b), "REFERENCE_BBO_INVALID") >>, None)
    IN IF failed # None THEN Missing(failed)
       ELSE CHOOSE f \in {Feature(Mid2(c) - Mid2(a)) : c \in current, a \in anchor} : TRUE

LEMMA ReturnReads ==
    ASSUME NEW series, NEW entry
    PROVE  ReferenceReturn(series, entry) =
             ReturnOf(series # <<>>, Latest(series, entry.mono, entry.wall),
                      Latest(series, entry.mono - Lookback, entry.wall), entry)
  BY DEF ReferenceReturn, ReturnOf

LEMMA NoReturnWithoutCurrent ==
    ASSUME NEW some, NEW anchor, NEW entry
    PROVE  ~Available(ReturnOf(some, {}, anchor, entry))
<1> DEFINE c1 == Check(some, "REFERENCE_BBO_UNAVAILABLE")
<1> DEFINE c2 == Check({} # {}, "REFERENCE_CURRENT_UNAVAILABLE")
<1> DEFINE c3 == Check(entry.mono >= Lookback, "REFERENCE_LOOKBACK_BEFORE_DOMAIN_START")
<1> DEFINE c4 == Check(anchor # {}, "REFERENCE_LOOKBACK_UNAVAILABLE")
<1> DEFINE c5 == Check(\A b \in {} : entry.mono - b.mono <= MaxAge, "REFERENCE_CURRENT_STALE")
<1> DEFINE c6 == Check(\A b \in anchor : entry.mono - Lookback - b.mono <= MaxAge, "REFERENCE_LOOKBACK_STALE")
<1> DEFINE c7 == Check(\A b \in {} \cup anchor : HasMid(b), "REFERENCE_BBO_INVALID")
<1> DEFINE failed == FirstFailed(<<c1, c2, c3, c4, c5, c6, c7>>, None)
<1>1. ReturnOf(some, {}, anchor, entry) =
        IF failed # None THEN Missing(failed)
        ELSE CHOOSE f \in {Feature(Mid2(c) - Mid2(a)) : c \in {}, a \in anchor} : TRUE
  BY DEF ReturnOf
<1>2. /\ c1.code # None /\ c2.code # None /\ c3.code # None /\ c4.code # None
      /\ c5.code # None /\ c6.code # None /\ c7.code # None /\ ~c2.holds
  BY DEF Check, None
<1> HIDE DEF c1, c2, c3, c4, c5, c6, c7
<1> DEFINE checks == <<c1, c2, c3, c4, c5, c6, c7>>
<1>3. /\ DOMAIN checks = 1..7 /\ checks[1] = c1 /\ checks[2] = c2 /\ checks[3] = c3
      /\ checks[4] = c4 /\ checks[5] = c5 /\ checks[6] = c6 /\ checks[7] = c7
  OBVIOUS
<1> HIDE DEF checks
<1>4. \A k \in 1..7 : checks[k].code # None
  <2>1. \A k \in 1..7 : k \in {1, 2, 3, 4, 5, 6, 7}
    OBVIOUS
  <2>2. QED
    BY <1>2, <1>3, <2>1
<1>5. failed # None
  <2>1. 7 \in Nat /\ 2 \in 1..7 /\ ~checks[2].holds
    BY <1>2, <1>3
  <2>2. FirstFailed(checks, None) # None
    BY <1>3, <1>4, <2>1, SomeFails
  <2>3. QED
    BY <2>2 DEF checks
<1> HIDE DEF failed
<1>6. QED
  BY <1>1, <1>5 DEF Missing, Available

LEMMA ActionReads ==
    ASSUME NEW s, NEW o, NEW series, NEW h \in {H1, H2}
    PROVE  LET feature == IF h = H1 THEN ReferenceReturn(series, o.entry) ELSE Imbalance(o.entry)
               ready == /\ QuoteDefects(o.entry) = {} /\ "BACKFILL" \notin o.entry.flags
                        /\ Available(feature)
           IN Action(Row(s, o, series), h) =
                IF ~ready \/ feature.sign = 0 THEN "ABSTAIN"
                ELSE IF feature.sign > 0 THEN "LONG" ELSE "SHORT"
<1> DEFINE row == Row(s, o, series)
<1>1. row.decidable = (QuoteDefects(o.entry) = {} /\ "BACKFILL" \notin o.entry.flags)
  BY Zenon DEF Row
<1>2. row.feature = [g \in {H1, H2} |-> IF g = H1 THEN ReferenceReturn(series, o.entry)
                                                  ELSE Imbalance(o.entry)]
  BY Zenon DEF Row
<1>3. row.feature[h] = IF h = H1 THEN ReferenceReturn(series, o.entry) ELSE Imbalance(o.entry)
  BY <1>2, Zenon
<1> DEFINE feature == IF h = H1 THEN ReferenceReturn(series, o.entry) ELSE Imbalance(o.entry)
<1> HIDE DEF row, feature
<1>4. row.feature[h] = feature
  BY <1>3 DEF feature
<1>5. FeatureReady(row, h) <=>
        /\ QuoteDefects(o.entry) = {} /\ "BACKFILL" \notin o.entry.flags
        /\ Available(feature)
  BY <1>1, <1>4, Zenon DEF FeatureReady
<1>6. Action(row, h) = IF ~FeatureReady(row, h) \/ feature.sign = 0 THEN "ABSTAIN"
                       ELSE IF feature.sign > 0 THEN "LONG" ELSE "SHORT"
  BY <1>4, Zenon DEF Action
<1> DEFINE ready == /\ QuoteDefects(o.entry) = {} /\ "BACKFILL" \notin o.entry.flags
                    /\ Available(feature)
<1> HIDE DEF ready
<1>7. Action(row, h) = IF ~ready \/ feature.sign = 0 THEN "ABSTAIN"
                       ELSE IF feature.sign > 0 THEN "LONG" ELSE "SHORT"
  BY <1>5, <1>6 DEF ready
<1>8. QED
  BY <1>7 DEF row, feature, ready

\* Two series with the same latest books give the same action.
LEMMA SameAction ==
    ASSUME NEW s, NEW o, NEW series, NEW known, NEW h \in {H1, H2},
           Latest(known, o.entry.mono, o.entry.wall) = Latest(series, o.entry.mono, o.entry.wall),
           Latest(known, o.entry.mono - Lookback, o.entry.wall) =
              Latest(series, o.entry.mono - Lookback, o.entry.wall),
           Latest(series, o.entry.mono, o.entry.wall) = {} \/ (series # <<>> /\ known # <<>>)
    PROVE  Action(Row(s, o, series), h) = Action(Row(s, o, known), h)
<1> DEFINE current == Latest(series, o.entry.mono, o.entry.wall)
<1> DEFINE anchor == Latest(series, o.entry.mono - Lookback, o.entry.wall)
<1> DEFINE f == ReferenceReturn(series, o.entry)
<1> DEFINE g == ReferenceReturn(known, o.entry)
<1> DEFINE a == Action(Row(s, o, series), h)
<1> DEFINE b == Action(Row(s, o, known), h)
<1> DEFINE clean == QuoteDefects(o.entry) = {} /\ "BACKFILL" \notin o.entry.flags
<1> DEFINE i == Imbalance(o.entry)
<1> DEFINE Act(x) == IF ~(clean /\ Available(x)) \/ x.sign = 0 THEN "ABSTAIN"
                     ELSE IF x.sign > 0 THEN "LONG" ELSE "SHORT"
<1>1. a = Act(IF h = H1 THEN f ELSE i) /\ b = Act(IF h = H1 THEN g ELSE i)
  BY ActionReads
<1>2. /\ f = ReturnOf(series # <<>>, current, anchor, o.entry)
      /\ g = ReturnOf(known # <<>>, current, anchor, o.entry)
  BY ReturnReads
<1>3. CASE current = {}
  <2>1. ~Available(f) /\ ~Available(g)
    BY <1>2, <1>3, NoReturnWithoutCurrent
  <2> HIDE DEF f, g, clean, i, a, b
  <2>2. Act(f) = Act(g)
    BY <2>1
  <2> HIDE DEF Act
  <2>3. QED
    BY <1>1, <2>2 DEF a, b
<1>4. CASE series # <<>> /\ known # <<>>
  <2>1. (series # <<>>) = TRUE /\ (known # <<>>) = TRUE
    BY <1>4
  <2>2. f = g
    BY <1>2, <2>1, Zenon
  <2> HIDE DEF f, g, a, b, Act
  <2>3. QED
    BY <1>1, <2>2 DEF a, b
<1>5. QED
  BY <1>3, <1>4

\* build_signal_feature_rows: no book received after a decision, on either clock,
\* changes what is done at it.
THEOREM FeatureIsCausalHolds == Spec => []FeatureIsCausal
<1>1. StudyInv => FeatureIsCausal
  <2> SUFFICES ASSUME StudyInv, NEW i \in DOMAIN dataset, NEW h \in {H1, H2}
               PROVE  LET row == dataset[i]
                          books_of == refs[row.segment]
                          known == Keep(books_of, KnownAt(books_of, row.trial.entry.mono,
                                                          row.trial.entry.wall))
                      IN Action(row, h) = Action(Row(row.segment, row.trial, known), h)
    BY Zenon DEF FeatureIsCausal, KnownAt
  <2>1. PICK s \in 1..Segments : \E k \in 1..Len(TrialsOf(books[s])) :
              dataset[i] = Row(s, TrialsOf(books[s])[k], refs[s])
    BY FrozenRow
  <2>2. PICK k \in 1..Len(TrialsOf(books[s])) : dataset[i] = Row(s, TrialsOf(books[s])[k], refs[s])
    BY <2>1
  <2>3. PICK o : o = TrialsOf(books[s])[k]
    OBVIOUS
  <2>4. dataset[i] = Row(s, o, refs[s]) /\ dataset[i].segment = s /\ dataset[i].trial = o
    BY <2>2, <2>3, RowParts
  <2>5. /\ books[s] \in Seq(Quotes) /\ Received(books[s], clock.mono)
        /\ refs[s] \in Seq(Quotes)
    BY DEF StudyInv, StreamTypeOK, StreamsInv
  <2>6. o.entry.mono \in Nat
    <3>1. o \in TrialSet
      BY <2>3, <2>5, TrialsOfStream
    <3>2. QED
      BY <3>1 DEF TrialSet, Quotes
  <2> DEFINE series == refs[s]
  <2> DEFINE P == KnownAt(series, o.entry.mono, o.entry.wall)
  <2> DEFINE known == Keep(series, P)
  <2>7. /\ Latest(known, o.entry.mono, o.entry.wall) = Latest(series, o.entry.mono, o.entry.wall)
        /\ Latest(known, o.entry.mono - Lookback, o.entry.wall) =
              Latest(series, o.entry.mono - Lookback, o.entry.wall)
    <3>1. Lookback \in Nat
      BY StudyAssumption
    <3>2. o.entry.mono - Lookback \in Int /\ o.entry.mono \in Int
          /\ o.entry.mono - Lookback <= o.entry.mono /\ o.entry.mono <= o.entry.mono
      BY <2>6, <3>1
    <3>3. QED
      BY <2>5, <3>2, LatestKept
  <2>8. Latest(series, o.entry.mono, o.entry.wall) = {} \/ (series # <<>> /\ known # <<>>)
    <3>1. P = {} => Latest(series, o.entry.mono, o.entry.wall) = {}
      BY DEF Latest, KnownAt
    <3>2. P \subseteq DOMAIN series
      BY DEF KnownAt
    <3> HIDE DEF P
    <3>3. known \in Seq(Quotes) /\ \E g : Kept(known, series, P, g)
      BY <2>5, <3>2, KeepIsOrdered
    <3>4. PICK g : Kept(known, series, P, g)
      BY <3>3
    <3>5. P # {} => DOMAIN known # {} /\ DOMAIN series # {}
      <4>1. \A p \in P : \E m \in 1..Len(known) : g[m] = p
        BY <3>4, Zenon DEF Kept
      <4> HIDE DEF known
      <4>2. DOMAIN known = 1..Len(known)
        BY <3>3
      <4>3. QED
        BY <3>2, <4>1, <4>2
    <3>6. DOMAIN <<>> = {}
      OBVIOUS
    <3> HIDE DEF known
    <3>7. QED
      BY <3>1, <3>5, <3>6
  <2>9. Action(Row(s, o, series), h) = Action(Row(s, o, known), h)
    <3> HIDE DEF series, known
    <3>1. QED
      BY <2>7, <2>8, SameAction
  <2>10. QED
    BY <2>4, <2>9
<1>2. QED
  BY <1>1, StudyInvariant, PTL
-----------------------------------------------------------------------------
(* The ledger *)

LEMMA LedgerEntry ==
    ASSUME NEW opps, NEW policy, NEW costs, NEW i \in DOMAIN opps
    PROVE  LET ledger == Simulate(opps, policy, costs, 1) IN
           /\ DOMAIN ledger = DOMAIN opps
           /\ ledger[i].status = "TRADED" =>
                 Defects(opps[i]) = {} /\ policy[i] # "ABSTAIN"
           /\ Defects(opps[i]) = {} /\ policy[i] # "ABSTAIN" =>
                 ledger[i] = Traded(opps[i], policy[i], costs, 1)
<1> DEFINE ledger == Simulate(opps, policy, costs, 1)
<1> DEFINE o == opps[i]
<1>1. DOMAIN ledger = DOMAIN opps
      /\ ledger[i] = IF Defects(o) # {} THEN Untraded(o, "INVALID")
                     ELSE IF policy[i] = "ABSTAIN" THEN Untraded(o, "NO_TRADE")
                     ELSE Traded(o, policy[i], costs, 1)
  BY DEF Simulate
<1> HIDE DEF ledger, o
<1>2. Untraded(o, "INVALID").status # "TRADED" /\ Untraded(o, "NO_TRADE").status # "TRADED"
  BY DEF Untraded
<1>3. ledger[i].status = "TRADED" => Defects(o) = {} /\ policy[i] # "ABSTAIN"
  BY <1>1, <1>2
<1>4. QED
  BY <1>1, <1>3 DEF ledger, o

LEMMA TradedEntry ==
    ASSUME NEW o, NEW action, NEW costs
    PROVE  LET t == Traded(o, action, costs, 1) IN
           /\ t.action = action /\ t.gross = Gross(o, action, 1) /\ t.net = t.gross - t.cost
           /\ t.status = "TRADED"
           /\ Evidenced(costs) = CostNames => t.business = <<t.gross - t.cost>>
           /\ Evidenced(costs) # CostNames => t.business = <<>>
<1> DEFINE cost == SumFunction([n \in Evidenced(costs) |-> CostOf(n, costs[n], o, action, 1)])
<1> DEFINE gross == Gross(o, action, 1)
<1> DEFINE net == gross - cost
<1> DEFINE business == BusinessNet(net, costs)
<1> DEFINE unknown == CostNames \ Evidenced(costs)
<1> DEFINE t == Traded(o, action, costs, 1)
<1>1. t = [opportunity |-> o, status |-> "TRADED", action |-> action, gross |-> gross, cost |-> cost,
           net |-> net, business |-> business, unknown |-> unknown]
  BY Zenon DEF Traded
<1>2. net = gross - cost /\ business = BusinessNet(net, costs) /\ gross = Gross(o, action, 1)
  OBVIOUS
<1> HIDE DEF cost, gross, net, business, unknown, t
<1>3. /\ t.status = "TRADED" /\ t.action = action /\ t.gross = gross /\ t.cost = cost
      /\ t.net = net /\ t.business = business
  BY <1>1
<1>4. /\ Evidenced(costs) = CostNames => t.business = <<t.gross - t.cost>>
      /\ Evidenced(costs) # CostNames => t.business = <<>>
  BY <1>2, <1>3 DEF BusinessNet
<1>5. QED
  BY <1>2, <1>3, <1>4 DEF t

\* To trade both ways pays the two spreads.
LEMMA BothWays ==
    ASSUME NEW o \in TrialSet
    PROVE  Gross(o, "LONG", 1) + Gross(o, "SHORT", 1) =
             -10000 * (o.entry.ask - o.entry.bid + o.exit.ask - o.exit.bid)
<1>1. PICK a, b, c, d : a = o.entry.ask /\ b = o.entry.bid /\ c = o.exit.ask /\ d = o.exit.bid
  OBVIOUS
<1>2. a \in Int /\ b \in Int /\ c \in Int /\ d \in Int
  BY <1>1 DEF TrialSet, Quotes
<1>3. Gross(o, "LONG", 1) = 10000 * (d - a) * 1
  BY <1>1 DEF Gross, Execution, Money
<1>4. Gross(o, "SHORT", 1) = 10000 * (b - c) * 1
  BY <1>1 DEF Gross, Execution, Money
<1>5. 10000 * (d - a) * 1 + 10000 * (b - c) * 1 = -10000 * (a - b + c - d)
  BY <1>2
<1>6. QED
  BY <1>1, <1>3, <1>4, <1>5

\* The rows of a selection are frozen rows.
LEMMA SelectionTyped ==
    ASSUME StudyInv PROVE FrozenSelection \in Seq(RowSet(books, refs))
<1>1. /\ \A s \in 1..Segments : /\ books[s] \in Seq(Quotes) /\ Received(books[s], clock.mono)
                                /\ refs[s] \in Seq(Quotes) /\ Received(refs[s], clock.mono)
      /\ dataset # <<>> => dataset = Rows(books, refs)
  BY DEF StudyInv, StreamTypeOK, StreamsInv, FrozenInv
<1> DEFINE T == RowSet(books, refs)
<1>2. dataset \in Seq(T)
  <2>1. Rows(books, refs) \in Seq(T)
    BY <1>1, RowsAreOfSegments
  <2> HIDE DEF T
  <2>2. <<>> \in Seq(T)
    OBVIOUS
  <2>3. QED
    BY <1>1, <2>1, <2>2
<1> DEFINE P == {j \in DOMAIN dataset : InSelection(plan, dataset[j])}
<1>3. FrozenSelection = Keep(dataset, P) /\ P \subseteq DOMAIN dataset
  BY DEF FrozenSelection, SelectionOf
<1> HIDE DEF P, T
<1>4. QED
  BY <1>2, <1>3, KeepIsOrdered DEF T

LEMMA SelectedRow ==
    ASSUME StudyInv, NEW i \in DOMAIN FrozenSelection
    PROVE  \E s \in 1..Segments : \E o \in TrialSet : FrozenSelection[i] = Row(s, o, refs[s])
<1>1. \A s \in 1..Segments : books[s] \in Seq(Quotes) /\ Received(books[s], clock.mono)
  BY DEF StudyInv, StreamTypeOK, StreamsInv
<1>2. FrozenSelection[i] \in RowSet(books, refs)
  BY SelectionTyped
<1>3. PICK s \in 1..Segments : \E k \in 1..Len(TrialsOf(books[s])) :
         FrozenSelection[i] = Row(s, TrialsOf(books[s])[k], refs[s])
  BY <1>2 DEF RowSet
<1>4. PICK k \in 1..Len(TrialsOf(books[s])) :
         FrozenSelection[i] = Row(s, TrialsOf(books[s])[k], refs[s])
  BY <1>3
<1>5. TrialsOf(books[s])[k] \in TrialSet
  <2>1. TrialsOf(books[s]) \in Seq(TrialSet)
    BY <1>1, TrialsOfStream
  <2>2. QED
    BY <2>1, ElementOfSeq
<1>6. QED
  BY <1>4, <1>5

LEMMA ActionOfRow ==
    ASSUME NEW s, NEW o, NEW series, NEW h \in {H1, H2}
    PROVE  LET a == Action(Row(s, o, series), h) IN
           /\ a \in {"ABSTAIN", "LONG", "SHORT"}
           /\ a # "ABSTAIN" => QuoteDefects(o.entry) = {} /\ "BACKFILL" \notin o.entry.flags
<1> DEFINE feature == IF h = H1 THEN ReferenceReturn(series, o.entry) ELSE Imbalance(o.entry)
<1> DEFINE clean == QuoteDefects(o.entry) = {} /\ "BACKFILL" \notin o.entry.flags
<1> DEFINE a == Action(Row(s, o, series), h)
<1>1. a = IF ~(clean /\ Available(feature)) \/ feature.sign = 0 THEN "ABSTAIN"
          ELSE IF feature.sign > 0 THEN "LONG" ELSE "SHORT"
  BY ActionReads
<1> HIDE DEF feature, clean, a
<1>2. a \in {"ABSTAIN", "LONG", "SHORT"} /\ (a # "ABSTAIN" => clean)
  BY <1>1
<1>3. QED
  BY <1>2 DEF clean, a

\* run_simulation: whatever the quotes and the costs are, a trade is on clean
\* evidence, both ways lose the spreads, and the business result counts all of
\* the trades or none.
THEOREM LedgerIsHonestHolds == Spec => []LedgerIsHonest
<1>1. StudyInv => LedgerIsHonest
  <2> SUFFICES
        ASSUME StudyInv, NEW h \in {H1, H2}, NEW costs \in {Costs, AllKnown}
        PROVE  LET ledger == Simulate(Trials(FrozenSelection), Actions(FrozenSelection, h), costs, 1)
               IN /\ \A i \in Entries(ledger, "TRADED") :
                        HonestTrade(FrozenSelection[i].trial, ledger[i])
                  /\ HonestSum(ledger, costs)
    BY DEF LedgerIsHonest
  <2> DEFINE rows == FrozenSelection
  <2>1. PICK l : l = Simulate(Trials(rows), Actions(rows, h), costs, 1)
    OBVIOUS
  <2>2. PICK t : t = Entries(l, "TRADED")
    OBVIOUS
  <2>3. ASSUME NEW i \in t
        PROVE  /\ i \in DOMAIN rows /\ Defects(rows[i].trial) = {} /\ Action(rows[i], h) # "ABSTAIN"
               /\ l[i] = Traded(rows[i].trial, Action(rows[i], h), costs, 1)
    <3>1. i \in DOMAIN l /\ l[i].status = "TRADED"
      BY <2>1, <2>2 DEF Entries
    <3>2. DOMAIN l = DOMAIN rows
      BY <2>1 DEF Simulate, Trials
    <3>3. i \in DOMAIN Trials(rows) /\ Trials(rows)[i] = rows[i].trial
          /\ Actions(rows, h)[i] = Action(rows[i], h)
      BY <3>1, <3>2 DEF Trials, Actions
    <3>4. QED
      BY <2>1, <3>1, <3>2, <3>3, LedgerEntry
  <2>4. ASSUME NEW i \in t
        PROVE  HonestTrade(rows[i].trial, l[i])
    <3>1. PICK s \in 1..Segments, o \in TrialSet : rows[i] = Row(s, o, refs[s])
      BY <2>3, SelectedRow
    <3>2. PICK a : a = Action(Row(s, o, refs[s]), h)
      OBVIOUS
    <3>3. rows[i].trial = o /\ Action(rows[i], h) = a
      BY <3>1, <3>2, RowParts
    <3>4. a \in {"LONG", "SHORT"} /\ "BACKFILL" \notin o.entry.flags
      BY <2>3, <3>2, <3>3, ActionOfRow
    <3>5. l[i].action = a /\ l[i].gross = Gross(o, a, 1)
      BY <2>3, <3>3, TradedEntry
    <3>6. Gross(o, "LONG", 1) \in Int /\ Gross(o, "SHORT", 1) \in Int
      BY DEF Gross, Execution, Money, TrialSet, Quotes
    <3>7. l[i].gross + Gross(o, IF l[i].action = "LONG" THEN "SHORT" ELSE "LONG", 1) =
            Gross(o, "LONG", 1) + Gross(o, "SHORT", 1)
      BY <3>4, <3>5, <3>6
    <3>8. QED
      BY <2>3, <3>3, <3>4, <3>7, BothWays DEF HonestTrade
  <2>5. ASSUME NEW i \in t
        PROVE  /\ Evidenced(costs) = CostNames => l[i].business = <<l[i].gross - l[i].cost>>
               /\ Evidenced(costs) # CostNames => l[i].business = <<>>
    BY <2>3, TradedEntry
  <2>6. ReportNet(l) = IF \E i \in t : l[i].business = <<>> THEN <<>>
                       ELSE << SumFunction([i \in t |-> l[i].business[1]]) >>
    BY <2>1, <2>2 DEF ReportNet
  <2>7. ReportNet(l) = IF t # {} /\ Evidenced(costs) # CostNames THEN <<>>
                       ELSE <<SumFunction([i \in t |-> l[i].gross - l[i].cost])>>
    <3>1. CASE t # {} /\ Evidenced(costs) # CostNames
      BY <2>5, <2>6, <3>1
    <3>2. CASE ~(t # {} /\ Evidenced(costs) # CostNames)
      <4>1. \A i \in t : l[i].business = <<l[i].gross - l[i].cost>>
        BY <2>5, <3>2
      <4>2. \A i \in t : l[i].business # <<>> /\ l[i].business[1] = l[i].gross - l[i].cost
        <5>1. \A x : <<x>> # <<>> /\ <<x>>[1] = x
          OBVIOUS
        <5>2. QED
          BY <4>1, <5>1, Zenon
      <4>3. [i \in t |-> l[i].business[1]] = [i \in t |-> l[i].gross - l[i].cost]
        BY <4>2
      <4>4. ReportNet(l) = << SumFunction([i \in t |-> l[i].business[1]]) >>
        BY <2>6, <4>2, Zenon
      <4>5. QED
        BY <3>2, <4>3, <4>4, Zenon
    <3>3. QED
      BY <3>1, <3>2
  <2>8. HonestSum(l, costs)
    BY <2>2, <2>7 DEF HonestSum
  <2>9. QED
    BY <2>1, <2>2, <2>4, <2>8
<1>2. QED
  BY <1>1, StudyInvariant, PTL
-----------------------------------------------------------------------------
(* The champion *)

LEMMA MaxOfTwo ==
    ASSUME NEW x \in Int, NEW y \in Int
    PROVE  Max({x, y}) = IF y >= x THEN y ELSE x
<1>1. ASSUME NEW z \in {x, y}, \A v \in {x, y} : z >= v PROVE z = IF y >= x THEN y ELSE x
  BY <1>1
<1>2. \E z \in {x, y} : \A v \in {x, y} : z >= v
  OBVIOUS
<1>3. QED
  BY <1>1, <1>2 DEF Max

\* wilson_lower_bound gives a number, whatever the effective size.
LEMMA WilsonType ==
    ASSUME NEW c \in Nat, NEW t \in Nat, NEW n \in Nat, c <= t
    PROVE  WilsonLower(c, t, n) \in Int
<1> DEFINE a == ZNum * ZNum
<1> DEFINE b == n * ZDen * ZDen
<1> DEFINE x == Precision * Precision * a * (4 * b * c * (t - c) + a * t * t)
<1> DEFINE limit == Precision * ZNum * t * (a + b)
<1> DEFINE root == Root(x, limit)
<1> DEFINE N == Precision * (2 * b * c + a * t) - root
<1> DEFINE D == 2 * t * (a + b)
<1>1. WilsonLower(c, t, n) = IF t = 0 THEN -Precision ELSE Max({0, N \div D})
  BY DEF WilsonLower
<1>2. Precision \in Nat /\ ZNum \in Nat /\ a \in Nat /\ a > 0 /\ b \in Nat
  <2>1. Precision \in Nat /\ ZNum \in Nat /\ ZNum > 0 /\ ZDen \in Nat
    BY StudyAssumption
  <2>2. n * ZDen \in Nat
    BY <2>1
  <2>3. QED
    BY <2>1, <2>2
<1> HIDE DEF a, b
<1>3. x \in Int /\ x >= 0 /\ limit \in Nat
  <2>1. t - c \in Nat /\ 4 * b * c \in Nat /\ a * t \in Nat
    BY <1>2
  <2>2. 4 * b * c * (t - c) \in Nat /\ a * t * t \in Nat
    BY <2>1
  <2>3. Precision * Precision \in Nat
    BY <1>2
  <2>4. Precision * Precision * a \in Nat
    BY <1>2, <2>3
  <2>5. 4 * b * c * (t - c) + a * t * t \in Nat
    BY <2>2
  <2>6. x \in Nat
    BY <2>4, <2>5
  <2>7. Precision * ZNum \in Nat /\ a + b \in Nat
    BY <1>2
  <2>8. Precision * ZNum * t \in Nat
    BY <2>7
  <2>9. limit \in Nat
    BY <2>7, <2>8
  <2>10. QED
    BY <2>6, <2>9
<1>4. root \in Nat
  <2> HIDE DEF x, limit
  <2> DEFINE S == {r \in 0..limit : r * r <= x}
  <2> DEFINE U == {r + 1 : r \in S}
  <2>1. 0 \in S
    BY <1>3
  <2>2. U \subseteq 1..(limit + 1) /\ U # {}
    BY <1>3, <2>1
  <2>3. Max(U) \in U /\ \A u \in U : u <= Max(U)
    <3> HIDE DEF U
    <3>1. limit + 1 \in Nat
      BY <1>3
    <3>2. QED
      BY <2>2, <3>1, MaxOf
  <2>4. PICK r \in S : Max(U) = r + 1
    BY <2>3
  <2>5. \A k \in S : r >= k
    <3> SUFFICES ASSUME NEW k \in S PROVE r >= k
      OBVIOUS
    <3>1. k + 1 <= r + 1
      BY <2>3, <2>4
    <3>2. k \in Int /\ r \in Int
      OBVIOUS
    <3>3. QED
      BY <3>1, <3>2
  <2>6. Max(S) \in S
    BY <2>5 DEF Max
  <2>7. S \subseteq Nat
    BY <1>3
  <2>8. root = Max(S)
    BY DEF Root
  <2>9. QED
    BY <2>6, <2>7, <2>8
<1> HIDE DEF x, limit, root
<1>5. ASSUME t # 0 PROVE N \in Int /\ D \in Nat /\ D > 0
  <2>1. 2 * b * c \in Nat /\ a * t \in Nat
    BY <1>2
  <2>2. Precision * (2 * b * c + a * t) \in Nat
    BY <1>2, <2>1
  <2>3. 2 * t \in Nat /\ 2 * t > 0 /\ a + b \in Nat /\ a + b > 0
    BY <1>2, <1>5
  <2>4. D \in Nat /\ D > 0
    BY <2>3
  <2>5. QED
    BY <1>4, <2>2, <2>4
<1> HIDE DEF N, D
<1>6. CASE t = 0
  BY <1>1, <1>2, <1>6
<1>7. CASE t # 0
  <2>1. N \div D \in Int
    BY <1>5, <1>7
  <2>2. Max({0, N \div D}) = IF N \div D >= 0 THEN N \div D ELSE 0
    BY <2>1, MaxOfTwo
  <2>3. QED
    BY <1>1, <1>7, <2>1, <2>2
<1>8. QED
  BY <1>6, <1>7

LEMMA SumOfNats ==
    ASSUME NEW n \in Int, NEW f \in [1..n -> Nat] PROVE SumFunction(f) \in Nat
<1>1. IsFiniteSet(1..n) /\ Nat \subseteq Int /\ 0 \in Nat /\ \A a, b \in Nat : a + b \in Nat
  BY FS_Interval
<1>2. QED
  BY <1>1, SumFunctionType

LEMMA SumOfInts ==
    ASSUME NEW n \in Int, NEW f \in [1..n -> Int] PROVE SumFunction(f) \in Int
<1>1. IsFiniteSet(1..n) /\ Int \subseteq Int /\ 0 \in Int /\ \A a, b \in Int : a + b \in Int
  BY FS_Interval
<1>2. QED
  BY <1>1, SumFunctionType

\* effective_sample_size is a number of rows.
LEMMA EffectiveSizeType ==
    ASSUME NEW c \in Seq({0, 1}) PROVE EffectiveSize(c) \in Nat
<1> DEFINE n == Len(c)
<1> DEFINE centered == [i \in 1..n |-> n * c[i] - SumFunction(c)]
<1> DEFINE lag(l) == SumFunction([i \in 1..(n - l) |-> centered[i] * centered[i + l]])
<1> DEFINE last == Min({10, n - 1})
<1> DEFINE positive == SumFunction([l \in 1..last |-> Max({0, lag(l)})])
<1>1. EffectiveSize(c) = IF n = 0 THEN 0 ELSE IF lag(0) = 0 THEN n
                         ELSE Max({1, (n * lag(0)) \div (lag(0) + 2 * positive)})
  BY DEF EffectiveSize
<1>2. n \in Nat /\ c \in [1..n -> Int] /\ SumFunction(c) \in Int
  <2>1. n \in Nat /\ c \in [1..n -> {0, 1}]
    OBVIOUS
  <2>2. c \in [1..n -> Int]
    BY <2>1
  <2>3. QED
    BY <2>1, <2>2, SumOfInts
<1>3. centered \in [1..n -> Int]
  <2> DEFINE sum == SumFunction(c)
  <2> HIDE DEF sum
  <2>1. sum \in Int
    BY <1>2 DEF sum
  <2>2. \A i \in 1..n : n * c[i] - sum \in Int
    BY <1>2, <2>1
  <2>3. QED
    BY <2>2 DEF sum
<1> HIDE DEF centered
<1>4. ASSUME NEW l \in Nat PROVE lag(l) \in Int
  <2> DEFINE f == [i \in 1..(n - l) |-> centered[i] * centered[i + l]]
  <2>1. \A i \in 1..(n - l) : centered[i] \in Int /\ centered[i + l] \in Int
    <3>1. \A i \in 1..(n - l) : i \in 1..n /\ i + l \in 1..n
      BY <1>2
    <3>2. QED
      BY <1>3, <3>1
  <2>2. \A i \in 1..(n - l) : centered[i] * centered[i + l] \in Int
    BY <2>1
  <2>3. f \in [1..(n - l) -> Int] /\ n - l \in Int
    BY <1>2, <2>2
  <2> HIDE DEF f
  <2>4. SumFunction(f) \in Int
    BY <2>3, SumOfInts
  <2>5. QED
    BY <2>4 DEF f
<1>5. lag(0) \in Nat
  <2> DEFINE f == [i \in 1..(n - 0) |-> centered[i] * centered[i + 0]]
  <2>1. \A x \in Int : x * x \in Nat
    OBVIOUS
  <2>2. \A i \in 1..(n - 0) : centered[i] \in Int /\ i + 0 = i
    BY <1>2, <1>3
  <2>3. \A i \in 1..(n - 0) : centered[i] * centered[i + 0] \in Nat
    BY <2>1, <2>2
  <2>4. f \in [1..(n - 0) -> Nat] /\ n - 0 \in Int
    BY <1>2, <2>3
  <2> HIDE DEF f
  <2>5. SumFunction(f) \in Nat
    BY <2>4, SumOfNats
  <2>6. QED
    BY <2>5 DEF f
<1>6. last \in Int
  <2>1. {10, n - 1} \subseteq Int
    BY <1>2
  <2>2. \E z \in {10, n - 1} : \A v \in {10, n - 1} : z <= v
    BY <1>2
  <2>3. QED
    BY <2>1, <2>2 DEF Min
<1> HIDE DEF lag, last
<1>7. positive \in Nat
  <2> DEFINE f == [l \in 1..last |-> Max({0, lag(l)})]
  <2>1. \A l \in 1..last : l \in Nat /\ Max({0, lag(l)}) \in Nat
    <3> SUFFICES ASSUME NEW l \in 1..last PROVE l \in Nat /\ Max({0, lag(l)}) \in Nat
      OBVIOUS
    <3>1. l \in Nat
      BY <1>6
    <3>2. lag(l) \in Int
      BY <1>4, <3>1
    <3>3. Max({0, lag(l)}) = IF lag(l) >= 0 THEN lag(l) ELSE 0
      BY <3>2, MaxOfTwo
    <3>4. QED
      BY <3>1, <3>2, <3>3
  <2>2. f \in [1..last -> Nat]
    BY <2>1
  <2> HIDE DEF f
  <2>3. SumFunction(f) \in Nat
    BY <1>6, <2>2, SumOfNats
  <2>4. QED
    BY <2>3 DEF f
<1> HIDE DEF positive
<1>8. CASE n = 0 \/ lag(0) = 0
  BY <1>1, <1>2, <1>8
<1>9. CASE n # 0 /\ lag(0) # 0
  <2> DEFINE v == lag(0)
  <2> DEFINE y == (n * v) \div (v + 2 * positive)
  <2>1. v \in Nat /\ v # 0 /\ n * v \in Nat
    BY <1>2, <1>5, <1>9
  <2> HIDE DEF v
  <2>2. v + 2 * positive \in Nat /\ v + 2 * positive > 0
    BY <1>7, <2>1
  <2>3. y \in Int
    BY <2>1, <2>2
  <2>4. EffectiveSize(c) = Max({1, y})
    BY <1>1, <1>9 DEF v
  <2> HIDE DEF y
  <2>5. Max({1, y}) = IF y >= 1 THEN y ELSE 1
    BY <2>3, MaxOfTwo
  <2>6. QED
    BY <2>3, <2>4, <2>5
<1>10. QED
  BY <1>8, <1>9

\* The outcome of a row, in terms of its trial.
LEMMA JudgedRow ==
    ASSUME NEW s, NEW o \in TrialSet, NEW series, NEW h
    PROVE  LET row == Row(s, o, series)
               judged == /\ Action(row, h) # "ABSTAIN" /\ Defects(o) = {} /\ ~Backfilled(o)
                         /\ Mid2(o.exit) # Mid2(o.entry)
           IN /\ Evaluable(row, h) <=> judged
              /\ judged => (Correct(row, h) <=> ((Action(row, h) = "LONG") = (Mid2(o.exit) > Mid2(o.entry))))
<1> DEFINE row == Row(s, o, series)
<1> DEFINE a == Action(row, h)
<1> DEFINE x == Mid2(o.exit)
<1> DEFINE e == Mid2(o.entry)
<1>1. row.outcome = Outcome(o)
  BY Zenon DEF Row
<1>2. x \in Int /\ e \in Int
  BY DEF Mid2, TrialSet, Quotes
<1>3. Evaluable(row, h) <=> a # "ABSTAIN" /\ Outcome(o).available /\ Outcome(o).direction # 0
  BY <1>1 DEF Evaluable
<1>4. Correct(row, h) <=> ((a = "LONG") = (Outcome(o).direction = 1))
  BY <1>1 DEF Correct
<1>5. CASE Defects(o) # {} \/ Backfilled(o)
  <2>1. ~Outcome(o).available
    BY <1>5 DEF Outcome
  <2>2. QED
    BY <1>3, <1>5, <2>1
<1>6. CASE Defects(o) = {} /\ ~Backfilled(o)
  <2>1. Outcome(o).available /\ Outcome(o).direction = Sign(x - e)
    BY <1>6 DEF Outcome
  <2> HIDE DEF x, e, a, row
  <2>2. Sign(x - e) = IF x > e THEN 1 ELSE IF x < e THEN -1 ELSE 0
    BY <1>2 DEF Sign
  <2>3. (Outcome(o).direction # 0 <=> x # e) /\ (Outcome(o).direction = 1 <=> x > e)
    BY <1>2, <2>1, <2>2
  <2>4. Evaluable(row, h) <=> a # "ABSTAIN" /\ x # e
    BY <1>3, <2>1, <2>3
  <2>5. Correct(row, h) <=> ((a = "LONG") = (x > e))
    BY <1>4, <2>3
  <2>6. QED
    BY <1>6, <2>4, <2>5 DEF x, e, a, row
<1>7. QED
  BY <1>5, <1>6

\* The correctness of a selection counts its judged rows, and those that are right.
LEMMA CorrectnessCounts ==
    ASSUME StudyInv, NEW h \in {H1, H2}
    PROVE  LET c == Correctness(FrozenSelection, h)
               correct == Cardinality({i \in DOMAIN c : c[i] = 1})
           IN /\ c \in Seq({0, 1}) /\ Len(c) = Cardinality(Judged(FrozenSelection, h))
              /\ correct = Cardinality(Right(FrozenSelection, h))
              /\ correct \in Nat /\ correct <= Len(c)
<1> DEFINE rows == FrozenSelection
<1> DEFINE J == Judged(rows, h)
<1> DEFINE kept == Keep(rows, J)
<1> DEFINE c == Correctness(rows, h)
<1> DEFINE Ones == {i \in DOMAIN c : c[i] = 1}
<1>1. ASSUME NEW i \in DOMAIN rows
      PROVE  /\ Evaluable(rows[i], h) <=> i \in J
             /\ i \in J => (Correct(rows[i], h) <=> i \in Right(rows, h))
  <2>1. PICK s \in 1..Segments, o \in TrialSet : rows[i] = Row(s, o, refs[s])
    BY SelectedRow
  <2>2. rows[i].trial = o
    BY <2>1, RowParts
  <2> HIDE DEF rows
  <2>3. i \in J <=> /\ Action(rows[i], h) # "ABSTAIN" /\ Defects(o) = {} /\ ~Backfilled(o)
                    /\ Mid2(o.exit) # Mid2(o.entry)
    BY <2>2 DEF Judged
  <2>4. i \in J => (i \in Right(rows, h) <=>
                      ((Action(rows[i], h) = "LONG") = (Mid2(o.exit) > Mid2(o.entry))))
    BY <2>2 DEF Right
  <2> HIDE DEF J
  <2>5. QED
    BY <2>1, <2>3, <2>4, JudgedRow
<1>2. J \subseteq DOMAIN rows /\ Right(rows, h) \subseteq J
  BY DEF Judged, Right
<1>3. \E T : rows \in Seq(T)
  BY SelectionTyped
<1>4. PICK T : rows \in Seq(T)
  BY <1>3
<1>5. {i \in DOMAIN rows : Evaluable(rows[i], h)} = J
  BY <1>1, <1>2
<1>6. c = [i \in DOMAIN kept |-> IF Correct(kept[i], h) THEN 1 ELSE 0]
  BY <1>5 DEF Correctness
<1> HIDE DEF J, c, rows
<1>7. /\ kept \in Seq(T) /\ IsFiniteSet(J) /\ Len(kept) = Cardinality(J)
      /\ \E g : Kept(kept, rows, J, g)
  BY <1>2, <1>4, KeepIsOrdered
<1>8. PICK g : Kept(kept, rows, J, g)
  BY <1>7
<1> HIDE DEF kept
<1>9. DOMAIN kept = 1..Len(kept) /\ Len(kept) \in Nat
  BY <1>7
<1>10. c \in Seq({0, 1}) /\ Len(c) = Len(kept) /\ DOMAIN c = 1..Len(kept)
  BY <1>6, <1>9
<1>11. /\ g \in [1..Len(kept) -> J]
       /\ \A k \in 1..Len(kept) : kept[k] = rows[g[k]]
       /\ \A k, l \in 1..Len(kept) : k < l => g[k] < g[l]
       /\ \A p \in J : \E k \in 1..Len(kept) : g[k] = p
  BY <1>8, Zenon DEF Kept
<1>12. ASSUME NEW k \in 1..Len(kept) PROVE k \in Ones <=> g[k] \in Right(rows, h)
  <2>1. g[k] \in J /\ g[k] \in DOMAIN rows /\ kept[k] = rows[g[k]]
    BY <1>2, <1>11
  <2>2. c[k] = 1 <=> Correct(rows[g[k]], h)
    BY <1>6, <1>9, <2>1
  <2>3. QED
    BY <1>1, <1>10, <2>1, <2>2
<1>13. Ones \subseteq 1..Len(kept)
  BY <1>10
<1> HIDE DEF Ones
<1> DEFINE f == [k \in Ones |-> g[k]]
<1>14. f \in Bijection(Ones, Right(rows, h))
  <2>1. \A k \in Ones : f[k] = g[k] /\ g[k] \in Right(rows, h) /\ k \in 1..Len(kept)
    BY <1>12, <1>13
  <2>2. f \in [Ones -> Right(rows, h)]
    BY <2>1
  <2>3. ASSUME NEW k \in Ones, NEW l \in Ones, f[k] = f[l] PROVE k = l
    <3>1. g[k] = g[l] /\ k \in 1..Len(kept) /\ l \in 1..Len(kept)
      BY <2>1, <2>3
    <3>2. g[k] \in Int /\ g[l] \in Int
      BY <1>2, <1>4, <1>11, <3>1
    <3>3. ~(k < l) /\ ~(l < k)
      BY <1>11, <3>1, <3>2
    <3>4. k \in Int /\ l \in Int
      BY <1>9, <3>1
    <3>5. QED
      BY <3>3, <3>4
  <2>4. ASSUME NEW p \in Right(rows, h) PROVE \E k \in Ones : f[k] = p
    <3>1. PICK k \in 1..Len(kept) : g[k] = p
      BY <1>2, <1>11
    <3>2. k \in Ones
      BY <1>12, <3>1
    <3>3. QED
      BY <2>1, <3>1, <3>2
  <2> HIDE DEF f
  <2>5. f \in Injection(Ones, Right(rows, h))
    BY <2>2, <2>3 DEF Injection, IsInjective
  <2>6. f \in Surjection(Ones, Right(rows, h))
    BY <2>2, <2>4 DEF Surjection
  <2>7. QED
    BY <2>5, <2>6 DEF Bijection
<1>15. IsFiniteSet(1..Len(kept)) /\ Cardinality(1..Len(kept)) = Len(kept)
  <2>1. /\ IsFiniteSet(1..Len(kept))
        /\ Cardinality(1..Len(kept)) = IF 1 > Len(kept) THEN 0 ELSE Len(kept) - 1 + 1
    BY <1>9, FS_Interval
  <2>2. QED
    BY <1>9, <2>1
<1>16. IsFiniteSet(Ones) /\ Cardinality(Ones) \in Nat /\ Cardinality(Ones) <= Len(kept)
  BY <1>13, <1>15, FS_Subset, FS_CardinalityType
<1>17. Cardinality(Right(rows, h)) = Cardinality(Ones)
  BY <1>14, <1>16, FS_Bijection DEF ExistsBijection
<1>18. QED
  BY <1>7, <1>10, <1>16, <1>17 DEF c, Ones, J, rows

\* A hypothesis that passes was right more often than wrong, and earned.
LEMMA PassedTrial ==
    ASSUME StudyInv, NEW h \in {H1, H2}
    PROVE  LET r == TrialResult(FrozenSelection, h) IN
           /\ r.hypothesis = h /\ r.evaluable = Cardinality(Judged(FrozenSelection, h))
           /\ r.evaluable \in Nat /\ r.lower \in Int
           /\ r.passed => /\ 2 * Cardinality(Right(FrozenSelection, h)) > Cardinality(Judged(FrozenSelection, h))
                          /\ KnownNet(Ledger(FrozenSelection, h)) > 0
<1> DEFINE rows == FrozenSelection
<1> DEFINE c == Correctness(rows, h)
<1> DEFINE correct == Cardinality({i \in DOMAIN c : c[i] = 1})
<1> DEFINE lower == WilsonLower(correct, Len(c), EffectiveSize(c))
<1> DEFINE known == KnownNet(Ledger(rows, h))
<1> DEFINE passed == /\ Len(c) >= MinEvaluable /\ Len(c) > 0 /\ TailWithinAlpha(correct, Len(c))
                     /\ AboveHalf(correct, Len(c), EffectiveSize(c)) /\ known > 0
<1> DEFINE r == TrialResult(rows, h)
<1>1. r = [hypothesis |-> h, evaluable |-> Len(c), lower |-> lower, passed |-> passed]
  BY Zenon DEF TrialResult
<1>2. /\ c \in Seq({0, 1}) /\ Len(c) = Cardinality(Judged(rows, h))
      /\ correct = Cardinality(Right(rows, h))
      /\ correct \in Nat /\ correct <= Len(c)
  BY CorrectnessCounts
<1>3. EffectiveSize(c) \in Nat /\ Len(c) \in Nat
  BY <1>2, EffectiveSizeType
<1> HIDE DEF correct, c
<1>4. lower \in Int
  BY <1>2, <1>3, WilsonType
<1>5. passed => 2 * correct > Len(c) /\ known > 0
  BY DEF AboveHalf
<1> HIDE DEF lower, known, passed, r
<1>6. r.hypothesis = h /\ r.evaluable = Len(c) /\ r.lower = lower /\ r.passed = passed
  BY <1>1, Zenon
<1>7. QED
  BY <1>2, <1>3, <1>4, <1>5, <1>6 DEF r, known, rows

\* Of numbers with places up to a bound there is a greatest.
LEMMA GreatestOf ==
    ASSUME NEW n \in Nat, NEW f, \A i \in 1..(n + 1) : f[i] \in Int
    PROVE  \E i \in 1..(n + 1) : \A j \in 1..(n + 1) : f[j] <= f[i]
<1> DEFINE S == {k \in 0..n : \E i \in 1..(k + 1) : \A j \in 1..(k + 1) : f[j] <= f[i]}
<1>1. 0 \in S
  <2>1. 1 \in 1..(0 + 1) /\ 1 \in 1..(n + 1) /\ \A j \in 1..(0 + 1) : j = 1
    OBVIOUS
  <2>2. f[1] <= f[1]
    BY <2>1
  <2>3. QED
    BY <2>1, <2>2
<1>2. \A k \in 0..n : k < n /\ k \in S => k + 1 \in S
  <2> SUFFICES ASSUME NEW k \in 0..n, k < n, k \in S PROVE k + 1 \in S
    OBVIOUS
  <2>1. PICK i \in 1..(k + 1) : \A j \in 1..(k + 1) : f[j] <= f[i]
    OBVIOUS
  <2> DEFINE l == k + 2
  <2>2. /\ k + 1 \in 0..n /\ (k + 1) + 1 = l /\ l \in 1..l /\ l \in 1..(n + 1)
        /\ i \in 1..l /\ i \in 1..(n + 1)
        /\ \A j \in 1..l : j \in 1..(k + 1) \/ j = l
        /\ \A j \in 1..l : j \in 1..(n + 1)
    OBVIOUS
  <2> HIDE DEF l
  <2>3. f[i] \in Int /\ f[l] \in Int /\ \A j \in 1..l : f[j] \in Int
    BY <2>2
  <2>4. CASE f[l] <= f[i]
    <3>1. \A j \in 1..l : f[j] <= f[i]
      BY <2>1, <2>2, <2>4
    <3>2. QED
      BY <2>2, <3>1
  <2>5. CASE ~(f[l] <= f[i])
    <3>1. \A j \in 1..l : f[j] <= f[l]
      BY <2>1, <2>2, <2>3, <2>5
    <3>2. QED
      BY <2>2, <3>1
  <2>6. QED
    BY <2>4, <2>5
<1>3. n \in S
  <2> HIDE DEF S
  <2>1. \A k \in 0..n : k \in S
    BY <1>1, <1>2, UpTo
  <2>2. QED
    BY <2>1
<1>4. QED
  BY <1>3

\* _selection_decision: the champion passed, with the highest bound that passed.
LEMMA ChampionIsBest ==
    ASSUME NEW x, NEW y, x.lower \in Int, y.lower \in Int,
           x.evaluable \in Nat, y.evaluable \in Nat,
           Decision(<<x, y>>) \in {H1, H2}
    PROVE  LET trials == <<x, y>> IN
           /\ \A i \in 1..2 : trials[i].evaluable >= MinEvaluable
           /\ \E m \in 1..2 :
                 /\ trials[m].hypothesis = Decision(trials) /\ trials[m].passed
                 /\ \A i \in 1..2 : trials[i].passed => trials[i].lower <= trials[m].lower
<1> DEFINE trials == <<x, y>>
<1> DEFINE P == {i \in DOMAIN trials : trials[i].passed}
<1> DEFINE passing == Keep(trials, P)
<1>1. /\ trials \in Seq({x, y}) /\ DOMAIN trials = 1..2 /\ MinEvaluable \in Nat
      /\ \A i \in 1..2 : trials[i].lower \in Int /\ trials[i].evaluable \in Nat
  <2>1. trials \in Seq({x, y}) /\ DOMAIN trials = 1..2 /\ trials[1] = x /\ trials[2] = y
    OBVIOUS
  <2> HIDE DEF trials
  <2>2. \A i \in 1..2 : i = 1 \/ i = 2
    OBVIOUS
  <2>3. MinEvaluable \in Nat
    BY StudyAssumption
  <2>4. QED
    BY <2>1, <2>2, <2>3
<1>2. Decision(trials) = IF \E i \in DOMAIN trials : trials[i].evaluable < MinEvaluable
                         THEN "INCONCLUSIVE_SELECTION"
                         ELSE IF passing = <<>> THEN "STOP_FAIL_SIGNAL_SELECTION"
                         ELSE ChampionOf(passing)
  BY DEF Decision
<1>3. H1 \notin {"INCONCLUSIVE_SELECTION", "STOP_FAIL_SIGNAL_SELECTION"}
      /\ H2 \notin {"INCONCLUSIVE_SELECTION", "STOP_FAIL_SIGNAL_SELECTION"}
  BY DEF H1, H2
<1>4. P \subseteq DOMAIN trials /\ \A i \in 1..2 : trials[i].passed => i \in P
  BY <1>1
<1>5. \A i \in P : trials[i].passed
  OBVIOUS
<1>6. Decision(trials) \in {H1, H2}
  OBVIOUS
<1> HIDE DEF trials, P, passing
<1>7. /\ ~(\E i \in DOMAIN trials : trials[i].evaluable < MinEvaluable)
      /\ passing # <<>> /\ Decision(trials) = ChampionOf(passing)
  BY <1>2, <1>3, <1>6
<1>8. \A i \in 1..2 : trials[i].evaluable >= MinEvaluable
  BY <1>1, <1>7
<1>9. passing \in Seq({x, y}) /\ \E g : Kept(passing, trials, P, g)
  BY <1>1, <1>4, KeepIsOrdered DEF passing
<1>10. PICK g : Kept(passing, trials, P, g)
  BY <1>9
<1>11. /\ g \in [1..Len(passing) -> P]
       /\ \A k \in 1..Len(passing) : passing[k] = trials[g[k]]
       /\ \A p \in P : \E k \in 1..Len(passing) : g[k] = p
  BY <1>10, Zenon DEF Kept
<1>12. DOMAIN passing = 1..Len(passing) /\ Len(passing) \in Nat /\ Len(passing) # 0
  BY <1>7, <1>9
<1> DEFINE n == Len(passing) - 1
<1> DEFINE f == [k \in 1..Len(passing) |-> passing[k].lower]
<1>13. n \in Nat /\ n + 1 = Len(passing)
  BY <1>12
<1>14. \A k \in 1..(n + 1) : f[k] = passing[k].lower /\ f[k] \in Int
  <2> SUFFICES ASSUME NEW k \in 1..Len(passing) PROVE passing[k].lower \in Int
    BY <1>13
  <2>1. g[k] \in 1..2 /\ passing[k] = trials[g[k]]
    BY <1>1, <1>4, <1>11
  <2>2. QED
    BY <1>1, <2>1
<1> HIDE DEF n, f
<1>15. PICK i \in 1..(n + 1) : \A j \in 1..(n + 1) : f[j] <= f[i]
  BY <1>13, <1>14, GreatestOf
<1> DEFINE L == {passing[k].lower : k \in DOMAIN passing}
<1> DEFINE best == Max(L)
<1>16. best \in L /\ \A v \in L : v <= best
  <2>1. f[i] \in L
    BY <1>12, <1>13, <1>14, <1>15
  <2>2. \A v \in L : v \in Int /\ f[i] \in Int /\ f[i] >= v
    BY <1>12, <1>13, <1>14, <1>15
  <2> HIDE DEF L
  <2>3. best \in L /\ \A v \in L : best >= v
    BY <2>1, <2>2 DEF Max
  <2>4. QED
    BY <2>2, <2>3
<1> DEFINE B == {k \in DOMAIN passing : passing[k].lower = best}
<1>17. B \subseteq Nat /\ B \subseteq 1..Len(passing) /\ B # {}
  <2>1. PICK k \in DOMAIN passing : best = passing[k].lower
    BY <1>16
  <2>2. k \in B
    BY <2>1
  <2>3. B \subseteq DOMAIN passing
    OBVIOUS
  <2> HIDE DEF B
  <2>4. QED
    BY <1>12, <2>2, <2>3
<1>18. Min(B) \in B
  <2> HIDE DEF B
  <2>1. PICK k \in B : \A l \in B : k <= l
    BY <1>17, LeastNat
  <2>2. QED
    BY <2>1 DEF Min
<1>19. ChampionOf(passing) = passing[Min(B)].hypothesis
  BY DEF ChampionOf
<1>20. Min(B) \in 1..Len(passing) /\ passing[Min(B)].lower = best
  BY <1>17, <1>18
<1> DEFINE m == g[Min(B)]
<1> HIDE DEF B, best
<1>21. m \in P /\ m \in 1..2 /\ passing[Min(B)] = trials[m] /\ trials[m].passed
  BY <1>1, <1>4, <1>5, <1>11, <1>20
<1>22. ASSUME NEW j \in 1..2, trials[j].passed PROVE trials[j].lower <= trials[m].lower
  <2>1. PICK k \in 1..Len(passing) : g[k] = j
    BY <1>4, <1>11, <1>22
  <2>2. passing[k] = trials[j] /\ passing[k].lower \in L
    BY <1>11, <1>12, <2>1
  <2>3. QED
    BY <1>16, <1>20, <1>21, <2>2
<1>23. trials[m].hypothesis = Decision(trials)
  BY <1>7, <1>19, <1>21
<1> HIDE DEF m
<1>24. QED
  BY <1>8, <1>21, <1>22, <1>23 DEF trials

\* evaluate_registered_selection: a champion is earned on the frozen selection,
\* under all thresholds, costs and arrivals.
THEOREM ChampionIsEarnedHolds == Spec => []ChampionIsEarned
<1>1. StudyInv => ChampionIsEarned
  <2> DEFINE rows == FrozenSelection
  <2> DEFINE champion == report.decision
  <2> SUFFICES
        ASSUME StudyInv, report.decision \in {H1, H2}
        PROVE  /\ \A h \in {H1, H2} : Cardinality(Judged(rows, h)) >= MinEvaluable
               /\ 2 * Cardinality(Right(rows, champion)) > Cardinality(Judged(rows, champion))
               /\ KnownNet(Ledger(rows, champion)) > 0
               /\ \A i, j \in 1..2 :
                     report.trials[i].hypothesis = champion /\ report.trials[j].passed =>
                        report.trials[j].lower <= report.trials[i].lower
    BY DEF ChampionIsEarned
  <2> DEFINE x == TrialResult(rows, H1)
  <2> DEFINE y == TrialResult(rows, H2)
  <2>1. report # Undecided
    BY DEF Undecided, H1, H2
  <2>2. report.trials = <<x, y>> /\ champion = Decision(<<x, y>>)
    BY <2>1 DEF StudyInv, ReportInv
  <2>3. ASSUME NEW h \in {H1, H2}
        PROVE  LET r == TrialResult(rows, h) IN
               /\ r.hypothesis = h /\ r.evaluable = Cardinality(Judged(rows, h))
               /\ r.evaluable \in Nat /\ r.lower \in Int
               /\ r.passed => /\ 2 * Cardinality(Right(rows, h)) > Cardinality(Judged(rows, h))
                              /\ KnownNet(Ledger(rows, h)) > 0
    BY PassedTrial
  <2> HIDE DEF rows
  <2>4. /\ x.hypothesis = H1 /\ y.hypothesis = H2 /\ x.lower \in Int /\ y.lower \in Int
        /\ x.evaluable \in Nat /\ y.evaluable \in Nat
        /\ x.evaluable = Cardinality(Judged(rows, H1)) /\ y.evaluable = Cardinality(Judged(rows, H2))
    BY <2>3
  <2>5. /\ x.passed => /\ 2 * Cardinality(Right(rows, H1)) > Cardinality(Judged(rows, H1))
                       /\ KnownNet(Ledger(rows, H1)) > 0
        /\ y.passed => /\ 2 * Cardinality(Right(rows, H2)) > Cardinality(Judged(rows, H2))
                       /\ KnownNet(Ledger(rows, H2)) > 0
    BY <2>3
  <2> HIDE DEF x, y
  <2>6. Decision(<<x, y>>) \in {H1, H2}
    BY <2>2
  <2> DEFINE trials == <<x, y>>
  <2>7. trials[1] = x /\ trials[2] = y /\ \A i \in 1..2 : i = 1 \/ i = 2
    OBVIOUS
  <2>8. /\ \A i \in 1..2 : trials[i].evaluable >= MinEvaluable
        /\ \E m \in 1..2 :
              /\ trials[m].hypothesis = champion /\ trials[m].passed
              /\ \A i \in 1..2 : trials[i].passed => trials[i].lower <= trials[m].lower
    BY <2>2, <2>4, <2>6, ChampionIsBest
  <2> HIDE DEF trials, champion
  <2>9. PICK m \in 1..2 :
              /\ trials[m].hypothesis = champion /\ trials[m].passed
              /\ \A i \in 1..2 : trials[i].passed => trials[i].lower <= trials[m].lower
    BY <2>8
  <2>10. H1 # H2
    BY DEF H1, H2
  <2>11. ASSUME NEW i \in 1..2, trials[i].hypothesis = champion PROVE i = m
    BY <2>4, <2>7, <2>9, <2>10, <2>11
  <2>12. \A h \in {H1, H2} : Cardinality(Judged(rows, h)) >= MinEvaluable
    <3>1. x.evaluable >= MinEvaluable /\ y.evaluable >= MinEvaluable
      BY <2>7, <2>8
    <3>2. QED
      BY <2>4, <3>1
  <2>13. /\ 2 * Cardinality(Right(rows, champion)) > Cardinality(Judged(rows, champion))
         /\ KnownNet(Ledger(rows, champion)) > 0
    <3>1. CASE m = 1
      <4>1. champion = H1 /\ x.passed
        BY <2>4, <2>7, <2>9, <3>1
      <4>2. QED
        BY <2>5, <4>1
    <3>2. CASE m = 2
      <4>1. champion = H2 /\ y.passed
        BY <2>4, <2>7, <2>9, <3>2
      <4>2. QED
        BY <2>5, <4>1
    <3>3. QED
      BY <2>7, <3>1, <3>2
  <2>14. \A i, j \in 1..2 : trials[i].hypothesis = champion /\ trials[j].passed =>
                               trials[j].lower <= trials[i].lower
    BY <2>9, <2>11
  <2>15. QED
    BY <2>2, <2>12, <2>13, <2>14 DEF trials
<1>2. QED
  BY <1>1, StudyInvariant, PTL
-----------------------------------------------------------------------------
(* The rows rebuilt from what was received before confirmation *)

\* The first n elements.
Beginning(s, n) == [i \in 1..n |-> s[i]]

\* In the order of reception the monotonic clock counts up.
MonoOf == [x \in Quotes |-> x.mono]

LEMMA FrontTyped ==
    ASSUME NEW T, NEW s \in Seq(T), NEW n \in 0..Len(s)
    PROVE  Beginning(s, n) \in Seq(T) /\ Len(Beginning(s, n)) = n /\ \A i \in 1..n : Beginning(s, n)[i] = s[i]
<1> DEFINE p == Beginning(s, n)
<1>1. n \in Nat /\ \A i \in 1..n : i \in 1..Len(s)
  OBVIOUS
<1>2. \A i \in 1..n : s[i] \in T
  BY <1>1, ElementOfSeq
<1>3. p = [i \in 1..n |-> s[i]]
  BY DEF Beginning
<1> HIDE DEF p
<1>4. p \in [1..n -> T] /\ \A i \in 1..n : p[i] = s[i]
  BY <1>2, <1>3
<1>5. p \in Seq(T) /\ Len(p) = n
  BY <1>1, <1>4
<1>6. QED
  BY <1>4, <1>5 DEF p

\* To keep the first n elements of a stream is to cut it there.
LEMMA KeepFront ==
    ASSUME NEW s \in Seq(Quotes), NEW now, Received(s, now), NEW n \in 0..Len(s)
    PROVE  Keep(s, 1..n) = Beginning(s, n)
<1> DEFINE a == Keep(s, 1..n)
<1> DEFINE b == Beginning(s, n)
<1>1. /\ 1..n \subseteq DOMAIN s /\ DOMAIN s = 1..Len(s) /\ Len(s) \in Nat /\ n \in Nat
      /\ \A i \in 1..Len(s) : s[i] \in Quotes
  BY ElementOfSeq
<1>2. b \in Seq(Quotes) /\ Len(b) = n /\ \A i \in 1..n : b[i] = s[i]
  BY FrontTyped
<1>3. MonoOf \in [Quotes -> Int] /\ \A x \in Quotes : MonoOf[x] = x.mono
  BY DEF MonoOf, Quotes
<1>4. Increasing(s, MonoOf)
  BY <1>1, <1>3 DEF Increasing, Received
<1>5. /\ a \in Seq(Quotes) /\ Increasing(a, MonoOf)
      /\ \A k \in 1..Len(a) : \E p \in 1..n : a[k] = s[p]
      /\ \A p \in 1..n : \E k \in 1..Len(a) : a[k] = s[p]
  <2> DEFINE P == 1..n
  <2>1. P \subseteq DOMAIN s
    BY <1>1
  <2> HIDE DEF P
  <2>2. Keep(s, P) \in Seq(Quotes)
    BY <2>1, KeepIsOrdered
  <2>3. /\ Increasing(Keep(s, P), MonoOf)
        /\ \A k \in 1..Len(Keep(s, P)) : \E p \in P : Keep(s, P)[k] = s[p]
        /\ \A p \in P : \E k \in 1..Len(Keep(s, P)) : Keep(s, P)[k] = s[p]
    BY <1>4, <2>1, KeepIncreasing
  <2>4. QED
    BY <2>2, <2>3 DEF P
<1> HIDE DEF a, b
<1>6. Increasing(b, MonoOf)
  BY <1>1, <1>2, <1>4 DEF Increasing
<1>7. AllIn(a, b) /\ AllIn(b, a)
  <2>1. ASSUME NEW k \in 1..Len(a) PROVE \E p \in 1..Len(b) : a[k] = b[p]
    <3>1. PICK p \in 1..n : a[k] = s[p]
      BY <1>5
    <3>2. a[k] = b[p] /\ p \in 1..Len(b)
      BY <1>2, <3>1
    <3>3. QED
      BY <3>2
  <2>2. ASSUME NEW p \in 1..Len(b) PROVE \E k \in 1..Len(a) : b[p] = a[k]
    <3>1. p \in 1..n /\ b[p] = s[p]
      BY <1>2
    <3>2. PICK k \in 1..Len(a) : a[k] = s[p]
      BY <1>5, <3>1
    <3>3. QED
      BY <3>1, <3>2
  <2>3. QED
    BY <2>1, <2>2 DEF AllIn
<1>8. a = b
  BY <1>2, <1>3, <1>5, <1>6, <1>7, SameIncreasing
<1>9. QED
  BY <1>8 DEF a, b

\* What is cut off behind an exit does not change the trial.
LEMMA TrialOfBeginning ==
    ASSUME NEW q \in Seq(Quotes), NEW n \in 0..Len(q), NEW i \in 1..n,
           ExitsOf(q, i, Horizon) # {}, ExitAt(q, i) <= n
    PROVE  LET p == Beginning(q, n) IN
           /\ ExitsOf(p, i, Horizon) # {} /\ ExitAt(p, i) = ExitAt(q, i)
           /\ TrialAt(p, i) = TrialAt(q, i)
<1> DEFINE p == Beginning(q, n)
<1> DEFINE j == ExitAt(q, i)
<1> DEFINE e == ExitAt(p, i)
<1>1. Len(p) = n /\ Len(q) \in Nat /\ n \in Nat /\ i \in Nat /\ \A k \in 1..n : p[k] = q[k]
  BY FrontTyped
<1>2. /\ j \in (i + 1)..Len(q) /\ q[j].mono >= q[i].mono + Horizon /\ j <= n
      /\ \A k \in (i + 1)..Len(q) : q[k].mono >= q[i].mono + Horizon => j <= k
  BY <1>1, ExitIsFirst
<1> HIDE DEF p
<1>3. j \in ExitsOf(p, i, Horizon)
  <2> HIDE DEF j
  <2>1. j \in 1..n /\ j \in (i + 1)..n
    BY <1>1, <1>2
  <2>2. p[j] = q[j] /\ p[i] = q[i]
    BY <1>1, <2>1
  <2>3. QED
    BY <1>1, <1>2, <2>1, <2>2 DEF ExitsOf
<1>4. /\ e \in (i + 1)..n /\ p[e].mono >= p[i].mono + Horizon
      /\ \A k \in (i + 1)..n : p[k].mono >= p[i].mono + Horizon => e <= k
  BY <1>1, <1>3, ExitIsFirst
<1> HIDE DEF j, e
<1>5. e = j
  <2>1. e \in 1..n /\ e \in (i + 1)..Len(q) /\ p[e] = q[e] /\ p[i] = q[i]
    BY <1>1, <1>4
  <2>2. j <= e
    BY <1>2, <1>4, <2>1
  <2>3. j \in 1..n /\ j \in (i + 1)..n
    BY <1>1, <1>2
  <2>4. p[j] = q[j]
    BY <1>1, <2>3
  <2>5. e <= j
    BY <1>2, <1>4, <2>1, <2>3, <2>4
  <2>6. QED
    BY <1>1, <2>1, <2>2, <2>3, <2>5
<1>6. IntervalDefects(p, i, j, MaxStep) = IntervalDefects(q, i, j, MaxStep)
  <2>1. ASSUME NEW k \in i..(j - 1) PROVE p[k + 1] = q[k + 1] /\ p[k] = q[k]
    <3>1. k \in 1..n /\ k + 1 \in 1..n
      BY <1>1, <1>2
    <3>2. QED
      BY <1>1, <3>1
  <2>2. QED
    BY <2>1 DEF IntervalDefects
<1>7. p[i] = q[i] /\ p[j] = q[j]
  <2>1. j \in 1..n
    BY <1>1, <1>2
  <2>2. QED
    BY <1>1, <2>1
<1>8. /\ TrialAt(p, i) = [entry |-> p[i], exit |-> p[e], interval |-> IntervalDefects(p, i, e, MaxStep)]
      /\ TrialAt(q, i) = [entry |-> q[i], exit |-> q[j], interval |-> IntervalDefects(q, i, j, MaxStep)]
  BY <1>3 DEF TrialAt, e, j
<1>9. TrialAt(p, i) = TrialAt(q, i)
  BY <1>5, <1>6, <1>7, <1>8
<1>10. QED
  BY <1>3, <1>5, <1>9 DEF p, e, j

\* A stream that is cut where a trial starts has the trials before the cut.
CutBefore(q, trials, a, c, n, short, b) ==
    /\ q \in Seq(Quotes) /\ Chain(q, trials, 1, a) /\ Len(trials) \in Nat
    /\ c \in 1..Len(trials) /\ n = a[c] - 1
    /\ Chain(Beginning(q, n), short, 1, b) /\ Len(short) \in Nat

LEMMA BeginningTrials ==
    ASSUME NEW q, NEW trials, NEW a, NEW c, NEW n, NEW short, NEW b,
           CutBefore(q, trials, a, c, n, short, b)
    PROVE  Len(short) = c - 1 /\ \A k \in 1..(c - 1) : short[k] = trials[k]
<1> q \in Seq(Quotes) /\ Chain(q, trials, 1, a) /\ Len(trials) \in Nat
    /\ c \in 1..Len(trials) /\ n = a[c] - 1
    /\ Chain(Beginning(q, n), short, 1, b) /\ Len(short) \in Nat
  BY DEF CutBefore
<1> DEFINE p == Beginning(q, n)
<1> DEFINE m == Len(trials)
<1> DEFINE l == Len(short)
<1>1. /\ Linked(q, m, 1, a) /\ a \in [1..m -> 1..Len(q)]
      /\ \A k \in 1..m : trials[k] = TrialAt(q, a[k])
      /\ \A k, g \in 1..m : k < g => ExitsOf(q, a[k], Horizon) # {} /\ ExitAt(q, a[k]) < a[g]
  BY Zenon DEF Chain
<1>2. /\ Linked(p, l, 1, b) /\ b \in [1..l -> 1..Len(p)]
      /\ \A k \in 1..l : short[k] = TrialAt(p, b[k])
  BY Zenon DEF Chain
<1>3. /\ m \in Nat /\ l \in Nat /\ Len(q) \in Nat /\ c \in Nat /\ a[c] \in 1..Len(q)
      /\ n \in 0..Len(q)
  <2>1. a[c] \in 1..Len(q)
    BY <1>1
  <2>2. QED
    BY <2>1
<1>4. Len(p) = n
  BY <1>3, FrontTyped
<1> HIDE DEF m, l, p
<1>5. /\ m # 0 => a[1] = 1
      /\ \A k \in 1..m : k # m => ExitsOf(q, a[k], Horizon) # {} /\ a[k + 1] = ExitAt(q, a[k]) + 1
  BY <1>1 DEF Linked
<1>6. /\ l = 0 => 1 > n
      /\ l # 0 => b[1] = 1
      /\ \A k \in 1..l :
            /\ k # l => ExitsOf(p, b[k], Horizon) # {} /\ b[k + 1] = ExitAt(p, b[k]) + 1
            /\ k = l => ExitsOf(p, b[k], Horizon) = {} \/ ExitAt(p, b[k]) + 1 > n
  BY <1>2, <1>4 DEF Linked
\* A trial before the cut ends before it.
<1>7. ASSUME NEW k \in 1..m, k < c
      PROVE  /\ a[k] \in 1..n /\ ExitsOf(q, a[k], Horizon) # {} /\ ExitAt(q, a[k]) <= n
             /\ ExitAt(q, a[k]) \in Nat /\ k \in Nat /\ k + 1 \in 1..m
             /\ ExitsOf(p, a[k], Horizon) # {} /\ ExitAt(p, a[k]) = ExitAt(q, a[k])
             /\ TrialAt(p, a[k]) = TrialAt(q, a[k]) /\ a[k + 1] = ExitAt(q, a[k]) + 1
  <2>1. /\ a[k] \in 1..Len(q) /\ ExitsOf(q, a[k], Horizon) # {} /\ ExitAt(q, a[k]) < a[c]
        /\ c \in 1..m /\ k # m
    <3>1. c \in 1..m
      BY DEF m
    <3>2. QED
      BY <1>1, <1>3, <1>7, <3>1
  <2>2. ExitAt(q, a[k]) \in (a[k] + 1)..Len(q)
    BY <1>3, <2>1, ExitIsFirst
  <2>3. a[k] \in 1..n /\ ExitAt(q, a[k]) <= n /\ ExitAt(q, a[k]) \in Nat
    BY <1>3, <2>1, <2>2
  <2>4. /\ ExitsOf(p, a[k], Horizon) # {} /\ ExitAt(p, a[k]) = ExitAt(q, a[k])
        /\ TrialAt(p, a[k]) = TrialAt(q, a[k])
    BY <1>3, <2>1, <2>3, TrialOfBeginning DEF p
  <2>5. k \in Nat /\ k + 1 \in 1..m
    BY <1>3, <1>7, <2>1
  <2>6. QED
    BY <1>5, <2>1, <2>3, <2>4, <2>5
<1> DEFINE R == {k \in 0..c : k + 1 < c => k + 1 \in 1..l /\ b[k + 1] = a[k + 1]}
<1>8. m # 0 /\ c \in 1..m
  BY <1>3 DEF m
<1>9. 0 \in R
  <2> SUFFICES ASSUME 1 < c PROVE 1 \in 1..l /\ b[1] = a[1]
    BY <1>3
  <2>1. 1 \in 1..m
    BY <1>3, <1>8
  <2>2. a[1] \in 1..n
    BY <1>7, <2>1
  <2>3. n \in Nat /\ n >= 1
    BY <1>3, <2>2
  <2>4. l # 0
    BY <1>3, <1>6, <2>3
  <2>5. QED
    BY <1>3, <1>5, <1>6, <1>8, <2>4
<1>10. \A k \in 0..c : k < c /\ k \in R => k + 1 \in R
  <2> SUFFICES ASSUME NEW k \in 0..c, k < c, k \in R, (k + 1) + 1 < c
               PROVE  (k + 1) + 1 \in 1..l /\ b[(k + 1) + 1] = a[(k + 1) + 1]
    BY <1>3
  <2> DEFINE h == k + 1
  <2>1. h \in 1..m /\ h < c /\ h + 1 < c /\ h + 1 \in 1..m /\ h \in Nat
    BY <1>3, <1>8
  <2>2. h \in 1..l /\ b[h] = a[h]
    BY <2>1
  <2> HIDE DEF h, R
  <2>3. /\ ExitsOf(p, a[h], Horizon) # {} /\ ExitAt(p, a[h]) = ExitAt(q, a[h])
        /\ a[h + 1] = ExitAt(q, a[h]) + 1
    BY <1>7, <2>1
  <2>4. a[h + 1] \in 1..n
    BY <1>7, <2>1
  <2>5. h # l
    <3> SUFFICES ASSUME h = l PROVE FALSE
      OBVIOUS
    <3>1. ExitsOf(p, b[h], Horizon) = {} \/ ExitAt(p, b[h]) + 1 > n
      BY <1>6, <2>2
    <3>2. a[h + 1] > n
      BY <2>2, <2>3, <3>1
    <3>3. QED
      BY <1>3, <2>4, <3>2
  <2>6. h + 1 \in 1..l /\ b[h + 1] = a[h + 1]
    BY <1>3, <1>6, <2>1, <2>2, <2>3, <2>5
  <2>7. QED
    BY <2>6 DEF h
<1>11. ASSUME NEW k \in 1..(c - 1) PROVE k \in 1..l /\ b[k] = a[k] /\ short[k] = trials[k]
  <2>1. k - 1 \in 0..c /\ (k - 1) + 1 = k /\ k < c /\ k \in 1..m
    BY <1>3, <1>8
  <2>2. k - 1 \in R
    <3> HIDE DEF R
    <3>1. \A x \in 0..c : x \in R
      BY <1>3, <1>9, <1>10, UpTo
    <3>2. QED
      BY <2>1, <3>1
  <2>3. k \in 1..l /\ b[k] = a[k]
    BY <2>1, <2>2
  <2> HIDE DEF R
  <2>4. TrialAt(p, a[k]) = TrialAt(q, a[k])
    BY <1>7, <2>1
  <2>5. QED
    BY <1>1, <1>2, <2>1, <2>3, <2>4
<1> HIDE DEF R
<1>12. l <= c - 1
  <2> SUFFICES ASSUME l > c - 1 PROVE FALSE
    BY <1>3
  <2>1. c \in 1..l /\ l # 0
    BY <1>3, <1>8
  <2>2. b[c] \in 1..n
    BY <1>2, <1>4, <2>1
  <2>3. CASE c = 1
    <3>1. b[c] = a[c]
      BY <1>5, <1>6, <1>8, <2>1, <2>3
    <3>2. QED
      BY <1>3, <2>2, <3>1
  <2>4. CASE c # 1
    <3> DEFINE k == c - 1
    <3>1. k \in 1..(c - 1) /\ k \in 1..m /\ k < c /\ k + 1 = c
      BY <1>3, <1>8, <2>4
    <3>2. k \in 1..l /\ b[k] = a[k] /\ k # l
      BY <1>11, <2>1, <3>1
    <3> HIDE DEF k
    <3>3. b[k + 1] = ExitAt(p, b[k]) + 1
      BY <1>6, <3>2
    <3>4. ExitAt(p, a[k]) = ExitAt(q, a[k]) /\ a[k + 1] = ExitAt(q, a[k]) + 1
      BY <1>7, <3>1
    <3>5. b[c] = a[c]
      BY <3>1, <3>2, <3>3, <3>4
    <3>6. QED
      BY <1>3, <2>2, <3>5
  <2>5. QED
    BY <2>3, <2>4
<1>13. l >= c - 1
  <2>1. CASE c = 1
    BY <1>3, <2>1
  <2>2. CASE c # 1
    <3>1. c - 1 \in 1..(c - 1)
      BY <1>3, <1>8, <2>2
    <3>2. c - 1 \in 1..l
      BY <1>11, <3>1
    <3>3. QED
      BY <1>3, <3>2
  <2>3. QED
    BY <2>1, <2>2
<1>14. l = c - 1
  BY <1>3, <1>12, <1>13
<1>15. QED
  BY <1>11, <1>14 DEF l
\* The wall clock advanced with every quote.
Rising(s) == \A i, j \in 1..Len(s) : i < j => s[i].wall < s[j].wall

\* What is kept of a stream was received in its order, too.
LEMMA KeptReceived ==
    ASSUME NEW s \in Seq(Quotes), NEW now, Received(s, now), NEW P, P \subseteq DOMAIN s
    PROVE  /\ Keep(s, P) \in Seq(Quotes) /\ Received(Keep(s, P), now)
           /\ \A k \in 1..Len(Keep(s, P)) : \E i \in P : Keep(s, P)[k] = s[i]
           /\ \A i \in P : \E k \in 1..Len(Keep(s, P)) : Keep(s, P)[k] = s[i]
           /\ Rising(s) => Rising(Keep(s, P))
<1> DEFINE q == Keep(s, P)
<1>1. q \in Seq(Quotes) /\ \E g : Kept(q, s, P, g)
  BY KeepIsOrdered
<1>2. PICK g : Kept(q, s, P, g)
  BY <1>1
<1> HIDE DEF q
<1>3. /\ \A k \in 1..Len(q) : g[k] \in P /\ g[k] \in 1..Len(s) /\ q[k] = s[g[k]]
      /\ \A k, l \in 1..Len(q) : k < l => g[k] < g[l]
      /\ \A i \in P : \E k \in 1..Len(q) : g[k] = i
  <2>1. g \in [1..Len(q) -> P] /\ DOMAIN s = 1..Len(s)
    BY <1>2 DEF Kept
  <2>2. QED
    BY <1>2, <2>1 DEF Kept
<1>4. Received(q, now)
  <2>1. /\ \A i, j \in 1..Len(s) : i < j => s[i].mono < s[j].mono
        /\ \A i \in 1..Len(s) : s[i].mono <= now /\ s[i].id = s[i].mono
    BY DEF Received
  <2>2. ASSUME NEW k \in 1..Len(q), NEW l \in 1..Len(q), k < l PROVE q[k].mono < q[l].mono
    <3>1. g[k] \in 1..Len(s) /\ g[l] \in 1..Len(s) /\ q[k] = s[g[k]] /\ q[l] = s[g[l]]
      BY <1>3
    <3>2. g[k] < g[l]
      BY <1>3, <2>2
    <3>3. QED
      BY <2>1, <3>1, <3>2
  <2>3. ASSUME NEW k \in 1..Len(q) PROVE q[k].mono <= now /\ q[k].id = q[k].mono
    <3>1. g[k] \in 1..Len(s) /\ q[k] = s[g[k]]
      BY <1>3
    <3>2. QED
      BY <2>1, <3>1
  <2>4. QED
    BY <2>2, <2>3 DEF Received
<1>5. ASSUME Rising(s) PROVE Rising(q)
  <2>1. ASSUME NEW k \in 1..Len(q), NEW l \in 1..Len(q), k < l PROVE q[k].wall < q[l].wall
    <3>1. g[k] \in 1..Len(s) /\ g[l] \in 1..Len(s) /\ q[k] = s[g[k]] /\ q[l] = s[g[l]]
      BY <1>3
    <3>2. g[k] < g[l]
      BY <1>3, <2>1
    <3>3. QED
      BY <1>5, <3>1, <3>2 DEF Rising
  <2>2. QED
    BY <2>1 DEF Rising
<1>6. /\ \A k \in 1..Len(q) : \E i \in P : q[k] = s[i]
      /\ \A i \in P : \E k \in 1..Len(q) : q[k] = s[i]
  <2>1. ASSUME NEW i \in P PROVE \E k \in 1..Len(q) : q[k] = s[i]
    BY <1>3
  <2>2. QED
    BY <1>3, <2>1
<1>7. QED
  BY <1>1, <1>4, <1>5, <1>6 DEF q

LEMMA BeforeIsBeginning ==
    ASSUME NEW q \in Seq(Quotes), NEW now, Received(q, now), NEW wall, NEW n \in 0..Len(q),
           \A i \in 1..Len(q) : q[i].wall < wall <=> i <= n
    PROVE  ReceivedBefore(q, wall) = Beginning(q, n)
<1>1. DOMAIN q = 1..Len(q) /\ Len(q) \in Nat
  OBVIOUS
<1>2. {i \in DOMAIN q : q[i].wall < wall} = 1..n
  <2>1. ASSUME NEW i \in 1..n PROVE i \in 1..Len(q) /\ i <= n
    BY <1>1
  <2>2. \A i \in 1..Len(q) : i <= n => i \in 1..n
    BY <1>1
  <2>3. QED
    BY <1>1, <2>1, <2>2
<1>3. ReceivedBefore(q, wall) = Keep(q, 1..n)
  BY <1>2 DEF ReceivedBefore
<1>4. QED
  BY <1>3, KeepFront

\* The trials in short are those of trials that start before the wall.
StartBefore(short, trials, wall) ==
    /\ \A k \in 1..Len(short) : \E m \in 1..Len(trials) :
          trials[m].entry.wall < wall /\ short[k] = trials[m]
    /\ \A m \in 1..Len(trials) : trials[m].entry.wall < wall =>
          \E k \in 1..Len(short) : short[k] = trials[m]

\* The trials of what was received before a wall at which a trial starts, or
\* behind or before the whole stream, are those that start before it.
LEMMA TrialsBefore ==
    ASSUME NEW q \in Seq(Quotes), NEW now, Received(q, now), Rising(q), NEW wall \in Nat,
           \/ \A i \in 1..Len(q) : q[i].wall < wall
           \/ \A i \in 1..Len(q) : q[i].wall >= wall
           \/ \E c \in 1..Len(TrialsOf(q)) : TrialsOf(q)[c].entry.wall = wall
    PROVE  StartBefore(TrialsOf(ReceivedBefore(q, wall)), TrialsOf(q), wall)
<1> DEFINE trials == TrialsOf(q)
<1> DEFINE p == ReceivedBefore(q, wall)
<1> DEFINE short == TrialsOf(p)
<1>1. trials \in Seq(TrialSet) /\ \E a : Chain(q, trials, 1, a)
  BY TrialsOfStream
<1>2. PICK a : Chain(q, trials, 1, a)
  BY <1>1
<1>3. p \in Seq(Quotes) /\ Received(p, now)
  <2> DEFINE P == {i \in DOMAIN q : q[i].wall < wall}
  <2>1. P \subseteq DOMAIN q
    OBVIOUS
  <2>2. p = Keep(q, P)
    BY DEF ReceivedBefore
  <2> HIDE DEF P, p
  <2>3. QED
    BY <2>1, <2>2, KeptReceived
<1> HIDE DEF p
<1>4. short \in Seq(TrialSet) /\ \E b : Chain(p, short, 1, b)
  BY <1>3, TrialsOfStream
<1>5. PICK b : Chain(p, short, 1, b)
  BY <1>4
<1>6. /\ Len(q) \in Nat /\ Len(trials) \in Nat /\ Len(short) \in Nat
      /\ \A i \in 1..Len(q) : q[i].wall \in Nat
  BY <1>1, <1>4, QuoteOf
<1> HIDE DEF short, trials
<1>7. /\ a \in [1..Len(trials) -> 1..Len(q)]
      /\ \A m \in 1..Len(trials) : trials[m] = TrialAt(q, a[m])
      /\ \A m, n \in 1..Len(trials) : m < n => ExitsOf(q, a[m], Horizon) # {} /\ ExitAt(q, a[m]) < a[n]
  BY <1>2, Zenon DEF Chain
<1>8. \A m \in 1..Len(trials) : a[m] \in 1..Len(q) /\ trials[m].entry = q[a[m]]
  BY <1>7, TrialTyped
<1>9. CASE \A i \in 1..Len(q) : q[i].wall < wall
  <2>1. p = Beginning(q, Len(q))
    <3>1. Len(q) \in 0..Len(q) /\ \A i \in 1..Len(q) : i <= Len(q)
      BY <1>6
    <3>2. QED
      BY <1>9, <3>1, BeforeIsBeginning DEF p
  <2>2. p = q
    <3>1. Beginning(q, Len(q)) = q
      BY DEF Beginning
    <3>2. QED
      BY <2>1, <3>1
  <2>3. short = trials
    BY <2>2 DEF short, trials
  <2>4. ASSUME NEW m \in 1..Len(trials) PROVE trials[m].entry.wall < wall
    <3>1. a[m] \in 1..Len(q) /\ trials[m].entry = q[a[m]]
      BY <1>8
    <3>2. QED
      BY <1>9, <3>1
  <2>5. QED
    BY <2>3, <2>4 DEF short, trials, p, StartBefore
<1>10. CASE \A i \in 1..Len(q) : q[i].wall >= wall
  <2>1. Len(p) = 0
    <3>1. 0 \in 0..Len(q) /\ \A i \in 1..Len(q) : q[i].wall < wall <=> i <= 0
      BY <1>6, <1>10
    <3>2. p = Beginning(q, 0)
      BY <3>1, BeforeIsBeginning DEF p
    <3>3. QED
      BY <3>1, <3>2, FrontTyped
  <2>2. Len(short) = 0
    <3>1. b \in [1..Len(short) -> 1..Len(p)]
      BY <1>5, Zenon DEF Chain
    <3>2. Len(short) # 0 => 1 \in 1..Len(short)
      BY <1>6
    <3>3. QED
      BY <2>1, <3>1, <3>2
  <2>3. \A m \in 1..Len(trials) : ~(trials[m].entry.wall < wall)
    BY <1>6, <1>8, <1>10
  <2>4. 1..Len(short) = {}
    BY <2>2
  <2>5. QED
    BY <2>3, <2>4 DEF short, trials, p, StartBefore
<1>11. CASE \E c \in 1..Len(trials) : trials[c].entry.wall = wall
  <2>1. PICK c \in 1..Len(trials) : trials[c].entry.wall = wall
    BY <1>11
  <2> DEFINE n == a[c] - 1
  <2>2. a[c] \in 1..Len(q) /\ q[a[c]].wall = wall /\ n \in 0..Len(q)
    <3>1. a[c] \in 1..Len(q) /\ trials[c].entry = q[a[c]]
      BY <1>8
    <3>2. QED
      BY <1>6, <2>1, <3>1
  <2>3. \A i \in 1..Len(q) : q[i].wall < wall <=> i <= n
    <3> SUFFICES ASSUME NEW i \in 1..Len(q) PROVE q[i].wall < wall <=> i <= n
      OBVIOUS
    <3>1. i < a[c] => q[i].wall < wall
      BY <2>2 DEF Rising
    <3>2. a[c] < i => wall < q[i].wall
      BY <2>2 DEF Rising
    <3>3. a[c] = i => wall = q[i].wall
      BY <2>2
    <3>4. q[i].wall \in Nat /\ i \in Nat /\ a[c] \in Nat
      BY <1>6, <2>2
    <3>5. QED
      BY <3>1, <3>2, <3>3, <3>4
  <2>4. p = Beginning(q, n)
    BY <2>2, <2>3, BeforeIsBeginning DEF p
  <2> HIDE DEF n
  <2>5. Len(short) = c - 1 /\ \A k \in 1..(c - 1) : short[k] = trials[k]
    <3>1. Chain(Beginning(q, n), short, 1, b) /\ n = a[c] - 1
      BY <1>5, <2>4 DEF n
    <3>2. CutBefore(q, trials, a, c, n, short, b)
      BY <1>2, <1>6, <2>1, <3>1 DEF CutBefore
    <3>3. QED
      BY <3>2, BeginningTrials
  <2>6. \A m \in 1..Len(trials) : trials[m].entry.wall < wall <=> m < c
    <3> SUFFICES ASSUME NEW m \in 1..Len(trials) PROVE trials[m].entry.wall < wall <=> m < c
      OBVIOUS
    <3>1. ASSUME NEW x \in 1..Len(trials), NEW y \in 1..Len(trials), x < y PROVE a[x] < a[y]
      <4>1. ExitsOf(q, a[x], Horizon) # {} /\ ExitAt(q, a[x]) < a[y] /\ a[x] \in 1..Len(q) /\ a[y] \in 1..Len(q)
        BY <1>7, <1>8, <3>1
      <4>2. ExitAt(q, a[x]) \in (a[x] + 1)..Len(q)
        BY <1>6, <4>1, ExitIsFirst
      <4>3. QED
        BY <4>1, <4>2
    <3>2. a[m] \in 1..Len(q) /\ a[c] \in 1..Len(q) /\ trials[m].entry.wall = q[a[m]].wall
      BY <1>8, <2>2
    <3>3. m < c => a[m] < a[c]
      BY <3>1
    <3>4. c < m => a[c] < a[m]
      BY <3>1
    <3>5. trials[m].entry.wall < wall <=> a[m] <= n
      BY <2>3, <3>2
    <3>6. QED
      BY <2>2, <3>2, <3>3, <3>4, <3>5 DEF n
  <2>7. \A k \in 1..(c - 1) : k \in 1..Len(trials) /\ k < c
    BY <1>6, <2>1
  <2>8. \A m \in 1..Len(trials) : m < c => m \in 1..(c - 1)
    BY <1>6, <2>1
  <2>9. QED
    BY <2>5, <2>6, <2>7, <2>8 DEF short, trials, p, StartBefore
<1>12. QED
  BY <1>9, <1>10, <1>11 DEF trials

\* A decision reads the same row from what was received before a later wall.
LEMMA RowBefore ==
    ASSUME NEW s, NEW o, NEW series \in Seq(Quotes), NEW wall \in Nat,
           o.entry.wall \in Nat, o.entry.wall < wall,
           series # <<>>, ReceivedBefore(series, wall) # <<>>
    PROVE  Row(s, o, ReceivedBefore(series, wall)) = Row(s, o, series)
<1> DEFINE P == {i \in DOMAIN series : series[i].wall < wall}
<1> DEFINE known == Keep(series, P)
<1>1. P \subseteq DOMAIN series /\ DOMAIN series = 1..Len(series)
  OBVIOUS
<1>2. known = ReceivedBefore(series, wall)
  BY DEF ReceivedBefore
<1>3. ASSUME NEW target
      PROVE  Latest(known, target, o.entry.wall) = Latest(series, target, o.entry.wall)
  <2>1. ASSUME NEW k \in KnownAt(series, target, o.entry.wall) PROVE k \in P
    <3>1. k \in DOMAIN series /\ series[k].wall <= o.entry.wall
      BY <2>1 DEF KnownAt
    <3>2. series[k].wall \in Nat
      BY <1>1, <3>1, QuoteOf
    <3>3. series[k].wall < wall
      BY <3>1, <3>2
    <3>4. QED
      BY <3>1, <3>3
  <2>2. KnownAt(series, target, o.entry.wall) \subseteq P
    BY <2>1
  <2> HIDE DEF P
  <2>3. QED
    BY <1>1, <2>2, LatestAmong
<1> HIDE DEF P, known
<1>4. ReferenceReturn(known, o.entry) = ReferenceReturn(series, o.entry)
  <2>1. (known # <<>>) = TRUE /\ (series # <<>>) = TRUE
    BY <1>2
  <2>2. /\ Latest(known, o.entry.mono, o.entry.wall) = Latest(series, o.entry.mono, o.entry.wall)
        /\ Latest(known, o.entry.mono - Lookback, o.entry.wall)
             = Latest(series, o.entry.mono - Lookback, o.entry.wall)
    BY <1>3
  <2>3. QED
    BY <2>1, <2>2, ReturnReads, Zenon
<1>5. Row(s, o, known) = Row(s, o, series)
  BY <1>4, Zenon DEF Row
<1>6. QED
  BY <1>2, <1>5

LEMMA InRowSet ==
    ASSUME NEW primary, NEW reference, NEW r
    PROVE  r \in RowSet(primary, reference) <=>
              \E s \in 1..Segments : \E k \in 1..Len(TrialsOf(primary[s])) :
                 r = Row(s, TrialsOf(primary[s])[k], reference[s])
<1> DEFINE Of(s) == {Row(s, TrialsOf(primary[s])[k], reference[s]) : k \in 1..Len(TrialsOf(primary[s]))}
<1>1. RowSet(primary, reference) = UNION {Of(s) : s \in 1..Segments}
  BY DEF RowSet
<1>2. \A s : r \in Of(s) <=> \E k \in 1..Len(TrialsOf(primary[s])) : r = Row(s, TrialsOf(primary[s])[k], reference[s])
  OBVIOUS
<1> HIDE DEF Of
<1>3. r \in UNION {Of(s) : s \in 1..Segments} <=> \E s \in 1..Segments : r \in Of(s)
  OBVIOUS
<1>4. QED
  BY <1>1, <1>2, <1>3

LEMMA TrialStarts ==
    ASSUME NEW q \in Seq(Quotes), NEW now, Received(q, now), NEW k \in 1..Len(TrialsOf(q))
    PROVE  \E i \in 1..Len(q) : TrialsOf(q)[k] = TrialAt(q, i) /\ TrialsOf(q)[k].entry = q[i]
<1> DEFINE trials == TrialsOf(q)
<1>1. trials \in Seq(TrialSet) /\ \E a : Chain(q, trials, 1, a)
  BY TrialsOfStream
<1> HIDE DEF trials
<1>2. PICK a : Chain(q, trials, 1, a)
  BY <1>1
<1>3. a \in [1..Len(trials) -> 1..Len(q)] /\ \A m \in 1..Len(trials) : trials[m] = TrialAt(q, a[m])
  BY <1>2, Zenon DEF Chain
<1>4. k \in 1..Len(trials)
  BY DEF trials
<1>5. a[k] \in 1..Len(q) /\ trials[k] = TrialAt(q, a[k]) /\ trials[k].entry = q[a[k]]
  BY <1>3, <1>4, TrialTyped
<1>6. QED
  BY <1>5 DEF trials

\* The trials of a rising stream start at rising walls.
LEMMA TrialsRise ==
    ASSUME NEW q \in Seq(Quotes), NEW now, Received(q, now), Rising(q),
           NEW k \in 1..Len(TrialsOf(q)), NEW l \in 1..Len(TrialsOf(q)), k < l
    PROVE  TrialsOf(q)[k].entry.wall < TrialsOf(q)[l].entry.wall
<1> DEFINE trials == TrialsOf(q)
<1>1. trials \in Seq(TrialSet) /\ \E a : Chain(q, trials, 1, a)
  BY TrialsOfStream
<1>2. k \in 1..Len(trials) /\ l \in 1..Len(trials)
  OBVIOUS
<1> HIDE DEF trials
<1>3. PICK a : Chain(q, trials, 1, a)
  BY <1>1
<1>4. /\ a \in [1..Len(trials) -> 1..Len(q)] /\ \A m \in 1..Len(trials) : trials[m] = TrialAt(q, a[m])
      /\ \A m, n \in 1..Len(trials) : m < n => ExitsOf(q, a[m], Horizon) # {} /\ ExitAt(q, a[m]) < a[n]
  BY <1>3, Zenon DEF Chain
<1>5. /\ a[k] \in 1..Len(q) /\ trials[k].entry = q[a[k]]
      /\ a[l] \in 1..Len(q) /\ trials[l].entry = q[a[l]]
      /\ ExitsOf(q, a[k], Horizon) # {} /\ ExitAt(q, a[k]) < a[l]
  BY <1>2, <1>4, TrialTyped
<1>6. ExitAt(q, a[k]) \in (a[k] + 1)..Len(q) /\ Len(q) \in Nat
  BY <1>5, ExitIsFirst
<1>7. a[k] < a[l]
  BY <1>5, <1>6
<1>8. trials[k].entry.wall < trials[l].entry.wall
  BY <1>5, <1>7 DEF Rising
<1>9. QED
  BY <1>8 DEF trials

\* Segments that follow each other on the wall clock.
Following(primary) ==
    \A s, t \in 1..Segments : s < t =>
       \A i \in 1..Len(primary[s]), j \in 1..Len(primary[t]) : primary[s][i].wall < primary[t][j].wall

\* The streams of segments that were received one after the other.
Steadily(primary, reference, now) ==
    /\ \A s \in 1..Segments : /\ primary[s] \in Seq(Quotes) /\ Received(primary[s], now)
                              /\ reference[s] \in Seq(Quotes) /\ Received(reference[s], now)
                              /\ Rising(primary[s])
    /\ Following(primary)

\* Their rows are in the order of the walls at which the trials start, and all
\* there are.
LEMMA RowsInOrder ==
    ASSUME NEW primary, NEW reference, NEW now, Steadily(primary, reference, now)
    PROVE  LET rows == Rows(primary, reference)
               T == RowSet(primary, reference)
           IN /\ rows \in Seq(T)
              /\ \A k, l \in 1..Len(rows) : k < l => rows[k].trial.entry.wall < rows[l].trial.entry.wall
              /\ \A r \in T : \E k \in 1..Len(rows) : rows[k] = r
<1> DEFINE T == RowSet(primary, reference)
<1> DEFINE of == [s \in 1..Segments |-> SegmentRows(s, primary[s], reference[s])]
<1> DEFINE rows == FlattenSeq(of)
<1> DEFINE keys == [i \in DOMAIN rows |-> <<rows[i].trial.entry.wall, rows[i].trial.entry.mono>>]
<1>1. ASSUME NEW s \in 1..Segments
      PROVE  /\ primary[s] \in Seq(Quotes) /\ Received(primary[s], now) /\ Rising(primary[s])
             /\ reference[s] \in Seq(Quotes) /\ Received(reference[s], now)
             /\ TrialsOf(primary[s]) \in Seq(TrialSet)
  <2>1. /\ primary[s] \in Seq(Quotes) /\ Received(primary[s], now) /\ Rising(primary[s])
        /\ reference[s] \in Seq(Quotes) /\ Received(reference[s], now)
    BY DEF Steadily
  <2>2. QED
    BY <2>1, TrialsOfStream
<1>2. ASSUME NEW s \in 1..Segments
      PROVE  /\ SegmentRows(s, primary[s], reference[s]) \in Seq(T)
             /\ Len(SegmentRows(s, primary[s], reference[s])) = Len(TrialsOf(primary[s]))
             /\ \A k \in 1..Len(TrialsOf(primary[s])) :
                   SegmentRows(s, primary[s], reference[s])[k]
                      = Row(s, TrialsOf(primary[s])[k], reference[s])
  <2> DEFINE trials == TrialsOf(primary[s])
  <2>1. trials \in Seq(TrialSet)
    BY <1>1
  <2>2. CausalOrder(reference[s]) = reference[s]
    BY <1>1, CausalSame
  <2>3. SegmentRows(s, primary[s], reference[s]) =
          [i \in DOMAIN trials |-> Row(s, trials[i], reference[s])]
    BY <2>2 DEF SegmentRows, TrialsOf
  <2>4. \A k \in 1..Len(trials) : Row(s, trials[k], reference[s]) \in T
    BY DEF RowSet
  <2> HIDE DEF trials, T
  <2>5. DOMAIN trials = 1..Len(trials) /\ Len(trials) \in Nat
    BY <2>1
  <2>6. QED
    BY <2>3, <2>4, <2>5 DEF trials
<1>3. /\ of \in Seq(Seq(T)) /\ Len(of) = Segments
      /\ \A s \in 1..Segments : of[s] = SegmentRows(s, primary[s], reference[s])
  <2> HIDE DEF T
  <2>1. of \in [1..Segments -> Seq(T)]
    BY <1>2
  <2>2. QED
    BY <2>1, SegmentCount
<1>4. Rows(primary, reference) = Sorted(rows, keys)
  BY DEF Rows, ByEntry
<1> HIDE DEF of, T
<1>5. rows \in Seq(T) /\ \E at : Places(rows, of, Segments, at)
  BY <1>3, FlattenIsOrdered
<1> HIDE DEF rows
<1>6. PICK at : Places(rows, of, Segments, at)
  BY <1>5
<1>7. ASSUME NEW k \in 1..Len(rows)
      PROVE  /\ at[k][1] \in 1..Segments /\ at[k][2] \in 1..Len(TrialsOf(primary[at[k][1]]))
             /\ rows[k] = Row(at[k][1], TrialsOf(primary[at[k][1]])[at[k][2]], reference[at[k][1]])
             /\ rows[k].trial = TrialsOf(primary[at[k][1]])[at[k][2]]
  <2>1. /\ at[k][1] \in 1..Segments /\ at[k][2] \in 1..Len(of[at[k][1]])
        /\ rows[k] = of[at[k][1]][at[k][2]]
    BY <1>6 DEF Places
  <2>2. /\ at[k][2] \in 1..Len(TrialsOf(primary[at[k][1]]))
        /\ rows[k] = Row(at[k][1], TrialsOf(primary[at[k][1]])[at[k][2]], reference[at[k][1]])
    BY <1>2, <1>3, <2>1
  <2>3. QED
    BY <2>1, <2>2, RowParts
<1>8. ASSUME NEW k \in 1..Len(rows), NEW l \in 1..Len(rows), k < l
      PROVE  rows[k].trial.entry.wall < rows[l].trial.entry.wall
  <2> DEFINE s == at[k][1]
  <2> DEFINE t == at[l][1]
  <2>1. /\ s \in 1..Segments /\ at[k][2] \in 1..Len(TrialsOf(primary[s]))
        /\ rows[k].trial = TrialsOf(primary[s])[at[k][2]]
        /\ t \in 1..Segments /\ at[l][2] \in 1..Len(TrialsOf(primary[t]))
        /\ rows[l].trial = TrialsOf(primary[t])[at[l][2]]
    BY <1>7
  <2>2. s < t \/ (s = t /\ at[k][2] < at[l][2])
    BY <1>6, <1>8 DEF Places
  <2> HIDE DEF s, t
  <2>3. CASE s < t
    <3>1. PICK i \in 1..Len(primary[s]) : rows[k].trial.entry = primary[s][i]
      BY <1>1, <2>1, TrialStarts
    <3>2. PICK j \in 1..Len(primary[t]) : rows[l].trial.entry = primary[t][j]
      BY <1>1, <2>1, TrialStarts
    <3>3. primary[s][i].wall < primary[t][j].wall
      BY <2>1, <2>3, <3>1, <3>2 DEF Steadily, Following
    <3>4. QED
      BY <3>1, <3>2, <3>3
  <2>4. CASE s = t /\ at[k][2] < at[l][2]
    BY <1>1, <2>1, <2>4, TrialsRise
  <2>5. QED
    BY <2>2, <2>3, <2>4
<1>9. ASSUME NEW r \in T PROVE \E k \in 1..Len(rows) : rows[k] = r
  <2>1. PICK s \in 1..Segments : \E m \in 1..Len(TrialsOf(primary[s])) :
           r = Row(s, TrialsOf(primary[s])[m], reference[s])
    BY <1>9, InRowSet DEF T
  <2>2. PICK m \in 1..Len(TrialsOf(primary[s])) : r = Row(s, TrialsOf(primary[s])[m], reference[s])
    BY <2>1
  <2>3. m \in 1..Len(of[s]) /\ of[s][m] = r
    BY <1>2, <1>3, <2>1, <2>2
  <2>4. PICK k \in 1..Len(rows) : at[k] = <<s, m>>
    BY <1>6, <2>1, <2>3 DEF Places
  <2>5. rows[k] = of[at[k][1]][at[k][2]]
    BY <1>6, <2>4 DEF Places
  <2>6. rows[k] = r
    BY <2>3, <2>4, <2>5
  <2>7. QED
    BY <2>4, <2>6
<1>10. Len(rows) \in Nat /\ DOMAIN rows = 1..Len(rows)
  BY <1>5
<1>11. Len(keys) = Len(rows) /\ \A i \in 1..Len(rows) : keys[i] = <<rows[i].trial.entry.wall, rows[i].trial.entry.mono>>
  BY <1>10
<1> HIDE DEF keys
<1>12. ASSUME NEW k \in 1..Len(rows), NEW l \in 1..Len(rows), k < l
       PROVE  ~Precedes(keys[l], keys[k])
  <2>1. rows[k].trial.entry.wall < rows[l].trial.entry.wall
    BY <1>8, <1>12
  <2>2. rows[k].trial.entry.wall \in Nat /\ rows[l].trial.entry.wall \in Nat
    <3>1. ASSUME NEW m \in 1..Len(rows) PROVE rows[m].trial.entry.wall \in Nat
      <4>1. at[m][1] \in 1..Segments /\ at[m][2] \in 1..Len(TrialsOf(primary[at[m][1]]))
        BY <1>7
      <4>2. /\ primary[at[m][1]] \in Seq(Quotes) /\ Received(primary[at[m][1]], now)
            /\ rows[m].trial = TrialsOf(primary[at[m][1]])[at[m][2]]
        BY <1>1, <1>7, <4>1
      <4>3. PICK i \in 1..Len(primary[at[m][1]]) : rows[m].trial.entry = primary[at[m][1]][i]
        BY <4>1, <4>2, TrialStarts
      <4>4. QED
        BY <4>2, <4>3, QuoteOf
    <3>2. QED
      BY <3>1
  <2> DEFINE a == keys[l]
  <2> DEFINE b == keys[k]
  <2>3. a[1] = rows[l].trial.entry.wall /\ b[1] = rows[k].trial.entry.wall /\ DOMAIN a = 1..2
    BY <1>11
  <2> HIDE DEF a, b
  <2>4. ASSUME NEW m \in 1..2, a[m] < b[m], \A i \in 1..(m - 1) : a[i] = b[i] PROVE FALSE
    <3>1. CASE m = 1
      BY <2>1, <2>2, <2>3, <2>4, <3>1
    <3>2. CASE m # 1
      <4>1. 1 \in 1..(m - 1)
        BY <3>2
      <4>2. a[1] = b[1]
        BY <2>4, <4>1
      <4>3. QED
        BY <2>1, <2>2, <2>3, <4>2
    <3>3. QED
      BY <3>1, <3>2
  <2>5. ~Precedes(a, b)
    BY <2>3, <2>4 DEF Precedes
  <2>6. QED
    BY <2>5 DEF a, b
<1>13. Sorted(rows, keys) = rows
  BY <1>5, <1>11, <1>12, SortedIsSame
<1>14. QED
  BY <1>4, <1>5, <1>8, <1>9, <1>13 DEF T

\* The books of a segment begin before its quotes.
HeadStart(primary, reference) ==
    \A s \in 1..Segments : primary[s] # <<>> =>
        /\ reference[s] # <<>>
        /\ \A i \in 1..Len(primary[s]) : reference[s][1].wall < primary[s][i].wall

Cut(streams, wall) == [s \in 1..Segments |-> ReceivedBefore(streams[s], wall)]

LEMMA CutStream ==
    ASSUME NEW q \in Seq(Quotes), NEW now, Received(q, now), NEW wall
    PROVE  LET p == ReceivedBefore(q, wall) IN
           /\ p \in Seq(Quotes) /\ Received(p, now) /\ (Rising(q) => Rising(p))
           /\ \A k \in 1..Len(p) : \E i \in 1..Len(q) : p[k] = q[i] /\ q[i].wall < wall
           /\ \A i \in 1..Len(q) : q[i].wall < wall => \E k \in 1..Len(p) : p[k] = q[i]
<1> DEFINE P == {i \in DOMAIN q : q[i].wall < wall}
<1> DEFINE p == Keep(q, P)
<1>1. P \subseteq DOMAIN q /\ DOMAIN q = 1..Len(q)
  OBVIOUS
<1>2. /\ \A i \in P : i \in 1..Len(q) /\ q[i].wall < wall
      /\ \A i \in 1..Len(q) : q[i].wall < wall => i \in P
  BY <1>1
<1>3. ReceivedBefore(q, wall) = p
  BY DEF ReceivedBefore
<1> HIDE DEF P
<1>4. /\ p \in Seq(Quotes) /\ Received(p, now) /\ (Rising(q) => Rising(p))
      /\ \A k \in 1..Len(p) : \E i \in P : p[k] = q[i]
      /\ \A i \in P : \E k \in 1..Len(p) : p[k] = q[i]
  BY <1>1, KeptReceived
<1> HIDE DEF p
<1>5. ASSUME NEW k \in 1..Len(p) PROVE \E i \in 1..Len(q) : p[k] = q[i] /\ q[i].wall < wall
  BY <1>2, <1>4
<1>6. ASSUME NEW i \in 1..Len(q), q[i].wall < wall PROVE \E k \in 1..Len(p) : p[k] = q[i]
  BY <1>2, <1>4, <1>6
<1>7. QED
  BY <1>3, <1>4, <1>5, <1>6

LEMMA CutSteadily ==
    ASSUME NEW primary, NEW reference, NEW now, Steadily(primary, reference, now), NEW wall
    PROVE  Steadily(Cut(primary, wall), Cut(reference, wall), now)
<1> DEFINE p == Cut(primary, wall)
<1> DEFINE r == Cut(reference, wall)
<1>1. ASSUME NEW s \in 1..Segments
      PROVE  /\ p[s] \in Seq(Quotes) /\ Received(p[s], now) /\ Rising(p[s])
             /\ r[s] \in Seq(Quotes) /\ Received(r[s], now)
             /\ \A k \in 1..Len(p[s]) : \E i \in 1..Len(primary[s]) : p[s][k] = primary[s][i]
  <2>1. /\ primary[s] \in Seq(Quotes) /\ Received(primary[s], now) /\ Rising(primary[s])
        /\ reference[s] \in Seq(Quotes) /\ Received(reference[s], now)
    BY DEF Steadily
  <2>2. p[s] = ReceivedBefore(primary[s], wall) /\ r[s] = ReceivedBefore(reference[s], wall)
    BY DEF Cut
  <2> HIDE DEF p, r
  <2> DEFINE b == ReceivedBefore(primary[s], wall)
  <2> DEFINE c == ReceivedBefore(reference[s], wall)
  <2>3. /\ b \in Seq(Quotes) /\ Received(b, now) /\ Rising(b)
        /\ \A k \in 1..Len(b) : \E i \in 1..Len(primary[s]) : b[k] = primary[s][i] /\ primary[s][i].wall < wall
    BY <2>1, CutStream
  <2>4. c \in Seq(Quotes) /\ Received(c, now)
    BY <2>1, CutStream
  <2>5. p[s] = b /\ r[s] = c
    BY <2>2
  <2> HIDE DEF b, c
  <2>6. QED
    BY <2>3, <2>4, <2>5
<1> HIDE DEF p, r
<1>2. Following(p)
  <2> SUFFICES ASSUME NEW s \in 1..Segments, NEW t \in 1..Segments, s < t,
                      NEW k \in 1..Len(p[s]), NEW l \in 1..Len(p[t])
               PROVE  p[s][k].wall < p[t][l].wall
    BY DEF Following
  <2>1. PICK i \in 1..Len(primary[s]) : p[s][k] = primary[s][i]
    BY <1>1
  <2>2. PICK j \in 1..Len(primary[t]) : p[t][l] = primary[t][j]
    BY <1>1
  <2>3. primary[s][i].wall < primary[t][j].wall
    BY <2>1, <2>2 DEF Steadily, Following
  <2>4. QED
    BY <2>1, <2>2, <2>3
<1>3. Steadily(p, r, now)
  BY <1>1, <1>2 DEF Steadily
<1>4. QED
  BY <1>3 DEF p, r

StartWall(primary, wall) ==
    \E s \in 1..Segments : \E k \in 1..Len(TrialsOf(primary[s])) : wall = TrialsOf(primary[s])[k].entry.wall

\* A wall at which a trial of a segment starts cuts no trial of the segments.
LEMMA SegmentTrialsBefore ==
    ASSUME NEW primary, NEW reference, NEW now, Steadily(primary, reference, now),
           NEW wall, StartWall(primary, wall), NEW s \in 1..Segments
    PROVE  /\ StartBefore(TrialsOf(ReceivedBefore(primary[s], wall)), TrialsOf(primary[s]), wall)
           /\ wall \in Nat
<1>1. PICK c \in 1..Segments :
           \E k \in 1..Len(TrialsOf(primary[c])) : wall = TrialsOf(primary[c])[k].entry.wall
  BY DEF StartWall
<1>2. PICK m \in 1..Len(TrialsOf(primary[c])) : wall = TrialsOf(primary[c])[m].entry.wall
  BY <1>1
<1>3. /\ primary[s] \in Seq(Quotes) /\ Received(primary[s], now) /\ Rising(primary[s])
      /\ primary[c] \in Seq(Quotes) /\ Received(primary[c], now)
  BY DEF Steadily
<1>4. PICK i \in 1..Len(primary[c]) : TrialsOf(primary[c])[m].entry = primary[c][i]
  BY <1>1, <1>2, <1>3, TrialStarts
<1>5. wall = primary[c][i].wall /\ wall \in Nat
  BY <1>2, <1>3, <1>4, QuoteOf
<1>6. \A j \in 1..Len(primary[s]) : primary[s][j].wall \in Nat
  BY <1>3, QuoteOf
<1>7. CASE s < c
  <2>1. \A j \in 1..Len(primary[s]) : primary[s][j].wall < wall
    BY <1>1, <1>4, <1>5, <1>7 DEF Steadily, Following
  <2>2. QED
    BY <1>3, <1>5, <2>1, TrialsBefore
<1>8. CASE c < s
  <2>1. \A j \in 1..Len(primary[s]) : wall < primary[s][j].wall
    BY <1>1, <1>4, <1>5, <1>8 DEF Steadily, Following
  <2>2. \A j \in 1..Len(primary[s]) : primary[s][j].wall >= wall
    BY <1>5, <1>6, <2>1
  <2>3. QED
    BY <1>3, <1>5, <2>2, TrialsBefore
<1>9. CASE s = c
  <2>1. \E k \in 1..Len(TrialsOf(primary[s])) : TrialsOf(primary[s])[k].entry.wall = wall
    BY <1>2, <1>9
  <2>2. QED
    BY <1>3, <1>5, <2>1, TrialsBefore
<1>10. QED
  BY <1>5, <1>7, <1>8, <1>9, SegmentCount

\* The rows of what was received before such a wall are the rows before it.
LEMMA RowsOfCut ==
    ASSUME NEW primary, NEW reference, NEW now, Steadily(primary, reference, now),
           HeadStart(primary, reference),
           NEW wall, StartWall(primary, wall), NEW r
    PROVE  r \in RowSet(Cut(primary, wall), Cut(reference, wall))
              <=> r \in RowSet(primary, reference) /\ r.trial.entry.wall < wall
<1> DEFINE trials(s) == TrialsOf(primary[s])
<1> DEFINE short(s) == TrialsOf(ReceivedBefore(primary[s], wall))
<1>1. ASSUME NEW s \in 1..Segments
      PROVE  /\ primary[s] \in Seq(Quotes) /\ Received(primary[s], now)
             /\ reference[s] \in Seq(Quotes) /\ Received(reference[s], now)
             /\ \A k \in 1..Len(short(s)) : \E l \in 1..Len(trials(s)) :
                    trials(s)[l].entry.wall < wall /\ short(s)[k] = trials(s)[l]
             /\ \A l \in 1..Len(trials(s)) : trials(s)[l].entry.wall < wall =>
                    \E k \in 1..Len(short(s)) : short(s)[k] = trials(s)[l]
  <2>1. /\ primary[s] \in Seq(Quotes) /\ Received(primary[s], now)
        /\ reference[s] \in Seq(Quotes) /\ Received(reference[s], now)
    BY DEF Steadily
  <2>2. /\ \A k \in 1..Len(short(s)) : \E l \in 1..Len(trials(s)) :
              trials(s)[l].entry.wall < wall /\ short(s)[k] = trials(s)[l]
        /\ \A l \in 1..Len(trials(s)) : trials(s)[l].entry.wall < wall =>
              \E k \in 1..Len(short(s)) : short(s)[k] = trials(s)[l]
    <3>1. StartBefore(TrialsOf(ReceivedBefore(primary[s], wall)), TrialsOf(primary[s]), wall)
      BY SegmentTrialsBefore
    <3>2. StartBefore(short(s), trials(s), wall)
      BY <3>1
    <3> HIDE DEF short, trials
    <3>3. QED
      BY <3>2 DEF StartBefore
  <2>3. QED
    BY <2>1, <2>2
<1>2. wall \in Nat
  <2>1. PICK c \in 1..Segments : wall = wall
    BY DEF StartWall
  <2>2. QED
    BY <2>1, SegmentTrialsBefore
<1>3. ASSUME NEW s \in 1..Segments, NEW l \in 1..Len(trials(s)), trials(s)[l].entry.wall < wall
      PROVE  Row(s, trials(s)[l], ReceivedBefore(reference[s], wall)) = Row(s, trials(s)[l], reference[s])
  <2> DEFINE series == reference[s]
  <2> DEFINE o == trials(s)[l]
  <2>1. PICK i \in 1..Len(primary[s]) : o.entry = primary[s][i]
    BY <1>1, TrialStarts
  <2>2. primary[s] # <<>>
    BY <1>1, <2>1
  <2>3. series # <<>> /\ series[1].wall < o.entry.wall
    BY <2>1, <2>2 DEF HeadStart
  <2>4. 1 \in 1..Len(series) /\ series[1].wall \in Nat /\ o.entry.wall \in Nat
    <3>1. 1 \in 1..Len(series)
      BY <1>1, <2>3
    <3>2. QED
      BY <1>1, <2>1, <3>1, QuoteOf
  <2>5. o.entry.wall < wall
    BY <1>3
  <2>6. series \in Seq(Quotes) /\ Received(series, now)
    BY <1>1
  <2> HIDE DEF series, o
  <2>7. series[1].wall < wall
    BY <1>2, <2>3, <2>4, <2>5
  <2>8. PICK k \in 1..Len(ReceivedBefore(series, wall)) : ReceivedBefore(series, wall)[k] = series[1]
    BY <2>4, <2>6, <2>7, CutStream
  <2>9. ReceivedBefore(series, wall) # <<>>
    BY <2>8
  <2>10. Row(s, o, ReceivedBefore(series, wall)) = Row(s, o, series)
    BY <1>2, <2>3, <2>4, <2>5, <2>6, <2>9, RowBefore
  <2>11. QED
    BY <2>10 DEF series, o
<1> DEFINE before == RowSet(Cut(primary, wall), Cut(reference, wall))
<1>4. /\ r \in before <=> \E s \in 1..Segments : \E k \in 1..Len(short(s)) :
                              r = Row(s, short(s)[k], ReceivedBefore(reference[s], wall))
      /\ r \in RowSet(primary, reference) <=>
            \E s \in 1..Segments : \E l \in 1..Len(trials(s)) : r = Row(s, trials(s)[l], reference[s])
  <2>1. \A s \in 1..Segments : /\ Cut(primary, wall)[s] = ReceivedBefore(primary[s], wall)
                               /\ Cut(reference, wall)[s] = ReceivedBefore(reference[s], wall)
    BY DEF Cut
  <2>2. r \in before <=> \E s \in 1..Segments : \E k \in 1..Len(TrialsOf(Cut(primary, wall)[s])) :
                              r = Row(s, TrialsOf(Cut(primary, wall)[s])[k], Cut(reference, wall)[s])
    BY InRowSet
  <2>3. r \in RowSet(primary, reference) <=>
            \E s \in 1..Segments : \E l \in 1..Len(trials(s)) : r = Row(s, trials(s)[l], reference[s])
    BY InRowSet
  <2>4. QED
    BY <2>1, <2>2, <2>3, Zenon
<1> HIDE DEF trials, short, before
<1>5. ASSUME r \in before PROVE r \in RowSet(primary, reference) /\ r.trial.entry.wall < wall
  <2>1. PICK s \in 1..Segments : \E k \in 1..Len(short(s)) :
           r = Row(s, short(s)[k], ReceivedBefore(reference[s], wall))
    BY <1>4, <1>5
  <2>2. PICK k \in 1..Len(short(s)) : r = Row(s, short(s)[k], ReceivedBefore(reference[s], wall))
    BY <2>1
  <2>3. PICK l \in 1..Len(trials(s)) : trials(s)[l].entry.wall < wall /\ short(s)[k] = trials(s)[l]
    BY <1>1, <2>1, <2>2
  <2>4. r = Row(s, trials(s)[l], reference[s])
    BY <1>3, <2>1, <2>2, <2>3
  <2>5. r.trial.entry.wall < wall
    BY <2>3, <2>4, RowParts
  <2>6. \E x \in 1..Len(trials(s)) : r = Row(s, trials(s)[x], reference[s])
    BY <2>4
  <2>7. r \in RowSet(primary, reference)
    BY <1>4, <2>1, <2>6, Zenon
  <2>8. QED
    BY <2>5, <2>7
<1>6. ASSUME r \in RowSet(primary, reference), r.trial.entry.wall < wall PROVE r \in before
  <2>1. PICK s \in 1..Segments : \E l \in 1..Len(trials(s)) : r = Row(s, trials(s)[l], reference[s])
    BY <1>4, <1>6
  <2>2. PICK l \in 1..Len(trials(s)) : r = Row(s, trials(s)[l], reference[s])
    BY <2>1
  <2>3. trials(s)[l].entry.wall < wall
    BY <1>6, <2>2, RowParts
  <2>4. PICK k \in 1..Len(short(s)) : short(s)[k] = trials(s)[l]
    BY <1>1, <2>1, <2>2, <2>3
  <2>5. r = Row(s, short(s)[k], ReceivedBefore(reference[s], wall))
    BY <1>3, <2>1, <2>2, <2>3, <2>4
  <2>6. \E x \in 1..Len(short(s)) : r = Row(s, short(s)[x], ReceivedBefore(reference[s], wall))
    BY <2>5
  <2>7. QED
    BY <1>4, <2>1, <2>6, Zenon
<1>7. QED
  BY <1>5, <1>6 DEF before
-----------------------------------------------------------------------------
(* The streams of a study *)

\* A segment begins with a book, and those behind the one in capture are empty.
Begun ==
    /\ \A s \in 1..Segments : books[s] # <<>> => refs[s] # <<>> /\ refs[s][1].mono < books[s][1].mono
    /\ phase \in 1..Segments =>
          /\ refs[phase] # <<>> /\ refs[phase][1].mono < clock.mono
          /\ \A s \in 1..Segments : s > phase => books[s] = <<>> /\ refs[s] = <<>>

\* As long as the wall clock is steady it is ahead of all that was received, and
\* of what was received for earlier segments.
Ahead ==
    Steady =>
       /\ \A s \in 1..Segments : \A x \in HeardIn(s) : x.wall <= clock.wall
       /\ \A s, t \in 1..Segments : s < t => \A x \in HeardIn(s), y \in HeardIn(t) : x.wall < y.wall

\* The plan is that of the frozen rows, which a builder gave.
PlanInv ==
    phase = Segments + 2 =>
       /\ dataset = Rows(books, refs) /\ ~BooksRefused(books)
       /\ plan = PartitionPlan(dataset) /\ ~plan.refused

CaptureInv == StudyInv /\ Begun /\ Ahead

LEMMA Heard ==
    ASSUME StudyInv, NEW s \in 1..Segments
    PROVE  /\ books[s] \in Seq(Quotes) /\ Received(books[s], clock.mono)
           /\ refs[s] \in Seq(Quotes) /\ Received(refs[s], clock.mono)
           /\ \A i \in 1..Len(books[s]) : books[s][i] \in HeardIn(s)
           /\ \A i \in 1..Len(refs[s]) : refs[s][i] \in HeardIn(s)
           /\ \A x \in HeardIn(s) : x.mono <= clock.mono /\ x.mono \in Nat /\ x.wall \in Nat
<1>1. /\ books[s] \in Seq(Quotes) /\ Received(books[s], clock.mono)
      /\ refs[s] \in Seq(Quotes) /\ Received(refs[s], clock.mono)
  BY DEF StudyInv, StreamTypeOK, StreamsInv
<1>2. DOMAIN books[s] = 1..Len(books[s]) /\ DOMAIN refs[s] = 1..Len(refs[s])
  BY <1>1
<1>3. /\ \A i \in 1..Len(books[s]) : books[s][i] \in HeardIn(s)
      /\ \A i \in 1..Len(refs[s]) : refs[s][i] \in HeardIn(s)
  BY <1>2 DEF HeardIn, ToSet
<1>4. ASSUME NEW x \in HeardIn(s) PROVE x.mono <= clock.mono /\ x.mono \in Nat /\ x.wall \in Nat
  <2>1. \/ \E i \in 1..Len(books[s]) : x = books[s][i]
        \/ \E i \in 1..Len(refs[s]) : x = refs[s][i]
    BY <1>2, <1>4 DEF HeardIn, ToSet
  <2>2. CASE \E i \in 1..Len(books[s]) : x = books[s][i]
    <3>1. PICK i \in 1..Len(books[s]) : x = books[s][i]
      BY <2>2
    <3>2. QED
      BY <1>1, <3>1, QuoteOf DEF Received
  <2>3. CASE \E i \in 1..Len(refs[s]) : x = refs[s][i]
    <3>1. PICK i \in 1..Len(refs[s]) : x = refs[s][i]
      BY <2>3
    <3>2. QED
      BY <1>1, <3>1, QuoteOf DEF Received
  <2>4. QED
    BY <2>1, <2>2, <2>3
<1>5. QED
  BY <1>1, <1>3, <1>4

\* What an arrival adds.
Adds(q, r) ==
    /\ phase \in 1..Segments /\ phase' = phase
    /\ q \in Quotes /\ r \in Quotes /\ clock.mono < q.mono
    /\ q.mono = clock'.mono /\ q.wall = clock'.wall /\ r.mono = clock'.mono /\ r.wall = clock'.wall
    /\ books' = [books EXCEPT ![phase] = Append(books[phase], q)]
    /\ \/ refs' = refs
       \/ refs' = [refs EXCEPT ![phase] = Append(refs[phase], r)]
    /\ dataset' = dataset /\ plan' = plan

LEMMA ReceiveAdds ==
    ASSUME StudyInv, NEW a \in Arrivals, Receive(a) PROVE \E q, r : Adds(q, r)
<1> DEFINE mono == clock.mono + a.step
<1> DEFINE wall == clock.wall + a.step - a.back
<1> DEFINE odd == clock.odd + (IF a.odd THEN 1 ELSE 0)
<1> DEFINE q == Stamp(a.quote, mono, wall, mono)
<1> DEFINE r == Stamp(a.reference, mono, wall, mono)
<1>1. /\ phase \in 1..Segments /\ wall >= 0
      /\ clock' = [mono |-> mono, wall |-> wall, odd |-> odd]
      /\ phase' = phase /\ dataset' = dataset /\ plan' = plan
  BY DEF Receive
<1>2. books' = [books EXCEPT ![phase] = Append(books[phase], q)]
  BY DEF Receive
<1>3. refs' = [refs EXCEPT ![phase] = IF a.reference.stream = 0 THEN refs[phase] ELSE Append(refs[phase], r)]
  BY DEF Receive
<1>4. /\ a.step \in Nat \ {0} /\ a.back \in Nat
      /\ a.quote \in Books /\ a.reference \in Books
  BY StudyAssumption
<1>5. /\ clock.mono \in Nat /\ clock.wall \in Nat
      /\ refs \in [1..Segments -> Seq(Quotes)]
  BY DEF StudyInv, StreamTypeOK
<1>6. mono \in Nat /\ wall \in Nat /\ clock.mono < mono
  <2>1. mono \in Nat /\ clock.mono < mono
    BY <1>4, <1>5
  <2>2. wall \in Nat
    BY <1>1, <1>4, <1>5
  <2>3. QED
    BY <2>1, <2>2
<1>7. clock'.mono = mono /\ clock'.wall = wall
  BY <1>1
<1> HIDE DEF mono, wall, odd
<1>8. /\ q \in Quotes /\ q.mono = mono /\ q.wall = wall
      /\ r \in Quotes /\ r.mono = mono /\ r.wall = wall
  <2>1. q \in Quotes /\ q.mono = mono /\ r \in Quotes /\ r.mono = mono
    BY <1>4, <1>6, Stamped
  <2>2. q.wall = wall /\ r.wall = wall
    BY DEF Stamp
  <2>3. QED
    BY <2>1, <2>2
<1> HIDE DEF q, r
<1>9. refs' = refs \/ refs' = [refs EXCEPT ![phase] = Append(refs[phase], r)]
  BY <1>1, <1>3, <1>5
<1>10. Adds(q, r)
  BY <1>1, <1>2, <1>6, <1>7, <1>8, <1>9 DEF Adds
<1>11. QED
  BY <1>10

LEMMA SetOfAppend ==
    ASSUME NEW s \in Seq(Quotes), NEW x \in Quotes
    PROVE  ToSet(Append(s, x)) = ToSet(s) \cup {x}
<1> DEFINE t == Append(s, x)
<1>1. /\ Len(t) = Len(s) + 1 /\ t[Len(s) + 1] = x /\ Len(s) \in Nat
      /\ t \in Seq(Quotes) /\ \A i \in 1..Len(s) : t[i] = s[i]
  BY AppendProperties
<1> HIDE DEF t
<1>2. DOMAIN t = 1..(Len(s) + 1) /\ DOMAIN s = 1..Len(s)
  BY <1>1
<1>3. \A i : i \in 1..(Len(s) + 1) <=> i \in 1..Len(s) \/ i = Len(s) + 1
  BY <1>1
<1>4. \A y : y \in ToSet(t) <=> y \in ToSet(s) \/ y = x
  <2>1. \A y : y \in ToSet(t) <=> \E i \in 1..(Len(s) + 1) : y = t[i]
    BY <1>2 DEF ToSet
  <2>2. \A y : y \in ToSet(s) <=> \E i \in 1..Len(s) : y = s[i]
    BY <1>2 DEF ToSet
  <2>3. ASSUME NEW y \in ToSet(t) PROVE y \in ToSet(s) \/ y = x
    <3>1. PICK i \in 1..(Len(s) + 1) : y = t[i]
      BY <2>1, <2>3
    <3>2. QED
      BY <1>1, <1>3, <2>2, <3>1
  <2>4. x \in ToSet(t)
    <3>1. Len(s) + 1 \in 1..(Len(s) + 1)
      BY <1>1
    <3>2. QED
      BY <1>1, <2>1, <3>1
  <2>5. ASSUME NEW y \in ToSet(s) PROVE y \in ToSet(t)
    <3>1. PICK i \in 1..Len(s) : y = s[i]
      BY <2>2, <2>5
    <3>2. i \in 1..(Len(s) + 1) /\ t[i] = y
      BY <1>1, <1>3, <3>1
    <3>3. QED
      BY <2>1, <3>2
  <2>6. QED
    BY <2>3, <2>4, <2>5
<1>5. QED
  BY <1>4 DEF t

LEMMA ReceiveCaptures ==
    ASSUME CaptureInv, NEW a \in Arrivals, Receive(a) PROVE Begun' /\ Ahead'
<1>1. StudyInv /\ Begun /\ Ahead /\ StudyInv'
  BY ReceiveKeeps DEF CaptureInv
<1>2. PICK q, r : Adds(q, r)
  BY <1>1, ReceiveAdds
<1>3. /\ phase \in 1..Segments /\ phase' = phase
      /\ q \in Quotes /\ r \in Quotes /\ clock.mono < q.mono
      /\ q.mono = clock'.mono /\ q.wall = clock'.wall /\ r.mono = clock'.mono /\ r.wall = clock'.wall
      /\ q.mono \in Nat /\ q.wall \in Nat /\ clock.mono \in Nat
  <2>1. clock.mono \in Nat
    BY <1>1 DEF StudyInv, StreamTypeOK
  <2>2. q \in Quotes => q.mono \in Nat /\ q.wall \in Nat
    BY DEF Quotes
  <2>3. QED
    BY <1>2, <2>1, <2>2 DEF Adds
<1>4. /\ refs \in [1..Segments -> Seq(Quotes)] /\ books \in [1..Segments -> Seq(Quotes)]
  BY <1>1 DEF StudyInv, StreamTypeOK
<1>5. /\ books'[phase] = Append(books[phase], q)
      /\ refs'[phase] \in {refs[phase], Append(refs[phase], r)}
      /\ \A s \in 1..Segments : s # phase => books'[s] = books[s] /\ refs'[s] = refs[s]
  BY <1>2, <1>4 DEF Adds
<1>6. /\ books[phase] \in Seq(Quotes) /\ refs[phase] \in Seq(Quotes)
  BY <1>3, <1>4
<1> DEFINE b == Append(books[phase], q)
<1> DEFINE f == Append(refs[phase], r)
<1>7. /\ Len(b) = Len(books[phase]) + 1 /\ b[Len(books[phase]) + 1] = q /\ Len(books[phase]) \in Nat
      /\ \A i \in 1..Len(books[phase]) : b[i] = books[phase][i]
      /\ Len(f) = Len(refs[phase]) + 1 /\ f[Len(refs[phase]) + 1] = r /\ Len(refs[phase]) \in Nat
      /\ \A i \in 1..Len(refs[phase]) : f[i] = refs[phase][i]
      /\ b \in Seq(Quotes) /\ f \in Seq(Quotes)
  BY <1>3, <1>6, AppendProperties
<1> HIDE DEF b, f
<1>8. books'[phase] = b /\ refs'[phase] \in {refs[phase], f}
  BY <1>5 DEF b, f
<1>9. /\ refs[phase] # <<>> /\ refs[phase][1].mono < clock.mono /\ 1 \in 1..Len(refs[phase])
      /\ \A s \in 1..Segments : s > phase => books[s] = <<>> /\ refs[s] = <<>>
  BY <1>1, <1>3, <1>6, <1>7 DEF Begun
<1>10. refs'[phase] # <<>> /\ refs'[phase][1] = refs[phase][1]
  BY <1>7, <1>8, <1>9
<1>11. books'[phase][1] = IF books[phase] = <<>> THEN q ELSE books[phase][1]
  <2>1. CASE books[phase] = <<>>
    BY <1>7, <1>8, <2>1
  <2>2. CASE books[phase] # <<>>
    <3>1. 1 \in 1..Len(books[phase])
      BY <1>6, <1>7, <2>2
    <3>2. QED
      BY <1>7, <1>8, <2>2, <3>1
  <2>3. QED
    BY <2>1, <2>2
<1>12. /\ refs[phase][1] \in HeardIn(phase) /\ refs[phase][1].mono \in Nat /\ refs[phase][1].wall \in Nat
  BY <1>1, <1>3, <1>9, Heard
<1>13. refs'[phase][1].mono < clock'.mono /\ refs'[phase][1].mono < books'[phase][1].mono
  <2>1. refs[phase][1].mono < q.mono
    BY <1>3, <1>9, <1>12
  <2>2. books[phase] # <<>> => refs[phase][1].mono < books[phase][1].mono
    BY <1>1, <1>3 DEF Begun
  <2>3. QED
    BY <1>3, <1>10, <1>11, <2>1, <2>2
<1>14. Begun'
  <2>1. ASSUME NEW s \in 1..Segments, books'[s] # <<>>
        PROVE  refs'[s] # <<>> /\ refs'[s][1].mono < books'[s][1].mono
    BY <1>1, <1>5, <1>10, <1>13, <2>1 DEF Begun
  <2>2. ASSUME NEW s \in 1..Segments, s > phase PROVE books'[s] = <<>> /\ refs'[s] = <<>>
    BY <1>3, <1>5, <1>9, <2>2
  <2>3. QED
    BY <1>3, <1>10, <1>13, <2>1, <2>2 DEF Begun
<1>15. PICK c \in 1..Segments : c = phase
  BY <1>3
<1>16. /\ \A s \in 1..Segments : s # phase => HeardIn(s)' = HeardIn(s)
       /\ HeardIn(c) \subseteq HeardIn(c)' /\ q \in HeardIn(c)'
       /\ \A x \in HeardIn(c)' : x \in HeardIn(c) \/ x = q \/ x = r
       /\ HeardIn(c)' = ToSet(books'[c]) \cup ToSet(refs'[c])
  <2>1. \A s \in 1..Segments : s # phase => HeardIn(s)' = HeardIn(s)
    BY <1>5 DEF HeardIn
  <2>2. HeardIn(c)' = ToSet(books'[c]) \cup ToSet(refs'[c])
    BY DEF HeardIn
  <2>3. ToSet(b) = ToSet(books[phase]) \cup {q}
    BY <1>3, <1>6, SetOfAppend DEF b
  <2>4. ToSet(f) = ToSet(refs[phase]) \cup {r}
    BY <1>3, <1>6, SetOfAppend DEF f
  <2>5. HeardIn(c) = ToSet(books[phase]) \cup ToSet(refs[phase])
    BY <1>15 DEF HeardIn
  <2>6. QED
    BY <1>8, <1>15, <2>1, <2>2, <2>3, <2>4, <2>5
<1>17. ASSUME Steady' PROVE /\ \A s \in 1..Segments : \A x \in HeardIn(s)' : x.wall <= clock'.wall
                           /\ \A s, t \in 1..Segments : s < t =>
                                 \A x \in HeardIn(s)', y \in HeardIn(t)' : x.wall < y.wall
  <2>1. \A s \in 1..Segments : \A x, y \in HeardIn(s)' : x.mono < y.mono => x.wall < y.wall
    BY <1>17 DEF Steady
  <2>2. Steady
    <3>1. ASSUME NEW s \in 1..Segments, NEW x \in HeardIn(s), NEW y \in HeardIn(s), x.mono < y.mono
          PROVE  x.wall < y.wall
      <4>1. x \in HeardIn(s)' /\ y \in HeardIn(s)'
        BY <1>16, <1>15, <3>1
      <4>2. QED
        BY <2>1, <3>1, <4>1
    <3>2. QED
      BY <3>1 DEF Steady
  <2>3. /\ \A s \in 1..Segments : \A x \in HeardIn(s) : x.wall <= clock.wall
        /\ \A s, t \in 1..Segments : s < t => \A x \in HeardIn(s), y \in HeardIn(t) : x.wall < y.wall
    BY <1>1, <2>2 DEF Ahead
  <2>4. ASSUME NEW x \in HeardIn(c) PROVE x.wall < q.wall /\ x.wall \in Nat
    <3>1. x.mono < q.mono /\ x.wall \in Nat
      <4>1. x.mono <= clock.mono /\ x.mono \in Nat /\ x.wall \in Nat
        BY <1>1, <1>3, <1>15, <2>4, Heard
      <4>2. QED
        BY <1>3, <4>1
    <3>2. QED
      BY <1>3, <1>16, <1>15, <2>1, <2>4, <3>1
  <2>5. ASSUME NEW s \in 1..Segments, s < phase, NEW x \in HeardIn(s)
        PROVE  x.wall < q.wall /\ x.wall \in Nat
    <3>1. x.wall < refs[phase][1].wall
      BY <1>3, <1>12, <1>15, <2>3, <2>5
    <3>2. refs[phase][1].wall < q.wall
      BY <1>12, <1>15, <2>4
    <3>3. x.wall \in Nat
      BY <1>1, <2>5, Heard
    <3>4. QED
      BY <1>3, <1>12, <3>1, <3>2, <3>3
  <2>6. ASSUME NEW s \in 1..Segments, s > phase PROVE HeardIn(s)' = {}
    <3>1. books[s] = <<>> /\ refs[s] = <<>>
      BY <1>9, <2>6
    <3>2. HeardIn(s) = {}
      BY <3>1 DEF HeardIn, ToSet
    <3>3. QED
      BY <1>3, <1>16, <1>15, <2>6, <3>2
  <2>7. ASSUME NEW s \in 1..Segments, NEW x \in HeardIn(s)' PROVE x.wall <= clock'.wall
    <3>1. CASE s < phase
      BY <1>3, <1>16, <1>15, <2>5, <2>7, <3>1
    <3>2. CASE s = phase
      BY <1>3, <1>16, <1>15, <2>4, <2>7, <3>2
    <3>3. CASE s > phase
      BY <2>6, <2>7, <3>3
    <3>4. QED
      BY <1>3, <3>1, <3>2, <3>3, SegmentCount
  <2>8. ASSUME NEW s \in 1..Segments, NEW t \in 1..Segments, s < t,
               NEW x \in HeardIn(s)', NEW y \in HeardIn(t)'
        PROVE  x.wall < y.wall
    <3>1. CASE t > phase
      BY <2>6, <2>8, <3>1
    <3>2. CASE t = phase
      <4>1. x \in HeardIn(s) /\ s < phase
        BY <1>16, <1>15, <2>8, <3>2
      <4>2. CASE y \in HeardIn(c)
        BY <1>3, <1>15, <2>3, <4>1, <4>2
      <4>3. CASE y = q \/ y = r
        <5>1. y.wall = q.wall
          BY <1>3, <4>3
        <5>2. x.wall < q.wall
          BY <2>5, <4>1
        <5>3. QED
          BY <5>1, <5>2
      <4>4. QED
        BY <1>16, <1>15, <2>8, <3>2, <4>2, <4>3
    <3>3. CASE t < phase
      <4>1. x \in HeardIn(s) /\ y \in HeardIn(t)
        BY <1>3, <1>16, <1>15, <2>8, <3>3, SegmentCount
      <4>2. QED
        BY <2>3, <2>8, <4>1
    <3>4. QED
      BY <1>3, <3>1, <3>2, <3>3, SegmentCount
  <2>9. QED
    BY <2>7, <2>8
<1>18. Ahead'
  BY <1>17 DEF Ahead
<1>19. QED
  BY <1>14, <1>18

LEMMA NextSegmentCaptures ==
    ASSUME CaptureInv, NextSegment PROVE Begun' /\ Ahead'
<1>1. StudyInv /\ Begun /\ Ahead
  BY DEF CaptureInv
<1> DEFINE mono == clock.mono + 19
<1> DEFINE wall == clock.wall + 19
<1> DEFINE q == Stamp(Opening, mono, wall, mono)
<1>2. /\ clock \in [mono : Nat, wall : Nat, odd : Nat]
      /\ books \in [1..Segments -> Seq(Quotes)] /\ refs \in [1..Segments -> Seq(Quotes)]
  BY <1>1 DEF StudyInv, StreamTypeOK
<1>3. /\ phase \in 1..Segments /\ phase' = phase + 1
      /\ clock' = [clock EXCEPT !.mono = @ + 20, !.wall = @ + 20]
      /\ books' = books
  BY DEF NextSegment
<1>4. /\ clock'.mono = clock.mono + 20 /\ clock'.wall = clock.wall + 20
      /\ clock'.mono - 1 = mono /\ clock'.wall - 1 = wall
      /\ clock.mono \in Nat /\ clock.wall \in Nat
  <2>1. clock' = [mono |-> clock.mono + 20, wall |-> clock.wall + 20, odd |-> clock.odd]
    BY <1>2, <1>3
  <2>2. clock.mono \in Nat /\ clock.wall \in Nat /\ clock.odd \in Nat
    BY <1>2
  <2>3. QED
    BY <2>1, <2>2
<1>5. refs' = [s \in 1..Segments |-> IF s = phase' THEN <<q>> ELSE refs[s]]
  BY <1>4 DEF NextSegment
<1>6. q.mono = mono /\ q.wall = wall
  BY DEF Stamp
<1>7. /\ mono < clock'.mono /\ wall < clock'.wall /\ clock.wall < wall /\ wall \in Nat
      /\ clock.wall < clock'.wall
  BY <1>4
<1> HIDE DEF mono, wall, q
<1>8. \A s \in 1..Segments : s >= phase' => s > phase
  BY <1>3
<1>9. /\ \A s \in 1..Segments : s # phase' => refs'[s] = refs[s]
      /\ \A s \in 1..Segments : s = phase' => refs'[s] = <<q>>
  BY <1>5
<1>10. \A s \in 1..Segments : s >= phase' => books[s] = <<>> /\ refs[s] = <<>>
  BY <1>1, <1>3, <1>8 DEF Begun
<1>11. Begun'
  <2>1. ASSUME NEW s \in 1..Segments, books'[s] # <<>>
        PROVE  refs'[s] # <<>> /\ refs'[s][1].mono < books'[s][1].mono
    <3>1. s # phase'
      BY <1>3, <1>10, <2>1
    <3>2. QED
      BY <1>1, <1>3, <1>9, <2>1, <3>1 DEF Begun
  <2>2. ASSUME NEW s \in 1..Segments, s = phase' PROVE refs'[s] # <<>> /\ refs'[s][1].mono < clock'.mono
    BY <1>6, <1>7, <1>9, <2>2
  <2>3. ASSUME NEW s \in 1..Segments, s > phase' PROVE books'[s] = <<>> /\ refs'[s] = <<>>
    <3>1. s # phase' /\ s >= phase'
      BY <1>3, <2>3
    <3>2. QED
      BY <1>3, <1>9, <1>10, <3>1
  <2>4. QED
    BY <2>1, <2>2, <2>3 DEF Begun
<1>12. ASSUME NEW s \in 1..Segments
       PROVE  HeardIn(s)' = IF s = phase' THEN {q} ELSE HeardIn(s)
  <2>1. HeardIn(s)' = ToSet(books'[s]) \cup ToSet(refs'[s])
    BY DEF HeardIn
  <2>2. CASE s = phase'
    <3>1. books'[s] = <<>> /\ refs'[s] = <<q>>
      BY <1>3, <1>9, <1>10, <2>2
    <3>2. ToSet(<<>>) = {} /\ ToSet(<<q>>) = {q}
      BY DEF ToSet
    <3>3. QED
      BY <2>1, <2>2, <3>1, <3>2
  <2>3. CASE s # phase'
    BY <1>3, <1>9, <2>1, <2>3 DEF HeardIn
  <2>4. QED
    BY <2>2, <2>3
<1>13. ASSUME NEW s \in 1..Segments, s >= phase' PROVE HeardIn(s) = {}
  <2>1. books[s] = <<>> /\ refs[s] = <<>>
    BY <1>10, <1>13
  <2>2. QED
    BY <2>1 DEF HeardIn, ToSet
<1>14. ASSUME Steady' PROVE /\ \A s \in 1..Segments : \A x \in HeardIn(s)' : x.wall <= clock'.wall
                           /\ \A s, t \in 1..Segments : s < t =>
                                 \A x \in HeardIn(s)', y \in HeardIn(t)' : x.wall < y.wall
  <2>1. \A s \in 1..Segments : \A x, y \in HeardIn(s)' : x.mono < y.mono => x.wall < y.wall
    BY <1>14 DEF Steady
  <2>2. Steady
    <3>1. ASSUME NEW s \in 1..Segments, NEW x \in HeardIn(s), NEW y \in HeardIn(s), x.mono < y.mono
          PROVE  x.wall < y.wall
      <4>1. s # phase'
        BY <1>3, <1>13, <3>1
      <4>2. x \in HeardIn(s)' /\ y \in HeardIn(s)'
        BY <1>12, <3>1, <4>1
      <4>3. QED
        BY <2>1, <3>1, <4>2
    <3>2. QED
      BY <3>1 DEF Steady
  <2>3. /\ \A s \in 1..Segments : \A x \in HeardIn(s) : x.wall <= clock.wall
        /\ \A s, t \in 1..Segments : s < t => \A x \in HeardIn(s), y \in HeardIn(t) : x.wall < y.wall
    BY <1>1, <2>2 DEF Ahead
  <2>4. ASSUME NEW s \in 1..Segments, NEW x \in HeardIn(s)
        PROVE  x.wall < q.wall /\ x.wall <= clock'.wall
    <3>1. x.wall <= clock.wall /\ x.wall \in Nat
      BY <1>1, <2>3, <2>4, Heard
    <3>2. QED
      BY <1>4, <1>6, <1>7, <3>1
  <2>5. q.wall <= clock'.wall
    BY <1>6, <1>7, <1>4
  <2>6. ASSUME NEW s \in 1..Segments, NEW x \in HeardIn(s)' PROVE x.wall <= clock'.wall
    <3>1. x = q \/ x \in HeardIn(s)
      BY <1>12, <2>6
    <3>2. QED
      BY <2>4, <2>5, <3>1
  <2>7. ASSUME NEW s \in 1..Segments, NEW t \in 1..Segments, s < t,
               NEW x \in HeardIn(s)', NEW y \in HeardIn(t)'
        PROVE  x.wall < y.wall
    <3>1. CASE t = phase'
      <4>1. y = q /\ s # phase'
        BY <1>12, <2>7, <3>1
      <4>2. x \in HeardIn(s)
        BY <1>12, <2>7, <4>1
      <4>3. QED
        BY <2>4, <4>1, <4>2
    <3>2. CASE t # phase'
      <4>1. y \in HeardIn(t)
        BY <1>12, <2>7, <3>2
      <4>2. ~(t >= phase')
        BY <1>13, <4>1
      <4>3. s # phase'
        BY <1>3, <2>7, <4>2
      <4>4. x \in HeardIn(s)
        BY <1>12, <2>7, <4>3
      <4>5. QED
        BY <2>3, <2>7, <4>1, <4>4
    <3>3. QED
      BY <3>1, <3>2
  <2>8. QED
    BY <2>6, <2>7
<1>15. Ahead'
  BY <1>14 DEF Ahead
<1>16. QED
  BY <1>11, <1>15

LEMMA CapturesStay ==
    ASSUME CaptureInv, books' = books, refs' = refs, clock' = clock,
           phase' = phase \/ phase' \notin 1..Segments
    PROVE  Begun' /\ Ahead'
<1>1. Begun /\ Ahead
  BY DEF CaptureInv
<1>2. \A s : HeardIn(s)' = HeardIn(s)
  BY DEF HeardIn
<1>3. Steady' <=> Steady
  BY <1>2 DEF Steady
<1>4. Ahead'
  BY <1>1, <1>2, <1>3 DEF Ahead
<1>5. Begun'
  BY <1>1 DEF Begun
<1>6. QED
  BY <1>4, <1>5
-----------------------------------------------------------------------------
(* The selection of a steady study *)

LEMMA SteadyStreams ==
    ASSUME CaptureInv, Steady
    PROVE  Steadily(books, refs, clock.mono) /\ HeadStart(books, refs)
<1>1. StudyInv /\ Begun /\ Ahead
  BY DEF CaptureInv
<1>2. /\ \A s \in 1..Segments : \A x, y \in HeardIn(s) : x.mono < y.mono => x.wall < y.wall
      /\ \A s, t \in 1..Segments : s < t => \A x \in HeardIn(s), y \in HeardIn(t) : x.wall < y.wall
  BY <1>1 DEF Ahead, Steady
<1>3. ASSUME NEW s \in 1..Segments
      PROVE  /\ books[s] \in Seq(Quotes) /\ Received(books[s], clock.mono)
             /\ refs[s] \in Seq(Quotes) /\ Received(refs[s], clock.mono)
             /\ Rising(books[s])
  <2>1. /\ books[s] \in Seq(Quotes) /\ Received(books[s], clock.mono)
        /\ refs[s] \in Seq(Quotes) /\ Received(refs[s], clock.mono)
        /\ \A i \in 1..Len(books[s]) : books[s][i] \in HeardIn(s)
    BY <1>1, Heard
  <2>2. ASSUME NEW i \in 1..Len(books[s]), NEW j \in 1..Len(books[s]), i < j
        PROVE  books[s][i].wall < books[s][j].wall
    <3>1. books[s][i].mono < books[s][j].mono
      BY <2>1, <2>2 DEF Received
    <3>2. QED
      BY <1>2, <2>1, <3>1
  <2>3. QED
    BY <2>1, <2>2 DEF Rising
<1>4. Following(books)
  <2> SUFFICES ASSUME NEW s \in 1..Segments, NEW t \in 1..Segments, s < t,
                      NEW i \in 1..Len(books[s]), NEW j \in 1..Len(books[t])
               PROVE  books[s][i].wall < books[t][j].wall
    BY DEF Following
  <2>1. books[s][i] \in HeardIn(s) /\ books[t][j] \in HeardIn(t)
    BY <1>1, Heard
  <2>2. QED
    BY <1>2, <2>1
<1>5. HeadStart(books, refs)
  <2> SUFFICES ASSUME NEW s \in 1..Segments, books[s] # <<>>
               PROVE  refs[s] # <<>> /\ \A i \in 1..Len(books[s]) : refs[s][1].wall < books[s][i].wall
    BY DEF HeadStart
  <2>1. refs[s] # <<>> /\ refs[s][1].mono < books[s][1].mono
    BY <1>1 DEF Begun
  <2>2. 1 \in 1..Len(refs[s]) /\ 1 \in 1..Len(books[s])
    BY <1>3, <2>1
  <2>3. refs[s][1].mono \in Nat /\ refs[s][1] \in HeardIn(s)
    BY <1>1, <2>2, Heard
  <2>4. ASSUME NEW i \in 1..Len(books[s]) PROVE refs[s][1].wall < books[s][i].wall
    <3>1. books[s][1].mono <= books[s][i].mono
      <4>1. CASE i = 1
        BY <1>3, <2>2, <4>1, QuoteOf
      <4>2. CASE i # 1
        <5>1. books[s][1].mono < books[s][i].mono
          BY <1>3, <2>2, <4>2 DEF Received
        <5>2. books[s][1].mono \in Nat /\ books[s][i].mono \in Nat
          BY <1>3, <2>2, QuoteOf
        <5>3. QED
          BY <5>1, <5>2
      <4>3. QED
        BY <4>1, <4>2
    <3>2. books[s][1].mono \in Nat /\ books[s][i].mono \in Nat /\ books[s][i] \in HeardIn(s)
      BY <1>1, <1>3, <2>2, QuoteOf, Heard
    <3>3. refs[s][1].mono < books[s][i].mono
      BY <2>1, <2>3, <3>1, <3>2
    <3>4. QED
      BY <1>2, <2>3, <3>2, <3>3
  <2>5. QED
    BY <2>1, <2>4
<1>6. QED
  BY <1>3, <1>4, <1>5 DEF Steadily

\* Confirmation starts with a row.
LEMMA ConfirmationStarts ==
    ASSUME NEW T, NEW rows \in Seq(T), ~PartitionPlan(rows).refused
    PROVE  \E c \in 1..Len(rows) : PartitionPlan(rows).confirmation = rows[c].trial.entry.wall
<1> DEFINE C == SuffixStart(rows, Len(rows), MinConfirmation)
<1> DEFINE m == Max(C)
<1> DEFINE E == {j \in 1..m : rows[j].trial.entry.wall = rows[m].trial.entry.wall}
<1> DEFINE c == Min(E)
<1>1. PartitionPlan(rows).confirmation = rows[c].trial.entry.wall /\ C # {}
  <2> DEFINE S == SuffixStart(rows, c - 1, MinSelection)
  <2> DEFINE first == FirstEqualWall(rows, Max(S))
  <2> DEFINE wall == rows[c].trial.entry.wall
  <2> DEFINE refused == \/ C = {} \/ S = {} \/ first = 1
                        \/ ValidLabelsFrom(rows, first, c - 1, wall) # {}
  <2> DEFINE from == rows[first].trial.entry.wall
  <2>1. PartitionPlan(rows) =
          IF refused THEN [refused |-> TRUE, selection |-> 0, confirmation |-> 0]
          ELSE [refused |-> FALSE, selection |-> from, confirmation |-> wall]
    BY Zenon DEF PartitionPlan, FirstEqualWall
  <2>2. refused => C = {} \/ C # {}
    OBVIOUS
  <2>3. ~refused => C # {}
    OBVIOUS
  <2> HIDE DEF refused, from, wall
  <2>4. ~refused
    BY <2>1
  <2>5. PartitionPlan(rows).confirmation = wall
    BY <2>1, <2>4
  <2>6. QED
    BY <2>3, <2>4, <2>5 DEF wall
<1>2. C \subseteq 1..Len(rows) /\ Len(rows) \in Nat
  BY DEF SuffixStart
<1> HIDE DEF C
<1>3. m \in 1..Len(rows)
  BY <1>1, <1>2, MaxOf
<1> HIDE DEF m
<1>4. E \subseteq Nat /\ m \in E /\ \A j \in E : j \in 1..Len(rows)
  BY <1>2, <1>3
<1> HIDE DEF E
<1>5. c \in E
  <2>1. \E n \in E : \A k \in E : n <= k
    BY <1>4, LeastNat
  <2>2. QED
    BY <2>1 DEF Min
<1>6. c \in 1..Len(rows)
  BY <1>4, <1>5
<1>7. QED
  BY <1>1, <1>6

\* A trial that ends ends with a later quote of its stream.
LEMMA TrialEnds ==
    ASSUME NEW q \in Seq(Quotes), NEW now, Received(q, now), NEW k \in 1..Len(TrialsOf(q)),
           HasExit(TrialsOf(q)[k])
    PROVE  \E i, j \in 1..Len(q) : i < j /\ TrialsOf(q)[k].entry = q[i] /\ TrialsOf(q)[k].exit = q[j]
<1>1. PICK i \in 1..Len(q) : TrialsOf(q)[k] = TrialAt(q, i) /\ TrialsOf(q)[k].entry = q[i]
  BY TrialStarts
<1>2. ExitsOf(q, i, Horizon) # {}
  <2>1. ExitsOf(q, i, Horizon) = {} => TrialAt(q, i).exit = NoExit
    BY DEF TrialAt
  <2>2. QED
    BY <1>1, <2>1 DEF HasExit
<1>3. TrialAt(q, i).exit = q[ExitAt(q, i)]
  BY <1>2 DEF TrialAt
<1>4. ExitAt(q, i) \in (i + 1)..Len(q) /\ Len(q) \in Nat
  BY <1>2, ExitIsFirst
<1>5. ExitAt(q, i) \in 1..Len(q) /\ i < ExitAt(q, i)
  BY <1>4
<1>6. QED
  BY <1>1, <1>3, <1>5

\* What is cut from accepted streams is accepted.
LEMMA CutIsAccepted ==
    ASSUME NEW primary, NEW reference, NEW now, Steadily(primary, reference, now), NEW wall,
           ~BooksRefused(primary)
    PROVE  ~BooksRefused(Cut(primary, wall))
<1> SUFFICES ASSUME NEW s \in 1..Segments, StreamRefused(Cut(primary, wall)[s], Horizon, MaxStep)
             PROVE  FALSE
  BY DEF BooksRefused
<1> DEFINE p == Cut(primary, wall)[s]
<1>1. /\ primary[s] \in Seq(Quotes) /\ Received(primary[s], now) /\ Rising(primary[s])
  BY DEF Steadily
<1>2. p = ReceivedBefore(primary[s], wall)
  BY DEF Cut
<1>3. /\ p \in Seq(Quotes) /\ Received(p, now) /\ Rising(p)
      /\ \A k \in 1..Len(p) : \E i \in 1..Len(primary[s]) : p[k] = primary[s][i]
  <2> DEFINE b == ReceivedBefore(primary[s], wall)
  <2>1. /\ b \in Seq(Quotes) /\ Received(b, now) /\ Rising(b)
        /\ \A k \in 1..Len(b) : \E i \in 1..Len(primary[s]) : b[k] = primary[s][i] /\ primary[s][i].wall < wall
    BY <1>1, CutStream
  <2> HIDE DEF b, p
  <2>2. p = b
    BY <1>2 DEF b
  <2>3. QED
    BY <2>1, <2>2
<1>4. \A i, j \in 1..Len(primary[s]) : primary[s][i].stream = primary[s][j].stream
  <2>1. DOMAIN primary[s] = 1..Len(primary[s])
    BY <1>1
  <2>2. QED
    BY <2>1 DEF BooksRefused, StreamRefused
<1> HIDE DEF p
<1>5. /\ DOMAIN p = 1..Len(p) /\ TrialsOf(p) \in Seq(TrialSet) /\ DOMAIN TrialsOf(p) = 1..Len(TrialsOf(p))
  <2>1. DOMAIN p = 1..Len(p) /\ TrialsOf(p) \in Seq(TrialSet)
    BY <1>3, TrialsOfStream
  <2>2. QED
    BY <2>1
<1>6. \/ \E i, j \in 1..Len(p) : p[i].stream # p[j].stream
      \/ \E k \in 1..Len(TrialsOf(p)) :
            HasExit(TrialsOf(p)[k]) /\ TrialsOf(p)[k].exit.wall < TrialsOf(p)[k].entry.wall
  <2>1. \/ \E i, j \in DOMAIN p : p[i].stream # p[j].stream
        \/ \E o \in ToSet(TrialsOf(p)) : HasExit(o) /\ o.exit.wall < o.entry.wall
    BY Zenon DEF StreamRefused, TrialsOf, p
  <2>2. \A o \in ToSet(TrialsOf(p)) : \E k \in 1..Len(TrialsOf(p)) : o = TrialsOf(p)[k]
    BY <1>5 DEF ToSet
  <2>3. QED
    BY <1>5, <2>1, <2>2
<1>7. CASE \E i, j \in 1..Len(p) : p[i].stream # p[j].stream
  <2>1. PICK i \in 1..Len(p) : \E j \in 1..Len(p) : p[i].stream # p[j].stream
    BY <1>7
  <2>2. PICK j \in 1..Len(p) : p[i].stream # p[j].stream
    BY <2>1
  <2>3. PICK x \in 1..Len(primary[s]) : p[i] = primary[s][x]
    BY <1>3
  <2>4. PICK y \in 1..Len(primary[s]) : p[j] = primary[s][y]
    BY <1>3
  <2>5. QED
    BY <1>4, <2>2, <2>3, <2>4
<1>8. CASE \E k \in 1..Len(TrialsOf(p)) :
            HasExit(TrialsOf(p)[k]) /\ TrialsOf(p)[k].exit.wall < TrialsOf(p)[k].entry.wall
  <2>1. PICK k \in 1..Len(TrialsOf(p)) :
            HasExit(TrialsOf(p)[k]) /\ TrialsOf(p)[k].exit.wall < TrialsOf(p)[k].entry.wall
    BY <1>8
  <2>2. PICK i \in 1..Len(p) : \E j \in 1..Len(p) :
           i < j /\ TrialsOf(p)[k].entry = p[i] /\ TrialsOf(p)[k].exit = p[j]
    BY <1>3, <2>1, TrialEnds
  <2>3. PICK j \in 1..Len(p) : i < j /\ TrialsOf(p)[k].entry = p[i] /\ TrialsOf(p)[k].exit = p[j]
    BY <2>2
  <2>4. p[i].wall < p[j].wall /\ p[j].wall < p[i].wall
    BY <1>3, <2>1, <2>2, <2>3 DEF Rising
  <2>5. p[i].wall \in Nat /\ p[j].wall \in Nat
    BY <1>3, <2>2, <2>3, QuoteOf
  <2>6. QED
    BY <2>4, <2>5
<1>9. QED
  BY <1>6, <1>7, <1>8

\* A row of what was received before a wall ends before it.
LEMMA CutEndsBefore ==
    ASSUME NEW primary, NEW reference, NEW now, Steadily(primary, reference, now), NEW wall \in Nat,
           NEW r \in RowSet(Cut(primary, wall), Cut(reference, wall)), HasExit(r.trial)
    PROVE  ~(r.trial.exit.wall >= wall)
<1> DEFINE p(s) == Cut(primary, wall)[s]
<1>1. PICK s \in 1..Segments : \E k \in 1..Len(TrialsOf(p(s))) :
         r = Row(s, TrialsOf(p(s))[k], Cut(reference, wall)[s])
  BY InRowSet
<1>2. PICK k \in 1..Len(TrialsOf(p(s))) : r = Row(s, TrialsOf(p(s))[k], Cut(reference, wall)[s])
  BY <1>1
<1>3. r.trial = TrialsOf(p(s))[k]
  BY <1>2, RowParts
<1> DEFINE b == ReceivedBefore(primary[s], wall)
<1>4. p(s) = b
  BY <1>1 DEF Cut
<1>5. primary[s] \in Seq(Quotes) /\ Received(primary[s], now)
  BY <1>1 DEF Steadily
<1>6. /\ b \in Seq(Quotes) /\ Received(b, now)
      /\ \A i \in 1..Len(b) : \E j \in 1..Len(primary[s]) : b[i] = primary[s][j] /\ primary[s][j].wall < wall
  BY <1>5, CutStream
<1> HIDE DEF p, b
<1>7. k \in 1..Len(TrialsOf(b)) /\ r.trial = TrialsOf(b)[k]
  BY <1>2, <1>3, <1>4
<1>8. PICK j \in 1..Len(b) : r.trial.exit = b[j]
  <2>1. \E i, j \in 1..Len(b) : i < j /\ TrialsOf(b)[k].entry = b[i] /\ TrialsOf(b)[k].exit = b[j]
    BY <1>6, <1>7, TrialEnds
  <2>2. QED
    BY <1>7, <2>1
<1>9. PICK x \in 1..Len(primary[s]) : b[j] = primary[s][x] /\ primary[s][x].wall < wall
  BY <1>6, <1>8
<1>10. primary[s][x].wall \in Nat
  BY <1>5, <1>9, QuoteOf
<1>11. QED
  BY <1>8, <1>9, <1>10

EntryWall(T) == [r \in T |-> r.trial.entry.wall]

LEMMA SelectedIncreasing ==
    ASSUME NEW T, NEW rows \in Seq(T), Increasing(rows, EntryWall(T))
    PROVE  LET kept == SelectionOf(rows) IN
           /\ kept \in Seq(T) /\ Increasing(kept, EntryWall(T))
           /\ \A k \in 1..Len(kept) : \E i \in 1..Len(rows) : kept[k] = rows[i] /\ InSelection(plan, rows[i])
           /\ \A i \in 1..Len(rows) : InSelection(plan, rows[i]) => \E k \in 1..Len(kept) : kept[k] = rows[i]
<1> DEFINE P == {i \in DOMAIN rows : InSelection(plan, rows[i])}
<1>1. /\ P \subseteq DOMAIN rows /\ DOMAIN rows = 1..Len(rows)
      /\ \A i \in P : i \in 1..Len(rows) /\ InSelection(plan, rows[i])
      /\ \A i \in 1..Len(rows) : InSelection(plan, rows[i]) => i \in P
  OBVIOUS
<1>2. SelectionOf(rows) = Keep(rows, P)
  BY DEF SelectionOf
<1> HIDE DEF P
<1> DEFINE kept == Keep(rows, P)
<1>3. /\ kept \in Seq(T) /\ Increasing(kept, EntryWall(T))
      /\ \A k \in 1..Len(kept) : \E i \in P : kept[k] = rows[i]
      /\ \A i \in P : \E k \in 1..Len(kept) : kept[k] = rows[i]
  BY <1>1, KeepIsOrdered, KeepIncreasing
<1> HIDE DEF kept
<1>4. ASSUME NEW k \in 1..Len(kept)
      PROVE  \E i \in 1..Len(rows) : kept[k] = rows[i] /\ InSelection(plan, rows[i])
  BY <1>1, <1>3
<1>5. ASSUME NEW i \in 1..Len(rows), InSelection(plan, rows[i])
      PROVE  \E k \in 1..Len(kept) : kept[k] = rows[i]
  BY <1>1, <1>3, <1>5
<1>6. SelectionOf(rows) = kept
  BY <1>2 DEF kept
<1>7. QED
  BY <1>3, <1>4, <1>5, <1>6

LEMMA BeforeIncreasing ==
    ASSUME NEW T, NEW rows \in Seq(T), Increasing(rows, EntryWall(T)), NEW wall
    PROVE  LET kept == EnteredBefore(rows, wall) IN
           /\ kept \in Seq(T) /\ Increasing(kept, EntryWall(T))
           /\ \A k \in 1..Len(kept) : \E i \in 1..Len(rows) : kept[k] = rows[i]
           /\ \A i \in 1..Len(rows) : rows[i].trial.entry.wall < wall =>
                 \E k \in 1..Len(kept) : kept[k] = rows[i]
<1> DEFINE P == {i \in DOMAIN rows : rows[i].trial.entry.wall < wall}
<1>1. /\ P \subseteq DOMAIN rows /\ DOMAIN rows = 1..Len(rows)
      /\ \A i \in P : i \in 1..Len(rows)
      /\ \A i \in 1..Len(rows) : rows[i].trial.entry.wall < wall => i \in P
  OBVIOUS
<1>2. EnteredBefore(rows, wall) = Keep(rows, P)
  BY DEF EnteredBefore
<1> HIDE DEF P
<1> DEFINE kept == Keep(rows, P)
<1>3. /\ kept \in Seq(T) /\ Increasing(kept, EntryWall(T))
      /\ \A k \in 1..Len(kept) : \E i \in P : kept[k] = rows[i]
      /\ \A i \in P : \E k \in 1..Len(kept) : kept[k] = rows[i]
  BY <1>1, KeepIsOrdered, KeepIncreasing
<1> HIDE DEF kept
<1>4. ASSUME NEW k \in 1..Len(kept) PROVE \E i \in 1..Len(rows) : kept[k] = rows[i]
  BY <1>1, <1>3
<1>5. ASSUME NEW i \in 1..Len(rows), rows[i].trial.entry.wall < wall
      PROVE  \E k \in 1..Len(kept) : kept[k] = rows[i]
  BY <1>1, <1>3, <1>5
<1>6. EnteredBefore(rows, wall) = kept
  BY <1>2 DEF kept
<1>7. QED
  BY <1>3, <1>4, <1>5, <1>6

\* Of a steady study, the selection that is rebuilt from what was received before
\* confirmation is the frozen one, and none of its trials reaches into it.
LEMMA RebuiltIsFrozen ==
    ASSUME CaptureInv, PlanInv, phase = Segments + 2, Steady
    PROVE  /\ ~BooksRefused(Cut(books, plan.confirmation))
           /\ RebuiltSelection = FrozenSelection
           /\ \A r \in ToSet(RebuiltSelection) : ~CrossesConfirmation(r)
<1> DEFINE W == plan.confirmation
<1> DEFINE T == RowSet(books, refs)
<1> DEFINE B == Cut(books, W)
<1> DEFINE R == Cut(refs, W)
<1> DEFINE f == EntryWall(T)
<1> DEFINE full == Rows(books, refs)
<1> DEFINE short == Rows(B, R)
<1> DEFINE early == EnteredBefore(short, W)
<1>1. /\ Steadily(books, refs, clock.mono) /\ HeadStart(books, refs)
      /\ dataset = full /\ ~BooksRefused(books) /\ plan = PartitionPlan(dataset) /\ ~plan.refused
  BY SteadyStreams DEF PlanInv
<1>2. Steadily(B, R, clock.mono)
  BY <1>1, CutSteadily
<1>3. ~BooksRefused(B)
  BY <1>1, CutIsAccepted
<1>4. /\ full \in Seq(T) /\ \A r \in T : \E k \in 1..Len(full) : full[k] = r
      /\ \A k, l \in 1..Len(full) : k < l => full[k].trial.entry.wall < full[l].trial.entry.wall
  BY <1>1, RowsInOrder
<1>5. /\ short \in Seq(RowSet(B, R)) /\ \A r \in RowSet(B, R) : \E k \in 1..Len(short) : short[k] = r
      /\ \A k, l \in 1..Len(short) : k < l => short[k].trial.entry.wall < short[l].trial.entry.wall
  BY <1>2, RowsInOrder
<1>6. StartWall(books, W)
  <2>1. \E c \in 1..Len(full) : W = full[c].trial.entry.wall
    BY <1>1, <1>4, ConfirmationStarts
  <2>2. PICK c \in 1..Len(full) : W = full[c].trial.entry.wall
    BY <2>1
  <2>3. full[c] \in T
    BY <1>4, <2>2, ElementOfSeq
  <2>4. PICK s \in 1..Segments : \E k \in 1..Len(TrialsOf(books[s])) :
           full[c] = Row(s, TrialsOf(books[s])[k], refs[s])
    BY <2>3, InRowSet
  <2>5. PICK k \in 1..Len(TrialsOf(books[s])) : full[c] = Row(s, TrialsOf(books[s])[k], refs[s])
    BY <2>4
  <2>6. W = TrialsOf(books[s])[k].entry.wall
    BY <2>2, <2>5, RowParts
  <2>7. QED
    BY <2>4, <2>5, <2>6 DEF StartWall
<1>7. \A r : r \in RowSet(B, R) <=> r \in T /\ r.trial.entry.wall < W
  BY <1>1, <1>6, RowsOfCut
<1>8. W \in Nat
  <2>1. PICK s \in 1..Segments : TRUE
    BY <1>6 DEF StartWall
  <2>2. QED
    BY <1>1, <1>6, <2>1, SegmentTrialsBefore
<1>9. RowsBefore(W) = early
  BY DEF RowsBefore, Cut
<1>10. f \in [T -> Int]
  <2>1. ASSUME NEW r \in T PROVE r.trial.entry.wall \in Int
    <3>1. PICK s \in 1..Segments : \E k \in 1..Len(TrialsOf(books[s])) :
             r = Row(s, TrialsOf(books[s])[k], refs[s])
      BY <2>1, InRowSet
    <3>2. PICK k \in 1..Len(TrialsOf(books[s])) : r = Row(s, TrialsOf(books[s])[k], refs[s])
      BY <3>1
    <3>3. r.trial = TrialsOf(books[s])[k] /\ books[s] \in Seq(Quotes) /\ Received(books[s], clock.mono)
      BY <1>1, <3>1, <3>2, RowParts DEF Steadily
    <3>4. PICK i \in 1..Len(books[s]) : TrialsOf(books[s])[k].entry = books[s][i]
      BY <3>2, <3>3, TrialStarts
    <3>5. QED
      BY <3>3, <3>4, QuoteOf
  <2> HIDE DEF T
  <2>2. QED
    BY <2>1 DEF EntryWall
<1>11. \A r \in T : f[r] = r.trial.entry.wall
  BY DEF EntryWall
<1> HIDE DEF W, T, B, R, f, full, short, early
<1>12. short \in Seq(T) /\ \A k \in 1..Len(short) : short[k] \in RowSet(B, R)
  <2>1. RowSet(B, R) \subseteq T
    BY <1>7
  <2>2. \A k \in 1..Len(short) : short[k] \in RowSet(B, R)
    BY <1>5, ElementOfSeq
  <2>3. QED
    BY <1>5, <2>1, <2>2
<1>13. Increasing(full, f)
  <2>1. \A k \in 1..Len(full) : full[k] \in T
    BY <1>4, ElementOfSeq
  <2>2. QED
    BY <1>4, <1>11, <2>1 DEF Increasing
<1>14. Increasing(short, f)
  <2>1. \A k \in 1..Len(short) : short[k] \in T
    BY <1>7, <1>12
  <2>2. QED
    BY <1>5, <1>11, <2>1 DEF Increasing
<1>15. f = EntryWall(T)
  BY DEF f
<1>16. /\ early \in Seq(T) /\ Increasing(early, f)
       /\ \A k \in 1..Len(early) : \E i \in 1..Len(short) : early[k] = short[i]
       /\ \A i \in 1..Len(short) : short[i].trial.entry.wall < W =>
             \E k \in 1..Len(early) : early[k] = short[i]
  BY <1>12, <1>14, <1>15, BeforeIncreasing DEF early
<1> DEFINE a == SelectionOf(early)
<1> DEFINE b == SelectionOf(full)
<1>17. /\ a \in Seq(T) /\ Increasing(a, f)
       /\ \A k \in 1..Len(a) : \E i \in 1..Len(early) : a[k] = early[i] /\ InSelection(plan, early[i])
       /\ \A i \in 1..Len(early) : InSelection(plan, early[i]) => \E k \in 1..Len(a) : a[k] = early[i]
  BY <1>15, <1>16, SelectedIncreasing
<1>18. /\ b \in Seq(T) /\ Increasing(b, f)
       /\ \A k \in 1..Len(b) : \E i \in 1..Len(full) : b[k] = full[i] /\ InSelection(plan, full[i])
       /\ \A i \in 1..Len(full) : InSelection(plan, full[i]) => \E k \in 1..Len(b) : b[k] = full[i]
  BY <1>4, <1>13, <1>15, SelectedIncreasing
<1>19. RebuiltSelection = a /\ FrozenSelection = b
  <2>1. RowsBefore(plan.confirmation) = early
    BY <1>9 DEF W
  <2>2. QED
    BY <1>1, <2>1 DEF RebuiltSelection, FrozenSelection
<1> HIDE DEF a, b
<1>20. ASSUME NEW k \in 1..Len(a) PROVE a[k] \in RowSet(B, R) /\ \E l \in 1..Len(b) : a[k] = b[l]
  <2>1. PICK i \in 1..Len(early) : a[k] = early[i] /\ InSelection(plan, early[i])
    BY <1>17
  <2>2. PICK j \in 1..Len(short) : early[i] = short[j]
    BY <1>16, <2>1
  <2>3. a[k] \in RowSet(B, R) /\ a[k] \in T
    BY <1>7, <1>12, <2>1, <2>2
  <2>4. PICK m \in 1..Len(full) : full[m] = a[k]
    BY <1>4, <2>3
  <2>5. QED
    BY <1>18, <2>1, <2>3, <2>4
<1>21. ASSUME NEW k \in 1..Len(b) PROVE \E l \in 1..Len(a) : b[k] = a[l]
  <2>1. PICK i \in 1..Len(full) : b[k] = full[i] /\ InSelection(plan, full[i])
    BY <1>18
  <2>2. b[k].trial.entry.wall < W
    BY <2>1 DEF InSelection, W
  <2>3. b[k] \in RowSet(B, R)
    <3>1. full[i] \in T
      BY <1>4, <2>1, ElementOfSeq
    <3>2. QED
      BY <1>7, <2>1, <2>2, <3>1
  <2>4. PICK j \in 1..Len(short) : short[j] = b[k]
    BY <1>5, <2>3
  <2>5. PICK m \in 1..Len(early) : early[m] = short[j]
    BY <1>16, <2>2, <2>4
  <2>6. QED
    BY <1>17, <2>1, <2>4, <2>5
<1>22. a = b
  <2>1. AllIn(a, b) /\ AllIn(b, a)
    BY <1>20, <1>21 DEF AllIn
  <2>2. QED
    BY <1>10, <1>17, <1>18, <2>1, SameIncreasing
<1>23. ASSUME NEW r \in ToSet(a) PROVE ~CrossesConfirmation(r)
  <2>1. DOMAIN a = 1..Len(a)
    BY <1>17
  <2>2. PICK k \in 1..Len(a) : r = a[k]
    BY <1>23, <2>1 DEF ToSet
  <2>3. r \in RowSet(Cut(books, W), Cut(refs, W))
    BY <1>20, <2>2 DEF B, R
  <2>4. HasExit(r.trial) => ~(r.trial.exit.wall >= W)
    BY <1>1, <1>8, <2>3, CutEndsBefore
  <2>5. QED
    BY <2>4 DEF CrossesConfirmation, W
<1>24. QED
  BY <1>3, <1>19, <1>22, <1>23 DEF B, W
-----------------------------------------------------------------------------
RebuildInv == CaptureInv /\ PlanInv /\ RebuildAgrees

LEMMA RebuildInit == Init => RebuildInv
<1> SUFFICES ASSUME Init PROVE RebuildInv
  OBVIOUS
<1>1. StudyInv
  BY StudyInit
<1>2. /\ phase = 1 /\ books = [s \in 1..Segments |-> <<>>]
      /\ clock = [mono |-> 10, wall |-> 10, odd |-> 0]
      /\ refs = [s \in 1..Segments |-> IF s = 1 THEN <<Stamp(Opening, 9, 9, 9)>> ELSE <<>>]
  BY DEF Init
<1> DEFINE q == Stamp(Opening, 9, 9, 9)
<1>3. q.mono = 9 /\ q.wall = 9
  BY DEF Stamp
<1> HIDE DEF q
<1>4. /\ \A s \in 1..Segments : books[s] = <<>> /\ (s # 1 => refs[s] = <<>>)
      /\ \A s \in 1..Segments : s = 1 => refs[s] = <<q>>
      /\ clock.mono = 10 /\ clock.wall = 10
  BY <1>2 DEF q
<1>5. Begun
  <2>1. \A s \in 1..Segments : s > 1 => s # 1
    OBVIOUS
  <2>2. <<q>> # <<>> /\ <<q>>[1].mono < 10
    BY <1>3
  <2>3. ASSUME NEW s \in 1..Segments, s = 1 PROVE refs[s] # <<>> /\ refs[s][1].mono < clock.mono
    <3>1. refs[s] = <<q>> /\ clock.mono = 10
      BY <1>4, <2>3
    <3>2. QED
      BY <2>2, <3>1
  <2>4. QED
    BY <1>2, <1>4, <2>1, <2>3 DEF Begun
<1>6. \A s \in 1..Segments : HeardIn(s) = IF s = 1 THEN {q} ELSE {}
  <2>1. ToSet(<<>>) = {} /\ ToSet(<<q>>) = {q}
    BY DEF ToSet
  <2>2. ASSUME NEW s \in 1..Segments PROVE HeardIn(s) = IF s = 1 THEN {q} ELSE {}
    <3>1. HeardIn(s) = ToSet(books[s]) \cup ToSet(refs[s])
      BY DEF HeardIn
    <3>2. books[s] = <<>>
      BY <1>4
    <3>3. CASE s = 1
      <4>1. refs[s] = <<q>>
        BY <1>4, <3>3
      <4>2. QED
        BY <2>1, <3>1, <3>2, <3>3, <4>1
    <3>4. CASE s # 1
      <4>1. refs[s] = <<>>
        BY <1>4, <3>4
      <4>2. QED
        BY <2>1, <3>1, <3>2, <3>4, <4>1
    <3>5. QED
      BY <3>3, <3>4
  <2>3. QED
    BY <2>2
<1>7. Ahead
  <2>1. \A s \in 1..Segments : \A x \in HeardIn(s) : x.wall <= clock.wall
    BY <1>3, <1>4, <1>6
  <2>2. ASSUME NEW s \in 1..Segments, NEW t \in 1..Segments, s < t PROVE HeardIn(t) = {}
    BY <1>6, <2>2
  <2>3. QED
    BY <2>1, <2>2 DEF Ahead
<1>8. PlanInv /\ RebuildAgrees
  BY <1>2, SegmentCount DEF PlanInv, RebuildAgrees
<1>9. QED
  BY <1>1, <1>5, <1>7, <1>8 DEF RebuildInv, CaptureInv

LEMMA RebuildStep == RebuildInv /\ [Next]_vars => RebuildInv'
<1> SUFFICES ASSUME RebuildInv, [Next]_vars PROVE RebuildInv'
  OBVIOUS
<1>1. CaptureInv /\ PlanInv /\ RebuildAgrees /\ StudyInv /\ StudyInv'
  BY StudyStep DEF RebuildInv, CaptureInv
<1>2. Segments \in Nat
  BY SegmentCount
<1>3. ASSUME NEW a \in Arrivals, Receive(a) PROVE RebuildInv'
  <2>1. Begun' /\ Ahead'
    BY <1>1, <1>3, ReceiveCaptures
  <2>2. phase \in 1..Segments /\ phase' = phase
    BY <1>3 DEF Receive
  <2>3. PlanInv' /\ RebuildAgrees'
    BY <1>2, <2>2 DEF PlanInv, RebuildAgrees
  <2>4. QED
    BY <1>1, <2>1, <2>3 DEF RebuildInv, CaptureInv
<1>4. CASE NextSegment
  <2>1. Begun' /\ Ahead'
    BY <1>1, <1>4, NextSegmentCaptures
  <2>2. phase \in 1..Segments /\ phase' = phase + 1
    BY <1>4 DEF NextSegment
  <2>3. PlanInv' /\ RebuildAgrees'
    BY <1>2, <2>2 DEF PlanInv, RebuildAgrees
  <2>4. QED
    BY <1>1, <2>1, <2>3 DEF RebuildInv, CaptureInv
<1>5. CASE Freeze
  <2>1. /\ phase = Segments + 1 /\ books' = books /\ refs' = refs /\ clock' = clock
        /\ phase' \in {-1, phase + 1}
    BY <1>5, Zenon DEF Freeze
  <2>2. phase' = phase + 1 =>
           /\ dataset' = Rows(books, refs) /\ ~BooksRefused(books)
           /\ plan' = PartitionPlan(dataset') /\ ~plan'.refused
    <3>1. phase + 1 # -1
      BY <1>2, <2>1
    <3>2. QED
      BY <1>5, <3>1, Zenon DEF Freeze
  <2>3. phase' \notin 1..Segments /\ phase' # -2 /\ (phase' = Segments + 2 => phase' = phase + 1)
    BY <1>2, <2>1
  <2>4. Begun' /\ Ahead'
    BY <1>1, <2>1, <2>3, CapturesStay
  <2>5. PlanInv'
    <3>1. Rows(books, refs)' = Rows(books', refs') /\ BooksRefused(books)' = BooksRefused(books')
      OBVIOUS
    <3>2. QED
      BY <2>1, <2>2, <2>3 DEF PlanInv
  <2>6. RebuildAgrees'
    BY <2>3 DEF RebuildAgrees
  <2>7. QED
    BY <1>1, <2>4, <2>5, <2>6 DEF RebuildInv, CaptureInv
<1>6. CASE Select
  <2>1. /\ phase = Segments + 2 /\ books' = books /\ refs' = refs /\ clock' = clock
        /\ phase' \in {-2, phase + 1}
    BY <1>6, Zenon DEF Select
  <2>2. phase' \notin 1..Segments /\ phase' # Segments + 2
    BY <1>2, <2>1
  <2>3. Begun' /\ Ahead'
    BY <1>1, <2>1, <2>2, CapturesStay
  <2>4. PlanInv'
    BY <1>2, <2>2 DEF PlanInv
  <2>5. Steady' <=> Steady
    <3>1. \A s : HeardIn(s)' = HeardIn(s)
      BY <2>1 DEF HeardIn
    <3>2. QED
      BY <3>1 DEF Steady
  <2>6. ASSUME Steady PROVE phase' = phase + 1
    <3>1. /\ ~BooksRefused(Cut(books, plan.confirmation))
          /\ RebuiltSelection = FrozenSelection
          /\ \A r \in ToSet(RebuiltSelection) : ~CrossesConfirmation(r)
      BY <1>1, <2>1, <2>6, RebuiltIsFrozen
    <3>2. ~BooksRefused([s \in 1..Segments |-> ReceivedBefore(books[s], plan.confirmation)])
      BY <3>1 DEF Cut
    <3>3. QED
      BY <1>6, <3>1, <3>2, Zenon DEF Select
  <2>7. RebuildAgrees'
    BY <1>2, <2>1, <2>5, <2>6 DEF RebuildAgrees
  <2>8. QED
    BY <1>1, <2>3, <2>4, <2>7 DEF RebuildInv, CaptureInv
<1>7. CASE UNCHANGED vars
  <2>1. /\ phase' = phase /\ books' = books /\ refs' = refs /\ clock' = clock
        /\ dataset' = dataset /\ plan' = plan
    BY <1>7 DEF vars
  <2>2. Begun' /\ Ahead'
    BY <1>1, <2>1, CapturesStay
  <2>3. Steady' <=> Steady
    <3>1. \A s : HeardIn(s)' = HeardIn(s)
      BY <2>1 DEF HeardIn
    <3>2. QED
      BY <3>1 DEF Steady
  <2>4. PlanInv' /\ RebuildAgrees'
    BY <1>1, <2>1, <2>3 DEF PlanInv, RebuildAgrees
  <2>5. QED
    BY <1>1, <2>2, <2>4 DEF RebuildInv, CaptureInv
<1>8. QED
  BY <1>3, <1>4, <1>5, <1>6, <1>7 DEF Next

\* load_verified_selection_rows: the selection of an accepted plan is only refused
\* if the wall clock was set back or stood still within a segment.
THEOREM RebuildAgreesHolds == Spec => []RebuildAgrees
<1>1. RebuildInv => RebuildAgrees
  BY DEF RebuildInv
<1>2. Spec => []RebuildInv
  BY RebuildInit, RebuildStep, PTL DEF Spec
<1>3. QED
  BY <1>1, <1>2, PTL
=============================================================================
