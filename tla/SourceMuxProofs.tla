-------------------------- MODULE SourceMuxProofs --------------------------
(***************************************************************************)
(* Proofs about SourceMux for every set of sources, every queue capacity   *)
(* and every combination of source faults, for both multiplexers.          *)
(***************************************************************************)
EXTENDS SourceMux, FiniteSetTheorems, TLAPS
-----------------------------------------------------------------------------
(* The queue. *)

LEMMA AppendItem ==
    ASSUME queue \in Seq(Items), NEW s \in Sources, NEW frame \in Nat,
           queue' = Append(queue, [source |-> s, frame |-> frame])
    PROVE  /\ queue' \in Seq(Items) /\ Len(queue') = Len(queue) + 1
           /\ \A i \in 1 .. Len(queue) : queue'[i] = queue[i]
           /\ queue'[Len(queue) + 1] = [source |-> s, frame |-> frame]
           /\ \A q \in Sources, n \in Nat :
                 InQueue(q, n)' <=> InQueue(q, n) \/ (q = s /\ n = frame)
<1> DEFINE item == [source |-> s, frame |-> frame]
<1>1. item \in Items
  BY DEF Items
<1>2. /\ queue' \in Seq(Items) /\ Len(queue') = Len(queue) + 1
      /\ \A i \in 1 .. Len(queue) : queue'[i] = queue[i]
      /\ queue'[Len(queue) + 1] = item
  BY <1>1
<1>3. ASSUME NEW q \in Sources, NEW n \in Nat
      PROVE  InQueue(q, n)' <=> InQueue(q, n) \/ (q = s /\ n = frame)
  <2>1. InQueue(q, n) => InQueue(q, n)'
    BY <1>2 DEF InQueue
  <2>2. q = s /\ n = frame => InQueue(q, n)'
    BY <1>2 DEF InQueue
  <2>3. ASSUME InQueue(q, n)'
        PROVE  InQueue(q, n) \/ (q = s /\ n = frame)
    <3>1. PICK i \in 1 .. Len(queue) + 1 : queue'[i] = [source |-> q, frame |-> n]
      BY <1>2, <2>3 DEF InQueue
    <3>2. CASE i = Len(queue) + 1
      BY <1>2, <3>1, <3>2
    <3>3. CASE i # Len(queue) + 1
      BY <1>2, <3>1, <3>3 DEF InQueue
    <3> QED
      BY <3>2, <3>3
  <2> QED
    BY <2>1, <2>2, <2>3
<1> QED
  BY <1>2, <1>3

LEMMA TailItem ==
    ASSUME queue \in Seq(Items), queue # <<>>, queue' = Tail(queue)
    PROVE  /\ queue' \in Seq(Items) /\ Len(queue') = Len(queue) - 1 /\ Len(queue) \in Nat \ {0}
           /\ Head(queue) = queue[1] /\ queue[1] \in Items
           /\ \A i \in 1 .. Len(queue) - 1 : queue'[i] = queue[i + 1]
           /\ \A q \in Sources, n \in Nat :
                 InQueue(q, n) <=> InQueue(q, n)' \/ queue[1] = [source |-> q, frame |-> n]
<1>1. /\ queue' \in Seq(Items) /\ Len(queue') = Len(queue) - 1 /\ Len(queue) \in Nat \ {0}
      /\ Head(queue) = queue[1] /\ queue[1] \in Items
      /\ \A i \in 1 .. Len(queue) - 1 : queue'[i] = queue[i + 1]
  OBVIOUS
<1>2. ASSUME NEW q \in Sources, NEW n \in Nat
      PROVE  InQueue(q, n) <=> InQueue(q, n)' \/ queue[1] = [source |-> q, frame |-> n]
  <2>1. ASSUME InQueue(q, n)'
        PROVE  InQueue(q, n)
    BY <1>1, <2>1 DEF InQueue
  <2>2. queue[1] = [source |-> q, frame |-> n] => InQueue(q, n)
    BY <1>1 DEF InQueue
  <2>3. ASSUME InQueue(q, n)
        PROVE  InQueue(q, n)' \/ queue[1] = [source |-> q, frame |-> n]
    <3>1. PICK i \in 1 .. Len(queue) : queue[i] = [source |-> q, frame |-> n]
      BY <2>3 DEF InQueue
    <3>2. CASE i = 1
      BY <3>1, <3>2
    <3>3. CASE i # 1
      <4>1. PICK j \in 1 .. Len(queue) - 1 : i = j + 1
        BY <1>1, <3>3
      <4>2. j \in DOMAIN queue' /\ queue'[j] = [source |-> q, frame |-> n]
        BY <1>1, <3>1, <4>1
      <4> QED
        BY <4>2 DEF InQueue
    <3> QED
      BY <3>2, <3>3
  <2> QED
    BY <2>1, <2>2, <2>3
<1> QED
  BY <1>1, <1>2
-----------------------------------------------------------------------------
(* The inductive invariant. *)

Running == gen \in {"new", "get", "yield"}
Holds(i, s) == queue[i].source = s

\* The pumps live from the first request of the consumer on, and none of them is
\* cancelled before the generator leaves its loop.
StageInv ==
    /\ gen = "new" =>
          /\ queue = <<>>
          /\ \A s \in Sources : pump[s] = "none" /\ captured[s] = 0 /\ yielded[s] = <<>>
    /\ gen # "new" => \A s \in Sources : pump[s] # "none"
    /\ \A s \in Sources : cancelling[s] = "pending" => ~PumpOver(s)
    /\ Running => /\ ending = "NONE"
                  /\ \A s \in Sources : cancelling[s] = "no" /\ pump[s] # "cancelled"

\* The frames of a source: yielded, then queued, then in the hand of its pump, in
\* this order, and its report behind them.
OrderInv(s) ==
    /\ \A i \in 1 .. Len(yielded[s]) : yielded[s][i] = i
    /\ Len(yielded[s]) <= captured[s]
    /\ pump[s] = "put" => Len(yielded[s]) < captured[s]
    /\ \A i \in 1 .. Len(queue) : Holds(i, s) /\ queue[i].frame # DONE =>
          /\ Len(yielded[s]) < queue[i].frame /\ queue[i].frame <= captured[s]
          /\ pump[s] = "put" => queue[i].frame < captured[s]
    /\ \A i, j \in 1 .. Len(queue) : i < j /\ Holds(i, s) /\ Holds(j, s) =>
          /\ queue[i].frame # DONE
          /\ queue[j].frame # DONE => queue[i].frame < queue[j].frame
    /\ InQueue(s, DONE) => pump[s] = "done"

\* None is missing until the generator leaves its loop, and a source whose report
\* has been taken has nothing left in the queue.
WholeInv(s) ==
    Running =>
        /\ \A n \in 1 .. captured[s] :
              \/ n <= Len(yielded[s])
              \/ InQueue(s, n)
              \/ pump[s] = "put" /\ n = captured[s]
        /\ pump[s] = "done" /\ ~InQueue(s, DONE) =>
              \A i \in 1 .. Len(queue) : ~Holds(i, s)

\* active counts the sources whose report has not been taken; among routes the
\* first one to be taken ends the loop.
Unreported == {s \in Sources : pump[s] # "done" \/ InQueue(s, DONE)}
ActiveInv ==
    gen \in {"get", "yield"} =>
        /\ active = Cardinality(Unreported) /\ active > 0
        /\ mux = "routes" => Unreported = Sources

\* An ending says what has happened to the sources, and stays true.
EndingInv ==
    /\ ending = "ended" =>
          /\ queue = <<>>
          /\ \A s \in Sources : pump[s] = "done" /\ Complete(s)
    /\ ending = "raised" =>
          \E s \in Sources : /\ pump[s] = "done" /\ ~InQueue(s, DONE) /\ Complete(s)
                             /\ error[s] \/ mux = "routes"

MuxInv ==
    /\ MuxTypeOK /\ StageInv
    /\ \A s \in Sources : OrderInv(s) /\ WholeInv(s)
    /\ ActiveInv /\ EndingInv
-----------------------------------------------------------------------------
(* A step of one pump and the other sources. *)

LEMMA OtherSource ==
    ASSUME MuxTypeOK, NEW s \in Sources, NEW q \in Sources, q # s,
           OrderInv(q), WholeInv(q),
           pump'[q] = pump[q], captured'[q] = captured[q],
           yielded' = yielded, gen' = gen,
           \/ queue' = queue
           \/ \E frame \in Nat : queue' = Append(queue, [source |-> s, frame |-> frame])
    PROVE  OrderInv(q)' /\ WholeInv(q)'
<1>0. queue \in Seq(Items)
  BY DEF MuxTypeOK
<1>1. CASE queue' = queue
  BY <1>1 DEF OrderInv, WholeInv, Running, Holds, InQueue
<1>2. ASSUME NEW frame \in Nat, queue' = Append(queue, [source |-> s, frame |-> frame])
      PROVE  OrderInv(q)' /\ WholeInv(q)'
  <2>1. /\ queue' \in Seq(Items) /\ Len(queue') = Len(queue) + 1
        /\ \A i \in 1 .. Len(queue) : queue'[i] = queue[i]
        /\ queue'[Len(queue) + 1] = [source |-> s, frame |-> frame]
        /\ \A n \in Nat : InQueue(q, n)' <=> InQueue(q, n)
    BY <1>0, <1>2, AppendItem
  <2>2. \A i \in 1 .. Len(queue') : Holds(i, q)' =>
           i \in 1 .. Len(queue) /\ queue'[i] = queue[i] /\ Holds(i, q)
    BY <1>0, <2>1 DEF Holds
  <2>3. OrderInv(q)'
    BY <2>1, <2>2 DEF OrderInv, DONE
  <2>4. captured[q] \in Nat
    BY DEF MuxTypeOK
  <2>5. WholeInv(q)'
    BY <2>1, <2>2, <2>4 DEF WholeInv, Running, DONE
  <2> QED
    BY <2>3, <2>5
<1> QED
  BY <1>1, <1>2

\* A pump that puts an item of its own, while it has not reported.
LEMMA OwnItem ==
    ASSUME MuxTypeOK, NEW s \in Sources, OrderInv(s), WholeInv(s),
           pump[s] \in {"pull", "put", "report"},
           NEW frame \in Nat, queue' = Append(queue, [source |-> s, frame |-> frame]),
           yielded' = yielded, gen' = gen,
           \/ /\ frame = DONE /\ pump[s] # "put"
              /\ pump'[s] = "done" /\ captured'[s] = captured[s]
           \/ /\ frame = captured'[s] /\ pump'[s] = "pull"
              /\ \/ pump[s] = "put" /\ captured'[s] = captured[s]
                 \/ pump[s] = "pull" /\ captured'[s] = captured[s] + 1
    PROVE  OrderInv(s)' /\ WholeInv(s)'
<1>1. queue \in Seq(Items) /\ captured[s] \in Nat /\ Len(yielded[s]) \in Nat
      /\ captured'[s] \in Nat
  BY DEF MuxTypeOK
<1>2. /\ queue' \in Seq(Items) /\ Len(queue') = Len(queue) + 1
      /\ \A i \in 1 .. Len(queue) : queue'[i] = queue[i]
      /\ queue'[Len(queue) + 1] = [source |-> s, frame |-> frame]
      /\ \A n \in Nat : InQueue(s, n)' <=> InQueue(s, n) \/ n = frame
  BY <1>1, AppendItem
<1>3. ~InQueue(s, DONE)
  BY DEF OrderInv
<1>4. \A i \in 1 .. Len(queue) : Holds(i, s) =>
         /\ queue[i].frame # DONE
         /\ queue[i].frame < captured[s] + 1
         /\ pump[s] = "put" => queue[i].frame < captured[s]
  <2> SUFFICES ASSUME NEW i \in 1 .. Len(queue), Holds(i, s)
               PROVE  /\ queue[i].frame # DONE
                      /\ queue[i].frame < captured[s] + 1
                      /\ pump[s] = "put" => queue[i].frame < captured[s]
    OBVIOUS
  <2>1. queue[i] \in Items
    BY <1>1
  <2>2. queue[i].frame # DONE
    BY <1>3, <2>1 DEF InQueue, Items, Holds
  <2> QED
    BY <1>1, <2>1, <2>2 DEF OrderInv, Items
<1>5. OrderInv(s)'
  <2>1. /\ \A i \in 1 .. Len(yielded'[s]) : yielded'[s][i] = i
        /\ Len(yielded'[s]) <= captured'[s]
        /\ pump'[s] # "put"
        /\ InQueue(s, DONE)' => pump'[s] = "done"
    BY <1>1, <1>2, <1>3 DEF OrderInv, DONE
  <2>2. ASSUME NEW i \in 1 .. Len(queue'), Holds(i, s)', queue'[i].frame # DONE
        PROVE  Len(yielded[s]) < queue'[i].frame /\ queue'[i].frame <= captured'[s]
    <3>1. CASE i = Len(queue) + 1
      BY <1>1, <1>2, <2>2, <3>1 DEF OrderInv, DONE
    <3>2. CASE i \in 1 .. Len(queue)
      <4>1. Holds(i, s) /\ queue'[i] = queue[i] /\ queue[i] \in Items
        BY <1>1, <1>2, <2>2, <3>2 DEF Holds
      <4> QED
        BY <1>1, <1>4, <2>2, <3>2, <4>1 DEF OrderInv, Items
    <3> QED
      BY <1>1, <1>2, <3>1, <3>2
  <2>3. ASSUME NEW i \in 1 .. Len(queue'), NEW j \in 1 .. Len(queue'), i < j,
               Holds(i, s)', Holds(j, s)'
        PROVE  /\ queue'[i].frame # DONE
               /\ queue'[j].frame # DONE => queue'[i].frame < queue'[j].frame
    <3>1. i \in 1 .. Len(queue) /\ Holds(i, s) /\ queue'[i] = queue[i] /\ queue[i] \in Items
      BY <1>1, <1>2, <2>3 DEF Holds
    <3>2. CASE j = Len(queue) + 1
      <4>1. queue'[j].frame = frame
        BY <1>2, <3>2
      <4>2. /\ queue[i].frame # DONE /\ queue[i].frame < captured[s] + 1
            /\ pump[s] = "put" => queue[i].frame < captured[s]
        BY <1>4, <3>1
      <4>3. queue[i].frame \in Nat
        BY <3>1 DEF Items
      <4> QED
        BY <1>1, <3>1, <4>1, <4>2, <4>3 DEF DONE
    <3>3. CASE j \in 1 .. Len(queue)
      <4>1. Holds(j, s) /\ queue'[j] = queue[j]
        BY <1>2, <2>3, <3>3 DEF Holds
      <4> QED
        BY <2>3, <3>1, <3>3, <4>1 DEF OrderInv
    <3> QED
      BY <1>1, <1>2, <3>2, <3>3
  <2> QED
    BY <2>1, <2>2, <2>3 DEF OrderInv
<1>6. WholeInv(s)'
  <2> SUFFICES ASSUME Running'
               PROVE  /\ \A n \in 1 .. captured'[s] :
                            \/ n <= Len(yielded'[s])
                            \/ InQueue(s, n)'
                            \/ pump'[s] = "put" /\ n = captured'[s]
                      /\ pump'[s] = "done" /\ ~InQueue(s, DONE)' =>
                            \A i \in 1 .. Len(queue') : ~Holds(i, s)'
    BY DEF WholeInv
  <2>1. Running
    BY DEF Running
  <2>2. ASSUME NEW n \in 1 .. captured'[s]
        PROVE  n <= Len(yielded[s]) \/ InQueue(s, n)'
    <3>1. CASE n \in 1 .. captured[s] /\ ~(pump[s] = "put" /\ n = captured[s])
      BY <1>1, <1>2, <2>1, <3>1 DEF WholeInv
    <3>2. CASE n \notin 1 .. captured[s] \/ (pump[s] = "put" /\ n = captured[s])
      <4>1. n = frame /\ n \in Nat
        BY <1>1, <3>2
      <4> QED
        BY <1>2, <4>1
    <3> QED
      BY <3>1, <3>2
  <2>3. pump'[s] = "done" => InQueue(s, DONE)'
    BY <1>2 DEF DONE
  <2> QED
    BY <2>2, <2>3
<1> QED
  BY <1>5, <1>6

\* A step of one pump that has not ended, from what it does to its own source.
LEMMA OnePumpMoves ==
    ASSUME MuxInv, MuxTypeOK', NEW s \in Sources,
           pump[s] # "none", ~PumpOver(s), pump'[s] # "none",
           OrderInv(s)' /\ WholeInv(s)', UNCHANGED <<mux, merged>>,
           \A q \in Sources : q # s =>
              /\ pump'[q] = pump[q] /\ captured'[q] = captured[q]
              /\ error'[q] = error[q] /\ cancelling'[q] = cancelling[q],
           cancelling'[s] # "pending",
           \/ cancelling[s] = "pending"
           \/ cancelling'[s] = cancelling[s] /\ pump'[s] # "cancelled",
           pump'[s] = "done" => InQueue(s, DONE)',
           \/ queue' = queue
           \/ \E frame \in Nat : queue' = Append(queue, [source |-> s, frame |-> frame])
    PROVE  MuxInv'
<1>1. MuxTypeOK /\ StageInv /\ ActiveInv /\ EndingInv
  BY DEF MuxInv
<1>2. gen' = gen /\ yielded' = yielded /\ active' = active /\ ending' = ending /\ mux' = mux
  BY DEF merged
<1>3. gen # "new"
  BY <1>1 DEF StageInv
<1>4. ASSUME NEW q \in Sources, q # s
      PROVE  /\ OrderInv(q)' /\ WholeInv(q)'
             /\ InQueue(q, DONE)' <=> InQueue(q, DONE)
  <2>1. OrderInv(q)' /\ WholeInv(q)'
    BY <1>1, <1>2, <1>4, OtherSource DEF MuxInv
  <2>2. InQueue(q, DONE)' <=> InQueue(q, DONE)
    <3>1. CASE queue' = queue
      BY <3>1 DEF InQueue
    <3>2. ASSUME NEW frame \in Nat, queue' = Append(queue, [source |-> s, frame |-> frame])
          PROVE  InQueue(q, DONE)' <=> InQueue(q, DONE)
      <4>1. queue \in Seq(Items) /\ DONE \in Nat
        BY <1>1 DEF MuxTypeOK, DONE
      <4> QED
        BY <1>4, <3>2, <4>1, AppendItem
    <3> QED
      BY <3>1, <3>2
  <2> QED
    BY <2>1, <2>2
<1>5. StageInv'
  <2>1. \A q \in Sources : pump'[q] # "none" /\ (cancelling'[q] = "pending" => ~PumpOver(q)')
    BY <1>1, <1>3 DEF StageInv, PumpOver
  <2>2. Running' => ending' = "NONE" /\ \A q \in Sources : cancelling'[q] = "no" /\ pump'[q] # "cancelled"
    BY <1>1, <1>2 DEF StageInv, Running
  <2> QED
    BY <1>2, <1>3, <2>1, <2>2 DEF StageInv
<1>6. Unreported' = Unreported
  BY <1>4 DEF Unreported, PumpOver
<1>7. ActiveInv'
  BY <1>1, <1>2, <1>6 DEF ActiveInv
<1>8. EndingInv'
  <2>1. ending # "ended"
    BY <1>1 DEF EndingInv, PumpOver
  <2>2. ASSUME ending = "raised"
        PROVE  \E q \in Sources : /\ pump'[q] = "done" /\ ~InQueue(q, DONE)' /\ Complete(q)'
                                  /\ error'[q] \/ mux' = "routes"
    <3>1. PICK q \in Sources : /\ pump[q] = "done" /\ ~InQueue(q, DONE) /\ Complete(q)
                               /\ error[q] \/ mux = "routes"
      BY <1>1, <2>2 DEF EndingInv
    <3>2. q # s
      BY <3>1 DEF PumpOver
    <3> QED
      BY <1>2, <1>4, <3>1, <3>2 DEF Complete
  <2> QED
    BY <1>2, <2>1, <2>2 DEF EndingInv
<1> QED
  BY <1>1, <1>4, <1>5, <1>7, <1>8 DEF MuxInv

\* What a put does when there is room, and when there is none.
LEMMA EnqueueCases ==
    ASSUME MuxTypeOK, NEW s \in Sources, NEW frame \in Nat, NEW waiting, NEW after,
           Enqueue(s, frame, waiting, after)
    PROVE  \/ /\ Len(queue) < queue_capacity
              /\ pump' = [pump EXCEPT ![s] = after]
              /\ queue' = Append(queue, [source |-> s, frame |-> frame])
              /\ queue' \in Seq(Items) /\ Len(queue') <= queue_capacity
              /\ InQueue(s, frame)'
           \/ pump' = [pump EXCEPT ![s] = waiting] /\ queue' = queue
<1>1. queue \in Seq(Items) /\ queue_capacity \in Nat
  BY MuxAssumption DEF MuxTypeOK
<1>2. CASE Full
  BY <1>2 DEF Enqueue
<1>3. CASE ~Full
  <2>1. Len(queue) < queue_capacity
    BY <1>1, <1>3 DEF Full
  <2>2. queue' = Append(queue, [source |-> s, frame |-> frame])
    BY <1>3 DEF Enqueue
  <2>3. queue' \in Seq(Items) /\ Len(queue') = Len(queue) + 1 /\ InQueue(s, frame)'
    BY <1>1, <2>2, AppendItem
  <2> QED
    BY <1>1, <1>3, <2>1, <2>2, <2>3 DEF Enqueue
<1> QED
  BY <1>2, <1>3
-----------------------------------------------------------------------------
(* The steps of a pump. *)

\* A pump that moves without putting anything: it starts, or waits with its next
\* frame or its report for room, or is cancelled.
LEMMA OwnMove ==
    ASSUME MuxTypeOK, MuxTypeOK', NEW s \in Sources, OrderInv(s), WholeInv(s),
           ~PumpOver(s), queue' = queue, yielded' = yielded, gen' = gen,
           \/ /\ captured'[s] = captured[s] /\ pump'[s] \notin {"put", "done"}
              /\ pump[s] # "put" \/ ~Running
           \/ captured'[s] = captured[s] + 1 /\ pump[s] = "pull" /\ pump'[s] = "put"
    PROVE  OrderInv(s)' /\ WholeInv(s)'
<1>1. /\ captured[s] \in Nat /\ captured'[s] \in Nat /\ Len(yielded[s]) \in Nat
      /\ \A i \in 1 .. Len(queue) : queue[i].frame \in Nat
  <2>1. queue \in Seq(Items) /\ yielded[s] \in Seq(Nat)
    BY DEF MuxTypeOK
  <2>2. \A i \in 1 .. Len(queue) : queue[i] \in Items
    BY <2>1
  <2>3. captured[s] \in Nat /\ captured'[s] \in Nat
    BY DEF MuxTypeOK
  <2> QED
    BY <2>1, <2>2, <2>3 DEF Items
<1>2. OrderInv(s)'
  BY <1>1 DEF OrderInv, Holds, InQueue, PumpOver, DONE
<1>3. WholeInv(s)'
  BY <1>1 DEF WholeInv, Running, Holds, InQueue, PumpOver
<1> QED
  BY <1>2, <1>3

LEMMA StartsKeeps ==
    ASSUME MuxInv, NEW s \in Sources, PumpStarts(s)
    PROVE  MuxInv'
<1> USE DEF PumpStarts, pumps, merged
<1>1. MuxTypeOK /\ MuxTypeOK' /\ OrderInv(s) /\ WholeInv(s)
  BY DEF MuxInv, MuxTypeOK
<1>2. pump'[s] = "pull" /\ ~PumpOver(s)
  BY <1>1 DEF MuxTypeOK, PumpOver
<1>3. OrderInv(s)' /\ WholeInv(s)'
  BY <1>1, <1>2, OwnMove
<1>4. \A q \in Sources : q # s => pump'[q] = pump[q]
  BY <1>1 DEF MuxTypeOK
<1> QED
  BY <1>1, <1>2, <1>3, <1>4, OnePumpMoves DEF PumpOver

LEMMA ReceivesKeeps ==
    ASSUME MuxInv, NEW s \in Sources, PumpReceives(s)
    PROVE  MuxInv'
<1> USE DEF PumpReceives, merged
<1>1. MuxTypeOK /\ OrderInv(s) /\ WholeInv(s) /\ ~PumpOver(s)
  BY DEF MuxInv, PumpOver
<1>2. captured[s] \in Nat /\ captured'[s] = captured[s] + 1 /\ captured' \in [Sources -> Nat]
  BY <1>1 DEF MuxTypeOK
<1>3. \/ /\ pump' = [pump EXCEPT ![s] = "pull"]
         /\ queue' = Append(queue, [source |-> s, frame |-> captured'[s]])
         /\ queue' \in Seq(Items) /\ Len(queue') <= queue_capacity
      \/ pump' = [pump EXCEPT ![s] = "put"] /\ queue' = queue
  BY <1>1, <1>2, EnqueueCases
<1>4. MuxTypeOK'
  BY <1>1, <1>2, <1>3 DEF MuxTypeOK
<1>5. pump'[s] \in {"pull", "put"} /\ \A q \in Sources : q # s => pump'[q] = pump[q]
  BY <1>1, <1>3 DEF MuxTypeOK
<1>6. OrderInv(s)' /\ WholeInv(s)'
  <2>1. CASE queue' = Append(queue, [source |-> s, frame |-> captured'[s]]) /\ pump'[s] = "pull"
    BY <1>1, <1>2, <2>1, OwnItem
  <2>2. CASE queue' = queue /\ pump'[s] = "put"
    BY <1>1, <1>2, <1>4, <2>2, OwnMove
  <2> QED
    BY <1>1, <1>3, <2>1, <2>2 DEF MuxTypeOK
<1>7. \A q \in Sources : q # s => captured'[q] = captured[q]
  BY <1>1 DEF MuxTypeOK
<1>8. queue' = queue \/ \E frame \in Nat : queue' = Append(queue, [source |-> s, frame |-> frame])
  BY <1>2, <1>3
<1> QED
  BY <1>1, <1>4, <1>5, <1>6, <1>7, <1>8, OnePumpMoves

LEMMA PutsKeeps ==
    ASSUME MuxInv, NEW s \in Sources, PumpPuts(s)
    PROVE  MuxInv'
<1> USE DEF PumpPuts, merged
<1>1. MuxTypeOK /\ OrderInv(s) /\ WholeInv(s) /\ ~PumpOver(s) /\ captured[s] \in Nat
  BY DEF MuxInv, MuxTypeOK, PumpOver
<1>2. /\ pump' = [pump EXCEPT ![s] = "pull"]
      /\ queue' = Append(queue, [source |-> s, frame |-> captured[s]])
  BY DEF Enqueue
<1>3. queue' \in Seq(Items) /\ Len(queue') <= queue_capacity
  <2>1. queue \in Seq(Items) /\ Len(queue) < queue_capacity
    BY <1>1, MuxAssumption DEF MuxTypeOK, Full
  <2> QED
    BY <1>1, <1>2, <2>1, MuxAssumption, AppendItem
<1>4. MuxTypeOK'
  BY <1>1, <1>2, <1>3 DEF MuxTypeOK
<1>5. pump'[s] = "pull" /\ \A q \in Sources : q # s => pump'[q] = pump[q]
  BY <1>1, <1>2 DEF MuxTypeOK
<1>6. OrderInv(s)' /\ WholeInv(s)'
  BY <1>1, <1>2, <1>5, OwnItem
<1> QED
  BY <1>1, <1>2, <1>4, <1>5, <1>6, OnePumpMoves

\* The report of a source that has ended, at once or when there is room.
LEMMA ReportingKeeps ==
    ASSUME MuxInv, NEW s \in Sources, pump[s] \in {"pull", "report"}, Reports(s),
           error' \in [Sources -> BOOLEAN],
           \A q \in Sources : q # s => /\ error'[q] = error[q]
                                       /\ cancelling'[q] = cancelling[q],
           cancelling' \in [Sources -> {"no", "pending", "lost"}],
           cancelling'[s] # "pending",
           cancelling[s] = "pending" \/ cancelling'[s] = cancelling[s],
           UNCHANGED <<mux, captured, merged>>
    PROVE  MuxInv'
<1> USE DEF merged
<1>1. MuxTypeOK /\ OrderInv(s) /\ WholeInv(s) /\ ~PumpOver(s)
  BY DEF MuxInv, PumpOver
<1>2. \/ /\ pump' = [pump EXCEPT ![s] = "done"]
         /\ queue' = Append(queue, [source |-> s, frame |-> DONE])
         /\ queue' \in Seq(Items) /\ Len(queue') <= queue_capacity
         /\ InQueue(s, DONE)'
      \/ pump' = [pump EXCEPT ![s] = "report"] /\ queue' = queue
  BY <1>1, EnqueueCases DEF Reports, DONE
<1>3. MuxTypeOK'
  BY <1>1, <1>2 DEF MuxTypeOK
<1>4. /\ pump'[s] \in {"done", "report"}
      /\ pump'[s] = "done" => InQueue(s, DONE)'
      /\ \A q \in Sources : q # s => pump'[q] = pump[q]
  BY <1>1, <1>2 DEF MuxTypeOK
<1>5. OrderInv(s)' /\ WholeInv(s)'
  <2>1. CASE queue' = Append(queue, [source |-> s, frame |-> DONE]) /\ pump'[s] = "done"
    BY <1>1, <2>1, OwnItem DEF DONE
  <2>2. CASE queue' = queue /\ pump'[s] = "report"
    BY <1>1, <1>3, <2>2, OwnMove
  <2> QED
    BY <1>1, <1>2, <2>1, <2>2 DEF MuxTypeOK
<1>6. queue' = queue \/ \E frame \in Nat : queue' = Append(queue, [source |-> s, frame |-> frame])
  BY <1>2 DEF DONE
<1> QED
  BY <1>1, <1>3, <1>4, <1>5, <1>6, OnePumpMoves

LEMMA CancelledKeeps ==
    ASSUME MuxInv, NEW s \in Sources, PumpCancelled(s)
    PROVE  MuxInv'
<1> USE DEF PumpCancelled, merged
<1>1. MuxTypeOK /\ MuxTypeOK' /\ OrderInv(s) /\ WholeInv(s) /\ StageInv
  BY DEF MuxInv, MuxTypeOK
<1>2. /\ ~PumpOver(s) /\ ~Running /\ pump[s] # "none"
      /\ pump'[s] = "cancelled" /\ cancelling'[s] = "no"
      /\ \A q \in Sources : q # s => pump'[q] = pump[q] /\ cancelling'[q] = cancelling[q]
  BY <1>1 DEF StageInv, MuxTypeOK, Running
<1>3. OrderInv(s)' /\ WholeInv(s)'
  BY <1>1, <1>2, OwnMove
<1> QED
  BY <1>1, <1>2, <1>3, OnePumpMoves

LEMMA LosesCancelKeeps ==
    ASSUME MuxInv, NEW s \in Sources, PumpLosesCancel(s)
    PROVE  MuxInv'
<1> USE DEF PumpLosesCancel, merged
<1>1. MuxTypeOK /\ StageInv /\ OrderInv(s) /\ WholeInv(s) /\ ~PumpOver(s)
  BY DEF MuxInv, PumpOver
<1>2. /\ cancelling' \in [Sources -> {"no", "pending", "lost"}] /\ cancelling'[s] = "lost"
      /\ \A q \in Sources : q # s => cancelling'[q] = cancelling[q]
  BY <1>1 DEF MuxTypeOK
<1>3. ASSUME NEW failed \in BOOLEAN, error' = [error EXCEPT ![s] = failed], Reports(s)
      PROVE  MuxInv'
  <2>1. error' \in [Sources -> BOOLEAN] /\ \A q \in Sources : q # s => error'[q] = error[q]
    BY <1>1, <1>3 DEF MuxTypeOK
  <2> QED
    BY <1>2, <1>3, <2>1, ReportingKeeps
<1>4. CASE UNCHANGED <<pump, error, queue>>
  <2>1. MuxTypeOK'
    BY <1>1, <1>2, <1>4 DEF MuxTypeOK
  <2>2. OrderInv(s)' /\ WholeInv(s)'
    BY <1>1, <1>4, <2>1, OwnMove
  <2> QED
    BY <1>1, <1>2, <1>4, <2>1, <2>2, OnePumpMoves DEF PumpOver
<1> QED
  BY <1>3, <1>4

LEMMA PumpKeeps ==
    ASSUME MuxInv, NEW s \in Sources, Pump(s)
    PROVE  MuxInv'
<1>1. MuxTypeOK
  BY DEF MuxInv
<1>2. CASE PumpEnds(s)
  <2>1. PICK failed \in BOOLEAN : error' = [error EXCEPT ![s] = failed]
    BY <1>2 DEF PumpEnds
  <2>2. error' \in [Sources -> BOOLEAN] /\ \A q \in Sources : q # s => error'[q] = error[q]
    BY <1>1, <2>1 DEF MuxTypeOK
  <2> QED
    BY <1>1, <1>2, <2>2, ReportingKeeps DEF PumpEnds, MuxTypeOK
<1>3. CASE PumpReports(s)
  BY <1>1, <1>3, ReportingKeeps DEF PumpReports, MuxTypeOK
<1> QED
  BY <1>2, <1>3, StartsKeeps, ReceivesKeeps, PutsKeeps, CancelledKeeps, LosesCancelKeeps
  DEF Pump
-----------------------------------------------------------------------------
(* The steps of the generator. *)

LEMMA InitHolds == Init => MuxInv
<1> SUFFICES ASSUME Init PROVE MuxInv
  OBVIOUS
<1>1. MuxTypeOK
  BY MuxAssumption DEF Init, MuxTypeOK, Items
<1>2. StageInv /\ ActiveInv /\ EndingInv
  BY DEF Init, StageInv, ActiveInv, EndingInv, Running
<1>3. \A s \in Sources : OrderInv(s) /\ WholeInv(s)
  BY DEF Init, OrderInv, WholeInv, InQueue
<1> QED
  BY <1>1, <1>2, <1>3 DEF MuxInv

LEMMA AsksKeeps ==
    ASSUME MuxInv, Asks
    PROVE  MuxInv'
<1> USE DEF Asks
<1>1. MuxTypeOK /\ StageInv /\ ActiveInv /\ EndingInv
  BY DEF MuxInv
<1>2. CASE gen = "new"
  <2>1. /\ queue = <<>> /\ \A s \in Sources : captured[s] = 0 /\ yielded[s] = <<>>
        /\ pump' = [s \in Sources |-> "new"] /\ active' = Cardinality(Sources)
        /\ queue' = queue /\ captured' = captured /\ yielded' = yielded
    BY <1>1, <1>2 DEF StageInv
  <2>2. Unreported' = Sources
    BY <2>1 DEF Unreported
  <2>3. active' \in Nat /\ active' > 0
    BY <2>1, MuxAssumption, FS_CardinalityType, FS_EmptySet
  <2>4. MuxTypeOK'
    BY <1>1, <2>1, <2>3 DEF MuxTypeOK
  <2>5. StageInv'
    BY <1>1, <1>2, <2>1 DEF StageInv, Running, PumpOver
  <2>6. \A s \in Sources : OrderInv(s)' /\ WholeInv(s)'
    BY <2>1 DEF OrderInv, WholeInv, InQueue
  <2>7. ActiveInv'
    BY <2>1, <2>2, <2>3 DEF ActiveInv
  <2>8. EndingInv'
    BY <1>1, <1>2 DEF EndingInv, StageInv, Running
  <2> QED
    BY <2>4, <2>5, <2>6, <2>7, <2>8 DEF MuxInv
<1>3. CASE gen = "yield"
  <2>1. UNCHANGED <<mux, captured, pump, error, cancelling, queue, active, ending, yielded>>
    BY <1>3
  <2>2. MuxTypeOK' /\ StageInv' /\ ActiveInv' /\ EndingInv'
    BY <1>1, <1>3, <2>1
    DEF MuxTypeOK, StageInv, ActiveInv, EndingInv, Running, PumpOver, Unreported, InQueue, Complete
  <2>3. \A s \in Sources : OrderInv(s)' /\ WholeInv(s)'
    BY <1>3, <2>1 DEF MuxInv, OrderInv, WholeInv, Holds, InQueue, Running
  <2> QED
    BY <2>2, <2>3 DEF MuxInv
<1> QED
  BY <1>2, <1>3

LEMMA TakesFrameKeeps ==
    ASSUME MuxInv, TakesFrame
    PROVE  MuxInv'
<1> USE DEF TakesFrame, pumps
<1>1. MuxTypeOK /\ StageInv /\ ActiveInv /\ EndingInv /\ queue \in Seq(Items)
  BY DEF MuxInv, MuxTypeOK
<1>2. /\ queue' \in Seq(Items) /\ Len(queue') = Len(queue) - 1 /\ Len(queue) \in Nat \ {0}
      /\ Head(queue) = queue[1] /\ queue[1] \in Items
      /\ \A i \in 1 .. Len(queue) - 1 : queue'[i] = queue[i + 1]
      /\ \A q \in Sources, m \in Nat :
            InQueue(q, m) <=> InQueue(q, m)' \/ queue[1] = [source |-> q, frame |-> m]
  BY <1>1, TailItem
<1>3. PICK s \in Sources, n \in Nat \ {0} : Head(queue) = [source |-> s, frame |-> n]
  BY <1>2 DEF Items, DONE
<1>4. yielded' = [yielded EXCEPT ![s] = Append(@, n)]
  <2>1. Head(queue).source = s /\ Head(queue).frame = n
    BY <1>3
  <2>2. yielded' = [yielded EXCEPT ![Head(queue).source] = Append(@, Head(queue).frame)]
    OBVIOUS
  <2> QED
    BY ONLY <2>1, <2>2
<1>5. /\ Running /\ gen' = "yield" /\ ending = "NONE"
      /\ UNCHANGED <<mux, captured, pump, error, cancelling, active, ending>>
  BY <1>1 DEF Running, StageInv
<1> HIDE DEF TakesFrame, pumps
<1>6. OrderInv(s) /\ WholeInv(s) /\ Holds(1, s) /\ queue[1].frame = n
  BY <1>2, <1>3 DEF MuxInv, Holds
<1>7. Len(yielded[s]) \in Nat /\ captured[s] \in Nat /\ yielded[s] \in Seq(Nat)
  BY <1>1, <1>3 DEF MuxTypeOK
<1>8. \A q \in Sources : InQueue(q, DONE)' <=> InQueue(q, DONE)
  <2>1. DONE \in Nat /\ n # DONE
    BY <1>3 DEF DONE
  <2>2. \A q \in Sources : queue[1] # [source |-> q, frame |-> DONE]
    BY <1>6, <2>1
  <2> QED
    BY <1>2, <2>1, <2>2
\* No frame of the source is between the yielded ones and the head of the queue.
<1>9. n = Len(yielded[s]) + 1 /\ n <= captured[s]
  <2>1. /\ Len(yielded[s]) < n /\ n <= captured[s]
        /\ pump[s] = "put" => n < captured[s]
    BY <1>2, <1>3, <1>6 DEF OrderInv, DONE
  <2>2. Len(yielded[s]) + 1 \in 1 .. captured[s]
    BY <1>3, <1>7, <2>1
  <2>3. \/ InQueue(s, Len(yielded[s]) + 1)
        \/ pump[s] = "put" /\ Len(yielded[s]) + 1 = captured[s]
    BY <1>5, <1>6, <1>7, <2>2 DEF WholeInv
  <2>4. CASE InQueue(s, Len(yielded[s]) + 1)
    <3>1. PICK j \in 1 .. Len(queue) : queue[j] = [source |-> s, frame |-> Len(yielded[s]) + 1]
      BY <1>1, <2>4 DEF InQueue
    <3>2. ASSUME 1 < j
          PROVE  n < Len(yielded[s]) + 1
      <4>1. 1 \in 1 .. Len(queue) /\ Holds(j, s) /\ queue[j].frame = Len(yielded[s]) + 1
        BY <1>2, <3>1 DEF Holds
      <4>2. queue[j].frame # DONE
        BY <1>7, <4>1 DEF DONE
      <4>3. queue[1].frame < queue[j].frame
        BY <1>6, <3>2, <4>1, <4>2 DEF OrderInv
      <4> QED
        BY <1>6, <4>1, <4>3
    <3> QED
      BY <1>2, <1>3, <1>6, <1>7, <2>1, <3>1, <3>2
  <2> QED
    BY <1>3, <1>7, <2>1, <2>3, <2>4
<1>10. MuxTypeOK'
  <2>1. Append(yielded[s], n) \in Seq(Nat)
    BY <1>3, <1>7
  <2>2. yielded' \in [Sources -> Seq(Nat)]
    BY <1>1, <1>4, <2>1 DEF MuxTypeOK
  <2>3. Len(queue') <= queue_capacity
    BY <1>1, <1>2, MuxAssumption DEF MuxTypeOK
  <2> QED
    BY <1>1, <1>2, <1>5, <2>2, <2>3 DEF MuxTypeOK
<1>11. /\ yielded'[s] = Append(yielded[s], n)
       /\ Len(yielded'[s]) = n
       /\ \A q \in Sources : q # s => yielded'[q] = yielded[q]
  BY <1>1, <1>3, <1>4, <1>7, <1>9 DEF MuxTypeOK
<1>12. \A i \in 1 .. Len(queue') : /\ i + 1 \in 1 .. Len(queue) /\ queue'[i] = queue[i + 1]
                                  /\ queue[i + 1] \in Items
  BY <1>1, <1>2
<1>13. ASSUME NEW q \in Sources
       PROVE  /\ \A i \in 1 .. Len(queue') : Holds(i, q)' <=> Holds(i + 1, q)
              /\ \A i, j \in 1 .. Len(queue') : i < j /\ Holds(i, q)' /\ Holds(j, q)' =>
                    /\ queue'[i].frame # DONE
                    /\ queue'[j].frame # DONE => queue'[i].frame < queue'[j].frame
  <2>1. \A i \in 1 .. Len(queue') : Holds(i, q)' <=> Holds(i + 1, q)
    BY <1>12 DEF Holds
  <2>2. ASSUME NEW i \in 1 .. Len(queue'), NEW j \in 1 .. Len(queue'),
               i < j, Holds(i, q)', Holds(j, q)'
        PROVE  /\ queue'[i].frame # DONE
               /\ queue'[j].frame # DONE => queue'[i].frame < queue'[j].frame
    <3>1. i + 1 < j + 1 /\ Holds(i + 1, q) /\ Holds(j + 1, q)
      BY <1>2, <2>1, <2>2
    <3>2. /\ i + 1 \in 1 .. Len(queue) /\ queue'[i] = queue[i + 1]
          /\ j + 1 \in 1 .. Len(queue) /\ queue'[j] = queue[j + 1]
      BY <1>12
    <3> QED
      BY <3>1, <3>2 DEF MuxInv, OrderInv
  <2> QED
    BY <2>1, <2>2
\* The source of the frame: one more is yielded and the rest of the queue is behind it.
<1>14. OrderInv(s)' /\ WholeInv(s)'
  <2>1. \A i \in 1 .. n : yielded'[s][i] = i
    BY <1>6, <1>7, <1>9, <1>11 DEF OrderInv
  <2>2. ASSUME NEW i \in 1 .. Len(queue'), Holds(i, s)', queue'[i].frame # DONE
        PROVE  /\ n < queue'[i].frame /\ queue'[i].frame <= captured[s]
               /\ pump[s] = "put" => queue'[i].frame < captured[s]
    <3>1. /\ i + 1 \in 1 .. Len(queue) /\ queue'[i] = queue[i + 1] /\ Holds(i + 1, s)
          /\ 1 < i + 1 /\ 1 \in 1 .. Len(queue)
      BY <1>2, <1>3, <1>12, <1>13, <2>2
    <3> QED
      BY <1>6, <2>2, <3>1 DEF OrderInv
  <2>3. pump[s] = "put" => n < captured[s]
    BY <1>2, <1>3, <1>6 DEF OrderInv, DONE
  <2>4. OrderInv(s)'
    <3>1. InQueue(s, DONE)' => pump[s] = "done"
      BY <1>3, <1>6, <1>8 DEF OrderInv
    <3> QED
      BY <1>3, <1>5, <1>9, <1>11, <1>13, <2>1, <2>2, <2>3, <3>1 DEF OrderInv
  <2>5. ASSUME NEW m \in 1 .. captured[s]
        PROVE  m <= n \/ InQueue(s, m)' \/ (pump[s] = "put" /\ m = captured[s])
    <3>1. m \in Nat /\ (m <= Len(yielded[s]) => m <= n)
      BY <1>7, <1>9
    <3>2. InQueue(s, m) => InQueue(s, m)' \/ m = n
      <4>1. queue[1] = [source |-> s, frame |-> m] => m = n
        BY <1>6
      <4> QED
        BY <1>2, <1>3, <3>1, <4>1
    <3>3. m = n => m <= n
      BY <3>1
    <3> QED
      BY <1>5, <1>6, <3>1, <3>2, <3>3 DEF WholeInv
  <2>6. pump[s] = "done" /\ ~InQueue(s, DONE)' => \A i \in 1 .. Len(queue') : ~Holds(i, s)'
    BY <1>3, <1>5, <1>6, <1>8, <1>12, <1>13 DEF WholeInv
  <2>7. WholeInv(s)'
    BY <1>5, <1>11, <2>5, <2>6 DEF WholeInv
  <2> QED
    BY <2>4, <2>7
<1>15. ASSUME NEW q \in Sources, q # s
       PROVE  OrderInv(q)' /\ WholeInv(q)'
  <2>1. OrderInv(q) /\ WholeInv(q) /\ captured[q] \in Nat /\ Len(yielded[q]) \in Nat
    BY <1>1 DEF MuxInv, MuxTypeOK
  <2>2. \A i \in 1 .. Len(queue') : Holds(i, q)' /\ queue'[i].frame # DONE =>
           /\ Len(yielded[q]) < queue'[i].frame /\ queue'[i].frame <= captured[q]
           /\ pump[q] = "put" => queue'[i].frame < captured[q]
    BY <1>12, <1>13, <2>1 DEF OrderInv
  <2>3. OrderInv(q)'
    BY <1>5, <1>8, <1>11, <1>13, <1>15, <2>1, <2>2 DEF OrderInv
  <2>4. ASSUME NEW m \in 1 .. captured[q]
        PROVE  m <= Len(yielded[q]) \/ InQueue(q, m)' \/ (pump[q] = "put" /\ m = captured[q])
    <3>1. InQueue(q, m) => InQueue(q, m)'
      <4>1. queue[1] # [source |-> q, frame |-> m] /\ m \in Nat
        BY <1>6, <1>15, <2>1 DEF Holds
      <4> QED
        BY <1>2, <4>1
    <3> QED
      BY <1>5, <2>1, <3>1 DEF WholeInv
  <2>5. pump[q] = "done" /\ ~InQueue(q, DONE)' => \A i \in 1 .. Len(queue') : ~Holds(i, q)'
    BY <1>5, <1>8, <1>12, <1>13, <2>1 DEF WholeInv
  <2>6. WholeInv(q)'
    BY <1>5, <1>11, <1>15, <2>4, <2>5 DEF WholeInv
  <2> QED
    BY <2>3, <2>6
<1>16. Unreported' = Unreported
  BY <1>5, <1>8 DEF Unreported
<1>17. StageInv' /\ ActiveInv' /\ EndingInv'
  <2>1. StageInv'
    BY <1>1, <1>5 DEF StageInv, Running, PumpOver, TakesFrame
  <2>2. ActiveInv'
    BY <1>1, <1>5, <1>16 DEF ActiveInv, TakesFrame
  <2>3. EndingInv'
    BY <1>5 DEF EndingInv
  <2> QED
    BY <2>1, <2>2, <2>3
<1> QED
  BY <1>10, <1>14, <1>15, <1>17 DEF MuxInv

\* A step that cancels the pumps that are not over, or none, and touches no frame.
LEMMA ClosingKeeps ==
    ASSUME MuxInv, gen \notin {"new"}, gen' \in {"closing", "closed"},
           CancelPumps \/ UNCHANGED cancelling,
           UNCHANGED <<mux, pumps, queue, active, yielded>>,
           ending' \in {"NONE", "ended", "raised", "cancelled"}, EndingInv'
    PROVE  MuxInv'
<1> USE DEF pumps
<1>1. MuxTypeOK /\ StageInv
  BY DEF MuxInv
<1>2. /\ cancelling' \in [Sources -> {"no", "pending", "lost"}]
      /\ \A s \in Sources : cancelling'[s] = "pending" => ~PumpOver(s)
  BY <1>1 DEF CancelPumps, MuxTypeOK, StageInv
<1>3. MuxTypeOK'
  BY <1>1, <1>2 DEF MuxTypeOK
<1>4. StageInv'
  BY <1>1, <1>2 DEF StageInv, Running, PumpOver
<1>5. ASSUME NEW s \in Sources
      PROVE  OrderInv(s)' /\ WholeInv(s)'
  <2>1. OrderInv(s)
    BY DEF MuxInv
  <2> QED
    BY <2>1 DEF OrderInv, WholeInv, Running, Holds, InQueue
<1>6. ActiveInv'
  BY DEF ActiveInv
<1> QED
  BY <1>3, <1>4, <1>5, <1>6 DEF MuxInv

LEMMA StopsKeep ==
    ASSUME MuxInv, ConsumerStops \/ ConsumerCancelsAgain \/ Closed
    PROVE  MuxInv'
<1>1. MuxTypeOK /\ EndingInv
  BY DEF MuxInv
<1>2. CASE ConsumerStops
  <2>1. EndingInv'
    BY <1>2 DEF ConsumerStops, Closes, EndingInv
  <2> QED
    BY <1>2, <2>1, ClosingKeeps DEF ConsumerStops, Closes
<1>3. CASE ConsumerCancelsAgain
  <2>1. EndingInv'
    BY <1>3 DEF ConsumerCancelsAgain, EndingInv
  <2> QED
    BY <1>3, <2>1, ClosingKeeps DEF ConsumerCancelsAgain
<1>4. CASE Closed
  <2>1. EndingInv'
    BY <1>1, <1>4 DEF Closed, EndingInv, Complete, InQueue, pumps
  <2> QED
    BY <1>1, <1>4, <2>1, ClosingKeeps DEF Closed, MuxTypeOK
<1> QED
  BY <1>2, <1>3, <1>4

LEMMA TakesDoneKeeps ==
    ASSUME MuxInv, TakesDone
    PROVE  MuxInv'
<1>1. MuxTypeOK /\ StageInv /\ ActiveInv /\ EndingInv /\ queue \in Seq(Items)
  BY DEF MuxInv, MuxTypeOK
<1>2. /\ gen = "get" /\ Running /\ queue' = Tail(queue) /\ queue # <<>> /\ Head(queue).frame = DONE
      /\ active' = active - 1
      /\ UNCHANGED <<mux, captured, pump, error, yielded>>
  BY DEF TakesDone, pumps, Running
<1>3. /\ queue' \in Seq(Items) /\ Len(queue') = Len(queue) - 1 /\ Len(queue) \in Nat \ {0}
      /\ Head(queue) = queue[1] /\ queue[1] \in Items
      /\ \A i \in 1 .. Len(queue) - 1 : queue'[i] = queue[i + 1]
      /\ \A q \in Sources, m \in Nat :
            InQueue(q, m) <=> InQueue(q, m)' \/ queue[1] = [source |-> q, frame |-> m]
  BY <1>1, <1>2, TailItem
<1>4. PICK s \in Sources : queue[1] = [source |-> s, frame |-> DONE]
  BY <1>2, <1>3 DEF Items
<1>5. /\ queue[1].source = s /\ queue[1].frame = DONE /\ Head(queue).source = s
      /\ Holds(1, s) /\ 1 \in 1 .. Len(queue) /\ DONE \in Nat
  BY <1>3, <1>4 DEF Holds, DONE
<1>6. \A i \in 1 .. Len(queue') : /\ i + 1 \in 1 .. Len(queue) /\ queue'[i] = queue[i + 1]
                                 /\ queue[i + 1] \in Items /\ 1 < i + 1
  BY <1>1, <1>3
\* The report is the last of its source.
<1>7. InQueue(s, DONE) /\ pump[s] = "done"
  <2>1. InQueue(s, DONE)
    BY <1>3, <1>4, <1>5
  <2> QED
    BY <2>1 DEF MuxInv, OrderInv
<1>8. ASSUME NEW i \in 1 .. Len(queue'), queue'[i].source = s
      PROVE  FALSE
  <2>1. Holds(i + 1, s) /\ i + 1 \in 1 .. Len(queue) /\ 1 < i + 1
    BY <1>6, <1>8 DEF Holds
  <2> QED
    BY <1>5, <2>1 DEF MuxInv, OrderInv
<1>9. ~InQueue(s, DONE)'
  BY <1>3, <1>8 DEF InQueue
<1>10. \A q \in Sources : q # s => (InQueue(q, DONE)' <=> InQueue(q, DONE))
  <2>1. \A q \in Sources : q # s => queue[1] # [source |-> q, frame |-> DONE]
    BY <1>5
  <2> QED
    BY <1>3, <1>5, <2>1
<1>11. Complete(s)
  <2>1. captured[s] \in Nat /\ Len(yielded[s]) \in Nat /\ Len(yielded[s]) <= captured[s]
    BY <1>1 DEF MuxInv, OrderInv, MuxTypeOK
  <2>2. ASSUME NEW n \in 1 .. captured[s]
        PROVE  n <= Len(yielded[s])
    <3>1. ~InQueue(s, n)
      <4>1. SUFFICES ASSUME InQueue(s, n) PROVE FALSE
        OBVIOUS
      <4>2. PICK i \in 1 .. Len(queue) : queue[i] = [source |-> s, frame |-> n]
        BY <1>1, <4>1 DEF InQueue
      <4>3. i # 1
        BY <1>4, <1>5, <2>1, <4>2 DEF DONE
      <4>4. i - 1 \in 1 .. Len(queue') /\ queue'[i - 1] = queue[i]
        BY <1>3, <4>2, <4>3
      <4> QED
        BY <1>8, <4>2, <4>4
    <3> QED
      BY <1>2, <1>7, <3>1 DEF MuxInv, WholeInv
  <2> QED
    BY <2>1, <2>2 DEF Complete
<1>12. Unreported' = Unreported \ {s} /\ s \in Unreported
  BY <1>2, <1>7, <1>9, <1>10 DEF Unreported
<1>13. /\ active = Cardinality(Unreported) /\ active' = Cardinality(Unreported')
       /\ IsFiniteSet(Unreported')
  <2>1. IsFiniteSet(Unreported)
    <3>1. Unreported \subseteq Sources
      BY DEF Unreported
    <3> QED
      BY <3>1, MuxAssumption, FS_Subset
  <2>2. active = Cardinality(Unreported)
    BY <1>1, <1>2 DEF ActiveInv
  <2>3. IsFiniteSet(Unreported \ {s}) /\ Cardinality(Unreported \ {s}) = Cardinality(Unreported) - 1
    BY <1>12, <2>1, FS_RemoveElement
  <2> QED
    BY <1>2, <1>12, <2>2, <2>3
<1>14. active' \in Nat /\ (active' = 0 => Unreported' = {})
  BY <1>13, FS_CardinalityType, FS_EmptySet
<1>15. /\ Len(queue') <= queue_capacity
       /\ active \in Nat /\ active - 1 = active'
  BY <1>1, <1>2, <1>3, MuxAssumption DEF MuxTypeOK
<1>16. ASSUME NEW q \in Sources
       PROVE  OrderInv(q)' /\ WholeInv(q)'
  <2>1. /\ OrderInv(q) /\ WholeInv(q) /\ captured[q] \in Nat
        /\ \A i \in 1 .. Len(queue') : Holds(i, q)' <=> Holds(i + 1, q)
    BY <1>1, <1>6 DEF MuxInv, MuxTypeOK, Holds
  <2>2. ASSUME NEW i \in 1 .. Len(queue'), NEW j \in 1 .. Len(queue'),
               i < j, Holds(i, q)', Holds(j, q)'
        PROVE  /\ queue'[i].frame # DONE
               /\ queue'[j].frame # DONE => queue'[i].frame < queue'[j].frame
    <3>1. i + 1 < j + 1 /\ Holds(i + 1, q) /\ Holds(j + 1, q)
      BY <1>3, <2>1, <2>2
    <3>2. /\ i + 1 \in 1 .. Len(queue) /\ queue'[i] = queue[i + 1]
          /\ j + 1 \in 1 .. Len(queue) /\ queue'[j] = queue[j + 1]
      BY <1>6
    <3> QED
      BY <2>1, <3>1, <3>2 DEF OrderInv
  <2>3. \A i \in 1 .. Len(queue') : Holds(i, q)' /\ queue'[i].frame # DONE =>
           /\ Len(yielded[q]) < queue'[i].frame /\ queue'[i].frame <= captured[q]
           /\ pump[q] = "put" => queue'[i].frame < captured[q]
    BY <1>6, <2>1 DEF OrderInv
  <2>4. InQueue(q, DONE)' => pump[q] = "done"
    BY <1>7, <1>10, <2>1 DEF OrderInv
  <2>5. OrderInv(q)'
    BY <1>2, <2>1, <2>2, <2>3, <2>4 DEF OrderInv
  <2>6. ASSUME NEW m \in 1 .. captured[q]
        PROVE  InQueue(q, m) => InQueue(q, m)'
    <3>1. m \in Nat /\ queue[1] # [source |-> q, frame |-> m]
      BY <1>5, <2>1 DEF DONE
    <3> QED
      BY <1>3, <3>1
  <2>7. pump[q] = "done" /\ ~InQueue(q, DONE)' => \A i \in 1 .. Len(queue') : ~Holds(i, q)'
    <3>1. CASE q = s
      BY <1>8, <3>1 DEF Holds
    <3>2. CASE q # s
      BY <1>2, <1>6, <1>10, <2>1, <3>2 DEF WholeInv
    <3> QED
      BY <3>1, <3>2
  <2>8. WholeInv(q)'
    BY <1>2, <2>1, <2>6, <2>7 DEF WholeInv
  <2> QED
    BY <2>5, <2>8
<1>17. /\ Complete(s)' /\ pump'[s] = "done" /\ ~InQueue(s, DONE)'
       /\ error'[s] = error[s] /\ mux' = mux
  BY <1>2, <1>7, <1>9, <1>11 DEF Complete
\* The generator leaves its loop.
<1>18. ASSUME gen' = "closing", CancelPumps, ending' \in {"raised", "ended"}, EndingInv'
       PROVE  MuxInv'
  <2>1. /\ cancelling' \in [Sources -> {"no", "pending", "lost"}]
        /\ \A q \in Sources : cancelling'[q] = "pending" => ~PumpOver(q)
    BY <1>1, <1>18 DEF CancelPumps, MuxTypeOK, StageInv
  <2>2. MuxTypeOK'
    BY <1>1, <1>2, <1>3, <1>14, <1>15, <1>18, <2>1 DEF MuxTypeOK
  <2>3. StageInv'
    BY <1>1, <1>2, <1>18, <2>1 DEF StageInv, Running, PumpOver
  <2>4. ActiveInv'
    BY <1>18 DEF ActiveInv
  <2> QED
    BY <1>16, <1>18, <2>2, <2>3, <2>4 DEF MuxInv
<1>19. CASE Raises(s) /\ Closes("raised")
  <2>1. EndingInv'
    BY <1>17, <1>19 DEF EndingInv, Closes, Raises
  <2> QED
    BY <1>18, <1>19, <2>1 DEF Closes
<1>20. CASE active = 1 /\ Closes("ended")
  <2>1. Unreported' = {}
    BY <1>14, <1>15, <1>20
  <2>2. \A q \in Sources : pump[q] = "done" /\ ~InQueue(q, DONE)'
    BY <1>2, <2>1 DEF Unreported
  <2>3. queue' = <<>>
    <3>1. ASSUME queue' # <<>>
          PROVE  FALSE
      <4>1. 1 \in 1 .. Len(queue') /\ queue'[1] \in Items
        BY <1>3, <3>1
      <4>2. PICK q \in Sources : queue'[1].source = q
        BY <4>1 DEF Items
      <4>3. q # s
        BY <1>8, <4>1, <4>2
      <4>4. \A i \in 1 .. Len(queue) : ~Holds(i, q)
        BY <1>2, <1>10, <2>2, <4>3 DEF MuxInv, WholeInv
      <4> QED
        BY <1>6, <4>1, <4>2, <4>4 DEF Holds
    <3> QED
      BY <3>1
  <2>4. ASSUME NEW q \in Sources
        PROVE  Complete(q)'
    <3>1. /\ captured[q] \in Nat /\ Len(yielded[q]) \in Nat /\ Len(yielded[q]) <= captured[q]
          /\ OrderInv(q)' /\ WholeInv(q)
      BY <1>1, <1>16 DEF MuxInv, OrderInv, MuxTypeOK
    <3>2. ASSUME NEW n \in 1 .. captured[q]
          PROVE  n <= Len(yielded[q])
      <4>1. ~InQueue(q, n)
        <5>1. n \in Nat /\ queue[1] # [source |-> q, frame |-> n]
          BY <1>5, <3>1 DEF DONE
        <5>2. ~InQueue(q, n)'
          BY <1>3, <2>3 DEF InQueue
        <5> QED
          BY <1>3, <5>1, <5>2
      <4> QED
        BY <1>2, <2>2, <3>1, <4>1 DEF WholeInv
    <3> QED
      BY <1>2, <3>1, <3>2 DEF Complete
  <2>5. EndingInv'
    BY <1>2, <1>20, <2>2, <2>3, <2>4 DEF EndingInv, Closes
  <2> QED
    BY <1>18, <1>20, <2>5 DEF Closes
<1>21. CASE ~Raises(s) /\ active # 1 /\ UNCHANGED <<gen, ending, cancelling>>
  <2>1. MuxTypeOK'
    BY <1>1, <1>2, <1>3, <1>14, <1>15, <1>21 DEF MuxTypeOK
  <2>2. StageInv'
    BY <1>1, <1>2, <1>21 DEF StageInv, Running, PumpOver
  <2>3. active' > 0
    BY <1>14, <1>15, <1>21
  <2>4. ActiveInv'
    <3>1. active > 1
      BY <1>1, <1>2, <1>15, <1>21 DEF ActiveInv
    <3>2. mux' # "routes"
      BY <1>2, <1>21, <3>1 DEF Raises
    <3> QED
      BY <1>13, <2>3, <3>2 DEF ActiveInv
  <2>5. EndingInv'
    BY <1>1, <1>2, <1>21 DEF EndingInv, StageInv
  <2> QED
    BY <1>16, <2>1, <2>2, <2>4, <2>5 DEF MuxInv
<1> QED
  BY <1>5, <1>19, <1>20, <1>21 DEF TakesDone
-----------------------------------------------------------------------------
(* The theorems. *)

LEMMA NextKeeps == MuxInv /\ [Next]_vars => MuxInv'
<1> SUFFICES ASSUME MuxInv, [Next]_vars PROVE MuxInv'
  OBVIOUS
<1>1. CASE UNCHANGED vars
  <2>1. UNCHANGED <<mux, captured, pump, error, cancelling, queue, active, gen, ending, yielded>>
    BY <1>1 DEF vars, pumps, merged
  <2>2. MuxTypeOK' /\ StageInv' /\ ActiveInv' /\ EndingInv'
    BY <2>1
    DEF MuxInv, MuxTypeOK, StageInv, ActiveInv, EndingInv, Running, PumpOver, Unreported,
        InQueue, Complete
  <2>3. \A s \in Sources : OrderInv(s)' /\ WholeInv(s)'
    BY <2>1 DEF MuxInv, OrderInv, WholeInv, Holds, InQueue, Running
  <2> QED
    BY <2>2, <2>3 DEF MuxInv
<1>2. CASE \E s \in Sources : Pump(s)
  BY <1>2, PumpKeeps
<1> QED
  BY <1>1, <1>2, AsksKeeps, TakesFrameKeeps, TakesDoneKeeps, StopsKeep DEF Next

\* The frames of every source are, at every moment, a prefix given to the
\* consumer, then what the queue holds in order, then what the pump holds.
THEOREM MuxInductive == Spec => []MuxInv
<1> QED
  BY InitHolds, NextKeeps, PTL DEF Spec

\* Every variable keeps its type, and the queue its capacity.
THEOREM MuxTypeCorrect == Spec => []MuxTypeOK
<1>1. MuxInv => MuxTypeOK
  BY DEF MuxInv
<1> QED
  BY <1>1, MuxInductive, PTL

\* The consumer gets the frames of each source in the order of their capture,
\* none skipped and none twice (pump and the loop of merge_capture_sources, and
\* those of session_frames).
THEOREM SourceOrderHolds == Spec => []SourceOrder
<1>1. MuxInv => SourceOrder
  <2> SUFFICES ASSUME MuxInv, NEW s \in Sources, NEW i \in DOMAIN yielded[s]
               PROVE  yielded[s][i] = i
    BY DEF SourceOrder
  <2>1. DOMAIN yielded[s] = 1 .. Len(yielded[s])
    BY DEF MuxInv, MuxTypeOK
  <2> QED
    BY <2>1 DEF MuxInv, OrderInv
<1> QED
  BY <1>1, MuxInductive, PTL

\* No captured frame is lost before the stream is left: the bounded queue makes
\* the pumps wait and drops nothing.
THEOREM NoFrameLostHolds == Spec => []NoFrameLost
<1>1. MuxInv => NoFrameLost
  BY DEF MuxInv, WholeInv, NoFrameLost, Running
<1> QED
  BY <1>1, MuxInductive, PTL

\* A stream that ended by itself gave every frame of every source, and one that
\* raised every frame of the source that failed.
THEOREM EndingIsCompleteHolds == Spec => []EndingIsComplete
<1>1. MuxInv => EndingIsComplete
  BY DEF MuxInv, EndingInv, ActiveInv, Unreported, EndingIsComplete
<1> QED
  BY <1>1, MuxInductive, PTL

\* The consumer waits for an empty queue only while a pump is left to fill it.
THEOREM NeverStarvesHolds == Spec => []NeverStarves
<1>1. MuxInv => NeverStarves
  <2> SUFFICES ASSUME MuxInv, gen = "get", queue = <<>>
               PROVE  \E s \in Sources : ~PumpOver(s)
    BY DEF NeverStarves
  <2>1. active = Cardinality(Unreported) /\ active > 0
    BY DEF MuxInv, ActiveInv
  <2>2. Unreported # {}
    BY <2>1, FS_EmptySet
  <2>3. PICK s \in Sources : pump[s] # "done" \/ InQueue(s, DONE)
    BY <2>2 DEF Unreported
  <2>4. ~InQueue(s, DONE)
    BY DEF InQueue
  <2>5. pump[s] # "cancelled"
    BY DEF MuxInv, StageInv, Running
  <2> QED
    BY <2>3, <2>4, <2>5 DEF PumpOver
<1> QED
  BY <1>1, MuxInductive, PTL
=============================================================================
