--------------------------- MODULE RecorderProofs ---------------------------
(***************************************************************************)
(* Proofs about Recorder for every set of settings, every number of frames *)
(* and every combination of faults.                                        *)
(***************************************************************************)
EXTENDS Recorder, SequenceTheorems, TLAPS
-----------------------------------------------------------------------------
(* The type of the variables. *)

LEMMA TypeInit == Init => TypeOK
<1> SUFFICES ASSUME Init PROVE TypeOK
  OBVIOUS
<1>1. queue \in Seq(Nat) /\ log \in Seq(Nat)
  BY DEF Init
<1>2. /\ settings \in Settings
      /\ stop = FALSE /\ sealed = FALSE
      /\ state = "INIT" /\ outcome = "NONE" /\ failure = "NONE"
      /\ delivered = 0 /\ discarded = 0 /\ received = 0 /\ enqueued = 0
      /\ durable = 0 /\ high_watermark = 0 /\ hand = 0
      /\ nf = "none" /\ ppc = "new" /\ wpc = "new" /\ rpc = "new" /\ cancel = "no"
  BY Zenon DEF Init, END
<1> QED
  BY <1>1, <1>2 DEF TypeOK, RecorderStates, Outcomes

LEMMA TypeStep ==
    ASSUME TypeOK, [Next]_vars
    PROVE  TypeOK'
<1> USE DEF TypeOK, TaskResults, CancelAnswers, lifecycle, intake, given, source, storage
<1>1. CASE request_stop
  BY <1>1 DEF request_stop, RecorderStates
<1>2. ASSUME NEW result \in TaskResults,
             SourceDelivers(result)
      PROVE  TypeOK'
  BY <1>2 DEF SourceDelivers
<1>3. CASE ProducerSeesStop
  BY <1>3 DEF ProducerSeesStop, StopTakes, TakeResult, SetFailure,
     FirstFailure, FailureCodes
<1>4. CASE ProducerSeesResult
  BY <1>4 DEF ProducerSeesResult
<1>5. CASE ProducerDisarmed
  <2>1. CASE TakeResult
    BY <1>5, <2>1 DEF ProducerDisarmed, SwallowCancel, TakeResult, SetFailure,
       FirstFailure, FailureCodes
  <2>2. CASE LeaveCancelled /\ UNCHANGED <<lifecycle, received>>
    BY <1>5, <2>2 DEF ProducerDisarmed, SwallowCancel, LeaveCancelled, END
  <2> QED
    BY <1>5, <2>1, <2>2 DEF ProducerDisarmed
<1>6. CASE ProducerReaped
  BY <1>6 DEF ProducerReaped, SwallowCancel, SetFailure, FirstFailure, FailureCodes
<1>7. CASE ProducerPuts
  BY <1>7 DEF ProducerPuts, PutItem, LoopTop
<1>8. CASE ProducerPutsEnd
  BY <1>8 DEF ProducerPutsEnd, PutItem, END
<1>9. CASE ProducerCancelled
  BY <1>9 DEF ProducerCancelled, LeaveCancelled, END
<1>10. CASE WriterTakes
  BY <1>10 DEF WriterTakes, WriterRaised
<1>11. CASE WriterPersists
  <2> USE DEF WriterPersists, WriterRaised, END
  <2>1. CASE HookRaises
    BY <1>11, <2>1 DEF HookRaises
  <2>2. CASE AppendFails
    BY <1>11, <2>2 DEF AppendFails, SetFailure, FirstFailure, FailureCodes
  <2>3. CASE Appends
    BY <1>11, <2>3 DEF Appends, SetFailure, FirstFailure, FailureCodes
  <2> QED
    BY <1>11, <2>1, <2>2, <2>3
<1>12. CASE WriterEnds
  BY <1>12, RecorderAssumption DEF WriterEnds, FinishesEmpty, FinalSyncFails,
     CloseFails, SealFails, Finishes, WriterRaised, SetFailure, FirstFailure,
     FailureCodes, Outcomes, RuntimeSettings
<1>13. CASE RunStarts
  BY <1>13 DEF RunStarts, LoopTop, RecorderStates
<1>14. CASE RunSeesWriter
  BY <1>14 DEF RunSeesWriter, Concludes, WriterVerdict, CancelProducer,
     FirstFailure, FailureCodes, Outcomes, RecorderStates
<1>15. CASE RunReapsProducer
  BY <1>15 DEF RunReapsProducer, Concludes, FailureCodes, Outcomes, RecorderStates
<1>16. CASE RunSeesProducer
  BY <1>16 DEF RunSeesProducer
<1>17. CASE RunDrained
  BY <1>17 DEF RunDrained, Concludes, WriterVerdict, FirstFailure, FailureCodes,
     Outcomes, RecorderStates
<1>18. CASE RunTimesOut
  BY <1>18 DEF RunTimesOut, Concludes, FirstFailure, FailureCodes, Outcomes,
     RecorderStates
<1>19. CASE UNCHANGED vars
  BY <1>19 DEF vars
<1>20. ASSUME NEW answer \in CancelAnswers, SourceAnswersCancel(answer)
       PROVE  TypeOK'
  BY <1>20 DEF SourceAnswersCancel
<1> QED
  BY <1>1, <1>2, <1>3, <1>4, <1>5, <1>6, <1>7, <1>8, <1>9, <1>10, <1>11, <1>12,
     <1>13, <1>14, <1>15, <1>16, <1>17, <1>18, <1>19, <1>20
     DEF Next, Producer, Writer, Run

\* Every variable keeps its type (RecorderSupervisor.__init__ and all tasks).
THEOREM TypeCorrect == Spec => []TypeOK
<1>1. TypeOK /\ [Next]_vars => TypeOK'
  BY TypeStep
<1> QED
  BY TypeInit, <1>1, PTL DEF Spec
-----------------------------------------------------------------------------
(* The inductive invariant.  What the run reports follows from what its tasks *)
(* may be doing together, so each part but the first two relates two tasks.  *)

\* Nothing has happened before run().
NotStarted ==
    rpc = "new" =>
        /\ ppc = "new" /\ wpc = "new" /\ nf = "none" /\ cancel = "no"
        /\ state = "INIT" /\ outcome = "NONE" /\ failure = "NONE"
        /\ received = 0 /\ delivered = 0 /\ discarded = 0
        /\ durable = 0 /\ high_watermark = 0
        /\ queue = <<>> /\ log = <<>> /\ sealed = FALSE
Started == rpc # "new" => ppc # "new" /\ wpc # "new"

\* The task the producer waits for, by where the producer is.
TaskInv ==
    /\ ppc = "put" => nf = "none" /\ delivered > 0
    /\ ppc = "disarm" => nf # "pending"
    /\ ppc \in {"reap", "end", "done"} => nf # "frame"
    /\ ppc = "cancelled" => nf = "cancelled" \/ cancel # "no"
    /\ nf = "frame" => delivered > 0

\* Only a stop cancels the task; a frame thrown away is the last of the run, and
\* a source that returns one did not raise.
LateInv ==
    /\ nf \in {"cancelling", "survived", "late"} => ppc = "reap"
    /\ ppc = "reap" => stop /\ discarded = 0 /\ nf \notin {"pending", "frame"}
    /\ discarded > 0 => discarded = 1 /\ stop /\ nf = "none"
                         /\ ppc \in {"end", "done", "cancelled"}
    /\ failure = "PRODUCER_FAILED" =>
          discarded = 0 /\ ppc \in {"end", "done", "cancelled"}

\* END is the last item of the queue, and the producer has ended.
QueueInv ==
    /\ \A i \in 1 .. Len(queue) : queue[i] = END => i = Len(queue) /\ ProducerDone
    /\ Len(queue) <= settings.queue_capacity
    /\ FramesIn(queue) <= high_watermark
    /\ high_watermark <= settings.queue_capacity

\* Only a writer that failed makes run() cancel the producer.
CancelInv ==
    cancel # "no" \/ rpc = "reap" => wpc \in WriterRaised \cup {"cancelled"}

\* While the writer lives the stream is whole: log, hand, queue and the frame
\* in front of the queue follow each other in the source's order.
FlowInv ==
    WriterAlive =>
        /\ wpc = "hook" => hand = Len(log) + 1
        /\ \A i \in 1 .. Len(queue) :
              queue[i] # END => queue[i] = Len(log) + InHand + i
        /\ received = Len(log) + InHand + FramesIn(queue) + Blocked
        /\ delivered = received + discarded
                          + (IF nf \in {"frame", "late"} THEN 1 ELSE 0)
        /\ durable <= Len(log)
        /\ Len(log) - durable < settings.sync_every_frames
        /\ ~sealed
        /\ failure \in {"NONE", "PRODUCER_FAILED"}

\* A writer that returned has consumed END behind the last frame.
DoneInv ==
    wpc = "done" =>
        /\ ppc = "done" \/ (ppc = "cancelled" /\ nf = "cancelled")
        /\ queue = <<>>
        /\ received = Len(log) /\ delivered = Len(log) + discarded
        /\ durable = Len(log)
        /\ sealed = (settings.seal_on_shutdown /\ log # <<>>)
        /\ outcome # "NONE"

\* What run() has seen at each of its awaits, and what it has said.
RunInv ==
    /\ sealed => wpc = "done"
    /\ rpc \in {"drain", "returned", "raised"} => ProducerDone
    /\ rpc \in {"returned", "raised"} => ~WriterAlive
    /\ rpc = "reap" => failure # "NONE"
    /\ rpc = "returned" => outcome # "NONE"
    /\ state \in {"COMPLETE", "FAILED"} => rpc = "returned"
    /\ state = "COMPLETE" => wpc = "done"
    /\ state = "FAILED" => failure # "NONE"
    /\ outcome \in {"CLEAN_DURABLE", "CLEAN_UNSEALED"} =>
          wpc = "done" /\ failure \in {"NONE", "PRODUCER_FAILED"}
    /\ outcome = "CLEAN_DURABLE" => sealed
    /\ outcome = "CLEAN_UNSEALED" => ~sealed

IInv ==
    /\ TypeOK /\ NotStarted /\ Started /\ TaskInv /\ LateInv /\ QueueInv
    /\ CancelInv /\ CaptureOrder /\ FlowInv /\ DoneInv /\ RunInv
-----------------------------------------------------------------------------
(* Each action preserves each part. *)

\* The frames of a queue that END is appended to, or that loses its head.
LEMMA FramesInAppend ==
    ASSUME NEW q \in Seq(Nat), NEW item \in Nat
    PROVE  FramesIn(Append(q, item)) = IF item = END THEN Len(q) ELSE Len(q) + 1
BY DEF FramesIn, END

LEMMA FramesInTail ==
    ASSUME NEW q \in Seq(Nat), q # <<>>
    PROVE  /\ Head(q) # END => FramesIn(Tail(q)) = FramesIn(q) - 1
           /\ FramesIn(Tail(q)) <= FramesIn(q)
<1>1. \A s \in Seq(Nat) : s # <<>> <=> Len(s) > 0
  BY EmptySeq
<1>2. PICK rest \in Seq(Nat) :
         /\ rest = Tail(q) /\ Len(rest) = Len(q) - 1
         /\ \A i \in 1 .. Len(rest) : rest[i] = q[i + 1]
  BY HeadTailProperties
<1>3. Len(q) \in Nat /\ Len(q) > 0 /\ Head(q) = q[1] /\ Len(rest) \in Nat
  BY <1>1
<1>4. CASE Len(rest) = 0
  <2>1. rest = <<>>
    BY <1>1, <1>4
  <2>2. FramesIn(rest) = 0
    BY <2>1 DEF FramesIn
  <2>3. FramesIn(q) = IF q[1] = END THEN 0 ELSE 1
    BY <1>2, <1>3, <1>4 DEF FramesIn
  <2> QED
    BY <1>2, <1>3, <2>2, <2>3
<1>5. CASE Len(rest) > 0
  <2>1. rest # <<>> /\ rest[Len(rest)] = q[Len(q)]
    <3>1. rest # <<>>
      BY <1>1, <1>5
    <3>2. Len(rest) \in 1 .. Len(rest) /\ Len(rest) + 1 = Len(q)
      BY <1>2, <1>3, <1>5
    <3>3. rest[Len(rest)] = q[Len(rest) + 1]
      BY <1>2, <3>2
    <3> QED
      BY <3>1, <3>2, <3>3
  <2>2. FramesIn(rest) = FramesIn(q) - 1
    BY <1>2, <1>3, <2>1 DEF FramesIn
  <2>3. FramesIn(q) \in Nat
    BY <1>3 DEF FramesIn
  <2> QED
    BY <1>2, <2>2, <2>3
<1> QED
  BY <1>3, <1>4, <1>5

LEMMA FramesInPlain ==
    ASSUME NEW q \in Seq(Nat), \A i \in 1 .. Len(q) : q[i] # END
    PROVE  FramesIn(q) = Len(q)
BY DEF FramesIn, END

LEMMA FramesInNat ==
    ASSUME NEW q \in Seq(Nat)
    PROVE  FramesIn(q) \in Nat /\ FramesIn(q) <= Len(q)
BY DEF FramesIn, END

\* What the settings say, for every run.
LEMMA SettingsType ==
    TypeOK => /\ settings.queue_capacity \in Nat \ {0}
              /\ settings.sync_every_frames \in Nat \ {0}
              /\ settings.seal_on_shutdown \in BOOLEAN
              /\ settings.hook \in BOOLEAN
BY RecorderAssumption DEF TypeOK, RuntimeSettings

LEMMA StartStep ==
    ASSUME NotStarted, Started, [Next]_vars
    PROVE  NotStarted' /\ Started'
<1> USE DEF NotStarted, Started, lifecycle, intake, given, source, storage
<1>1. CASE request_stop \/ UNCHANGED vars
  BY <1>1 DEF request_stop, vars
<1>2. ASSUME NEW result \in TaskResults,
             SourceDelivers(result)
      PROVE  NotStarted' /\ Started'
  BY <1>2 DEF SourceDelivers
<1>6. ASSUME NEW answer \in CancelAnswers, SourceAnswersCancel(answer)
      PROVE  NotStarted' /\ Started'
  BY <1>6 DEF SourceAnswersCancel
<1>3. CASE Producer
  <2>1. ppc # "new" /\ ppc' # "new" /\ UNCHANGED <<rpc, wpc>>
    BY <1>3 DEF Producer, ProducerSeesStop, StopTakes, TakeResult,
       ProducerSeesResult, ProducerDisarmed, ProducerReaped, ProducerPuts, LoopTop,
       ProducerPutsEnd, ProducerCancelled, LeaveCancelled, ProducerAtWait
  <2> QED
    BY <2>1
<1>4. CASE Writer
  <2>1. wpc # "new" /\ wpc' # "new" /\ UNCHANGED <<rpc, ppc>>
    BY <1>4 DEF Writer, WriterTakes, WriterPersists, HookRaises, AppendFails,
       Appends, WriterEnds, FinishesEmpty, FinalSyncFails, CloseFails, SealFails,
       Finishes, WriterRaised
  <2> QED
    BY <2>1
<1>5. CASE Run
  BY <1>5 DEF Run, RunStarts, LoopTop, RunSeesWriter, RunReapsProducer,
     RunSeesProducer, RunDrained, RunTimesOut, Concludes
<1> QED
  BY <1>1, <1>2, <1>3, <1>4, <1>5, <1>6 DEF Next

LEMMA TaskStep ==
    ASSUME TypeOK, NotStarted, TaskInv, LateInv, [Next]_vars
    PROVE  TaskInv'
<1> USE DEF TypeOK, TaskInv, LateInv, intake, given, source
<1>1. CASE request_stop \/ Writer \/ UNCHANGED vars
  BY <1>1 DEF request_stop, Writer, WriterTakes, WriterPersists, WriterEnds, vars
<1>2. ASSUME NEW result \in TaskResults,
             SourceDelivers(result)
      PROVE  TaskInv'
  BY <1>2 DEF SourceDelivers
<1>12. ASSUME NEW answer \in CancelAnswers, SourceAnswersCancel(answer)
       PROVE  TaskInv'
  BY <1>12 DEF SourceAnswersCancel, CancelAnswers
<1>3. CASE ProducerSeesStop
  BY <1>3 DEF ProducerSeesStop, ProducerAtWait, StopTakes, TakeResult
<1>4. CASE ProducerSeesResult
  BY <1>4 DEF ProducerSeesResult, ProducerAtWait
<1>5. CASE ProducerDisarmed
  BY <1>5 DEF ProducerDisarmed, SwallowCancel, TakeResult, LeaveCancelled
<1>6. CASE ProducerReaped
  BY <1>6 DEF ProducerReaped, SwallowCancel
<1>7. CASE ProducerPuts \/ ProducerPutsEnd
  BY <1>7 DEF ProducerPuts, ProducerPutsEnd, LoopTop
<1>8. CASE ProducerCancelled
  BY <1>8 DEF ProducerCancelled, LeaveCancelled
<1>9. CASE RunStarts
  BY <1>9 DEF RunStarts, LoopTop, NotStarted
<1>10. CASE RunSeesWriter
  BY <1>10 DEF RunSeesWriter, CancelProducer
<1>11. CASE RunReapsProducer \/ RunSeesProducer \/ RunDrained \/ RunTimesOut
  BY <1>11 DEF RunReapsProducer, RunSeesProducer, RunDrained, RunTimesOut
<1> QED
  BY <1>1, <1>2, <1>3, <1>4, <1>5, <1>6, <1>7, <1>8, <1>9, <1>10, <1>11, <1>12
     DEF Next, Producer, Run

\* A frame is thrown away only by a producer that a stop has taken out of its
\* loop (_produce, _await_cancelled).
LEMMA LateStep ==
    ASSUME TypeOK, NotStarted, TaskInv, LateInv, DoneInv, RunInv, [Next]_vars
    PROVE  LateInv'
<1> USE DEF TypeOK, TaskInv, LateInv, lifecycle, intake, given, source
<1>1. CASE request_stop \/ UNCHANGED vars
  BY <1>1 DEF request_stop, vars
<1>2. ASSUME NEW result \in TaskResults, SourceDelivers(result)
      PROVE  LateInv'
  BY <1>2 DEF SourceDelivers, TaskResults
<1>3. ASSUME NEW answer \in CancelAnswers, SourceAnswersCancel(answer)
      PROVE  LateInv'
  BY <1>3 DEF SourceAnswersCancel, CancelAnswers
<1>4. CASE ProducerSeesStop
  BY <1>4 DEF ProducerSeesStop, ProducerAtWait, StopTakes, TakeResult, SetFailure,
     FirstFailure
<1>5. CASE ProducerSeesResult
  BY <1>5 DEF ProducerSeesResult, ProducerAtWait
<1>6. CASE ProducerDisarmed
  BY <1>6 DEF ProducerDisarmed, TakeResult, LeaveCancelled, SetFailure, FirstFailure
<1>7. CASE ProducerReaped
  BY <1>7 DEF ProducerReaped, SetFailure, FirstFailure
<1>8. CASE ProducerPuts \/ ProducerPutsEnd
  BY <1>8 DEF ProducerPuts, ProducerPutsEnd, LoopTop
<1>9. CASE ProducerCancelled
  BY <1>9 DEF ProducerCancelled, LeaveCancelled
<1>10. CASE Writer
  <2>1. /\ UNCHANGED <<stop, source, ppc>>
        /\ failure' = "PRODUCER_FAILED" => failure = "PRODUCER_FAILED"
    BY <1>10 DEF Writer, WriterTakes, WriterPersists, HookRaises, AppendFails, Appends,
       WriterEnds, FinishesEmpty, FinalSyncFails, CloseFails, SealFails, Finishes,
       SetFailure, FirstFailure
  <2> QED
    BY <2>1
<1>11. CASE RunStarts
  BY <1>11 DEF RunStarts, LoopTop, NotStarted
<1>12. ASSUME NEW code, NEW shutdown, Concludes(code, shutdown),
              code = "NONE" => wpc = "done",
              code = "PRODUCER_FAILED" => failure = "PRODUCER_FAILED",
              UNCHANGED <<stop, source, ppc>>
       PROVE  LateInv'
  BY <1>12 DEF Concludes, DoneInv
<1>13. wpc \notin {"new", "get", "hook"} =>
          /\ WriterVerdict = "NONE" => wpc = "done"
          /\ WriterVerdict = "PRODUCER_FAILED" => failure = "PRODUCER_FAILED"
  BY DEF WriterVerdict, WriterRaised, FirstFailure
<1>14. CASE RunSeesWriter
  <2>1. wpc \notin {"new", "get", "hook"} /\ UNCHANGED <<stop, given, ppc>>
    BY <1>14 DEF RunSeesWriter, WriterAlive
  <2>2. CASE ProducerDone
    BY <1>12, <1>13, <1>14, <2>1, <2>2 DEF RunSeesWriter
  <2>3. CASE ~ProducerDone
    BY <1>13, <1>14, <2>1, <2>3 DEF RunSeesWriter, CancelProducer
  <2> QED
    BY <2>2, <2>3
<1>15. CASE RunReapsProducer
  BY <1>12, <1>15 DEF RunReapsProducer, RunInv
<1>16. CASE RunSeesProducer
  BY <1>16 DEF RunSeesProducer
<1>17. CASE RunDrained
  BY <1>12, <1>13, <1>17 DEF RunDrained
<1>18. CASE RunTimesOut
  <2>1. /\ FirstFailure("DRAIN_TIMEOUT") # "NONE"
        /\ FirstFailure("DRAIN_TIMEOUT") = "PRODUCER_FAILED" =>
              failure = "PRODUCER_FAILED"
    BY DEF FirstFailure
  <2>2. UNCHANGED <<stop, source, ppc>>
    BY <1>18 DEF RunTimesOut
  <2>3. CASE Concludes(FirstFailure("DRAIN_TIMEOUT"), "TIMED_OUT")
    BY <1>12, <2>1, <2>2, <2>3
  <2>4. CASE failure' = FirstFailure("DRAIN_TIMEOUT")
    BY <2>1, <2>2, <2>4
  <2> QED
    BY <1>18, <2>3, <2>4 DEF RunTimesOut
<1> QED
  BY <1>1, <1>2, <1>3, <1>4, <1>5, <1>6, <1>7, <1>8, <1>9, <1>10, <1>11, <1>14,
     <1>15, <1>16, <1>17, <1>18 DEF Next, Producer, Run

\* The queue never holds anything behind END (_enqueue, and the put_nowait of a
\* cancelled producer), and no more than its capacity.
LEMMA QueueStep ==
    ASSUME TypeOK, NotStarted, TaskInv, QueueInv, [Next]_vars
    PROVE  QueueInv'
<1> USE DEF TypeOK, intake, given, source
<1>1. CASE UNCHANGED <<queue, settings, high_watermark, ppc>>
  BY <1>1 DEF QueueInv, ProducerDone, FramesIn
<1>2. ASSUME UNCHANGED <<queue, settings, high_watermark>>, ~ProducerDone
      PROVE  QueueInv'
  BY <1>2 DEF QueueInv, ProducerDone, FramesIn
<1>3. ASSUME NEW item \in Nat, queue' = Append(queue, item), ~QueueFull, ~ProducerDone,
             item = END <=> ProducerDone',
             settings' = settings,
             high_watermark' = IF item = END \/ Len(queue') <= high_watermark
                               THEN high_watermark ELSE Len(queue')
      PROVE  QueueInv'
  <2>1. /\ Len(queue') = Len(queue) + 1
        /\ \A i \in 1 .. Len(queue) : queue'[i] = queue[i]
        /\ queue'[Len(queue) + 1] = item
    BY <1>3, AppendProperties
  <2>2. \A i \in 1 .. Len(queue) : queue[i] # END
    BY <1>3 DEF QueueInv
  <2>3. FramesIn(queue) = Len(queue)
    BY <2>2, FramesInPlain
  <2>4. FramesIn(queue') = IF item = END THEN Len(queue) ELSE Len(queue) + 1
    BY <1>3, FramesInAppend
  <2>5. \A i \in 1 .. Len(queue') :
           queue'[i] = END => i = Len(queue') /\ ProducerDone'
    BY <1>3, <2>1, <2>2
  <2>6. Len(queue) < settings.queue_capacity
    BY <1>3, SettingsType DEF QueueFull
  <2>7. /\ Len(queue') <= settings.queue_capacity
        /\ FramesIn(queue)' <= high_watermark'
        /\ high_watermark' <= settings.queue_capacity
    BY SMTT(20), <1>3, <2>1, <2>3, <2>4, <2>6, SettingsType DEF QueueInv, FramesIn
  <2> QED
    BY <1>3, <2>5, <2>7 DEF QueueInv
<1>4. ASSUME queue # <<>>, queue' = Tail(queue),
             UNCHANGED <<settings, high_watermark, ppc>>
      PROVE  QueueInv'
  <2>1. /\ Len(queue') = Len(queue) - 1 /\ Len(queue) \in Nat
        /\ \A i \in 1 .. Len(queue') : queue'[i] = queue[i + 1]
    BY <1>4, HeadTailProperties
  <2>2. \A i \in 1 .. Len(queue') :
           queue'[i] = END => i = Len(queue') /\ ProducerDone'
    <3> SUFFICES ASSUME NEW i \in 1 .. Len(queue'), queue'[i] = END
                 PROVE  i = Len(queue') /\ ProducerDone'
      OBVIOUS
    <3>1. i + 1 \in 1 .. Len(queue) /\ queue[i + 1] = END
      BY <2>1
    <3>2. i + 1 = Len(queue) /\ ProducerDone
      BY <3>1 DEF QueueInv
    <3>3. i = Len(queue')
      BY <2>1, <3>2
    <3>4. ProducerDone'
      BY <1>4, <3>2 DEF ProducerDone
    <3> QED
      BY <3>3, <3>4
  <2>3. FramesIn(queue') <= FramesIn(queue)
    BY <1>4, FramesInTail
  <2>4. FramesIn(queue') \in Nat /\ FramesIn(queue) \in Nat
    BY <1>4, FramesInNat, HeadTailProperties
  <2>5. FramesIn(queue)' <= high_watermark'
    <3>1. FramesIn(queue') <= high_watermark
      BY <2>3, <2>4 DEF QueueInv
    <3> QED
      BY <1>4, <3>1 DEF FramesIn
  <2>6. Len(queue') <= settings.queue_capacity
    BY <2>1, SettingsType DEF QueueInv
  <2> QED
    BY <1>4, <2>2, <2>5, <2>6 DEF QueueInv
<1>5. ASSUME LeaveCancelled, UNCHANGED <<settings, high_watermark>>, ~ProducerDone
      PROVE  QueueInv'
  <2>1. CASE queue' = queue
    BY <1>2, <1>5, <2>1
  <2>2. CASE queue' = Append(queue, END) /\ ~QueueFull
    BY <1>3, <1>5, <2>2 DEF LeaveCancelled, ProducerDone, END
  <2> QED
    BY <1>5, <2>1, <2>2 DEF LeaveCancelled
<1>6. CASE request_stop \/ UNCHANGED vars
  BY <1>1, <1>6 DEF request_stop, vars
<1>7. ASSUME NEW result \in TaskResults,
             SourceDelivers(result)
      PROVE  QueueInv'
  BY <1>1, <1>7 DEF SourceDelivers
<1>17. ASSUME NEW answer \in CancelAnswers, SourceAnswersCancel(answer)
       PROVE  QueueInv'
  BY <1>1, <1>17 DEF SourceAnswersCancel
<1>8. CASE ProducerSeesStop \/ ProducerSeesResult \/ ProducerReaped
  BY <1>2, <1>8 DEF ProducerSeesStop, ProducerSeesResult, ProducerReaped,
     ProducerAtWait, StopTakes, TakeResult, ProducerDone
<1>9. CASE ProducerDisarmed
  BY <1>2, <1>5, <1>9 DEF ProducerDisarmed, TakeResult, ProducerDone
<1>10. CASE ProducerPuts
  BY <1>3, <1>10, FramesInNat DEF ProducerPuts, PutItem, LoopTop, TaskInv,
     ProducerDone, END
<1>11. CASE ProducerPutsEnd
  BY <1>3, <1>11 DEF ProducerPutsEnd, PutItem, ProducerDone, END
<1>12. CASE ProducerCancelled
  BY <1>5, <1>12 DEF ProducerCancelled, ProducerDone
<1>13. CASE WriterTakes \/ WriterEnds
  BY <1>4, <1>13 DEF WriterTakes, WriterEnds
<1>14. CASE WriterPersists
  BY <1>1, <1>14 DEF WriterPersists
<1>15. CASE RunStarts
  BY <1>2, <1>15 DEF RunStarts, NotStarted, ProducerDone
<1>16. CASE RunSeesWriter \/ RunReapsProducer \/ RunSeesProducer \/ RunDrained
            \/ RunTimesOut
  BY <1>1, <1>16 DEF RunSeesWriter, RunReapsProducer, RunSeesProducer, RunDrained,
     RunTimesOut
<1> QED
  BY <1>6, <1>7, <1>8, <1>9, <1>10, <1>11, <1>12, <1>13, <1>14, <1>15, <1>16, <1>17
     DEF Next, Producer, Writer, Run

\* run() cancels the producer only when the writer has failed (recorder.py, run).
LEMMA CancelStep ==
    ASSUME TypeOK, NotStarted, CancelInv, DoneInv, [Next]_vars
    PROVE  CancelInv'
<1> USE DEF TypeOK, CancelInv, WriterRaised
<1>1. CASE request_stop \/ UNCHANGED vars
  BY <1>1 DEF request_stop, vars
<1>2. ASSUME NEW result \in TaskResults,
             SourceDelivers(result)
      PROVE  CancelInv'
  BY <1>2 DEF SourceDelivers
<1>8. ASSUME NEW answer \in CancelAnswers, SourceAnswersCancel(answer)
      PROVE  CancelInv'
  BY <1>8 DEF SourceAnswersCancel
<1>3. CASE Producer
  BY <1>3 DEF Producer, ProducerSeesStop, ProducerSeesResult, ProducerDisarmed,
     ProducerReaped, ProducerPuts, ProducerPutsEnd, ProducerCancelled, SwallowCancel
<1>4. CASE Writer
  BY <1>4 DEF Writer, WriterTakes, WriterPersists, WriterEnds
<1>5. CASE RunStarts
  BY <1>5 DEF RunStarts, NotStarted
<1>6. CASE RunSeesWriter
  BY <1>6 DEF RunSeesWriter, WriterAlive, ProducerDone, DoneInv, Concludes
<1>7. CASE RunReapsProducer \/ RunSeesProducer \/ RunDrained \/ RunTimesOut
  BY <1>7 DEF RunReapsProducer, RunSeesProducer, RunDrained, RunTimesOut, Concludes,
     WriterAlive
<1> QED
  BY <1>1, <1>2, <1>3, <1>4, <1>5, <1>6, <1>7, <1>8 DEF Next, Run

\* The stream stays whole through every step a living writer leaves it in.
LEMMA FlowStep ==
    ASSUME TypeOK, NotStarted, TaskInv, LateInv, QueueInv, CancelInv, FlowInv,
           [Next]_vars
    PROVE  FlowInv'
<1> SUFFICES ASSUME WriterAlive'
             PROVE  FlowInv'
  BY DEF FlowInv
<1> USE DEF TypeOK, lifecycle, intake, given, source, storage
<1>0. /\ settings.sync_every_frames \in Nat \ {0}
      /\ Len(log) \in Nat /\ Len(queue) \in Nat /\ FramesIn(queue) \in Nat
      /\ InHand \in {0, 1} /\ Blocked \in {0, 1}
  BY SettingsType, FramesInNat DEF InHand, Blocked
<1>1. CASE request_stop \/ UNCHANGED vars
  BY <1>1 DEF request_stop, vars, FlowInv, WriterAlive, InHand, Blocked, FramesIn
<1>2. ASSUME NEW result \in TaskResults,
             SourceDelivers(result)
      PROVE  FlowInv'
  <2>1. /\ FramesIn(queue)' = FramesIn(queue) /\ InHand' = InHand /\ Blocked' = Blocked
        /\ nf \notin {"frame", "late"}
        /\ nf' \in {"frame", "late"} <=> result = "frame"
        /\ delivered' = IF result = "frame" THEN delivered + 1 ELSE delivered
        /\ UNCHANGED <<settings, failure, received, discarded, queue, storage, wpc, hand>>
    BY <1>2 DEF SourceDelivers, TaskResults, FramesIn, InHand, Blocked
  <2> QED
    BY <2>1 DEF FlowInv, WriterAlive
<1>18. ASSUME NEW answer \in CancelAnswers, SourceAnswersCancel(answer)
       PROVE  FlowInv'
  <2>1. /\ FramesIn(queue)' = FramesIn(queue) /\ InHand' = InHand /\ Blocked' = Blocked
        /\ nf \notin {"frame", "late"} /\ nf' \notin {"frame", "late"}
        /\ UNCHANGED <<settings, failure, received, given, queue, storage, wpc, hand>>
    BY <1>18 DEF SourceAnswersCancel, CancelAnswers, FramesIn, InHand, Blocked
  <2> QED
    BY <2>1 DEF FlowInv, WriterAlive
<1>3. ASSUME \/ TakeResult
             \/ /\ UNCHANGED <<received, lifecycle, queue>>
                /\ nf' \in {"frame", "late"} <=> nf \in {"frame", "late"},
             ppc # "put",
             TakeResult \/ ppc' # "put",
             UNCHANGED <<settings, storage, given, wpc, hand>>
      PROVE  FlowInv'
  <2>1. FramesIn(queue)' = FramesIn(queue) /\ InHand' = InHand /\ Blocked = 0
    BY <1>3 DEF TakeResult, FramesIn, InHand, Blocked
  <2>3. CASE TakeResult
    <3>1. /\ received' = received + Blocked' /\ Blocked' \in {0, 1} /\ nf' = "none"
          /\ received' = received + (IF nf = "frame" THEN 1 ELSE 0) /\ nf # "late"
          /\ failure' \in {failure, FirstFailure("PRODUCER_FAILED")}
      BY <2>3 DEF TakeResult, SetFailure, Blocked
    <3>2. WriterAlive
      BY <1>3 DEF WriterAlive
    <3>3. /\ received' = Len(log') + InHand' + FramesIn(queue)' + Blocked'
          /\ delivered' = received' + discarded'
                             + (IF nf' \in {"frame", "late"} THEN 1 ELSE 0)
      <4>1. /\ received = Len(log) + InHand + FramesIn(queue)
            /\ delivered = received + discarded + (IF nf = "frame" THEN 1 ELSE 0)
        BY <1>0, <2>1, <3>1, <3>2 DEF FlowInv
      <4>2. received \in Nat /\ discarded \in Nat
        OBVIOUS
      <4>3. log' = log /\ delivered' = delivered /\ discarded' = discarded
        BY <1>3
      <4> HIDE DEF TypeOK
      <4>4. received' = Len(log') + InHand' + FramesIn(queue)' + Blocked'
        BY <1>0, <2>1, <3>1, <4>1, <4>3
      <4>5. (IF nf' \in {"frame", "late"} THEN 1 ELSE 0) = 0
        BY <3>1
      <4>6. delivered' = received' + discarded' + 0
        <5>1. CASE nf = "frame"
          <6>1. delivered = received + discarded + 1 /\ received' = received + 1
            BY <3>1, <4>1, <5>1
          <6> QED
            BY <4>2, <4>3, <6>1
        <5>2. CASE nf # "frame"
          <6>1. delivered = received + discarded /\ received' = received
            BY <3>1, <4>1, <4>2, <5>2
          <6> QED
            BY <4>2, <4>3, <6>1
        <5> QED
          BY <5>1, <5>2
      <4> QED
        BY <4>4, <4>5, <4>6
    <3>4. failure' \in {"NONE", "PRODUCER_FAILED"}
      BY <3>1, <3>2 DEF FlowInv, FirstFailure
    <3> QED
      BY <1>3, <2>1, <2>3, <3>2, <3>3, <3>4 DEF TakeResult, FlowInv, WriterAlive
  <2>4. CASE ~TakeResult
    BY <1>0, <1>3, <2>1, <2>4 DEF FlowInv, WriterAlive, Blocked
  <2> QED
    BY <2>3, <2>4
<1>4. ASSUME NEW item \in Nat, queue' = Append(queue, item), ~ProducerDone
      PROVE  /\ FramesIn(queue) = Len(queue)
             /\ FramesIn(queue') = IF item = END THEN Len(queue) ELSE Len(queue) + 1
             /\ Len(queue) \in Nat /\ Len(queue') = Len(queue) + 1
             /\ \A i \in 1 .. Len(queue) : queue'[i] = queue[i]
             /\ queue'[Len(queue) + 1] = item
  <2>1. \A i \in 1 .. Len(queue) : queue[i] # END
    BY <1>4 DEF QueueInv
  <2>2. queue \in Seq(Nat)
    OBVIOUS
  <2> HIDE DEF TypeOK
  <2> QED
    BY <1>4, <2>1, <2>2, FramesInPlain, FramesInAppend, AppendProperties
<1>5. ASSUME queue' = Append(queue, END), ~ProducerDone, ppc # "put", ppc' # "put",
             UNCHANGED <<settings, lifecycle, received, storage, source, wpc, hand>>
      PROVE  FlowInv'
  <2>1. /\ FramesIn(queue)' = FramesIn(queue) /\ Len(queue) \in Nat
        /\ Len(queue') = Len(queue) + 1 /\ queue'[Len(queue) + 1] = END
        /\ \A i \in 1 .. Len(queue) : queue'[i] = queue[i]
    <3>1. END \in Nat
      BY DEF END
    <3>2. FramesIn(queue) = Len(queue) /\ FramesIn(queue') = Len(queue)
      BY <1>4, <1>5, <3>1
    <3>3. FramesIn(queue') = FramesIn(queue)'
      BY DEF FramesIn
    <3> QED
      BY <1>4, <1>5, <3>1, <3>2, <3>3
  <2>2. ASSUME WriterAlive, NEW i \in 1 .. Len(queue'), queue'[i] # END
        PROVE  queue'[i] = Len(log) + InHand + i
    <3>1. \A k \in 1 .. Len(queue) : queue[k] # END => queue[k] = Len(log) + InHand + k
      BY <2>2 DEF FlowInv
    <3>2. i \in 1 .. Len(queue)
      BY <2>1, <2>2
    <3> QED
      BY <2>1, <2>2, <3>1, <3>2
  <2> QED
    BY <1>5, <2>1, <2>2 DEF FlowInv, WriterAlive, InHand, Blocked
<1>6. ASSUME LeaveCancelled, ppc # "put", ~ProducerDone,
             UNCHANGED <<settings, lifecycle, received, storage, given, wpc, hand>>
      PROVE  FlowInv'
  <2>1. CASE queue' = queue
    BY <1>6, <2>1 DEF LeaveCancelled, FlowInv, WriterAlive, InHand, Blocked, FramesIn
  <2> QED
    BY <1>5, <1>6, <2>1 DEF LeaveCancelled
<1>7. CASE ProducerSeesStop \/ ProducerSeesResult \/ ProducerReaped
  <2>1. CASE ProducerReaped
    <3>1. /\ ppc = "reap" /\ nf # "frame" /\ nf' = "none"
          /\ discarded' = IF nf = "late" THEN discarded + 1 ELSE discarded
          /\ failure' \in {failure, FirstFailure("PRODUCER_FAILED")}
          /\ FramesIn(queue)' = FramesIn(queue) /\ InHand' = InHand
          /\ Blocked = 0 /\ Blocked' = 0
          /\ UNCHANGED <<settings, received, delivered, queue, storage, wpc, hand>>
      BY <2>1 DEF ProducerReaped, TaskInv, SetFailure, InHand, Blocked, FramesIn
    <3> QED
      BY <3>1 DEF FirstFailure, FlowInv, WriterAlive
  <2> QED
    BY <1>3, <1>7, <2>1 DEF ProducerSeesStop, ProducerSeesResult, ProducerAtWait, StopTakes
<1>8. CASE ProducerDisarmed
  BY <1>3, <1>6, <1>8 DEF ProducerDisarmed, ProducerDone
<1>9. CASE ProducerPuts
  <2>1. /\ delivered = Len(log) + InHand + Len(queue) + 1 /\ delivered # END
        /\ FramesIn(queue) = Len(queue) /\ Len(queue') = Len(queue) + 1
        /\ FramesIn(queue') = Len(queue) + 1 /\ Len(queue) \in Nat
        /\ queue'[Len(queue) + 1] = delivered
        /\ \A i \in 1 .. Len(queue) : queue'[i] = queue[i]
    <3>1. /\ ppc = "put" /\ nf = "none" /\ delivered > 0 /\ WriterAlive
          /\ queue' = Append(queue, delivered) /\ ~ProducerDone
      BY <1>9 DEF ProducerPuts, PutItem, TaskInv, ProducerDone, WriterAlive
    <3>2. received = Len(log) + InHand + FramesIn(queue) + 1 /\ delivered = received
      BY <3>1 DEF FlowInv, LateInv, Blocked
    <3>3. delivered # END /\ Len(log) \in Nat /\ InHand \in {0, 1}
      BY <3>1 DEF END, InHand
    <3> QED
      BY <1>4, <3>1, <3>2, <3>3
  <2>2. \A i \in 1 .. Len(queue') :
           queue'[i] # END => queue'[i] = Len(log) + InHand + i
    <3>1. \A i \in 1 .. Len(queue) :
             queue[i] # END => queue[i] = Len(log) + InHand + i
      BY <1>9 DEF ProducerPuts, FlowInv, WriterAlive
    <3>2. \A i \in 1 .. Len(queue') : i \in 1 .. Len(queue) \/ i = Len(queue) + 1
      BY <2>1
    <3>3. delivered = Len(log) + InHand + (Len(queue) + 1)
      BY <1>0, <2>1
    <3> QED
      BY <2>1, <3>1, <3>2, <3>3
  <2>3. /\ FramesIn(queue)' = Len(queue) + 1
        /\ nf' \notin {"frame", "late"} /\ Blocked' = 0 /\ Blocked = 1 /\ nf = "none"
        /\ UNCHANGED <<settings, lifecycle, received, storage, given, wpc, hand>>
    BY <1>9, <2>1 DEF ProducerPuts, LoopTop, TaskInv, Blocked, FramesIn
  <2>4. WriterAlive /\ InHand' = InHand
    BY <2>3 DEF WriterAlive, InHand
  <2>5. /\ received' = Len(log') + InHand' + FramesIn(queue)' + Blocked'
        /\ delivered' = received' + discarded'
                           + (IF nf' \in {"frame", "late"} THEN 1 ELSE 0)
    BY <1>0, <2>1, <2>3, <2>4 DEF FlowInv
  <2> QED
    BY <2>2, <2>3, <2>4, <2>5 DEF FlowInv, WriterAlive
<1>10. CASE ProducerPutsEnd
  BY <1>5, <1>10 DEF ProducerPutsEnd, PutItem, ProducerDone
<1>11. CASE ProducerCancelled
  BY <1>11 DEF ProducerCancelled, CancelInv, WriterAlive, WriterRaised
<1>12. CASE WriterTakes
  <2>1. /\ wpc = "get" /\ wpc' = "hook" /\ queue # <<>> /\ Head(queue) # END
        /\ queue' = Tail(queue) /\ hand' = Head(queue)
        /\ UNCHANGED <<settings, lifecycle, intake, storage, source, ppc>>
    BY <1>12 DEF WriterTakes, WriterAlive, WriterRaised
  <2>2. /\ Len(queue) \in Nat \ {0} /\ Head(queue) = queue[1]
        /\ Len(queue') = Len(queue) - 1
        /\ \A i \in 1 .. Len(queue') : queue'[i] = queue[i + 1]
    BY <2>1, HeadTailProperties, EmptySeq
  <2>3. hand' = Len(log) + 1
    BY <2>1, <2>2 DEF FlowInv, WriterAlive, InHand
  <2>4. \A i \in 1 .. Len(queue') :
           queue'[i] # END => queue'[i] = Len(log) + 1 + i
    <3> SUFFICES ASSUME NEW i \in 1 .. Len(queue'), queue'[i] # END
                 PROVE  queue'[i] = Len(log) + 1 + i
      OBVIOUS
    <3>1. i + 1 \in 1 .. Len(queue) /\ queue'[i] = queue[i + 1]
      BY <2>2
    <3>2. queue[i + 1] = Len(log) + 0 + (i + 1)
      BY <2>1, <3>1 DEF FlowInv, WriterAlive, InHand
    <3> QED
      BY <3>1, <3>2
  <2>5. FramesIn(queue)' = FramesIn(queue) - 1 /\ FramesIn(queue) \in Nat
    <3>1. FramesIn(Tail(queue)) = FramesIn(queue) - 1
      BY <2>1, FramesInTail
    <3> QED
      BY <2>1, <3>1, FramesInNat DEF FramesIn
  <2>6. InHand = 0 /\ InHand' = 1 /\ Blocked' = Blocked /\ Blocked \in {0, 1}
    BY <2>1 DEF InHand, Blocked
  <2>7. received' = Len(log') + InHand' + FramesIn(queue)' + Blocked'
    <3>1. received = Len(log) + InHand + FramesIn(queue) + Blocked
      BY <2>1 DEF FlowInv, WriterAlive
    <3> QED
      BY <2>1, <2>5, <2>6, <3>1
  <2>8. delivered' = received' + discarded'
                       + (IF nf' \in {"frame", "late"} THEN 1 ELSE 0)
    BY <2>1 DEF FlowInv, WriterAlive
  <2>9. \A i \in 1 .. Len(queue') : queue'[i] # END => queue'[i] = Len(log') + InHand' + i
    BY <2>1, <2>4, <2>6
  <2> QED
    BY <2>1, <2>3, <2>7, <2>8, <2>9 DEF FlowInv, WriterAlive
<1>13. CASE WriterPersists
  <2>1. /\ wpc = "hook" /\ wpc' = "get" /\ log' = Append(log, hand)
        /\ UNCHANGED <<settings, lifecycle, intake, queue, source, ppc, sealed>>
        /\ \/ ~SyncDue(Len(log')) /\ durable' = durable
           \/ durable' = Len(log')
    BY <1>13 DEF WriterPersists, HookRaises, AppendFails, Appends, WriterAlive,
       WriterRaised
  <2>2. Len(log') = Len(log) + 1 /\ Len(log) \in Nat
    BY <2>1, AppendProperties
  <2>3. /\ durable' <= Len(log')
        /\ Len(log') - durable' < settings.sync_every_frames
    <3>1. durable \in Nat /\ durable <= Len(log)
      BY <2>1 DEF FlowInv, WriterAlive
    <3>2. settings.sync_every_frames \in Nat \ {0} /\ settings' = settings
      BY <1>0, <2>1
    <3> HIDE DEF TypeOK
    <3> QED
      BY <2>1, <2>2, <3>1, <3>2 DEF SyncDue
  <2>4. InHand = 1 /\ InHand' = 0 /\ Blocked' = Blocked /\ Blocked \in {0, 1}
        /\ FramesIn(queue)' = FramesIn(queue) /\ FramesIn(queue) \in Nat
    BY <2>1, FramesInNat DEF InHand, Blocked, FramesIn
  <2> QED
    BY <2>1, <2>2, <2>3, <2>4 DEF FlowInv, WriterAlive
<1>14. CASE WriterEnds
  BY <1>14 DEF WriterEnds, FinishesEmpty, FinalSyncFails, CloseFails, SealFails,
     Finishes, WriterAlive, WriterRaised
<1>15. CASE RunStarts
  BY <1>0, <1>15 DEF RunStarts, LoopTop, NotStarted, FlowInv, WriterAlive, InHand,
     Blocked, FramesIn
<1>16. CASE RunSeesWriter \/ RunReapsProducer \/ RunDrained \/ RunTimesOut
  BY <1>16 DEF RunSeesWriter, RunReapsProducer, RunDrained, RunTimesOut, CancelInv,
     WriterAlive, WriterRaised
<1>17. CASE RunSeesProducer
  BY <1>17 DEF RunSeesProducer, FlowInv, WriterAlive, InHand, Blocked, FramesIn
<1> QED
  BY <1>1, <1>2, <1>7, <1>8, <1>9, <1>10, <1>11, <1>12, <1>13, <1>14, <1>15, <1>16,
     <1>17, <1>18 DEF Next, Producer, Writer, Run

\* The log only grows by the frame that follows its last one (_write).
LEMMA OrderStep ==
    ASSUME TypeOK, FlowInv, CaptureOrder, [Next]_vars
    PROVE  CaptureOrder'
<1> USE DEF TypeOK, storage
<1>1. CASE log' = log
  BY <1>1 DEF CaptureOrder
<1>2. CASE WriterPersists
  <2>1. CASE Appends
    <3>1. hand = Len(log) + 1 /\ log' = Append(log, hand)
      BY <1>2, <2>1 DEF WriterPersists, Appends, FlowInv, WriterAlive
    <3>2. /\ DOMAIN log' = 1 .. Len(log) + 1 /\ log'[Len(log) + 1] = Len(log) + 1
          /\ \A i \in 1 .. Len(log) : log'[i] = log[i]
      BY <3>1, AppendProperties, LenProperties
    <3>3. \A i \in 1 .. Len(log) + 1 : i \in 1 .. Len(log) \/ i = Len(log) + 1
      OBVIOUS
    <3> QED
      BY <3>2, <3>3 DEF CaptureOrder
  <2> QED
    BY <1>1, <1>2, <2>1 DEF WriterPersists, HookRaises, AppendFails
<1>3. CASE WriterEnds
  BY <1>1, <1>3 DEF WriterEnds, FinishesEmpty, FinalSyncFails, CloseFails, SealFails,
     Finishes
<1>4. CASE request_stop \/ WriterTakes \/ UNCHANGED vars
  BY <1>1, <1>4 DEF request_stop, WriterTakes, vars
<1>5. ASSUME NEW result \in TaskResults,
             SourceDelivers(result)
      PROVE  CaptureOrder'
  BY <1>1, <1>5 DEF SourceDelivers
<1>8. ASSUME NEW answer \in CancelAnswers, SourceAnswersCancel(answer)
      PROVE  CaptureOrder'
  BY <1>1, <1>8 DEF SourceAnswersCancel
<1>6. CASE Producer
  BY <1>1, <1>6 DEF Producer, ProducerSeesStop, ProducerSeesResult, ProducerDisarmed,
     ProducerReaped, ProducerPuts, ProducerPutsEnd, ProducerCancelled
<1>7. CASE Run
  BY <1>1, <1>7 DEF Run, RunStarts, RunSeesWriter, RunReapsProducer, RunSeesProducer,
     RunDrained, RunTimesOut
<1> QED
  BY <1>2, <1>3, <1>4, <1>5, <1>6, <1>7, <1>8 DEF Next, Writer

\* END is taken from the queue behind the last frame, by a writer that then
\* leaves everything durable; nothing moves once it is done.
LEMMA DoneStep ==
    ASSUME TypeOK, NotStarted, TaskInv, LateInv, QueueInv, CancelInv, FlowInv, DoneInv,
           [Next]_vars
    PROVE  DoneInv'
<1> SUFFICES ASSUME wpc' = "done"
             PROVE  DoneInv'
  BY DEF DoneInv
<1> USE DEF TypeOK, lifecycle, intake, given, source, storage
<1>1. CASE UNCHANGED <<settings, outcome, received, queue, storage, source, ppc, wpc>>
  BY <1>1 DEF DoneInv
<1>2. CASE request_stop \/ UNCHANGED vars
  BY <1>1, <1>2 DEF request_stop, vars
<1>3. ASSUME NEW result \in TaskResults,
             SourceDelivers(result)
      PROVE  DoneInv'
  BY <1>3 DEF SourceDelivers, LateInv, DoneInv
<1>11. ASSUME NEW answer \in CancelAnswers, SourceAnswersCancel(answer)
       PROVE  DoneInv'
  BY <1>11 DEF SourceAnswersCancel, DoneInv
<1>4. CASE Producer
  <2>1. ppc \in {"wait", "disarm", "reap", "put", "end"} /\ wpc' = wpc
    BY <1>4 DEF Producer, ProducerSeesStop, ProducerSeesResult, ProducerAtWait,
       ProducerDisarmed, ProducerReaped, ProducerPuts, ProducerPutsEnd,
       ProducerCancelled
  <2> QED
    BY <2>1 DEF DoneInv
<1>5. CASE WriterTakes \/ WriterPersists
  BY <1>5 DEF WriterTakes, WriterPersists, HookRaises, AppendFails, Appends, WriterRaised
<1>6. CASE WriterEnds
  <2>1. /\ wpc = "get" /\ WriterAlive /\ queue # <<>> /\ Head(queue) = END
        /\ queue' = Tail(queue)
        /\ UNCHANGED <<settings, received, source, ppc>>
        /\ FinishesEmpty \/ Finishes
    BY <1>6 DEF WriterEnds, WriterAlive, FinalSyncFails, CloseFails, SealFails,
       WriterRaised
  <2>2. Len(queue) = 1 /\ queue[1] = END /\ ProducerDone /\ queue' = <<>>
    <3>1. Len(queue) \in Nat \ {0} /\ Head(queue) = queue[1]
      BY <2>1, EmptySeq
    <3>2. Len(queue) = 1 /\ ProducerDone
      <4>1. 1 \in 1 .. Len(queue) /\ queue[1] = END
        BY <2>1, <3>1
      <4> QED
        BY <4>1 DEF QueueInv
    <3>3. Len(queue') = 0 /\ queue' \in Seq(Nat)
      BY <2>1, <3>2, HeadTailProperties
    <3> QED
      BY <2>1, <3>1, <3>2, <3>3, EmptySeq
  <2>3. /\ nf \notin {"frame", "late"}
        /\ ppc = "done" \/ (ppc = "cancelled" /\ nf = "cancelled")
    BY <2>1, <2>2 DEF TaskInv, LateInv, CancelInv, ProducerDone, WriterAlive, WriterRaised
  <2>4. received = Len(log) /\ delivered = Len(log) + discarded
    <3>1. FramesIn(queue) = 0 /\ InHand = 0 /\ Blocked = 0
      BY <2>1, <2>2, <2>3 DEF FramesIn, InHand, Blocked
    <3>2. Len(log) \in Nat /\ discarded \in Nat
      OBVIOUS
    <3> HIDE DEF TypeOK
    <3> QED
      BY <2>1, <2>3, <3>1, <3>2 DEF FlowInv
  <2>5. /\ durable' = Len(log') /\ log' = log /\ outcome' # "NONE"
        /\ sealed' = (settings.seal_on_shutdown /\ log # <<>>)
    <3>1. CASE FinishesEmpty
      <4>1. log = <<>> /\ UNCHANGED storage /\ outcome' # "NONE"
        BY <3>1 DEF FinishesEmpty
      <4>2. durable = 0 /\ sealed = FALSE
        BY <2>1, <4>1 DEF FlowInv
      <4> QED
        BY <4>1, <4>2
    <3>2. CASE Finishes
      <4>1. settings.seal_on_shutdown \in BOOLEAN
        BY SettingsType
      <4> QED
        BY <3>2, <4>1 DEF Finishes
    <3> QED
      BY <2>1, <3>1, <3>2
  <2>6. UNCHANGED <<delivered, discarded, nf, ppc, received, settings>>
    BY <2>1
  <2> HIDE DEF TypeOK
  <2> QED
    BY <2>2, <2>3, <2>4, <2>5, <2>6 DEF DoneInv
<1>7. CASE RunStarts
  BY <1>7 DEF RunStarts
<1>8. CASE RunSeesWriter \/ RunDrained
  BY <1>8 DEF RunSeesWriter, RunDrained, Concludes, ProducerDone, DoneInv
<1>9. CASE RunReapsProducer \/ RunSeesProducer
  BY <1>9 DEF RunReapsProducer, RunSeesProducer, Concludes, DoneInv
<1>10. CASE RunTimesOut
  BY <1>10 DEF RunTimesOut, Concludes, DoneInv, WriterAlive
<1> QED
  BY <1>2, <1>3, <1>4, <1>5, <1>6, <1>7, <1>8, <1>9, <1>10, <1>11
     DEF Next, Writer, Run

\* What run() says never contradicts what its tasks are doing or have done.
LEMMA RunStep ==
    ASSUME TypeOK, NotStarted, Started, CancelInv, FlowInv, DoneInv, RunInv, [Next]_vars
    PROVE  RunInv'
<1> USE DEF TypeOK, lifecycle, intake, given, source, storage
<1>1. CASE request_stop \/ UNCHANGED vars
  BY <1>1 DEF request_stop, vars, RunInv, ProducerDone, WriterAlive
<1>2. ASSUME NEW result \in TaskResults,
             SourceDelivers(result)
      PROVE  RunInv'
  BY <1>2 DEF SourceDelivers, RunInv, ProducerDone, WriterAlive
<1>15. ASSUME NEW answer \in CancelAnswers, SourceAnswersCancel(answer)
       PROVE  RunInv'
  BY <1>15 DEF SourceAnswersCancel, RunInv, ProducerDone, WriterAlive
<1>3. CASE Producer
  <2>1. /\ ~ProducerDone /\ failure' \in {failure, FirstFailure("PRODUCER_FAILED")}
        /\ UNCHANGED <<state, outcome, sealed, wpc, rpc>>
    BY <1>3 DEF Producer, ProducerSeesStop, StopTakes, TakeResult, ProducerAtWait,
       ProducerSeesResult, ProducerDisarmed, ProducerReaped, ProducerPuts,
       ProducerPutsEnd, ProducerCancelled, SetFailure, ProducerDone
  <2>2. wpc # "done"
    BY <2>1 DEF DoneInv, ProducerDone
  <2> QED
    BY <2>1, <2>2 DEF RunInv, FirstFailure, WriterAlive
<1>4. CASE WriterTakes
  BY <1>4 DEF WriterTakes, RunInv, WriterAlive, WriterRaised, ProducerDone
<1>5. CASE WriterPersists
  <2>1. /\ wpc = "hook" /\ wpc' # "done"
        /\ failure' \in {failure, FirstFailure("APPEND_FAILED"),
                         FirstFailure("SYNC_FAILED")}
        /\ UNCHANGED <<state, outcome, sealed, rpc, ppc>>
    BY <1>5 DEF WriterPersists, HookRaises, AppendFails, Appends, SetFailure,
       WriterRaised
  <2> QED
    BY <2>1 DEF RunInv, WriterAlive, ProducerDone, FirstFailure
<1>6. CASE WriterEnds
  <2>1. wpc = "get" /\ UNCHANGED <<ppc, rpc>>
    BY <1>6 DEF WriterEnds
  <2>2. ~sealed /\ failure \in {"NONE", "PRODUCER_FAILED"}
    BY <2>1 DEF FlowInv, WriterAlive
  <2>3. CASE FinishesEmpty \/ Finishes
    <3>1. /\ wpc' = "done" /\ UNCHANGED <<state, failure>>
          /\ sealed' \in BOOLEAN
          /\ outcome' = IF sealed' THEN "CLEAN_DURABLE" ELSE "CLEAN_UNSEALED"
      <4>1. settings.seal_on_shutdown \in BOOLEAN
        BY SettingsType
      <4> QED
        BY <2>2, <2>3, <4>1 DEF FinishesEmpty, Finishes
    <3> QED
      BY <2>1, <2>2, <3>1 DEF RunInv, WriterAlive, ProducerDone
  <2>4. CASE FinalSyncFails \/ CloseFails \/ SealFails
    <3>1. /\ wpc' \in WriterRaised /\ UNCHANGED <<state, outcome, sealed>>
          /\ failure' \in {failure, FirstFailure("SYNC_FAILED"),
                           FirstFailure("SEAL_FAILED")}
      BY <2>4 DEF FinalSyncFails, CloseFails, SealFails, SetFailure
    <3> QED
      BY <2>1, <3>1 DEF RunInv, WriterAlive, ProducerDone, FirstFailure, WriterRaised
  <2> QED
    BY <1>6, <2>3, <2>4 DEF WriterEnds
<1>7. CASE RunStarts
  BY <1>7 DEF RunStarts, NotStarted, RunInv, WriterAlive, ProducerDone
<1>8. ASSUME NEW code \in FailureCodes \cup {"NONE"}, NEW shutdown \in Outcomes,
             Concludes(code, shutdown), ProducerDone, UNCHANGED <<sealed, ppc>>,
             wpc' \notin {"new", "get", "hook"}, sealed => wpc' = wpc,
             code = "NONE" => wpc' = "done" /\ shutdown # "NONE",
             shutdown \in {"CLEAN_DURABLE", "CLEAN_UNSEALED"} =>
                shutdown = outcome /\ code = failure /\ wpc' = wpc
      PROVE  RunInv'
  <2>1. rpc' = "returned" /\ ~WriterAlive' /\ ProducerDone' /\ sealed' = sealed
    BY <1>8 DEF Concludes, WriterAlive, ProducerDone
  <2>2. /\ outcome' # "NONE"
        /\ state' = "COMPLETE" => wpc' = "done"
        /\ state' = "FAILED" => failure' # "NONE"
    BY <1>8 DEF Concludes
  <2>3. outcome' \in {"CLEAN_DURABLE", "CLEAN_UNSEALED"} =>
           outcome' = outcome /\ wpc' = "done" /\ failure' \in {"NONE", "PRODUCER_FAILED"}
    BY <1>8 DEF Concludes, RunInv
  <2> QED
    BY <1>8, <2>1, <2>2, <2>3 DEF RunInv
<1>9. wpc \notin {"new", "get", "hook"} =>
         /\ WriterVerdict = "NONE" => wpc = "done" /\ outcome # "NONE"
         /\ outcome \in {"CLEAN_DURABLE", "CLEAN_UNSEALED"} => WriterVerdict = failure
         /\ WriterVerdict \in FailureCodes \cup {"NONE"}
  BY DEF WriterVerdict, WriterRaised, FirstFailure, FailureCodes, DoneInv, RunInv
<1>10. CASE RunSeesWriter
  <2>1. rpc = "wait" /\ wpc \notin {"new", "get", "hook"} /\ wpc' = wpc
        /\ UNCHANGED <<sealed, ppc>>
    BY <1>10 DEF RunSeesWriter, WriterAlive
  <2>2. CASE ProducerDone
    BY <1>8, <1>9, <1>10, <2>1, <2>2 DEF RunSeesWriter
  <2>3. CASE ~ProducerDone
    <3>1. wpc # "done"
      BY <2>3 DEF DoneInv, ProducerDone
    <3> QED
      BY <1>9, <1>10, <2>1, <2>3, <3>1 DEF RunSeesWriter, RunInv
  <2> QED
    BY <2>2, <2>3
<1>11. CASE RunReapsProducer
  <2>1. wpc \notin {"new", "get", "hook"} /\ failure # "NONE"
    BY <1>11 DEF RunReapsProducer, CancelInv, WriterRaised, RunInv
  <2> QED
    BY <1>8, <1>11, <2>1 DEF RunReapsProducer
<1>12. CASE RunSeesProducer
  BY <1>12 DEF RunSeesProducer, RunInv, WriterAlive, ProducerDone
<1>13. CASE RunDrained
  <2>1. ProducerDone /\ wpc \notin {"new", "get", "hook"}
    BY <1>13 DEF RunDrained, RunInv
  <2> QED
    BY <1>8, <1>9, <1>13, <2>1 DEF RunDrained
<1>14. CASE RunTimesOut
  <2>1. /\ ProducerDone /\ rpc = "drain" /\ UNCHANGED <<sealed, ppc>>
        /\ sealed => wpc = "done"
    BY <1>14 DEF RunTimesOut, RunInv
  <2>2. FirstFailure("DRAIN_TIMEOUT") \in FailureCodes \cup {"NONE"}
        /\ FirstFailure("DRAIN_TIMEOUT") # "NONE"
    BY DEF FirstFailure, FailureCodes
  <2>3. CASE Concludes(FirstFailure("DRAIN_TIMEOUT"), "TIMED_OUT")
    <3>1. wpc' \notin {"new", "get", "hook"} /\ (sealed => wpc' = wpc)
      BY <1>14, <2>1 DEF RunTimesOut, WriterAlive, WriterRaised
    <3> QED
      BY <1>8, <2>1, <2>2, <2>3, <3>1 DEF Outcomes
  <2>4. CASE rpc' = "raised"
    <3>1. /\ wpc' \notin {"new", "get", "hook", "done"} /\ outcome' = "TIMED_OUT"
          /\ wpc # "done" /\ state' = state
      BY <1>14, <2>4 DEF RunTimesOut, Concludes, WriterAlive, WriterRaised
    <3> QED
      BY <2>1, <2>4, <3>1 DEF RunInv, WriterAlive, ProducerDone
  <2> QED
    BY <1>14, <2>3, <2>4 DEF RunTimesOut
<1> QED
  BY <1>1, <1>2, <1>3, <1>4, <1>5, <1>6, <1>7, <1>10, <1>11, <1>12, <1>13, <1>14,
     <1>15 DEF Next, Writer, Run
-----------------------------------------------------------------------------
(* The theorems. *)

\* The strengthening holds throughout every run of the supervisor, so that the
\* properties below, each a consequence of it, do (RecorderSupervisor).
THEOREM Inductive == Spec => []IInv
<1>1. Init => IInv
  <2> SUFFICES ASSUME Init PROVE IInv
    OBVIOUS
  <2>1. TypeOK
    BY TypeInit
  <2>2. NotStarted /\ Started
    BY DEF Init, NotStarted, Started
  <2>3. TaskInv /\ LateInv /\ CancelInv /\ DoneInv /\ RunInv
    BY DEF Init, TaskInv, LateInv, CancelInv, DoneInv, RunInv
  <2>4. queue = <<>> /\ Len(queue) = 0 /\ log = <<>> /\ Len(log) = 0 /\ FramesIn(queue) = 0
    BY DEF Init, FramesIn
  <2>5. QueueInv /\ CaptureOrder
    <3>1. DOMAIN log = {}
      BY <2>1, <2>4, LenProperties DEF TypeOK
    <3> QED
      BY <2>1, <2>4, <3>1, SettingsType DEF Init, QueueInv, CaptureOrder
  <2>6. FlowInv
    BY <2>1, <2>4, SettingsType DEF Init, FlowInv, InHand, Blocked
  <2> QED
    BY <2>1, <2>2, <2>3, <2>5, <2>6 DEF IInv
<1>2. IInv /\ [Next]_vars => IInv'
  BY TypeStep, StartStep, TaskStep, LateStep, QueueStep, CancelStep, OrderStep,
     FlowStep, DoneStep, RunStep DEF IInv
<1> QED
  BY <1>1, <1>2, PTL DEF Spec

\* Frames are stored in the source's order, none twice, none skipped (_write).
THEOREM CaptureOrderHolds == Spec => []CaptureOrder
<1>1. IInv => CaptureOrder
  BY DEF IInv
<1> QED
  BY Inductive, <1>1, PTL

\* While the writer has not failed and the producer is not cancelled, every frame
\* of the source is stored or still on its way, but one that a source returned
\* after the stop had cancelled it (_produce, _enqueue, _await_cancelled, _write).
THEOREM NoSilentDropHolds == Spec => []NoSilentDrop
<1>1. IInv => NoSilentDrop
  <2> SUFFICES ASSUME IInv, wpc \in {"get", "hook", "done"}, cancel = "no"
               PROVE  /\ received = Len(log) + InHand + FramesIn(queue) + Blocked
                      /\ delivered = Accepted + Late
                      /\ Late > 0 =>
                            Late = 1 /\ stop /\ ppc \in {"reap", "end", "done"}
    BY DEF NoSilentDrop
  <2> USE DEF IInv, TypeOK
  <2>1. Late > 0 => Late = 1 /\ stop /\ ppc \in {"reap", "end", "done"}
    BY DEF LateInv, TaskInv, Late
  <2>2. Accepted + Late = received + discarded
                            + (IF nf \in {"frame", "late"} THEN 1 ELSE 0)
    BY DEF Accepted, Late
  <2>3. CASE wpc \in {"get", "hook"}
    BY <2>1, <2>2, <2>3 DEF FlowInv, WriterAlive
  <2>4. CASE wpc = "done"
    <3>1. /\ InHand = 0 /\ Blocked = 0 /\ FramesIn(queue) = 0
          /\ nf \notin {"frame", "late"}
      BY <2>4 DEF DoneInv, TaskInv, LateInv, InHand, Blocked, FramesIn
    <3>2. received = Len(log) /\ delivered = Len(log) + discarded /\ Len(log) \in Nat
      BY <2>4 DEF DoneInv
    <3> QED
      BY <2>1, <2>2, <3>1, <3>2
  <2> QED
    BY <2>3, <2>4
<1> QED
  BY Inductive, <1>1, PTL

\* Fewer than sync_every_frames frames are ever at risk (_write, _sync).
THEOREM LossWindowHolds == Spec => []LossWindow
<1>1. IInv => LossWindow
  BY DEF IInv, FlowInv, LossWindow, WriterAlive
<1> QED
  BY Inductive, <1>1, PTL

\* The queue never exceeds its capacity (_enqueue).
THEOREM QueueBoundedHolds == Spec => []QueueBounded
<1>1. IInv => QueueBounded
  BY DEF IInv, QueueInv, QueueBounded
<1> QED
  BY Inductive, <1>1, PTL

\* COMPLETE means that every frame is durable, but one that a source returned after
\* it was cancelled (run).
THEOREM CompleteIsDurableHolds == Spec => []CompleteIsDurable
<1>1. IInv => CompleteIsDurable
  <2> SUFFICES ASSUME IInv, state = "COMPLETE"
               PROVE  /\ Len(log) + discarded = delivered /\ discarded <= 1
                      /\ durable = Len(log) /\ received = Len(log) /\ queue = <<>>
                      /\ sealed = (settings.seal_on_shutdown /\ received > 0)
    BY DEF CompleteIsDurable
  <2>1. wpc = "done" /\ log \in Seq(Nat)
    BY DEF IInv, RunInv, TypeOK
  <2>2. log # <<>> <=> Len(log) > 0
    BY <2>1, EmptySeq
  <2>3. discarded \in Nat /\ discarded <= 1 /\ Len(log) \in Nat
    BY <2>1 DEF IInv, TypeOK, LateInv
  <2> QED
    BY <2>1, <2>2, <2>3 DEF IInv, DoneInv
<1> QED
  BY Inductive, <1>1, PTL

\* The shutdown outcome says what happened to the segment (_write, run).
THEOREM OutcomeIsTruthfulHolds == Spec => []OutcomeIsTruthful
<1>1. IInv => OutcomeIsTruthful
  BY DEF IInv, TypeOK, RunInv, DoneInv, LateInv, OutcomeIsTruthful
<1> QED
  BY Inductive, <1>1, PTL

\* A stopped producer pulls no further frame (_produce, _enqueue).
THEOREM NoPullAfterStopHolds == Spec => NoPullAfterStop
<1>1. TypeOK /\ [Next]_vars => [stop => (nf' = "pending" => nf = "pending")]_vars
  <2> SUFFICES ASSUME TypeOK, Next, stop, nf' = "pending"
               PROVE  nf = "pending"
    OBVIOUS
  <2> USE DEF source
  <2>1. ASSUME NEW result \in TaskResults, SourceDelivers(result)
        PROVE  nf = "pending"
    BY <2>1 DEF SourceDelivers, TaskResults
  <2>5. ASSUME NEW answer \in CancelAnswers, SourceAnswersCancel(answer)
        PROVE  nf = "pending"
    BY <2>5 DEF SourceAnswersCancel, CancelAnswers
  <2>2. CASE Producer
    BY <2>2 DEF Producer, ProducerSeesStop, StopTakes, TakeResult, ProducerSeesResult,
       ProducerDisarmed, LeaveCancelled, ProducerReaped, ProducerPuts, LoopTop,
       ProducerPutsEnd, ProducerCancelled
  <2>3. CASE request_stop \/ Writer
    BY <2>3 DEF request_stop, Writer, WriterTakes, WriterPersists, WriterEnds
  <2>4. CASE Run
    BY <2>4 DEF Run, RunStarts, LoopTop, RunSeesWriter, CancelProducer,
       RunReapsProducer, RunSeesProducer, RunDrained, RunTimesOut
  <2> QED
    BY <2>1, <2>2, <2>3, <2>4, <2>5 DEF Next
<1> QED
  BY TypeCorrect, <1>1, PTL DEF Spec, NoPullAfterStop
-----------------------------------------------------------------------------
(* The supervisor implements CaptureLog. *)

LEMMA PromiseInit == Init => Promise!Init
BY DEF Init, Promise!Init, Accepted, Verdict

\* A step of the log, of the frames accepted or of the verdict is a step of
\* CaptureLog; any other is a stutter.
LEMMA PromiseStep ==
    ASSUME IInv, [Next]_vars
    PROVE  [Promise!Next]_(Promise!vars)
<1> USE DEF IInv, Promise!vars
<1>1. CASE UNCHANGED <<Accepted, storage, Verdict>>
  BY <1>1 DEF storage
<1>2. CASE request_stop \/ UNCHANGED vars
  BY <1>2, <1>1 DEF request_stop, vars, storage, intake, source, lifecycle, Accepted,
     Verdict
<1>3. ASSUME NEW result \in TaskResults,
             SourceDelivers(result)
      PROVE  [Promise!Next]_(Promise!vars)
  <2>1. Verdict = "open" /\ sealed = FALSE
    BY <1>3 DEF SourceDelivers, RunInv, LateInv, DoneInv, ProducerDone, Verdict, TypeOK
  <2>2. UNCHANGED <<storage, Verdict>> /\ Accepted' \in {Accepted, Accepted + 1}
    BY <1>3 DEF SourceDelivers, Verdict, lifecycle, intake, Accepted, TypeOK
  <2> QED
    BY <1>1, <2>1, <2>2 DEF Promise!Next, Promise!Accept, storage
<1>7. ASSUME NEW answer \in CancelAnswers, SourceAnswersCancel(answer)
      PROVE  [Promise!Next]_(Promise!vars)
  BY <1>1, <1>7 DEF SourceAnswersCancel, CancelAnswers, lifecycle, intake, Accepted,
     Verdict
<1>4. CASE Producer
  <2>1. UNCHANGED <<Accepted, storage, state>>
    BY <1>4 DEF Producer, ProducerSeesStop, ProducerAtWait, StopTakes, TakeResult,
       ProducerSeesResult, ProducerDisarmed, LeaveCancelled, ProducerReaped,
       ProducerPuts, LoopTop, ProducerPutsEnd, ProducerCancelled, SetFailure,
       lifecycle, intake, source, Accepted, TaskInv, TypeOK
  <2> QED
    BY <1>1, <2>1 DEF Verdict
<1>5. CASE Writer
  <2>1. /\ WriterAlive /\ UNCHANGED <<Accepted, state, Verdict>>
        /\ Verdict = "open" /\ sealed = FALSE
    BY <1>5 DEF Accepted, intake, Writer, WriterTakes, WriterPersists, HookRaises, AppendFails, Appends,
       WriterEnds, FinishesEmpty, FinalSyncFails, CloseFails, SealFails, Finishes,
       SetFailure, lifecycle, source, Verdict, WriterAlive, RunInv, FlowInv, TypeOK
  <2>2. CASE WriterTakes
    BY <1>1, <2>1, <2>2 DEF WriterTakes
  <2>3. CASE WriterPersists
    <3>1. CASE HookRaises \/ AppendFails
      BY <1>1, <2>1, <3>1 DEF HookRaises, AppendFails
    <3>2. CASE Appends
      <4>1. /\ log' = Append(log, Len(log) + 1) /\ sealed' = sealed
            /\ durable' \in {durable, Len(log')}
        BY <2>3, <3>2, <2>1 DEF WriterPersists, Appends, FlowInv
      <4>2. Len(log) < Accepted
        <5>1. /\ InHand = 1 /\ Len(log) \in Nat /\ FramesIn(queue) \in Nat
              /\ Blocked \in {0, 1} /\ received \in Nat
          BY <2>3, FramesInNat DEF WriterPersists, InHand, Blocked, TypeOK
        <5>2. received = Len(log) + InHand + FramesIn(queue) + Blocked
          BY <2>1 DEF FlowInv
        <5> QED
          BY <5>1, <5>2 DEF Accepted
      <4> QED
        BY <2>1, <4>1, <4>2 DEF Promise!Next, Promise!Store
    <3> QED
      BY <2>3, <3>1, <3>2 DEF WriterPersists
  <2>4. CASE WriterEnds
    <3>1. CASE FinishesEmpty \/ FinalSyncFails
      BY <1>1, <2>1, <3>1 DEF FinishesEmpty, FinalSyncFails
    <3>2. CASE CloseFails \/ SealFails \/ Finishes
      <4>1. log' = log /\ durable' = Len(log) /\ sealed' \in BOOLEAN
        BY <2>1, <3>2, SettingsType DEF CloseFails, SealFails, Finishes
      <4> QED
        BY <2>1, <4>1 DEF Promise!Next, Promise!Harden
    <3> QED
      BY <2>4, <3>1, <3>2 DEF WriterEnds
  <2> QED
    BY <1>5, <2>2, <2>3, <2>4 DEF Writer
<1>6. CASE Run
  <2>1. UNCHANGED <<Accepted, storage>>
    BY <1>6 DEF Run, RunStarts, LoopTop, RunSeesWriter, CancelProducer,
       RunReapsProducer, RunSeesProducer, RunDrained, RunTimesOut, NotStarted, intake,
       source, Accepted
  <2>2. Verdict = "open"
    BY <1>6 DEF Run, RunStarts, RunSeesWriter, RunReapsProducer, RunSeesProducer,
       RunDrained, RunTimesOut, RunInv, Verdict
  <2>3. Verdict' \in {"open", "complete", "failed"}
    BY DEF Verdict
  <2>4. Verdict' = "complete" => Len(log) = Accepted /\ durable = Accepted
    <3> SUFFICES ASSUME Verdict' = "complete"
                 PROVE  Len(log) = Accepted /\ durable = Accepted
      OBVIOUS
    <3>1. RunInv' /\ DoneInv' /\ TaskInv' /\ TypeOK'
      BY RunStep, DoneStep, TaskStep, TypeStep
    <3>2. state' = "COMPLETE"
      BY DEF Verdict
    <3>3. wpc' = "done"
      BY <3>1, <3>2 DEF RunInv
    <3>4. received' = Len(log') /\ durable' = Len(log') /\ nf' # "frame"
      BY <3>1, <3>3 DEF DoneInv, TaskInv
    <3>5. Accepted' = Len(log') /\ Len(log') \in Nat
      BY <3>1, <3>4 DEF Accepted, TypeOK
    <3> QED
      BY <2>1, <3>4, <3>5 DEF storage
  <2> QED
    BY <1>1, <2>1, <2>2, <2>3, <2>4 DEF Promise!Next, Promise!Complete, Promise!Fail, storage
<1> QED
  BY <1>2, <1>3, <1>4, <1>5, <1>6, <1>7 DEF Next

\* The supervisor keeps the promise of CaptureLog, for every run.
THEOREM Refinement == Spec => KeepsPromise
<1>1. IInv /\ [Next]_vars => [Promise!Next]_(Promise!vars)
  BY PromiseStep
<1> QED
  BY PromiseInit, <1>1, Inductive, PTL DEF Spec, KeepsPromise, Promise!Spec
=============================================================================
