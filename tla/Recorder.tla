------------------------------ MODULE Recorder ------------------------------
(***************************************************************************)
(* RecorderSupervisor of src/cryptobot/data/recorder.py: a producer task   *)
(* pulls frames from the capture source into a bounded asyncio queue, a    *)
(* writer task moves them into the raw log, and run() watches both and     *)
(* gives the verdict of the run.                                           *)
(*                                                                         *)
(* A program counter names the await a task is suspended at; what asyncio  *)
(* runs between two awaits is one action.  Frames are numbered by the      *)
(* order in which the source delivers them.                                *)
(***************************************************************************)
EXTENDS Naturals, Sequences

CONSTANTS Settings,   \* the recorder settings a run may be constructed with
          MaxFrames,  \* bound: frames the source delivers in one run
          Faults      \* which of the collaborators may fail

RuntimeSettings ==
    [queue_capacity: Nat \ {0}, sync_every_frames: Nat \ {0},
     seal_on_shutdown: BOOLEAN, hook: BOOLEAN]

\* "source" is an exception of the source; "survive" is a source that goes on
\* after it was cancelled, as an adapter does that takes an OSError of its
\* clean-up for a lost connection and reconnects.
FaultNames ==
    {"source", "survive", "open", "hook", "append", "sync", "close", "seal"}

ASSUME RecorderAssumption ==
    /\ Settings \subseteq RuntimeSettings
    /\ MaxFrames \in Nat
    /\ Faults \subseteq FaultNames

VARIABLES
    settings,        \* _settings, with hook: is there a before_persist hook?
    stop,            \* _stop_requested
    state, outcome,  \* _state, _shutdown_outcome
    failure,         \* the code of _failure, "NONE" while there is none
    received, enqueued, durable, high_watermark,  \* _counters
    queue,           \* _queue
    log,             \* the frames appended to the open segment
    sealed,          \* _sealed_record is not None
    delivered,       \* history: the number of frames the source has delivered
    discarded,       \* history: those of them _await_cancelled threw away
    nf,              \* the next_frame task the producer waits for
    ppc, wpc, rpc,   \* where the producer, the writer and run() are suspended
    hand,            \* the frame the writer holds, END when it holds none
    cancel           \* producer.cancel(): not called, pending, or lost

lifecycle == <<state, outcome, failure>>
intake    == <<received, enqueued, high_watermark>>
given     == <<delivered, discarded>>
source    == <<given, nf>>
storage   == <<log, durable, sealed>>
vars == <<settings, stop, lifecycle, intake, queue, storage, source,
          ppc, wpc, rpc, hand, cancel>>

END == 0
-----------------------------------------------------------------------------
RecorderStates == {"INIT", "RUNNING", "STOPPING", "COMPLETE", "FAILED"}
Outcomes == {"NONE", "CLEAN_DURABLE", "CLEAN_UNSEALED", "TIMED_OUT", "FAILED"}
FailureCodes ==
    {"PRODUCER_FAILED", "WRITER_FAILED", "WRITER_CANCELLED", "APPEND_FAILED",
     "SYNC_FAILED", "SEAL_FAILED", "DRAIN_TIMEOUT"}

\* The builtin TimeoutError is kept apart from other exceptions of the writer:
\* run() catches it as if the drain had timed out.
WriterRaised == {"failed", "timeouterror"}
WriterAlive  == wpc \in {"new", "get", "hook"}
ProducerDone == ppc \in {"done", "cancelled"}

\* How a next_frame task ends, and what a cancellation makes of a pending one.
TaskResults   == {"frame", "end", "error", "cancelled"}
CancelAnswers == {"cancelled", "end", "error", "survived"}

QueueFull == Len(queue) >= settings.queue_capacity

\* Without a hook the writer never suspends while the queue has an item.  The
\* event loop is FIFO, so a put is followed by the writer's turn, and the end
\* of the writer by run()'s, before the producer is resumed.
WriterReady   == wpc = "hook" \/ (wpc = "get" /\ queue # <<>>)
RunTurn       == settings.hook \/ ~WriterReady
ProducerTurn  == settings.hook \/ ~(WriterReady \/ (rpc = "wait" /\ ~WriterAlive))

\* _set_failure keeps the first failure.
FirstFailure(code) == IF failure = "NONE" THEN code ELSE failure
SetFailure(code)   == failure' = FirstFailure(code) /\ UNCHANGED <<state, outcome>>
-----------------------------------------------------------------------------
Init ==
    /\ settings \in Settings
    /\ stop = FALSE
    /\ state = "INIT" /\ outcome = "NONE" /\ failure = "NONE"
    /\ received = 0 /\ enqueued = 0 /\ durable = 0 /\ high_watermark = 0
    /\ queue = <<>> /\ log = <<>> /\ sealed = FALSE
    /\ delivered = 0 /\ discarded = 0 /\ nf = "none"
    /\ hand = END /\ cancel = "no"
    /\ ppc = "new" /\ wpc = "new" /\ rpc = "new"

\* A signal handler, the duration timer or the caller of the supervisor.
request_stop ==
    /\ ~stop
    /\ stop' = TRUE
    /\ state' = IF state = "RUNNING" THEN "STOPPING" ELSE state
    /\ UNCHANGED <<settings, outcome, failure, intake, queue, storage, source,
                   ppc, wpc, rpc, hand, cancel>>

\* The source, external to this component, ends the task that awaits it: the one
\* the producer waits for, or one that was cancelled and went on.
SourceDelivers(result) ==
    /\ (ppc = "wait" /\ nf = "pending") \/ nf = "survived"
    /\ IF result = "frame" THEN delivered < MaxFrames /\ delivered' = delivered + 1
                           ELSE UNCHANGED delivered
    /\ result \in {"error", "cancelled"} => "source" \in Faults
    /\ nf' = IF nf = "survived" /\ result = "frame" THEN "late" ELSE result
    /\ UNCHANGED <<settings, stop, lifecycle, intake, queue, storage, discarded,
                   ppc, wpc, rpc, hand, cancel>>

\* What becomes of the CancelledError thrown into the task: it ends the task, the
\* source returns or raises on it, or the source goes on.
SourceAnswersCancel(answer) ==
    /\ nf = "cancelling"
    /\ answer = "error" => "source" \in Faults
    /\ answer = "survived" => "survive" \in Faults
    /\ nf' = answer
    /\ UNCHANGED <<settings, stop, lifecycle, intake, queue, storage, given,
                   ppc, wpc, rpc, hand, cancel>>
-----------------------------------------------------------------------------
(* _produce *)

\* The top of the loop: leave it when stop is requested, else arm a new task.
LoopTopBug == ppc' = "wait" /\ nf' = "pending"
LoopTop ==
    IF stop THEN ppc' = "end" /\ UNCHANGED nf
            ELSE ppc' = "wait" /\ nf' = "pending"

\* What the finished next_frame task holds: a frame to enqueue, the end of the
\* source, or an exception that is caught and recorded.
TakeResult ==
    /\ nf' = "none"
    /\ UNCHANGED queue
    /\ \/ /\ nf = "frame"
          /\ received' = received + 1
          /\ ppc' = "put"
          /\ UNCHANGED lifecycle
       \/ /\ nf = "end"
          /\ ppc' = "end"
          /\ UNCHANGED <<lifecycle, received>>
       \/ /\ nf = "error"
          /\ SetFailure("PRODUCER_FAILED")
          /\ ppc' = "end"
          /\ UNCHANGED received

\* A cancelled producer leaves the END marker only if the queue has room now.
LeaveCancelled ==
    /\ ppc' = "cancelled"
    /\ UNCHANGED nf
    /\ queue' = IF QueueFull \/ ppc = "end" THEN queue ELSE Append(queue, END)

ProducerAtWait == ppc = "wait" /\ cancel # "pending" /\ ProducerTurn

\* Stop wins over a frame that arrived with it, but does not discard the frame; a
\* task without a result is cancelled.
StopTakesBug ==
    /\ ppc' = "end" /\ nf' = "none"
    /\ UNCHANGED <<lifecycle, received, queue>>
StopTakes ==
    \/ TakeResult
    \/ /\ nf \in {"pending", "cancelled"}
       /\ nf' = IF nf = "pending" THEN "cancelling" ELSE nf
       /\ ppc' = "reap"
       /\ UNCHANGED <<lifecycle, received, queue>>

ProducerSeesStop ==
    /\ ProducerAtWait /\ stop
    /\ StopTakes
    /\ UNCHANGED <<settings, stop, enqueued, high_watermark, storage, given,
                   wpc, rpc, hand, cancel>>

ProducerSeesResult ==
    /\ ProducerAtWait /\ nf # "pending"
    /\ ppc' = "disarm"
    /\ UNCHANGED <<settings, stop, lifecycle, intake, queue, storage, source,
                   wpc, rpc, hand, cancel>>

\* _await_cancelled catches every CancelledError, also one aimed at the
\* producer itself.
SwallowCancel ==
    cancel' = IF cancel = "pending" THEN "lost" ELSE cancel

\* Resumed from _await_cancelled(stop_wait).
ProducerDisarmed ==
    /\ ppc = "disarm" /\ ProducerTurn
    /\ SwallowCancel
    /\ \/ TakeResult
       \/ nf = "cancelled" /\ LeaveCancelled /\ UNCHANGED <<lifecycle, received>>
    /\ UNCHANGED <<settings, stop, enqueued, high_watermark, storage, given,
                   wpc, rpc, hand>>

\* Resumed from _await_cancelled(next_frame), which waits for the task to end by
\* whatever way and throws a frame away that the task still returned.
ProducerReaped ==
    /\ ppc = "reap" /\ nf \notin {"cancelling", "survived"} /\ ProducerTurn
    /\ SwallowCancel
    /\ nf' = "none" /\ ppc' = "end"
    /\ discarded' = IF nf = "late" THEN discarded + 1 ELSE discarded
    /\ IF nf = "error" THEN SetFailure("PRODUCER_FAILED") ELSE UNCHANGED lifecycle
    /\ UNCHANGED <<settings, stop, intake, queue, storage, delivered, wpc, rpc, hand>>
-----------------------------------------------------------------------------
PutItemBug(item) == queue' = <<item>> \o queue
PutItem(item)    == queue' = Append(queue, item)

FramesIn(q) == IF q # <<>> /\ q[Len(q)] = END THEN Len(q) - 1 ELSE Len(q)

\* The second half of _enqueue, once the queue has room.
ProducerPuts ==
    /\ ppc = "put" /\ cancel # "pending" /\ ProducerTurn
    /\ ~QueueFull
    /\ PutItem(delivered)
    /\ enqueued' = enqueued + 1
    /\ high_watermark' =
         IF Len(queue') > high_watermark THEN Len(queue') ELSE high_watermark
    /\ LoopTop
    /\ UNCHANGED <<settings, stop, lifecycle, received, storage, given, wpc,
                   rpc, hand, cancel>>

ProducerPutsEnd ==
    /\ ppc = "end" /\ cancel # "pending" /\ ProducerTurn
    /\ ~QueueFull
    /\ PutItem(END)
    /\ ppc' = "done"
    /\ UNCHANGED <<settings, stop, lifecycle, intake, storage, source, wpc, rpc,
                   hand, cancel>>

ProducerCancelled ==
    /\ cancel = "pending"
    /\ ppc \in {"wait", "put", "end"}
    /\ LeaveCancelled
    /\ UNCHANGED <<settings, stop, lifecycle, intake, storage, given, wpc, rpc,
                   hand, cancel>>

Producer ==
    \/ ProducerSeesStop \/ ProducerSeesResult \/ ProducerDisarmed
    \/ ProducerReaped \/ ProducerPuts \/ ProducerPutsEnd \/ ProducerCancelled
-----------------------------------------------------------------------------
(* _write *)

\* queue.get() of a frame; the first one opens the segment.
WriterTakes ==
    /\ wpc = "get" /\ queue # <<>> /\ Head(queue) # END
    /\ queue' = Tail(queue)
    /\ hand' = Head(queue)
    /\ \/ wpc' = "hook"
       \/ log = <<>> /\ "open" \in Faults /\ wpc' \in WriterRaised
    /\ UNCHANGED <<settings, stop, lifecycle, intake, storage, source, ppc, rpc,
                   cancel>>

SyncDueBug(appended) == appended - durable > settings.sync_every_frames
SyncDue(appended)    == appended - durable >= settings.sync_every_frames

\* before_persist ends with an exception or with a CancelledError of its own.
HookRaises ==
    /\ settings.hook /\ "hook" \in Faults
    /\ wpc' \in WriterRaised \cup {"cancelled"}
    /\ UNCHANGED <<lifecycle, storage>>

AppendFails ==
    /\ "append" \in Faults
    /\ wpc' \in WriterRaised
    /\ SetFailure("APPEND_FAILED")
    /\ UNCHANGED storage

\* append, then sync when sync_every_frames are not yet durable.
Appends ==
    /\ log' = Append(log, hand)
    /\ UNCHANGED sealed
    /\ \/ /\ ~SyncDue(Len(log'))
          /\ wpc' = "get"
          /\ UNCHANGED <<lifecycle, durable>>
       \/ /\ SyncDue(Len(log'))
          /\ wpc' = "get"
          /\ durable' = Len(log')
          /\ UNCHANGED lifecycle
       \/ /\ SyncDue(Len(log')) /\ "sync" \in Faults
          /\ wpc' \in WriterRaised
          /\ SetFailure("SYNC_FAILED")
          /\ UNCHANGED durable

WriterPersists ==
    /\ wpc = "hook"
    /\ HookRaises \/ AppendFails \/ Appends
    /\ hand' = END
    /\ UNCHANGED <<settings, stop, intake, queue, source, ppc, rpc, cancel>>

\* After END: sync what is left, close, and seal if the settings ask for it.
FinishesEmpty ==
    /\ log = <<>>
    /\ wpc' = "done"
    /\ outcome' = "CLEAN_UNSEALED"
    /\ UNCHANGED <<state, failure, storage>>

FinalSyncFails ==
    /\ Len(log) > durable /\ "sync" \in Faults
    /\ wpc' \in WriterRaised
    /\ SetFailure("SYNC_FAILED")
    /\ UNCHANGED storage

CloseFails ==
    /\ log # <<>> /\ "close" \in Faults
    /\ wpc' \in WriterRaised
    /\ durable' = Len(log)
    /\ UNCHANGED <<lifecycle, log, sealed>>

SealFails ==
    /\ log # <<>> /\ settings.seal_on_shutdown /\ "seal" \in Faults
    /\ wpc' \in WriterRaised
    /\ durable' = Len(log)
    /\ SetFailure("SEAL_FAILED")
    /\ UNCHANGED <<log, sealed>>

FinishesUnsynced ==
    /\ log # <<>>
    /\ wpc' = "done"
    /\ sealed' = settings.seal_on_shutdown
    /\ outcome' = IF settings.seal_on_shutdown THEN "CLEAN_DURABLE"
                                               ELSE "CLEAN_UNSEALED"
    /\ UNCHANGED <<state, failure, log, durable>>

FinishesUnsealed ==
    /\ log # <<>>
    /\ wpc' = "done"
    /\ durable' = Len(log)
    /\ outcome' = "CLEAN_DURABLE"
    /\ UNCHANGED <<state, failure, log, sealed>>

Finishes ==
    /\ log # <<>>
    /\ wpc' = "done"
    /\ durable' = Len(log)
    /\ sealed' = settings.seal_on_shutdown
    /\ outcome' = IF settings.seal_on_shutdown THEN "CLEAN_DURABLE"
                                               ELSE "CLEAN_UNSEALED"
    /\ UNCHANGED <<state, failure, log>>

WriterEnds ==
    /\ wpc = "get" /\ queue # <<>> /\ Head(queue) = END
    /\ queue' = Tail(queue)
    /\ FinishesEmpty \/ FinalSyncFails \/ CloseFails \/ SealFails \/ Finishes
    /\ UNCHANGED <<settings, stop, intake, source, ppc, rpc, hand, cancel>>

Writer == WriterTakes \/ WriterPersists \/ WriterEnds
-----------------------------------------------------------------------------
(* run *)

\* run() starts both tasks; the producer reaches its first await, or leaves its
\* loop at once when stop was requested before.
RunStarts ==
    /\ rpc = "new"
    /\ rpc' = "wait" /\ wpc' = "get" /\ LoopTop
    /\ state' = "RUNNING"
    /\ UNCHANGED <<settings, stop, outcome, failure, intake, queue, storage,
                   given, hand, cancel>>

\* What run() records of a writer that has ended.
WriterVerdictLoose == IF wpc \in WriterRaised THEN FirstFailure("WRITER_FAILED")
                                              ELSE failure
WriterVerdict ==
    CASE wpc = "cancelled"     -> FirstFailure("WRITER_CANCELLED")
      [] wpc \in WriterRaised  -> FirstFailure("WRITER_FAILED")
      [] OTHER                 -> failure

\* The tail of run(): classify the producer and give the verdict.
Concludes(code, shutdown) ==
    LET final == IF code = "NONE" /\ ppc = "cancelled" THEN "PRODUCER_FAILED" ELSE code
    IN  /\ failure' = final
        /\ state' = IF final = "NONE" THEN "COMPLETE" ELSE "FAILED"
        /\ outcome' = IF final # "NONE" /\ shutdown = "NONE" THEN "FAILED" ELSE shutdown
        /\ rpc' = "returned"

\* producer.cancel() is passed on to the task the producer awaits, so that a source
\* that went on after the stop is cancelled once more.
CancelProducerBug == UNCHANGED <<cancel, nf>>
CancelProducer ==
    /\ cancel' = "pending"
    /\ nf' = IF nf = "survived" THEN "cancelling" ELSE nf

RunSeesWriter ==
    /\ rpc = "wait" /\ RunTurn
    /\ ~WriterAlive
    /\ \/ /\ ProducerDone
          /\ Concludes(WriterVerdict, outcome)
          /\ UNCHANGED <<cancel, nf>>
       \/ /\ ~ProducerDone
          /\ failure' = WriterVerdict
          /\ CancelProducer
          /\ rpc' = "reap"
          /\ UNCHANGED <<state, outcome>>
    /\ UNCHANGED <<settings, stop, intake, queue, storage, given, ppc, wpc, hand>>

RunReapsProducer ==
    /\ rpc = "reap" /\ ProducerDone
    /\ Concludes(failure, outcome)
    /\ UNCHANGED <<settings, stop, intake, queue, storage, source, ppc, wpc, hand,
                   cancel>>

RunSeesProducer ==
    /\ rpc = "wait" /\ RunTurn
    /\ ProducerDone /\ WriterAlive
    /\ rpc' = "drain"
    /\ UNCHANGED <<settings, stop, lifecycle, intake, queue, storage, source, ppc,
                   wpc, hand, cancel>>

RunDrained ==
    /\ rpc = "drain" /\ RunTurn
    /\ wpc \in {"done", "failed", "cancelled"}
    /\ Concludes(WriterVerdict, outcome)
    /\ UNCHANGED <<settings, stop, intake, queue, storage, source, ppc, wpc, hand,
                   cancel>>

\* wait_for raises TimeoutError: the timer fired, perhaps just when the writer
\* ended, or the writer itself raised one.  The writer is cancelled and awaited,
\* which raises again what a failed writer raised, out of run().
RunTimesOut ==
    /\ rpc = "drain" /\ RunTurn
    /\ \/ /\ WriterAlive
          /\ wpc' = "cancelled"
          /\ Concludes(FirstFailure("DRAIN_TIMEOUT"), "TIMED_OUT")
       \/ /\ wpc \in {"done", "cancelled"}
          /\ Concludes(FirstFailure("DRAIN_TIMEOUT"), "TIMED_OUT")
          /\ UNCHANGED wpc
       \/ /\ \/ wpc \in WriterRaised
             \/ WriterAlive /\ "close" \in Faults
          /\ wpc' = IF WriterAlive THEN "failed" ELSE wpc
          /\ failure' = FirstFailure("DRAIN_TIMEOUT")
          /\ outcome' = "TIMED_OUT"
          /\ rpc' = "raised"
          /\ UNCHANGED state
    /\ UNCHANGED <<settings, stop, intake, queue, storage, source, ppc, hand, cancel>>

Run ==
    \/ RunStarts \/ RunSeesWriter \/ RunReapsProducer \/ RunSeesProducer
    \/ RunDrained \/ RunTimesOut
-----------------------------------------------------------------------------
Next ==
    \/ request_stop
    \/ \E result \in TaskResults : SourceDelivers(result)
    \/ \E answer \in CancelAnswers : SourceAnswersCancel(answer)
    \/ Producer
    \/ Writer
    \/ Run

Spec == Init /\ [][Next]_vars

\* The event loop runs every task that is ready, throws a CancelledError into a
\* task that was cancelled, and the drain timer fires.  Nothing forces the source
\* to deliver, or to end when it goes on after the CancelledError, a stop to be
\* requested, or a hook to return.
LoopFairness ==
    /\ WF_vars(Producer) /\ WF_vars(Run)
    /\ WF_vars(\E answer \in CancelAnswers : SourceAnswersCancel(answer))
    /\ WF_vars(WriterTakes \/ WriterEnds)
    /\ WF_vars(~settings.hook /\ WriterPersists)

FairSpec == Spec /\ LoopFairness

\* The same with hooks that return, by whatever way.
PatientSpec == FairSpec /\ WF_vars(WriterPersists)
-----------------------------------------------------------------------------
(* Properties *)

TypeOK ==
    /\ settings \in Settings
    /\ stop \in BOOLEAN /\ sealed \in BOOLEAN
    /\ state \in RecorderStates /\ outcome \in Outcomes
    /\ failure \in FailureCodes \cup {"NONE"}
    /\ delivered \in Nat /\ discarded \in Nat
    /\ received \in Nat /\ enqueued \in Nat
    /\ durable \in Nat /\ high_watermark \in Nat
    /\ queue \in Seq(Nat) /\ log \in Seq(Nat) /\ hand \in Nat
    /\ nf \in {"none", "pending", "cancelling", "late"}
                \cup TaskResults \cup CancelAnswers
    /\ ppc \in {"new", "wait", "disarm", "reap", "put", "end", "done", "cancelled"}
    /\ wpc \in {"new", "get", "hook", "done", "failed", "timeouterror", "cancelled"}
    /\ rpc \in {"new", "wait", "drain", "reap", "returned", "raised"}
    /\ cancel \in {"no", "pending", "lost"}

\* Where the frames are that are neither in the log nor in the queue.
InHand  == IF wpc = "hook" THEN 1 ELSE 0
Blocked == IF ppc = "put" THEN 1 ELSE 0

\* The log is the source's stream from its first frame on: nothing skipped,
\* repeated or reordered, whatever failed or was cancelled afterwards
\* (_enqueue, _write).
CaptureOrder == \A i \in DOMAIN log : log[i] = i

\* The frames the source handed to a task that still counted, and those that came
\* out of a task already cancelled.
Accepted == received + (IF nf = "frame" THEN 1 ELSE 0)
Late     == discarded + (IF nf = "late" THEN 1 ELSE 0)

\* As long as the writer has not failed and the producer is not cancelled, every
\* frame the source delivered is in the log, in the writer's hand, in the queue,
\* blocked in front of it or still in its task.  Backpressure drops none, and a
\* stop drops none that arrived before it was seen: the only frame ever lost is
\* one that a source returns after the stop has cancelled it (_await_cancelled),
\* the last one of the run, and received does not count it.
NoSilentDrop ==
    wpc \in {"get", "hook", "done"} /\ cancel = "no" =>
        /\ received = Len(log) + InHand + FramesIn(queue) + Blocked
        /\ delivered = Accepted + Late
        /\ Late > 0 => Late = 1 /\ stop /\ ppc \in {"reap", "end", "done"}

\* Between two awaits of the writer fewer than sync_every_frames appended frames
\* are not yet durable: the bound on what a crash of the process can lose.
LossWindow ==
    wpc \in {"get", "hook"} => Len(log) - durable < settings.sync_every_frames

\* The queue keeps to its capacity, and the high-water mark has seen the frames
\* it holds.
QueueBounded ==
    /\ Len(queue) <= settings.queue_capacity
    /\ FramesIn(queue) <= high_watermark
    /\ high_watermark <= settings.queue_capacity

\* COMPLETE is only said of a run whose every frame is durable but one that its
\* source returned after it was cancelled, with nothing left on the way, and which
\* is sealed when the settings ask for it.
CompleteIsDurable ==
    state = "COMPLETE" =>
        /\ Len(log) + discarded = delivered /\ discarded <= 1
        /\ durable = Len(log) /\ received = Len(log)
        /\ queue = <<>>
        /\ sealed = (settings.seal_on_shutdown /\ received > 0)

\* The reported shutdown outcome is what happened to the segment; a clean
\* outcome of a failed run is a source failure, after which the persisted prefix
\* is whole.
OutcomeIsTruthful ==
    /\ outcome = "CLEAN_DURABLE" => sealed /\ durable = Len(log)
    /\ outcome = "CLEAN_UNSEALED" => ~sealed /\ durable = Len(log)
    /\ rpc = "returned" => outcome # "NONE"
    /\ state = "FAILED" /\ outcome \in {"CLEAN_DURABLE", "CLEAN_UNSEALED"} =>
          failure = "PRODUCER_FAILED" /\ Len(log) = delivered

\* Once a stop is requested the producer asks the source for no further frame.
NoPullAfterStop == [][stop => (nf' = "pending" => nf = "pending")]_vars

\* The supervisor implements the promise of CaptureLog.
Verdict ==
    CASE state = "COMPLETE" -> "complete"
      [] state = "FAILED"   -> "failed"
      [] OTHER              -> "open"

Promise == INSTANCE CaptureLog
             WITH accepted <- Accepted, stored <- log, published <- sealed,
                  verdict <- Verdict
KeepsPromise == Promise!Spec

\* Without a hook, as both runtimes construct the supervisor, a run that was
\* asked to stop, or whose producer or writer has ended, returns its status, unless
\* its source goes on for ever after it was cancelled: no drain timer runs while
\* the producer waits for it (_await_cancelled, run).
HooklessRunReturns ==
    ~settings.hook /\ (stop \/ ProducerDone \/ (~WriterAlive /\ wpc # "new"))
        ~> rpc = "returned" \/ [](nf = "survived")

\* With hooks that return, the only other way not to end is a lost cancellation.
PatientRunEnds ==
    stop ~> rpc \in {"returned", "raised"} \/ cancel = "lost" \/ [](nf = "survived")

\* TASK_008.md:170: a writer or storage error is fatal to the capture.
WriterFailureEndsRun == wpc \in WriterRaised ~> rpc \in {"returned", "raised"}

\* TASK_008.md:244: every injected fault ends in a deterministic status.
EveryFaultHasAStatus == rpc # "raised"
=============================================================================
