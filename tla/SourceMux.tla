----------------------------- MODULE SourceMux -----------------------------
(***************************************************************************)
(* Several capture streams merged into one through a bounded queue:        *)
(* merge_capture_sources of src/cryptobot/runtime/dual_source_recorder.py, *)
(* and session_frames of src/cryptobot/adapters/binance/public.py, which   *)
(* merges the frames of two websocket routes by the same code except that  *)
(* a route that ends before its peer is a failure.                         *)
(*                                                                         *)
(* One pump task per source; the merged stream is an asynchronous          *)
(* generator that its consumer, the producer of the recorder, asks for a   *)
(* frame, or cancels, or closes.  The frames of a source are numbered.     *)
(***************************************************************************)
EXTENDS Naturals, Sequences, FiniteSets

CONSTANTS Sources,        \* the merged sources, or routes
          queue_capacity,
          MaxFrames,      \* bound: frames one source delivers
          Muxes,          \* the multiplexers considered
          SourceFaults    \* what a source may do besides delivering and ending

MuxNames == {"sources", "routes"}

ASSUME MuxAssumption ==
    /\ IsFiniteSet(Sources) /\ Sources # {}
    /\ queue_capacity \in Nat \ {0}
    /\ MaxFrames \in Nat
    /\ Muxes \subseteq MuxNames
    /\ SourceFaults \subseteq {"error", "unclean"}

VARIABLES
    mux,         \* which of the two multiplexers it is
    captured,    \* history: frames a source has delivered to its pump
    pump,        \* where the pump of a source is suspended
    error,       \* its local error is not None
    cancelling,  \* task.cancel() of a pump: not called, pending, or lost
    queue,       \* frames, and DONE for a _SourceDone
    active,
    gen,         \* where the generator is suspended
    ending,      \* how it left its loop
    yielded      \* history: the frames of a source given to the consumer

pumps  == <<captured, pump, error>>
merged == <<active, gen, ending, yielded>>
vars   == <<mux, pumps, cancelling, queue, merged>>

DONE == 0
Items == [source: Sources, frame: Nat]
PumpOver(s) == pump[s] \in {"done", "cancelled"}

Full    == Len(queue) >= queue_capacity
-----------------------------------------------------------------------------
Init ==
    /\ mux \in Muxes
    /\ captured = [s \in Sources |-> 0]
    /\ pump = [s \in Sources |-> "none"]
    /\ error = [s \in Sources |-> FALSE]
    /\ cancelling = [s \in Sources |-> "no"]
    /\ queue = <<>> /\ active = 0 /\ gen = "new" /\ ending = "NONE"
    /\ yielded = [s \in Sources |-> <<>>]
-----------------------------------------------------------------------------
(* pump *)

PumpStarts(s) ==
    /\ pump[s] = "new" /\ cancelling[s] # "pending"
    /\ pump' = [pump EXCEPT ![s] = "pull"]
    /\ UNCHANGED <<mux, captured, error, cancelling, queue, merged>>

\* await queue.put(item): at once if there is room, else the pump waits at
\* "waiting"; afterwards it is at "after".
EnqueueBug(s, frame, waiting, after) ==
    /\ pump' = [pump EXCEPT ![s] = after]
    /\ queue' = IF Full THEN queue ELSE Append(queue, [source |-> s, frame |-> frame])
EnqueueAheadBug(s, frame, waiting, after) ==
    IF Full THEN pump' = [pump EXCEPT ![s] = waiting] /\ UNCHANGED queue
            ELSE /\ pump' = [pump EXCEPT ![s] = after]
                 /\ queue' = <<[source |-> s, frame |-> frame]>> \o queue
Enqueue(s, frame, waiting, after) ==
    IF Full THEN pump' = [pump EXCEPT ![s] = waiting] /\ UNCHANGED queue
            ELSE /\ pump' = [pump EXCEPT ![s] = after]
                 /\ queue' = Append(queue, [source |-> s, frame |-> frame])

PumpReceives(s) ==
    /\ pump[s] = "pull" /\ cancelling[s] # "pending"
    /\ captured[s] < MaxFrames
    /\ captured' = [captured EXCEPT ![s] = @ + 1]
    /\ Enqueue(s, captured'[s], "put", "pull")
    /\ UNCHANGED <<mux, error, cancelling, merged>>

PumpPuts(s) ==
    /\ pump[s] = "put" /\ cancelling[s] # "pending" /\ ~Full
    /\ Enqueue(s, captured[s], "put", "pull")
    /\ UNCHANGED <<mux, captured, error, cancelling, merged>>

\* The source ends or raises; the finally clause reports it.
ReportsBug(s) == /\ pump' = [pump EXCEPT ![s] = "done"]
                 /\ UNCHANGED queue
Reports(s) == Enqueue(s, DONE, "report", "done")

PumpEnds(s) ==
    /\ pump[s] = "pull" /\ cancelling[s] # "pending"
    /\ \E failed \in BOOLEAN:
          /\ failed => "error" \in SourceFaults
          /\ error' = [error EXCEPT ![s] = failed]
    /\ Reports(s)
    /\ UNCHANGED <<mux, captured, cancelling, merged>>

PumpReports(s) ==
    /\ pump[s] = "report" /\ cancelling[s] # "pending" /\ ~Full
    /\ Reports(s)
    /\ UNCHANGED <<mux, captured, error, cancelling, merged>>

\* CancelledError at the pump's await ends it without a report, and drops the
\* frame it holds.
PumpCancelled(s) ==
    /\ cancelling[s] = "pending"
    /\ pump' = [pump EXCEPT ![s] = "cancelled"]
    /\ cancelling' = [cancelling EXCEPT ![s] = "no"]
    /\ UNCHANGED <<mux, captured, error, queue, merged>>

\* A source that answers the cancellation by an exception of its own, by its
\* end, or by going on, as frames() of an adapter does when closing its
\* websocket raises an OSError.
PumpLosesCancel(s) ==
    /\ cancelling[s] = "pending"
    /\ pump[s] = "pull" /\ "unclean" \in SourceFaults
    /\ cancelling' = [cancelling EXCEPT ![s] = "lost"]
    /\ \/ /\ \E failed \in BOOLEAN: error' = [error EXCEPT ![s] = failed]
          /\ Reports(s)
       \/ UNCHANGED <<pump, error, queue>>
    /\ UNCHANGED <<mux, captured, merged>>

Pump(s) ==
    \/ PumpStarts(s) \/ PumpReceives(s) \/ PumpPuts(s) \/ PumpEnds(s)
    \/ PumpReports(s) \/ PumpCancelled(s) \/ PumpLosesCancel(s)
-----------------------------------------------------------------------------
(* The generator *)

\* The consumer asks for a frame; the first time the pumps are created.
Asks ==
    /\ \/ /\ gen = "new"
          /\ pump' = [s \in Sources |-> "new"]
          /\ active' = Cardinality(Sources)
       \/ gen = "yield" /\ UNCHANGED <<pump, active>>
    /\ gen' = "get"
    /\ UNCHANGED <<mux, captured, error, cancelling, queue, ending, yielded>>

TakesFrame ==
    /\ gen = "get" /\ queue # <<>> /\ Head(queue).frame # DONE
    /\ queue' = Tail(queue)
    /\ LET item == Head(queue)
       IN  yielded' = [yielded EXCEPT ![item.source] = Append(@, item.frame)]
    /\ gen' = "yield"
    /\ UNCHANGED <<mux, pumps, cancelling, active, ending>>

\* The finally clause cancels the pumps that are not done, then waits for them.
CancelPumpsBug ==
    cancelling' = [s \in Sources |-> IF pump[s] = "put" THEN "pending" ELSE cancelling[s]]
CancelPumps ==
    cancelling' = [s \in Sources |-> IF PumpOver(s) THEN cancelling[s] ELSE "pending"]

Closes(how) ==
    /\ gen' = "closing"
    /\ ending' = how
    /\ CancelPumps

\* Does the report of source s end the stream?
RaisesBug(s) == mux = "routes" /\ active > 1
RaisesOnErrorBug(s) == error[s]
Raises(s)    == error[s] \/ (mux = "routes" /\ active > 1)

TakesDone ==
    /\ gen = "get" /\ queue # <<>> /\ Head(queue).frame = DONE
    /\ queue' = Tail(queue)
    /\ active' = active - 1
    /\ LET s == Head(queue).source
       IN  \/ Raises(s) /\ Closes("raised")
           \/ ~Raises(s) /\ active = 1 /\ Closes("ended")
           \/ ~Raises(s) /\ active # 1 /\ UNCHANGED <<gen, ending, cancelling>>
    /\ UNCHANGED <<mux, pumps, yielded>>

\* The task that waits for the next frame is cancelled, or the generator is
\* closed where it yields.
ConsumerStops ==
    /\ gen \in {"get", "yield"}
    /\ Closes("cancelled")
    /\ UNCHANGED <<mux, pumps, queue, active, yielded>>

\* A second cancellation reaches the pumps through gather, which still waits
\* for all of them.
ConsumerCancelsAgain ==
    /\ gen = "closing" /\ \E s \in Sources: ~PumpOver(s)
    /\ ending' = "cancelled"
    /\ CancelPumps
    /\ UNCHANGED <<mux, pumps, queue, active, gen, yielded>>

Closed ==
    /\ gen = "closing" /\ \A s \in Sources: PumpOver(s)
    /\ gen' = "closed"
    /\ UNCHANGED <<mux, pumps, cancelling, queue, active, ending, yielded>>
-----------------------------------------------------------------------------
Next ==
    \/ \E s \in Sources: Pump(s)
    \/ Asks \/ TakesFrame \/ TakesDone
    \/ ConsumerStops \/ ConsumerCancelsAgain \/ Closed

Spec == Init /\ [][Next]_vars

\* Tasks that are ready run, and a pump that waits for room is among the first
\* to be woken; a source need not deliver, and a consumer that has not stopped
\* asks for more.
FairSpec ==
    /\ Spec
    /\ \A s \in Sources:
          /\ WF_vars(PumpStarts(s)) /\ WF_vars(PumpCancelled(s) \/ PumpLosesCancel(s))
          /\ SF_vars(PumpPuts(s)) /\ SF_vars(PumpReports(s))
    /\ WF_vars(TakesFrame \/ TakesDone) /\ WF_vars(Closed) /\ WF_vars(Asks)
-----------------------------------------------------------------------------
(* Properties *)

MuxTypeOK ==
    /\ mux \in Muxes
    /\ captured \in [Sources -> Nat]
    /\ pump \in [Sources -> {"none", "new", "pull", "put", "report", "done", "cancelled"}]
    /\ error \in [Sources -> BOOLEAN]
    /\ cancelling \in [Sources -> {"no", "pending", "lost"}]
    /\ queue \in Seq(Items) /\ Len(queue) <= queue_capacity
    /\ active \in Nat
    /\ gen \in {"new", "get", "yield", "closing", "closed"}
    /\ ending \in {"NONE", "ended", "raised", "cancelled"}
    /\ yielded \in [Sources -> Seq(Nat)]

InQueue(s, frame) == \E i \in DOMAIN queue : queue[i] = [source |-> s, frame |-> frame]

\* The consumer gets the frames of each source in the order of their capture,
\* none skipped and none twice, through whatever interleaving of the pumps.
SourceOrder == \A s \in Sources : \A i \in DOMAIN yielded[s] : yielded[s][i] = i

\* Until the stream is left, every captured frame has been yielded, or is in the
\* queue, or in the hand of a pump that waits for room.
NoFrameLost ==
    gen \in {"new", "get", "yield"} =>
        \A s \in Sources : \A n \in 1 .. captured[s] :
            \/ n <= Len(yielded[s])
            \/ InQueue(s, n)
            \/ pump[s] = "put" /\ n = captured[s]

Complete(s) == Len(yielded[s]) = captured[s]

\* A stream that ended has yielded every frame of every source, and one that
\* raised every frame of the source that made it raise.  A session of routes
\* does not go on behind the report of a route that has ended.
EndingIsComplete ==
    /\ ending = "ended" => queue = <<>> /\ \A s \in Sources : Complete(s)
    /\ ending = "raised" =>
          \E s \in Sources : /\ pump[s] = "done" /\ ~InQueue(s, DONE) /\ Complete(s)
                             /\ error[s] \/ mux = "routes"
    /\ mux = "routes" /\ gen \in {"get", "yield"} =>
          \A s \in Sources : pump[s] = "done" => InQueue(s, DONE)

\* The consumer never waits for a queue that nobody is left to fill.
NeverStarves ==
    gen = "get" /\ queue = <<>> => \E s \in Sources : ~PumpOver(s)

\* Leaving the stream ends all its pumps, those of sources that answer their
\* cancellation in their own way included.  It does not end only while such a
\* source goes on, or its pump waits for room that nobody makes any more.
TeardownEnds ==
    gen = "closing" ~>
        \/ gen = "closed"
        \/ []<>(\E s \in Sources : cancelling[s] = "lost" /\ ~PumpOver(s))

\* The failure of a source reaches a consumer that keeps asking, however busy
\* the other sources are.
FailureSurfaces == (\E s \in Sources : error[s]) ~> gen \in {"closing", "closed"}
=============================================================================
