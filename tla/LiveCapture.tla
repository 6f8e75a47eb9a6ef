---------------------------- MODULE LiveCapture -----------------------------
(***************************************************************************)
(* A live capture run, from the exchange connections to the exit code:     *)
(* the adapters of src/cryptobot/adapters/hyperliquid/public.py and        *)
(* src/cryptobot/adapters/binance/public.py under the runtimes             *)
(* src/cryptobot/runtime/public_recorder.py (Hyperliquid alone) and        *)
(* src/cryptobot/runtime/dual_source_recorder.py (both).                   *)
(*                                                                         *)
(* An adapter runs one session after the other; a session has one          *)
(* websocket per route.  The recorder is the abstract one of CaptureLog:   *)
(* what it has taken and, at its end, how much of it the log holds.        *)
(***************************************************************************)
EXTENDS Naturals, Sequences, FiniteSets, OrderedChecks

CONSTANTS
    Runs,          \* run configurations: the runtime and its sources
    RoutesOf,      \* the websocket routes of each source
    Subscriptions, \* what a route subscribes to, acknowledged one by one
    Counting,      \* the routes whose frames say how many subscriptions their
                   \* session still waits for: those of Hyperliquid
    Policy,        \* the reconnect policy of each source
    Capacity,      \* room for frames between an adapter and the recorder
    MaxTaken       \* bound: frames of a run; with those of its sessions and of
                   \* the frames of a connection, which are part of a run

Sources == DOMAIN RoutesOf
Routes  == UNION {RoutesOf[s] : s \in Sources}
SourceOf == [r \in Routes |-> CHOOSE s \in Sources : r \in RoutesOf[s]]

\* A message acknowledges a subscription of its source, on whichever route it
\* comes and however often, or nothing that the source subscribed to.
NoAck == "no ack"
AcksOf(s) == (UNION {Subscriptions[r] : r \in RoutesOf[s]}) \cup {NoAck}

\* What the constructors of the two reconnect policies accept, in tenths of a
\* second and per cent: floor is 2 seconds for Hyperliquid, and applies to its
\* base delay too; that of Binance may be above its maximum.
ValidPolicy(p) ==
    /\ {p.floor, p.base, p.max, p.jitter} \subseteq Nat
    /\ 0 < p.base /\ p.base <= p.max
    /\ p.strict => p.floor <= p.base
    /\ p.jitter < 100

\* PublicRecorderConfig and DualSourceRecorderConfig: one source and a duration
\* that may be left out, or all sources and a duration.
ValidRun(r) ==
    \/ r.runtime = "public" /\ \E s \in Sources : r.sources = {s}
    \/ r.runtime = "dual" /\ r.sources = Sources /\ r.timed

ASSUME LiveAssumption ==
    /\ \A r \in Runs : ValidRun(r)
    /\ \A s, t \in Sources : s # t => RoutesOf[s] \cap RoutesOf[t] = {}
    /\ Subscriptions = [r \in Routes |-> Subscriptions[r]]
    /\ Counting \subseteq Routes
    /\ \A s \in Sources : ValidPolicy(Policy[s])
    /\ Capacity \in Nat \ {0}

VARIABLES
    run,       \* the configuration of this run
    phase,     \* what frames() of an adapter is doing
    session,   \* sessions it has started
    pending,   \* subscriptions of the session that a counting route waits for
    ingest,    \* ingest_seq of a connection
    fruitful,  \* yielded: this session has given a frame to its consumer
    failures,  \* consecutive_failures
    delay,     \* what frames() sleeps before its next session
    inner,     \* frames in the queue of a session with several routes
    merged,    \* frames in the queue of the source multiplexer
    taken,     \* frames observed by the runtime and received by the recorder
    late,      \* frames observed, but of a pull that the recorder had cancelled
    stop,      \* who requested the stop
    gen,       \* how the recorder holds the stream of frames
    status,    \* state and shutdown_outcome of the recorder
    log,       \* how many of the taken frames the segment holds
    sealed,    \* the segment is sealed and in the manifest
    exit       \* the exit code

adapter == <<phase, session, pending, ingest, fruitful, failures, delay, inner>>
result  == <<status, log, sealed>>
vars == <<run, adapter, merged, taken, late, stop, gen, result, exit>>

Multiplexed(s) == Cardinality(RoutesOf[s]) > 1
Unfinished == [state |-> "RUNNING", outcome |-> "NONE"]
NewAdapter ==
    [phase |-> [s \in Sources |-> "idle"], session |-> [s \in Sources |-> 0],
     pending |-> [r \in Counting |-> Subscriptions[r]], ingest |-> [r \in Routes |-> 0],
     fruitful |-> [s \in Sources |-> FALSE], failures |-> [s \in Sources |-> 0],
     delay |-> [s \in Sources |-> 0], inner |-> [s \in Sources |-> <<>>]]
-----------------------------------------------------------------------------
(* The adapters *)

Clamp(low, x, high) == Max({low, Min({x, high})})

\* delay_seconds, for the lowest, the middle and the highest random number.
Delays(p, n) ==
    LET base == Min({p.max, p.base * 2 ^ Min({n - 1, 30})})
        span == (base * p.jitter) \div 100
    IN {Clamp(p.floor, base + j, p.max) : j \in {0, span}}
       \cup {Clamp(p.floor, base - span, p.max)}

\* Hyperliquid alone: the adapter runs while the recorder waits for a frame.
\* Under the multiplexer its pump runs until the merged stream is closed.
AdapterRuns(s) ==
    /\ s \in run.sources /\ status = Unfinished
    /\ gen = "awaited" \/ (gen = "suspended" /\ run.runtime = "dual")

\* The first session, or the next one after the sleep.
BeginSessionBug(s) ==
    /\ phase[s] \in {"idle", "sleep"} /\ AdapterRuns(s)
    /\ session[s] < run.max_sessions[s]
    /\ session' = [session EXCEPT ![s] = @ + 1]
    /\ phase' = [phase EXCEPT ![s] = "open"]
    /\ fruitful' = [fruitful EXCEPT ![s] = FALSE]
    /\ delay' = [delay EXCEPT ![s] = 0]
    /\ UNCHANGED <<run, failures, pending, ingest, inner, merged, taken, late,
                   stop, gen, result, exit>>
BeginSession(s) ==
    /\ phase[s] \in {"idle", "sleep"} /\ AdapterRuns(s)
    /\ session[s] < run.max_sessions[s]
    /\ session' = [session EXCEPT ![s] = @ + 1]
    /\ phase' = [phase EXCEPT ![s] = "open"]
    /\ fruitful' = [fruitful EXCEPT ![s] = FALSE]
    /\ delay' = [delay EXCEPT ![s] = 0]
    /\ pending' = [r \in Counting |-> IF r \in RoutesOf[s] THEN Subscriptions[r] ELSE pending[r]]
    /\ ingest' = [r \in Routes |-> IF r \in RoutesOf[s] THEN 0 ELSE ingest[r]]
    /\ UNCHANGED <<run, failures, inner, merged, taken, late, stop, gen, result, exit>>

\* A frame given by frames(): into the multiplexer's queue, or, without a
\* multiplexer, through _observe_frames to the recorder that waits for it.
Yield(s, frame) ==
    /\ fruitful' = [fruitful EXCEPT ![s] = TRUE]
    /\ \/ /\ run.runtime = "dual"
          /\ Len(merged) < Capacity
          /\ merged' = Append(merged, frame)
          /\ UNCHANGED taken
       \/ /\ run.runtime = "public" /\ gen = "awaited"
          /\ Len(taken) < MaxTaken
          /\ taken' = Append(taken, frame)
          /\ UNCHANGED merged

\* What a session makes of a message.  Only Hyperliquid counts what is left to be
\* acknowledged; an acknowledgement it does not wait for takes nothing away.
FrameOn(r, ack) ==
    LET n == session[SourceOf[r]]
        seq == ingest[r] + 1
    IN IF r \in Counting
       THEN [route |-> r, session |-> n, seq |-> seq, ack |-> ack,
             pending |-> Cardinality(pending[r] \ {ack})]
       ELSE [route |-> r, session |-> n, seq |-> seq, ack |-> ack]

\* A message arrives; classify_public_payload or classify_binance_payload finds
\* the acknowledgement of a subscription in it, or none.
Receive(r, ack) ==
    LET s == SourceOf[r]
        frame == FrameOn(r, ack)
    IN /\ phase[s] = "open" /\ AdapterRuns(s)
       /\ ingest[r] < run.max_frames[r]
       /\ ingest' = [ingest EXCEPT ![r] = @ + 1]
       /\ pending' = [q \in Counting |-> IF q = r THEN pending[q] \ {ack} ELSE pending[q]]
       /\ IF Multiplexed(s)
          THEN /\ Len(inner[s]) < Capacity
               /\ inner' = [inner EXCEPT ![s] = Append(@, frame)]
               /\ UNCHANGED <<fruitful, merged, taken>>
          ELSE Yield(s, frame) /\ UNCHANGED inner
       /\ UNCHANGED <<run, phase, session, failures, delay, late, stop, gen, result, exit>>

\* session_frames of Binance passes on what its routes have queued.
Forward(s) ==
    /\ phase[s] = "open" /\ AdapterRuns(s) /\ inner[s] # <<>>
    /\ inner' = [inner EXCEPT ![s] = Tail(@)]
    /\ Yield(s, Head(inner[s]))
    /\ UNCHANGED <<run, phase, session, pending, ingest, failures, delay, late, stop, gen,
                   result, exit>>

\* The connection is refused, closed or broken: for Binance that of either
\* route, whose report drops what the other one has queued behind it.
EndSessionBug(s) ==
    /\ phase[s] = "open" /\ AdapterRuns(s)
    /\ phase' = [phase EXCEPT ![s] = "sleep"]
    /\ failures' = [failures EXCEPT ![s] = @ + 1]
    /\ \E d \in Delays(Policy[s], failures'[s]) : delay' = [delay EXCEPT ![s] = d]
    /\ inner' = [inner EXCEPT ![s] = <<>>]
    /\ UNCHANGED <<run, session, fruitful, pending, ingest, merged, taken, late,
                   stop, gen, result, exit>>
EndSession(s) ==
    /\ phase[s] = "open" /\ AdapterRuns(s)
    /\ phase' = [phase EXCEPT ![s] = "sleep"]
    /\ failures' = [failures EXCEPT ![s] = (IF fruitful[s] THEN 0 ELSE @) + 1]
    /\ \E d \in Delays(Policy[s], failures'[s]) : delay' = [delay EXCEPT ![s] = d]
    /\ inner' = [inner EXCEPT ![s] = <<>>]
    /\ UNCHANGED <<run, session, fruitful, pending, ingest, merged, taken, late,
                   stop, gen, result, exit>>
-----------------------------------------------------------------------------
(* The recorder, as CaptureLog promises it *)

\* _observe_frames over merge_capture_sources.
Take ==
    /\ run.runtime = "dual" /\ gen = "awaited" /\ status = Unfinished
    /\ merged # <<>> /\ Len(taken) < MaxTaken
    /\ taken' = Append(taken, Head(merged))
    /\ merged' = Tail(merged)
    /\ UNCHANGED <<run, adapter, late, stop, gen, result, exit>>

\* The producer has seen the stop: it cancels its pull, which closes the stream
\* and, under the multiplexer, cancels the pumps; or, with a frame in its hand,
\* it leaves the stream where it is.
LeaveStream ==
    /\ stop # "no" /\ gen = "awaited" /\ status = Unfinished
    /\ \/ gen' = "closed"
       \/ gen' = "suspended" /\ taken # <<>>
    /\ UNCHANGED <<run, adapter, merged, taken, late, stop, result, exit>>

\* Without a multiplexer the cancelled pull may outlive its cancellation: an OSError
\* of the connection that is being closed makes frames() open another session.
\* The frame it gives then is observed, and thrown away by _await_cancelled.
OutlivesStop(r, ack) ==
    LET s == SourceOf[r]
    IN /\ run.runtime = "public" /\ stop # "no" /\ gen = "awaited"
       /\ phase[s] = "open" /\ AdapterRuns(s) /\ session[s] < run.max_sessions[s]
       /\ late' = {[route |-> r, ack |-> ack]}
       /\ gen' = "closed"
       /\ UNCHANGED <<run, adapter, merged, taken, stop, result, exit>>

-----------------------------------------------------------------------------
(* The runtimes *)

\* SignalState.handle, in the runtime that installs signal handlers, and the
\* end of the duration timer; only the first request has an effect.
request_stop(by) ==
    /\ stop = "no" /\ status = Unfinished
    /\ by = "signal" => run.runtime = "public"
    /\ by = "timer" => run.timed
    /\ stop' = by
    /\ UNCHANGED <<run, adapter, merged, taken, late, gen, result, exit>>

\* What _observe_frames has counted, and which acknowledgements it found of a source.
Observed == {taken[i] : i \in DOMAIN taken} \cup late
AckedIn(frames, s) == {f.ack : f \in {g \in frames : SourceOf[g.route] = s}}
Acknowledged(r) == Subscriptions[r] \subseteq AckedIn(Observed, SourceOf[r])
AllAcknowledged == \A s \in run.sources : \A r \in RoutesOf[s] : Acknowledged(r)
SourceIds(frames) == {SourceOf[f.route] : f \in frames}
ManifestSources == IF sealed THEN SourceIds({taken[i] : i \in 1..log}) ELSE {}

\* _runtime_exit_code
PublicChecksBug(clean) ==
    << Check(status'.state # "FAILED", "RECORDER_FAILED"),
       Check(Observed # {}, "NO_FRAMES"),
       Check(AllAcknowledged, "SUBSCRIPTIONS_INCOMPLETE") >>
PublicChecks(clean) ==
    << Check(/\ status'.state # "FAILED"
             /\ status'.outcome \notin {"TIMED_OUT", "FAILED"}, "RECORDER_FAILED"),
       Check(clean, "STORAGE_AUDIT_FAILED"),
       Check(Observed # {}, "NO_FRAMES"),
       Check(AllAcknowledged, "SUBSCRIPTIONS_INCOMPLETE") >>

\* _exit_code; the frames carry the domain of the one clock of the run.
DualChecks(clean) ==
    << Check(status' = [state |-> "COMPLETE", outcome |-> "CLEAN_DURABLE"], "RECORDER_FAILED"),
       Check(clean, "STORAGE_AUDIT_FAILED"),
       Check(/\ run.sources \subseteq SourceIds(Observed)
             /\ run.sources \subseteq ManifestSources', "SOURCE_COVERAGE_FAILED"),
       Check(Observed # {}, "CLOCK_DOMAIN_FAILED"),
       Check(AllAcknowledged, "SUBSCRIPTION_ACK_FAILED") >>

\* audit_storage of a root that may hold more than this run's segment: an
\* unsealed segment is never clean.
AuditResults == IF log' > 0 /\ ~sealed' THEN {FALSE} ELSE BOOLEAN

\* The event loop ends with the run, and the adapters with it.
LoopEnds ==
    /\ phase' = NewAdapter.phase /\ session' = NewAdapter.session
    /\ pending' = NewAdapter.pending /\ ingest' = NewAdapter.ingest
    /\ fruitful' = NewAdapter.fruitful /\ failures' = NewAdapter.failures
    /\ delay' = NewAdapter.delay /\ inner' = NewAdapter.inner
    /\ merged' = <<>>

\* What follows run() in the runtime: the audit and the exit code.
Exit ==
    \E clean \in AuditResults :
        exit' = FirstFailed(IF run.runtime = "public" THEN PublicChecks(clean)
                                                      ELSE DualChecks(clean), "SUCCESS")

\* The stop has been noticed and everything taken is written and sealed.
Completes ==
    /\ status = Unfinished /\ gen \in {"closed", "suspended"}
    /\ log' = Len(taken)
    /\ sealed' = (run.seal_on_shutdown /\ taken # <<>>)
    /\ status' = [state |-> "COMPLETE",
                  outcome |-> IF sealed' THEN "CLEAN_DURABLE" ELSE "CLEAN_UNSEALED"]
    /\ LoopEnds /\ UNCHANGED <<run, taken, late, stop, gen>>
    /\ Exit

\* A failure of the source leaves a clean segment with all that was taken;
\* one of the writer, a sync, the seal or the drain loses any suffix of it.
Fails ==
    /\ status = Unfinished
    /\ \E outcome \in {"CLEAN_DURABLE", "CLEAN_UNSEALED", "TIMED_OUT", "FAILED"} :
          /\ status' = [state |-> "FAILED", outcome |-> outcome]
          /\ sealed' = (outcome = "CLEAN_DURABLE" /\ taken # <<>>)
          /\ IF outcome \in {"TIMED_OUT", "FAILED"} THEN log' \in 0..Len(taken)
                                                    ELSE log' = Len(taken)
    /\ LoopEnds /\ UNCHANGED <<run, taken, late, stop, gen>>
    /\ Exit

\* run() raises instead of returning a status; the runtime lets it pass.
Raises ==
    /\ status = Unfinished
    /\ status' = [state |-> "RAISED", outcome |-> "NONE"]
    /\ exit' = "RAISED"
    /\ LoopEnds /\ UNCHANGED <<run, taken, late, stop, gen, log, sealed>>
-----------------------------------------------------------------------------
Init ==
    /\ run \in Runs
    /\ phase = NewAdapter.phase /\ session = NewAdapter.session
    /\ pending = NewAdapter.pending /\ ingest = NewAdapter.ingest
    /\ fruitful = NewAdapter.fruitful /\ failures = NewAdapter.failures
    /\ delay = NewAdapter.delay /\ inner = NewAdapter.inner
    /\ merged = <<>> /\ taken = <<>> /\ late = {} /\ stop = "no" /\ gen = "awaited"
    /\ status = Unfinished /\ log = 0 /\ sealed = FALSE /\ exit = "NONE"

AdapterStep ==
    \/ \E s \in Sources : BeginSession(s) \/ Forward(s) \/ EndSession(s)
    \/ \E r \in Routes : \E ack \in AcksOf(SourceOf[r]) : Receive(r, ack)

RuntimeStep ==
    \/ Take \/ LeaveStream \/ Completes \/ Fails \/ Raises
    \/ \E by \in {"signal", "timer"} : request_stop(by)
    \/ \E r \in Routes : \E ack \in AcksOf(SourceOf[r]) : OutlivesStop(r, ack)

Next == AdapterStep \/ RuntimeStep

Spec == Init /\ [][Next]_vars
-----------------------------------------------------------------------------
(* Properties *)

\* What the recorder is given: the frames of a connection without a gap from
\* the first, in order, and never one of a source's session behind one of a
\* later session, through the queue of the session, its loss at a failed route,
\* and the queue of the multiplexer (ingest_seq is what replays are ordered by).
ConnectionOrder ==
    \A i \in DOMAIN taken :
        LET f == taken[i]
            before == {j \in 1..(i - 1) : SourceOf[taken[j].route] = SourceOf[f.route]}
        IN /\ \A j \in before : taken[j].session <= f.session
           /\ f.seq = 1 + Cardinality({j \in before : /\ taken[j].route = f.route
                                                      /\ taken[j].session = f.session})

\* pending_subscription_count of a Hyperliquid frame is what its own session has
\* not acknowledged up to it: acknowledgements do not carry over a reconnect, and
\* one that comes twice, or of another subscription, does not count.
PendingIsOfItsSession ==
    \A i \in {j \in DOMAIN taken : taken[j].route \in Counting} :
        LET f == taken[i]
            acked == {taken[j].ack : j \in {k \in 1..i : /\ taken[k].route = f.route
                                                         /\ taken[k].session = f.session}}
        IN f.pending = Cardinality(Subscriptions[f.route] \ acked)

\* Exit code 0 is only given after a run that was asked to stop and kept every
\* frame it took, in a sealed segment with frames of all sources, where the
\* acknowledgement of every subscription was among them.  One frame may stand in
\* for them without being in the segment: that of a pull that outlived the stop,
\* which is observed though the recorder throws it away.
SuccessIsEvidenced ==
    exit = "SUCCESS" =>
        /\ stop # "no" /\ log = Len(taken)
        /\ taken # <<>> => sealed /\ ManifestSources = run.sources
        /\ taken = <<>> => late # {}
        /\ \A s \in run.sources : \A r \in RoutesOf[s] :
              Subscriptions[r] \subseteq AckedIn({taken[i] : i \in 1..log} \cup late, s)

\* However long the adapter fails, it waits between the floor and the maximum
\* (or the floor, where that is above it); a session that gave a frame brings the
\* delay back to the base, and after one that gave none it is doubled, up to the
\* maximum, each within the jitter.
ReconnectIsPaced ==
    [][\A s \in Sources : phase[s] = "open" /\ phase'[s] = "sleep" =>
          LET p == Policy[s]
              doubled == Min({p.max, p.base * 2 ^ Min({failures[s], 30})})
          IN /\ p.floor <= delay'[s] /\ delay'[s] <= Max({p.floor, p.max})
             /\ fruitful[s] => 100 * delay'[s] <= Max({100 * p.floor, p.base * (100 + p.jitter)})
             /\ ~fruitful[s] => 100 * delay'[s] >= doubled * (100 - p.jitter)]_vars
=============================================================================
