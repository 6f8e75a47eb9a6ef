# Verification of cryptobot: capture, storage and the evidence campaign

TLA+ modules for the parts of `src/src/cryptobot` whose correctness depends on the order
of events: the recorder that captures exchange frames, the raw segments and their
manifest on disk, the multiplexer that merges several sources, the live run from the
exchange connections to the exit code, the two campaigns whose services share files, and
the study that must not look ahead. TLC checks each module on small instances; TLAPS
proves the central invariants for every value of the constants. All paths below are
relative to `src/`; `recorder.py:255` is a line of `src/cryptobot/data/recorder.py`, and
so on.

To repeat the work: `tlc -config MCRecorder.cfg MCRecorder` (one command per `.cfg`,
listed under "Runs"), and `tlapm RecorderProofs.tla`, `tlapm SegmentStoreProofs.tla`,
`tlapm SourceMuxProofs.tla`, `tlapm CampaignProofs.tla`, `tlapm FrontierProofs.tla`,
`tlapm LiveCaptureProofs.tla`, `tlapm SequencingProofs.tla`,
`tlapm SignalStudyProofs.tla`.

## 1. The system

The program records public market data of Hyperliquid and Binance, keeps it as evidence,
and derives datasets and research results from it. There is no trading.

    exchange websockets
      -> adapter                    subscribe, acknowledge, heartbeat, reconnect
      -> source multiplexer         one bounded queue, one pump task per source
      -> recorder supervisor        producer -> bounded queue -> writer
      -> raw log                    .raw.open file, append / sync / scan
      -> manifest                   seal, commit, audit, recover
      -> normalization, datasets    events, Parquet tables
      -> campaign                   segments collected for a fixed duration
      -> research                   studies over the published datasets

### Components

**Recorder supervisor** (`data/recorder.py`). State: settings, lifecycle state and
shutdown outcome, first failure, counters, the asyncio queue, the open raw log and the
sealed record. Operations: `request_stop`, `run` with its producer and writer tasks.
Hard: three tasks interleave at every `await`; a stop, a frame, the end of a task and
the drain timer may fall into the same turn of the event loop; tasks are cancelled while
they hold a frame; every collaborator may fail. Correct if: the frames are stored in
order without a gap; COMPLETE is never said of a lossy run; the outcome describes what
happened to the segment; a stop ends the run.

**Raw log** (`data/rawlog.py`). State: a file of framed records and the length known to
be durable. Operations: open, append, sync, close, scan, truncate an incomplete tail.
Hard: a crash leaves any prefix of the buffered bytes. Correct if what was called
durable is never lost, least of all by the recovery.

**Segment manifest, seal, commit, audit** (`data/manifest.py`). State: segment files
under their open and final names, `manifest.json` and its temporary file. Operations:
`seal_segment`, `commit_manifest`, `recover_open_segment`, `audit_storage`. Hard: a
crash between any two of close, fsync, rename, fsync of the directory, write of the
temporary manifest, its fsync, the replacement and the last fsync. Correct if the
manifest only names whole segments, a sealed segment stays published, and a clean audit
has missed nothing.

**Source multiplexer** (`runtime/dual_source_recorder.py`, and in
`adapters/binance/public.py` for the routes of one session). State: the queue, the
number of active pumps, the pumps' errors. Operations: pump, take, end, raise, close.
Hard: the order of pumps and consumer, a report that overtakes frames, a teardown that
waits for pumps blocked on a full queue. Correct if each source's order is kept, nothing
is lost before the stream is left, a failure ends the stream, and the teardown ends.

**Public and dual recorder runtimes** (`runtime/public_recorder.py`,
`runtime/dual_source_recorder.py`). State: the frames observed on their way to the
recorder, who asked for the stop. Operations: signals, the duration timer, the
observation, the audit after the run, the exit code. Hard: the code is put together from
a status, an audit and an observation of different moments. Correct if 0 is only given
for a segment that holds what was observed, of every source and subscription.

**Adapters** (`adapters/hyperliquid/public.py`, `adapters/binance/public.py`). State:
the session, its pending acknowledgements, `ingest_seq` of each connection, failures in
a row, delay. Hard: what belongs to a session starts over at a reconnect, while frames
of the session before are still queued; the delays double, are jittered, clamped and
reset. Correct if acknowledgements and order are those of one session, and reconnects
are paced.

**Frontier segment runtime and campaign storage** (`runtime/frontier_segment.py`,
`research/campaign_storage.py`, the commands of `cli.py`). State: only files, one
directory per segment, and the revisions of the report. Operations: capture, hand-over,
claim, normalize, materialize, accept, publish, report. Hard: processors of a timer and
of the combined command overlap, with a report that scans while they work; each may be
killed, and none of the files is synced. Correct if one processor works on a segment, a
report rests on whole segments, and every capture is processed.

**Development campaign** (`research/development_campaign.py` over
`runtime/frontier_segment.py`). State: only files: one attempt, capture-ready,
processing-started, segment-evidence and membership file per segment,
`campaign-start.json` and `campaign-complete.json`. Operations: a capture cycle, a
process cycle and a status command, each a process of its own. Hard: they run
concurrently and are killed anywhere; every decision is read from which files exist; the
wall clock is read several times in a cycle. Correct if all agree on one start, captures
stay inside the window, every accepted capture is settled, and the campaign completes.

**Development closeout** (`research/development_closeout.py`): one-shot publication
after completion.

**Events, instruments and normalization** (`data/events.py`, `instruments.py`,
`adapters/*/normalize.py`, `trades.py`, `context.py`, `data/normalization_pipeline.py`).
Deterministic: every check of a frame in its order, the events of a good one, the causal
order of receipt, anomalies and duplicates.

**Materializer and campaign rules** (`data/materialize.py`, `research/campaign.py`,
`campaign_dataset.py`, `frontier_dataset.py`, `frontier.py`). Deterministic: the rows of
a dataset, its acceptance, the windows and their interruptions, the cadence tolerance,
the sample and the decision. Hard: windows at their boundaries, and a sample that must
not change once it is complete.

**Simulator** (`sim/`). Fixed-horizon trials over a stream of quotes and the ledger a
policy leaves on them. Hard: an unknown cost must not become zero.

**Signal study** (`research/signal_dataset.py`, `signal_campaign.py`,
`signal_protocol.py`, `signal_selection_campaign.py`, `signal_selection.py`). Features
and outcomes of trials, partition boundaries, a frozen dataset and its reconstruction
before confirmation, the selection gate. Hard: two clocks that may disagree, and a
reconstruction from fewer data. Correct if nothing looks ahead.

**Economic and microstructure studies**, **historical data** (`research/tardis_*.py`),
**evidence contract and configuration**, the rest of the **command line**,
**tools/research**: sequential and mostly numerical or pure I/O.

`PROJECT.json` gives the status of each, and the hazards at their lines.

### How the components interact

The adapter is an asynchronous generator of frames. The multiplexer awaits one such
generator per pump and is one itself. The supervisor's producer awaits it through a
`next_frame` task, so that a cancellation of the producer reaches the multiplexer, the
pumps and the adapters in turn. The writer calls the raw log synchronously; the run ends
in `seal_segment`, which commits the manifest. A campaign's capture cycle runs a whole
recorder and turns the result into `capture-ready.json`; its process cycle turns that
file into a published dataset: it normalizes the raw segment, materializes the events,
applies the campaign rules and binds the result by digests. The report of the campaign
reads what is published; the signal study reads the same datasets and runs the simulator
over them.

## 2. Plan

| step | modules | state |
|---|---|---|
| 1 | `CaptureLog` (abstract), `Recorder` (implements it), `RecorderProofs` | done |
| 2 | `SegmentStore`, `SegmentStoreProofs` | done |
| 3 | `SourceMux`, `SourceMuxProofs` | done |
| 4 | `Campaign`, `CampaignProofs` | done |
| 5 | `OrderedChecks`, `LiveCapture` (adapters, multiplexer and runtimes over the promise of `CaptureLog`), `LiveCaptureProofs` | done |
| 6 | `Normalization`, `FrontierGate`: the pure rules from a frame to a decision | done |
| 7 | `Frontier` (over 6), `FrontierProofs` | done |
| 8 | `Sequencing`, `Simulator`, `SignalStudy` | done |
| 9 | theorems: `ConnectionOrder` and `ReconnectIsPaced`; `SequencingProofs`; all properties of the study in `SignalStudyProofs` | done |
| 10 | theorems about the rules of `FrontierGate` (over `Sequencing`): `LaterSegmentsKeepSample` | done |
| 11 | theorems about the rules from a frame to a window: `WindowsAreSound`, `NearestRankIsSorted` | done |
| 12 | closeout (publication of finished files), historical training, economic and microstructure studies | planned, by their use |

The steps are ordered by what a mistake would cost: lost or misreported evidence first,
then an evidence set that is wrong, then what can be computed again. Modules are written
to be proved about: parameters are CONSTANTS with a named assumption, each operation is
an action, and no module uses a RECURSIVE operator.

## 3. The modules

### `Recorder`, `CaptureLog`

One program counter per task names the await it is suspended at; what asyncio runs
between two awaits is one action.

- `ppc`, the producer (`_produce`, `_enqueue`): `wait` (for the frame or the stop),
  `disarm`, `reap` (of the other task), `put` (the full queue), `end` (putting the END
  marker). `nf` is its `next_frame` task: pending, ended by a frame, an end or an error,
  or, behind a stop, told to end (`cancelling`). A source told so may obey, end or
  raise, or go on (`survived`): the producer then waits for it in `_await_cancelled`,
  which throws away the frame it may still give (`late`).
- `wpc`, the writer (`_write`): `get`, `hook` (the `before_persist` hook), and how it
  ended. Append, the sync every `sync_every_frames` frames, close and seal are inside
  its steps.
- `rpc`, `run()`: `wait`, `reap`, `drain`, and whether it returned a status or raised.
- `cancel`: a cancellation of the producer that is pending, or lost.
- `delivered` and `discarded` are no variables of the code: they count, for the
  properties, what the source gave and what `_await_cancelled` threw away.

The event loop is first in, first out, and without a hook the writer never suspends
while it has something to do. `RunTurn` and `ProducerTurn` say what follows from it:
without a hook no step of the producer or of `run()` comes between a put and the
writer's turn.

`CaptureLog` is what the capture promises, without tasks or queue: the log is a prefix
of what was accepted, the durable mark never exceeds it, a published log is frozen, and
only a log with everything durable is complete. `KeepsPromise` instantiates it with
accepted <- `Accepted` (what was received, or is in a task that still counts), stored <-
log, published <- sealed and the verdict of `state`.

### `SegmentStore`

A segment file has the name and the frames that processes see (`name`, `frames`, `tail`)
and those that a power loss cannot take (`link`, `synced`). `pc` is the step the process
is at: between `open` and `idle` are `closed`, `fsynced`, `renamed`, `linked` (the
directory is fsynced), `temp`, `tempsynced`, `replaced`, one per system call of
`seal_segment` and `commit_manifest`. `Kill` ends the process at any step and leaves any
part of the buffered frames; `PowerLoss` leaves any of the unsynced frames, possibly
with a damaged tail, an old or a new name, and the old or the new manifest. `Reopen`,
`recover_open_segment` and a seal after a crash (`Tools`) are library calls that the
tests and the operator make. `AuditState` and `AuditClean` are `audit_storage`.

Bytes are counted in frames: of the QCR1 encoding and the CRC remains whether a file
ends in a whole frame, in part of one, or in damaged bytes.

### `SourceMux`

One `pump` per source, with the await it is at (`pull`, `put`, `report`), the bounded
`queue` of frames and reports, and the generator (`gen`) with the number of `active`
sources. `mux` chooses between the two copies of the algorithm in the code: among
`routes`, a route that ends while another is active raises. The consumer may stop at any
await, and cancel again during the teardown. Sources may fail, or answer a cancellation
by their own error, by ending, or by going on: the Hyperliquid adapter reconnects on any
`OSError`, also one raised by closing its socket under a cancellation
(`adapters/hyperliquid/public.py:275`).

### `Campaign`

`file`, `start` and `complete` say which files exist and whether they are whole;
`service` gives each service's step. Each cycle reads the start
(`recover_campaign_start`) and creates it if a capture has been accepted; then the
capture service plans, records an attempt, captures, marks it ready, and completes the
campaign after the deadline; the process service binds what is published and processes
the first pending segment. A file is created and then written, in two steps. `Kill` ends
a service; with `torn` also between the two steps, which stands for a full disk as well.

### `LiveCapture`

Both runtimes over the abstract recorder of `CaptureLog`: `taken` is what it accepted,
`log` and `sealed` what it keeps, `status` its verdict; `Completes`, `Fails` and
`Raises` are the ends of a run that `Recorder` can reach. `phase`, `session`, `pending`,
`ingest`, `fruitful`, `failures` and `delay` are the local variables of `frames()`;
`inner` is the queue of a Binance session over its routes and `merged` that of the
multiplexer. `BeginSession` resets what a session starts with, `Receive` takes one
message of one connection with an acknowledgement or none: of any subscription of the
source, on any of its connections, once or again. Only Hyperliquid counts what is still
`pending` and writes it on its frames (`Counting`, `FrameOn`). `Forward` passes on what
a route queued, `EndSession` is a refused, closed or broken connection, with the backoff
of `delay_seconds` for the lowest, middle and highest random number. `PublicChecks` and
`DualChecks` are the two exit-code functions as lists of `OrderedChecks`: the first
check that fails names the code. `OutlivesStop` is a pull without a multiplexer that
goes on after the stop: its frame is `late`, observed by the runtime and thrown away by
the recorder. What the tasks of the multiplexer do at each await is in `SourceMux`.

### `Normalization`, `FrontierGate`

Operators only. A frame is a record of what the checks look at: `broken` holds the names
of the checks it fails, since the text of a number tells no more apart than whether it
parses. `NormalizeFrame` gives outcome and events, `PipelineReport` the report.
`FrontierGate` makes rows from records (`Dataset`), checks their provenance and
acceptance, walks the books for windows (`Resume` and its neighbours), computes the
tolerance from the cadence, and adjudicates the sample of all segments. `NearestRank` is
written as the least number that the given share of a list does not exceed; that this is
the element that the code picks from the sorted list is `NearestRankIsSorted`.

### `Frontier`

`file` says of each file of a segment directory whether it is absent, torn or whole.
`Record`, `WriteSummary` and `WriteReady` are the capture; `PickNext`, `Claim`,
`Normalize`, `Build`, `Rename`, `Accept` and `Publish` the processor, one step per file
created; `StartScan`, `ScanNext` and `WriteRevision` the report. What a whole file holds
is `OutcomeOf` the raw segment, computed by the rules above. `KillProcessor`,
`KillCapture` and `KillReport` end a process anywhere, with the file at hand torn or
not; `PowerLoss` ends all and tears or removes files of a directory, since none was
synced.

### `Sequencing`, `Simulator`, `SignalStudy`

`Sequencing` is what the code does to lists: `Keep`, a comprehension with a condition,
and `Sorted`, a stable sort by a key of numbers. Both are written with folds and a
recursive function, so that they can be proved about; the community modules have no
stable sort, and theirs is chosen, not computed.

`Opportunities` and `Simulate` are the trial builder and the engine. `Receive` extends
the stream of quotes and reference books of a segment, `NextSegment` begins another,
`Freeze` builds rows and boundaries, `Select` rebuilds the rows from what was received
before confirmation and applies the gate; it ends in phase -2 when the rebuilt rows
differ from the frozen ones. An arrival may be flagged `BACKFILL`, which is forbidden,
or `DUPLICATE_CANDIDATE`, which is not. The statistics are exact: the binomial tail as a
sum of binomial coefficients against a power of two, the test of the Wilson bound
against one half without its root (`AboveHalf`). Only the order of two bounds is by
their value, rounded down to a multiple of 1/`Precision`, as the code rounds to 60
digits; with the two rows of the run hundredths keep them apart.

## 4. Runs

Deadlock checking is off where the system stops by design: a run returns, a stream is
closed.

| run | result | shows |
|---|---|---|
| `MCRecorder` | pass | every fault, every setting with capacity and sync cadence 1 or 2, sealed or not, with or without a hook (106,536 states, 15 s) |
| `MCRecorderLostCancel` | violation | a failed writer may leave `run()` waiting for ever |
| `MCRecorderEscape` | violation | a fault may leave `run()` without a status |
| `MCSegmentStore` | pass | two segments under kills and power losses at every step |
| `MCSegmentStoreReopen` | violation | a reopened log claims what was never synced |
| `MCSourceMux` | pass | both multiplexers, failing and disobedient sources, stops |
| `MCCampaign` | pass | two services, the status command, kills between any two steps |
| `MCCampaignTorn` | violation | an empty file stops the processing for ever |
| `MCLiveCapture` | pass | one adapter alone, both under a multiplexer, reconnects, every end of the recorder (435,837 states, more than two minutes) |
| `MCFrontier` | pass | a capture, a timed and a combined processor, a report, a kill or a power loss (347,002 states, about two minutes) |
| `MCFrontierTorn` | violation | an interrupted publication refuses every report |
| `MCSignalStudy` | pass | two segments of ordinary and odd arrivals, up to the champion (292,577 states, about two minutes) |

### What the passing runs establish

Recorder: `CaptureOrder` (the log is the stream, whatever failed or was cancelled),
`NoSilentDrop` (backpressure drops nothing, and a stop nothing that arrived before it
was seen; the one frame that may be lost is what a source gives after the stop has
cancelled it), `LossWindow` (fewer than `sync_every_frames` frames are not yet durable),
`CompleteIsDurable` (with the same exception), `OutcomeIsTruthful` (a clean outcome of a
failed run is a source failure with the whole prefix persisted), `NoPullAfterStop`,
`KeepsPromise` (refinement), `HooklessRunReturns` and `PatientRunEnds` (termination:
without a hook unless the source goes on for ever after it was cancelled; with hooks
that return, unless that happens or the producer lost its cancellation).

Segment store: `ClaimedFramesSurvive`, `ManifestIsSound`, `FinalIsWhole`,
`PublishedStayValid`, `CleanAuditMissesNothing`.

Multiplexer: `SourceOrder`, `NoFrameLost`, `EndingIsComplete` (every frame before an end
or a raise, and no session of routes behind the end of one of them), `NeverStarves`,
`TeardownEnds` (unless a source that does not obey its cancellation goes on, or has
ended but waits with its report for room on the abandoned queue), `FailureSurfaces`.

Campaign: `StartIsFirstAccepted`, `AcceptedInWindow`, `NoCaptureAfterComplete`,
`MembershipRestsOnEvidence`, `AcceptedIsSettled`, `CampaignCompletes`.

Live capture: `ConnectionOrder` (each connection without a gap, no frame behind one of a
later session), `PendingIsOfItsSession` (on Hyperliquid frames: acknowledgements do not
outlive their session), `SuccessIsEvidenced` (exit code 0 only over a sealed segment
with all that the recorder took, of every source and subscription; one frame that
outlived the stop may acknowledge what is missing), `ReconnectIsPaced`.

Frontier: `OneProcessorPerSegment`, `RevisionRestsOnWholeSegments`, `WindowsAreSound` (a
window runs from a proper book to the first one at the horizon, with the receipt and the
prices of the raw frames; it overshoots the horizon by less than the steps between the
books allow; windows of a segment do not overlap, those of two are in order),
`LaterSegmentsKeepSample` (a complete sample and its decision stay),
`CapturesAreStarted` (liveness).

Signal study: `TrialsHoldHorizon` (a trial lasts the horizon, and trials do not share a
quote), `LedgerIsHonest` (a trade has clean evidence and loses the two spreads both
ways; no business result with an unknown cost), `FeatureIsCausal` (a decision does not
depend on what came later on either clock), `RebuildAgrees` (the selection rebuilt from
less is the frozen one), `ChampionIsEarned` (the frozen support, right more often than
wrong, more earned than the known costs, no better one that passed). `RebuildAgrees`
excepts a wall clock that stood still or was set back between two arrivals of a segment,
quotes or reference books: a quote and a book of one instant on both sides of the
boundary are reason enough for a refusal. All five are theorems too.

The type invariants are proved instead of checked; so are `QueueBounded` of the recorder
and `CompleteByTime` of the campaign.

### Bounds

- Recorder: 4 frames with capacities and cadences up to 2. A queue of one is full with
  its first frame, a queue of two holds the writer's next frame while it blocks a third,
  and the fourth is in the task of the producer: every place a frame can be in is
  occupied at once. A cadence of two makes both a frame with and one without a sync.
- Segment store: two segments, of two frames each, so that one can be lost and one kept,
  and that a commit reads a manifest with a record of the other. Symmetric in the
  segments; no liveness is checked there. The number of crashes is not bounded.
- Multiplexer: two sources, two frames each, a queue of two: both pumps can be blocked
  at once, by frames or by reports.
- Campaign: two attempts, three units of time and a duration of two, two kills. A second
  attempt may be before, at or behind the deadline of the first; the kills may hit any
  two services or one twice. `WithinBounds` keeps the start of a campaign so early that
  its deadline is reached by the clock of the model.
- Live capture: four sessions of Hyperliquid alone with two frames each, so that its
  delay doubles, reaches the maximum and is reset in between, and an acknowledgement
  comes twice. Under the multiplexer two sessions of Binance: once beside one of
  Hyperliquid, with a frame of each connection, so that a success has evidence of all;
  once with Hyperliquid out of reach and two frames on one route, so that a session ends
  with frames in both queues. Each run names its bounds (`max_sessions`, `max_frames`).
- Frontier: two captures of five kinds (moving, still with a gap and a crossed book,
  one-sided, not parsable, with a wall clock set back), the second behind or before the
  first by the clock; one timed and one combined processor; one fault that loses at most
  one file (`MaxFaults`, `MaxLost`). `Clocks` are the two readings this allows. Horizon,
  cadence rank and required windows are scaled to captures of a few books.
- Signal study: segments of two and six quotes, of eight kinds of arrivals, at most two
  odd ones (a gap, a clock set back, a missing side, a flag): six quotes give the three
  trials a selection and a confirmation need. Thresholds are scaled to that.

### Fairness

- Recorder, `LoopFairness`: the event loop runs a task that is ready, throws a
  CancelledError into one that was cancelled, and the drain timer of `run()` fires. A
  source that is cancelled therefore answers, possibly by going on; that it delivers, or
  ends after it has gone on, is not assumed, nor that a stop is requested or a hook
  returns. `PatientSpec` adds hooks that return, in whatever way.
- Multiplexer: ready pumps, the generator and its consumer run. A pump that waits for
  room is first in asyncio's list of putters and gets it in the end (strong fairness of
  `PumpPuts` and `PumpReports`).
- Campaign: the systemd timers start the services again, a status command once started
  ends, time passes. The recorder and the normalizer may fail every time.
- Frontier: a timed processor is started again and again by its systemd timer, and a
  process that was started goes on (weak fairness of `PickNext` for the timed ones and
  of the steps of all). Nothing is assumed of captures and reports.

## 5. Proofs

| module | theorems |
|---|---|
| `RecorderProofs` | `TypeCorrect`, `Inductive`, `CaptureOrderHolds`, `NoSilentDropHolds`, `LossWindowHolds`, `QueueBoundedHolds`, `CompleteIsDurableHolds`, `OutcomeIsTruthfulHolds`, `NoPullAfterStopHolds`, `Refinement` |
| `SegmentStoreProofs` | `StoreTypeCorrect`, `StoreInductive`, `ManifestIsSoundHolds`, `FinalIsWholeHolds`, `PublishedStayValidHolds`, `ClaimedFramesSurviveHolds`, `CleanAuditMissesNothingHolds` |
| `SourceMuxProofs` | `MuxTypeCorrect`, `MuxInductive`, `SourceOrderHolds`, `NoFrameLostHolds`, `EndingIsCompleteHolds`, `NeverStarvesHolds` |
| `CampaignProofs` | `CampaignTypeCorrect`, `CampaignInductive`, `StartIsFirstAcceptedHolds`, `AcceptedInWindowHolds`, `MembershipRestsOnEvidenceHolds`, `CompleteByTimeHolds`, `NoCaptureAfterCompleteHolds` |
| `FrontierProofs` | `FrontierTypeCorrect`, `FrontierInvariant`, `OneProcessorPerSegmentHolds`, `RevisionRestsHolds`, `LaterSegmentsKeepSampleHolds`, `WindowsAreSoundHolds`, `NearestRankIsSorted` |
| `LiveCaptureProofs` | `LiveTypeCorrect`, `LiveInvariant`, `SuccessIsEvidencedHolds`, `PendingIsOfItsSessionHolds`, `ConnectionOrderHolds`, `ReconnectIsPacedHolds` |
| `SequencingProofs` | lemmas about `Keep`, `SortOrder`, `Sorted` and sums, used by the study |
| `SignalStudyProofs` | `StudyInvariant`, `TrialsHoldHorizonHolds`, `FeatureIsCausalHolds`, `LedgerIsHonestHolds`, `ChampionIsEarnedHolds`, `RebuildAgreesHolds` |

They hold for all settings, all numbers of frames, segments, sources and attempts, and
all combinations of faults, from the assumptions on the constants alone.

**Recorder** (`RecorderAssumption`: capacities and cadences are positive). None of the
properties is inductive. That COMPLETE implies durability depends on what the writer had
consumed when it ended, which depends on END being the last item of the queue, which
depends on the producer having ended when it put it. `IInv` therefore has a part for
each: `TaskInv` (where the producer is, by its task), `LateInv` (only a stop cancels the
task, a frame thrown away is the last of the run, and a source that gave it did not
raise, so that no later failure speaks of a whole prefix), `QueueInv` (END is last),
`FlowInv` (while the writer lives, log, hand, queue and blocked frame follow each other
in the order of the source), `DoneInv` (a writer that returned has consumed END behind
the last frame), `CancelInv` and `RunInv` (what `run()` has seen and said). `Refinement`
shows that each step of the supervisor is, under this invariant, a step of `CaptureLog`
or a stutter.

**Segment store** (`StoreAssumption`). `StoreInv` says at each step of the seal what is
already safe (`StepInv`), that both the visible and the secured manifest name only
final, linked, whole files (`ManifestInv`), and that a published segment is in the
secured one. It is inductive whatever the file system does with new names;
`ManifestIsSound`, `FinalIsWhole` and `PublishedStayValid` follow without
`FsyncLinksFile`. `ClaimedFramesSurvive` and `CleanAuditMissesNothing` need it: the
directory of a new `.raw.open` file is never fsynced (`rawlog.py:195`), so the code
relies on a file system whose fsync of a new file also secures its name, as ext4 and XFS
do.

**Multiplexer** (`MuxAssumption`: finitely many sources, at least one, a positive
capacity). `OrderInv` follows the frames of one source: yielded, then queued in order,
then in the pump's hand, its report behind them. `WholeInv` says none is missing.
`ActiveInv` equates `active` with the number of sources whose report has not been taken,
which is why the consumer neither starves nor ends early, and among routes says that no
report has been taken while the loop goes on. It needs `StageInv`: no pump is cancelled
before the generator leaves its loop. A step of one pump leaves the other sources' parts
alone (`OtherSource`), which keeps the proof linear in the actions.

**Campaign** (`CampaignAssumption`: a positive duration). That the start is the
*earliest* accepted capture is not visible in the code that writes it: the earliest is
chosen when the files are read, and written two steps later, by a service that another
one may have overtaken. It holds because of `StartInv`: until the start is written whole
there is at most one accepted capture. That in turn needs `ServiceInv`, which says what
a service still relies on from an earlier reading of the disk: a capture service that
plans, starts or records an attempt without a known start has seen, and still sees, no
accepted capture, since it alone makes one. `FilesInv` orders the files of a run,
`AttemptsInv` (attempts are numbered without a gap) makes the next number a new one, and
`OneWriter` says that the exclusive creation of the start elects one writer. The
theorems include kills at any step, with `torn` between the creation and the writing of
a file too.

**Frontier** (`FrontierAssumption`). In `FrontierInv`, a run that a process works on has
a sealed raw segment, and nothing is in a directory before (`RunInv`, `SealedInv`); only
what ended well is handed over (`EndInv`); behind the claim the marker exists and no
other processor is there (`MarkerInv`); a processor past normalization works on a
segment that normalizes, and what has an evidence file normalized and was accepted
(`NormalInv`); what a scan has found was whole when it looked, and stays so until a
power loss, which ends the scan too (`FoundInv`); and nobody processes what is still
being captured (`FreshInv`). The lemma `ProcessorEffect` says once what all processor
steps and kills leave alone; every other part is proved from it. All captures,
processors, faults and losses are covered.

`LaterSegmentsKeepSample` is about the rules as much as about the steps. `RevisionInv`
adds that a revision is over sealed segments which normalized, were accepted and fit
together, that no later step changes them, and that it says what they say. What is left
is a fact about operators. The evidence of an accepted segment has its books within its
receipts, numbered, whatever the frames were (`ResultsAreListed`, `PrimaryBBORows`,
`EvidenceIsProved`); the walk is an induction over its queue, and its windows run
between books of the segment, one to a start (`WalkHolds`, `WindowsOfSegment`). So the
key of a window is its own (`KeysAreTuples`), and the sorted list of all windows is the
one list of them that rises by the key (`OrderIsRanking`). Windows of later segments
start behind all others, and a rising list of more elements that are all behind begins
with the old list (`LaterGoBehind`): a sample that was complete stays, and the decision
with it (`SampleStays`).

`WindowsAreSound` speaks of the raw frames only, so its proof goes through every rule
between them and a window, for captures of any content:

- A segment that normalized has no frame with an error (`NoneFailed`), a frame gives a
  book only if it is one, and what the book shows is what the frame has (`BookIsWell`,
  `OnlyBooks`). So the rows of the primary instrument are exactly the proper books of
  the raw segment, with their receipt (`DatasetHolds`, `PrimaryBBOHolds`,
  `FramesAreRaw`, `BooksAreShown`), and their times are the same (`TimesAreShown`).
- The walk visits increasing places of the queue (`BuiltVisits`, an induction), each the
  first behind the window before (`WalkHead`, `WalkNext`); its windows are therefore
  apart (`WalkIsApart`), and each ends at the first book at the horizon.
- A window is kept if its overshoot is within the tolerance, a number at a rank of the
  list of positive steps. That list has one step for each two neighbouring times
  (`DeltasAreSteps`, a bijection from places of the list to pairs of times), and fewer
  than the rank are shorter than its number (`RankIsHigh`); a tolerated overshoot is
  therefore regular (`ToleratedIsRegular`), in terms that mention no list.
- Windows of different segments are in the order of their receipts, since the segments
  of one revision fit together (`RevisionsHold`) and the sample is in the order of the
  starts (`SampleIsSampled`, `FirstStartsFirst`).

**Live capture** (`LiveAssumption`). `SuccessIsEvidenced` follows from `LiveInv`, types
of each adapter and what `taken` and `late` may hold, since the exit code is computed in
the step that ends the run. `PendingIsOfItsSession` needs that what is `pending` is what
is neither taken nor in a queue of the session (`SessionInv`), and that every frame in
either queue counts what comes before it on its way (`InnerExact`, `MergedExact`,
`TakenExact`, with `QueueInv` for the queues a run does not have): a frame is exact when
it is received, and stays exact wherever it waits.

`ConnectionOrder` says two things. That no connection has a gap is `SeqInv`: counted
over what was taken, the merged queue and the inner queue, each frame of a connection
has the number of those before it, and `ingest` is how many there are (`IngestInv`), so
that the next frame received is the next number wherever the others wait. That no frame
is behind one of a later session is `SessionOrder`: taken and merged are in the order of
the sessions, the merged queue is behind what was taken, and an inner queue holds frames
of its own session only, which `EndSession` throws away. `ReconnectIsPaced` is an action
property. Its part about doubling needs no invariant over the failures but that a delay
is one that the failures so far lead to (`PaceInv`, `EndSessionPace`): twice the base to
a power, clamped, then jittered and rounded, lies between the bounds for every policy
that the constructor accepts (`ValidPolicy`).

**Lists** (no assumption). `KeepIsOrdered` gives the increasing map from the kept places
to those of the list, `SortIsOrder` the permutation that a sort is; `SortIsSettled` says
that it is in the order of the keys, if they are tuples of numbers, and `SortKeepsOrder`
that it leaves alone what is in order. That equal keys keep their places is proved in
the last form only. Each is an ordinary induction over the length of the list, which is
done by `LeastNat`: if a prefix failed there would be a shortest one that does, since
the induction rule of the library cannot be instantiated. `SameIncreasing`: two
increasing lists with the same elements are equal. The rules of the frontier work on
lists whose elements have no type worth stating; `IsList` is enough to know what
comprehensions, sorts and concatenations of them are (`KeepList`, `SortedList`,
`FlattenList`).

**Signal study** (`StudyAssumption` and the assumptions on thresholds and costs).
`StudyInv` says that the streams are in the order of reception by the monotonic clock,
which also names the quotes; that a dataset, once frozen, is the rows of the streams,
which grow no more; and that a report is the gate's verdict on the frozen selection. On
top of it the properties are facts about operators, for streams of every length:

- `TrialsHoldHorizon`: the trials of a stream are a chain (`OpportunitiesAreChained`):
  each starts behind the exit of the one before, and an exit is the first quote that far
  away (`ExitIsFirst`).
- `FeatureIsCausal`: what a decision reads of the reference books is the latest of those
  received by then on both clocks, which is the same among fewer of them (`LatestKept`).
- `LedgerIsHonest`: an entry is traded only without defects, and long and short of one
  trial sum up to the two spreads (`BothWays`).
- `ChampionIsEarned`: a bound above one half (`AboveHalf`, exact) means more right than
  wrong answers (`PassedTrial`); the number of right answers that the gate sums up is
  the size of the set `Right` (`CorrectnessCounts`, by a bijection); of two that pass,
  the one with the higher bound is chosen, for which the bounds need only be integers
  (`WilsonType`, `ChampionIsBest`).
- `RebuildAgrees`: under a steady clock all of an earlier segment is before a later one
  on the wall clock too (`Ahead`), each segment has a reference book before its first
  quote (`Begun`), and the plan is that of the frozen rows (`PlanInv`). The confirmation
  starts at the entry of a trial (`ConfirmationStarts`), and a stream cut where one of
  its trials starts has exactly the trials before the cut (`BeginningTrials`), or all or
  none if it is of another segment. The rows of the cut are therefore those entered
  before the cut (`RowsOfCut`), and both lists increase in the entry.

The attempt at the last one showed that the property was wrong as it was stated first:
steadiness of the quotes alone is not enough, as soon as a segment has more quotes than
the checked instance allowed. It is stated over all arrivals of a segment now.

Only model-checked: all liveness (termination of a run, of the teardown, settling and
completion of a campaign, the start of a capture), which is out of the prover's reach.
Every other property of a passing run is the statement of a theorem.

## 6. Where the code and its documents disagree

The first five are runs that TLC must refute; their quotations are in `PROJECT.json`.

1. `recorder.py:525`: `_await_cancelled` swallows a cancellation aimed at its caller. A
   producer that was just reaping its `stop_wait` task survives `run()`'s `cancel()`,
   blocks on the full queue of a dead writer, and `run()` waits for ever
   (`MCRecorderLostCancel`).
2. `recorder.py:289`: an error that the writer raises while it is cancelled after a
   drain timeout leaves `run()` as an exception (`MCRecorderEscape`).
3. `rawlog.py:201`: a reopened file counts as durable without an fsync
   (`MCSegmentStoreReopen`).
4. `development_campaign.py:650`: a kill or a full disk between the creation and the
   writing of an immutable file leaves an empty file that every later cycle refuses
   (`MCCampaignTorn`).
5. `campaign_storage.py:184`: an empty `segment-evidence.json`, left by a processor that
   was killed while it wrote it, is not an incomplete segment, as the runbook says: it
   refuses every later report (`MCFrontierTorn`).

Read in the code, without a run of their own:

6. `TASK_008.md:145` bounds a stop by the drain timeout; that timeout starts when the
   producer has ended (`recorder.py:255`). With a hook that does not return, a producer
   blocked on the full queue keeps it from starting.
7. `TASK_008.md:144` wants a stop to start no new session. When the producer has a frame
   in hand at the stop, it leaves the generator where it is, and adapters under the
   multiplexer reconnect until the event loop ends.
8. `TASK_016.md:51` promises that no captured frame is dropped; a stop drops those in
   the multiplexer's queue and in the hands of its pumps
   (`dual_source_recorder.py:507`).
9. `TASK_018.md:301` and `HANDOFF.md:221` promise that a complete sample stays. A
   segment captured before but processed after it, or one captured under a clock set
   back, comes before it in the order and changes it. `LaterSegmentsKeepSample` is about
   segments received later.
10. `TASK_010.md:93` allows books with one side; one makes the audit refuse the segment,
    when its dataset is already published.
11. A damaged `capture-ready.json` stays the first pending segment for good: it is
    neither claimed nor passed over (`frontier_segment.py:312`), which
    `CapturesAreStarted` excepts.

12. A source that goes on after the stop has cancelled it (`hyperliquid/public.py:275`)
    keeps `run()` waiting in `_await_cancelled` (`recorder.py:351`) with no timer armed,
    against the bound of `TASK_008.md:145`. The escape `[](nf = "survived")` of the two
    termination properties is this behaviour.
13. The frame such a source may still give has been counted by `_observe_frames`
    (`public_recorder.py:540`) and is thrown away (`recorder.py:525-529`). If it brought
    the last acknowledgement, or was the only frame, the run ends with exit code 0 over
    a segment without it.

The runtimes construct the supervisor without a hook; 1 and 6 concern a caller that
passes one.

## 7. Assumptions and what is not modelled

- One process at a time works on a storage root; `commit_manifest` has no lock. One
  capture service and one process service per campaign root.
- Directories, once created, are durable. A rename is atomic.
- Power losses are modelled for the segment store; campaign files are subject to kills
  (and, in the torn run, to half-made files).
- The campaign's clock does not go back. After a backward step of the wall clock the
  window would open again: no capture looks at `campaign-complete.json`.
- A cancellation of `run()` itself from outside, which it passes on
  (`recorder.py:290-297`), is left out of `Recorder`. The public runtime turns SIGINT
  and SIGTERM into a requested stop; the dual runtime installs no handler, so that an
  interrupt there cancels the main task and ends its event loop. In `LiveCapture` that
  is one of the ways to `Raises`, a run without an exit code.
- A failed writer makes `run()` cancel the producer, which leaves its `next_frame` task
  behind (`recorder.py:334-339`); a frame that task may still take belongs to a run that
  has FAILED and is not counted as delivered.
- Formats, digests, schema checks and texts of errors are reduced to what the properties
  tell apart: a frame count, a whole or an empty file, a failure code.
- `run_frontier_evidence_segment` is the combined capture of `Frontier`, which goes on
  as a processor of its own segment; it starts only when the processor's slot is idle.
  One capture and one report at a time. Crashed attempts are never retried, by design. A
  report over no published segment is left out.
- A power loss in `Frontier` damages one directory. `segment-evidence.json` binds all
  others by digests, so that a damaged one is refused and not read.
- A connection that is open and silent is never left: both adapters turn the library's
  keepalive off and no receive has a deadline. In `LiveCapture` it is a behaviour in
  which no step is taken.
- In the frontier and signal modules horizons, thresholds, prices and the wall clock are
  small integers in the ratios of the code; only readings relative to each other count.
- In the signal study, the freeze and the selection are library calls an operator makes
  in this order. A wall clock set back inside a trial refuses the whole stream, and
  around the confirmation boundary the selection. A torn frozen dataset fails its
  digest. The random controls and the power plan are left out: their results are read by
  nothing.
- Not modelled: the closeout, which copies finished files with nobody beside it;
  downloads and training over vendor history, the economic and microstructure studies
  and `signal_remediation.py`, floating-point computations without state; the parsing of
  configuration and arguments; Parquet schemas and their encoding.
