------------------------------- MODULE Frontier ------------------------------
(***************************************************************************)
(* The frontier evidence campaign: runtime/frontier_segment.py and         *)
(* research/campaign_storage.py as the commands of cli.py run them.        *)
(*                                                                         *)
(* One capture at a time writes a segment directory and hands it over with *)
(* capture-ready.json.  Processors, started by a timer or by the combined  *)
(* command, share nothing but that directory: they claim a segment by      *)
(* creating processing-started.json, normalize, materialize, accept and    *)
(* publish it.  A report scans the directories while they work.            *)
(*                                                                         *)
(* Every file is created exclusively and is not synced: a process that     *)
(* dies may leave the file it was creating torn, and a power loss any of   *)
(* those on the disk.  What a whole file holds is a function of the raw    *)
(* segment, which is sealed and synced before.                             *)
(***************************************************************************)
EXTENDS FrontierGate

CONSTANTS Runs,       \* the runs of the capture, in the order they are made
          Processors,
          Timed,      \* those that a timer starts; the others are combined commands
          Captures,   \* the frames a capture may find, without their place
          Starts,     \* the wall time from the end of a capture to the next one, set back or not
          Span,       \* the wall time a capture takes
          Clocks,     \* the clock readings at which one may start, a bound of the model
          MaxFaults,  \* processes that die, and losses of power, together
          MaxLost     \* files a loss of power tears or removes

\* A frame as a capture finds it; lapse is the wall time since the capture began.
Finds == [src : STRING, channel : STRING, symbol : STRING, mono : Nat, lapse : Int,
          bids : Seq(Int), asks : Seq(Int), native : Nat,
          trades : Seq([symbol : STRING, time : Nat, tid : Nat, broken : SUBSET STRING]),
          broken : SUBSET STRING, flags : SUBSET STRING]

ASSUME FrontierAssumption ==
    /\ Runs \subseteq Nat \ {0} /\ Runs # {} /\ IsFiniteSet(Runs)
    /\ Timed \subseteq Processors
    /\ DOMAIN Captures \subseteq Nat \ {0} /\ \A c \in DOMAIN Captures : Captures[c] \in Seq(Finds)
    /\ Starts \subseteq Int /\ Clocks \subseteq Int /\ Span \in Nat /\ MaxFaults \in Nat /\ MaxLost \in Nat

VARIABLES raw,        \* the index of the capture in the raw segment of a run, 0: none
          base,       \* the wall clock at the start of the capture of a run
          exit,       \* whether its recorder ended with exit code 0
          file,       \* the files of its directory
          capture,    \* the capture in progress
          proc,       \* the processors
          scan,       \* the report in progress
          revisions,  \* the files of campaign-reports
          now,        \* the wall clock
          faults

vars == <<raw, base, exit, file, capture, proc, scan, revisions, now, faults>>

Names == {"summary", "ready", "started", "normalization", "temporary", "dataset", "audit", "evidence"}
NoRun == 0
Sealed(r) == raw[r] # 0
Whole(r, name) == file[r][name] = "whole"
Exists(r, name) == file[r][name] # "absent"

\* iter_raw_frames: the frames in the raw segment of a run.
RawFrame(find, r, i, start) ==
    [src |-> find.src, channel |-> find.channel, symbol |-> find.symbol, mono |-> find.mono,
     wall |-> start + find.lapse, bids |-> find.bids, asks |-> find.asks, native |-> find.native,
     trades |-> find.trades, broken |-> find.broken, flags |-> find.flags,
     segment |-> r, offset |-> i, host |-> 1, boot |-> 1, conn |-> 1, seq |-> i]
FramesOf(c, r, start) == [i \in DOMAIN Captures[c] |-> RawFrame(Captures[c][i], r, i, start)]
ResultsOf(c, r, start) == NormalizeFrames(FramesOf(c, r, start))

\* What the pure parts of the pipeline make of every possible raw segment.
Outcome(c, r, start) ==
    LET results == ResultsOf(c, r, start)
        ds == Dataset(results)
    IN [normal |-> Errors(results) = {} /\ Cardinality(Domains(results)) = 1,
        buildable |-> Buildable(results),
        acceptable |-> Acceptable(ds) /\ ~AuditRefused(ds),
        evidence |-> IF Acceptable(ds) THEN Evidence(ds, r) ELSE [segment |-> r],
        audit |-> IF Acceptable(ds) THEN PilotAudit(ds) ELSE [status |-> "NONE", target |-> 0]]
Outcomes == [c \in DOMAIN Captures |-> [r \in Runs |-> [start \in Clocks |-> Outcome(c, r, start)]]]
OutcomeOf(r) == Outcomes[raw[r]][r][base[r]]
EvidenceOf(r) == OutcomeOf(r).evidence

Init ==
    /\ raw = [r \in Runs |-> 0]
    /\ base = [r \in Runs |-> 0]
    /\ exit = [r \in Runs |-> FALSE]
    /\ file = [r \in Runs |-> [n \in Names |-> "absent"]]
    /\ capture = [pc |-> "idle", run |-> NoRun, combined |-> FALSE]
    /\ proc = [p \in Processors |-> [pc |-> "idle", run |-> NoRun]]
    /\ scan = [pc |-> "idle", todo |-> {}, found |-> <<>>]
    /\ revisions = {}
    /\ now = 0
    /\ faults = 0

Create(r, name) == file' = [file EXCEPT ![r][name] = "whole"]
EndCapture == capture' = [pc |-> "idle", run |-> NoRun, combined |-> FALSE]
EndProcessor(p) == proc' = [proc EXCEPT ![p] = [pc |-> "idle", run |-> NoRun]]
Goto(p, pc) == proc' = [proc EXCEPT ![p].pc = pc]
-----------------------------------------------------------------------------
(* capture_frontier_evidence_segment *)

\* The recorder runs to its end; what it found and how it ended is up to the
\* exchanges.
Record(r, c, start, ok, combined) ==
    /\ capture.pc = "idle"
    /\ ~Sealed(r) /\ \A q \in Runs : q < r => Sealed(q)
    /\ combined => \E p \in Processors \ Timed : proc[p].pc = "idle"
    /\ now + start \in Clocks
    /\ raw' = [raw EXCEPT ![r] = c]
    /\ base' = [base EXCEPT ![r] = now + start]
    /\ exit' = [exit EXCEPT ![r] = ok]
    /\ now' = now + start + Span
    /\ capture' = [pc |-> "summary", run |-> r, combined |-> combined]
    /\ UNCHANGED <<file, proc, scan, revisions, faults>>

WriteSummary ==
    /\ capture.pc = "summary"
    /\ Create(capture.run, "summary")
    /\ IF exit[capture.run] /\ Captures[raw[capture.run]] # <<>>
       THEN capture' = [capture EXCEPT !.pc = "ready"]
       ELSE EndCapture
    /\ UNCHANGED <<raw, base, exit, proc, scan, revisions, now, faults>>

\* The combined command goes on as a processor of its own segment.
WriteReady ==
    /\ capture.pc = "ready"
    /\ Create(capture.run, "ready")
    /\ IF capture.combined
       THEN \E p \in Processors :
               /\ p \notin Timed /\ proc[p].pc = "idle"
               /\ proc' = [proc EXCEPT ![p] = [pc |-> "claim", run |-> capture.run]]
       ELSE UNCHANGED proc
    /\ EndCapture
    /\ UNCHANGED <<raw, base, exit, scan, revisions, now, faults>>
-----------------------------------------------------------------------------
(* process_frontier_captured_segment *)

\* Directories sort by name, and the name begins with the wall clock.
NameBefore(q, r) == Precedes(<<base[q], q>>, <<base[r], r>>)
PendingBug == {r \in Runs : Exists(r, "ready") /\ ~Exists(r, "evidence")}
Pending == {r \in Runs : Exists(r, "ready") /\ ~Exists(r, "evidence") /\ ~Exists(r, "started")}

\* process_next_frontier_captured_segment takes the first one.
PickNext(p) ==
    /\ proc[p].pc = "idle"
    /\ \E r \in Pending :
          /\ \A q \in Pending \ {r} : NameBefore(r, q)
          /\ proc' = [proc EXCEPT ![p] = [pc |-> "claim", run |-> r]]
    /\ UNCHANGED <<raw, base, exit, file, capture, scan, revisions, now, faults>>

\* The checks before the marker, and its exclusive creation.
ClaimableBug(r) == ~Exists(r, "evidence") /\ Whole(r, "ready") /\ Whole(r, "summary")
Claimable(r) ==
    /\ ~Exists(r, "evidence")
    /\ Whole(r, "ready") /\ Whole(r, "summary")
    /\ ~Exists(r, "started")

Claim(p) ==
    LET r == proc[p].run IN
    /\ proc[p].pc = "claim"
    /\ IF Claimable(r) THEN Create(r, "started") /\ Goto(p, "normalize")
                       ELSE EndProcessor(p) /\ UNCHANGED file
    /\ UNCHANGED <<raw, base, exit, capture, scan, revisions, now, faults>>

\* The report is written whatever the frames are; errors end the attempt.
Normal(r) == OutcomeOf(r).normal

Normalize(p) ==
    LET r == proc[p].run IN
    /\ proc[p].pc = "normalize"
    /\ IF Exists(r, "normalization") THEN EndProcessor(p) /\ UNCHANGED file
       ELSE /\ Create(r, "normalization")
            /\ IF Normal(r) THEN Goto(p, "build") ELSE EndProcessor(p)
    /\ UNCHANGED <<raw, base, exit, capture, scan, revisions, now, faults>>

\* materialize_research_dataset, up to the rename
Build(p) ==
    LET r == proc[p].run IN
    /\ proc[p].pc = "build"
    /\ IF ~Exists(r, "dataset") /\ ~Exists(r, "temporary") /\ OutcomeOf(r).buildable
       THEN Create(r, "temporary") /\ Goto(p, "rename")
       ELSE EndProcessor(p) /\ UNCHANGED file
    /\ UNCHANGED <<raw, base, exit, capture, scan, revisions, now, faults>>

Rename(p) ==
    LET r == proc[p].run IN
    /\ proc[p].pc = "rename"
    /\ file' = [file EXCEPT ![r]["temporary"] = "absent",
                            ![r]["dataset"] = IF Exists(r, "dataset") THEN @ ELSE "whole"]
    /\ IF Exists(r, "dataset") THEN EndProcessor(p) ELSE Goto(p, "accept")
    /\ UNCHANGED <<raw, base, exit, capture, scan, revisions, now, faults>>

\* The dataset is read back, and audited.
Accept(p) ==
    LET r == proc[p].run IN
    /\ proc[p].pc = "accept"
    /\ IF Whole(r, "dataset") /\ OutcomeOf(r).acceptable /\ ~Exists(r, "audit")
       THEN Create(r, "audit") /\ Goto(p, "publish")
       ELSE EndProcessor(p) /\ UNCHANGED file
    /\ UNCHANGED <<raw, base, exit, capture, scan, revisions, now, faults>>

Publish(p) ==
    LET r == proc[p].run IN
    /\ proc[p].pc = "publish"
    /\ IF Exists(r, "evidence") THEN UNCHANGED file ELSE Create(r, "evidence")
    /\ EndProcessor(p)
    /\ UNCHANGED <<raw, base, exit, capture, scan, revisions, now, faults>>
-----------------------------------------------------------------------------
(* publish_campaign_report *)

\* The directories there are, by name; each is looked at in its turn.  A report
\* over no published segment is left out.
Directories == {r \in Runs : Sealed(r)}
StartScan ==
    /\ scan.pc = "idle" /\ \E r \in Directories : Exists(r, "evidence")
    /\ scan' = [pc |-> "scan", todo |-> Directories, found |-> <<>>]
    /\ UNCHANGED <<raw, base, exit, file, capture, proc, revisions, now, faults>>

\* What the evidence of a segment binds by a digest.
BoundBug == {"summary", "normalization", "audit"}
Bound == {"summary", "normalization", "dataset", "audit"}
Loadable(r) == Whole(r, "evidence") /\ \A n \in Bound : Whole(r, n)

NoScan == [pc |-> "idle", todo |-> {}, found |-> <<>>]
ScanNext ==
    /\ scan.pc = "scan"
    /\ \E r \in scan.todo :
          /\ \A q \in scan.todo \ {r} : NameBefore(r, q)
          /\ scan' = IF ~Exists(r, "evidence") THEN [scan EXCEPT !.todo = @ \ {r}]
                     ELSE IF Loadable(r) /\ ~WindowsRefused(EvidenceOf(r))
                          THEN [scan EXCEPT !.todo = @ \ {r}, !.found = Append(@, r)]
                          ELSE NoScan
    /\ UNCHANGED <<raw, base, exit, file, capture, proc, revisions, now, faults>>

Segments(manifest) == {EvidenceOf(r) : r \in ToSet(manifest)}
Revision(manifest) == [manifest |-> manifest, torn |-> FALSE, report |-> Adjudicate(Segments(manifest))]

\* A revision that exists has to be the one that is computed now.
WriteRevision ==
    /\ scan.pc = "scan" /\ scan.todo = {}
    /\ scan' = NoScan
    /\ IF Compatible(Segments(scan.found)) /\ \A v \in revisions : v.manifest # scan.found
       THEN revisions' = revisions \cup {Revision(scan.found)}
       ELSE UNCHANGED revisions
    /\ UNCHANGED <<raw, base, exit, file, capture, proc, now, faults>>
-----------------------------------------------------------------------------
(* Faults *)

\* The file a process is creating, by where it is.
Creating == [claim |-> "started", normalize |-> "normalization", build |-> "temporary",
             rename |-> "temporary", accept |-> "audit", publish |-> "evidence"]

Torn(r, name, torn) ==
    file' = IF torn /\ ~Exists(r, name) THEN [file EXCEPT ![r][name] = "torn"] ELSE file

\* A processor that is killed, or that fails and removes what it was building.
KillProcessor(p, torn) ==
    /\ faults < MaxFaults /\ proc[p].pc # "idle"
    /\ faults' = faults + 1
    /\ IF proc[p].pc = "rename"
       THEN file' = [file EXCEPT ![proc[p].run]["temporary"] = IF torn THEN @ ELSE "absent"]
       ELSE Torn(proc[p].run, Creating[proc[p].pc],
                 torn /\ (proc[p].pc = "claim" => Claimable(proc[p].run)))
    /\ EndProcessor(p)
    /\ UNCHANGED <<raw, base, exit, capture, scan, revisions, now>>

KillCapture(torn) ==
    /\ faults < MaxFaults /\ capture.pc # "idle"
    /\ faults' = faults + 1
    /\ Torn(capture.run, capture.pc, torn)
    /\ EndCapture
    /\ UNCHANGED <<raw, base, exit, proc, scan, revisions, now>>

\* The scan computes the whole revision before it opens the file.
KillReport ==
    /\ faults < MaxFaults /\ scan.pc = "scan" /\ scan.todo = {} /\ Compatible(Segments(scan.found))
    /\ \A v \in revisions : v.manifest # scan.found
    /\ faults' = faults + 1
    /\ scan' = NoScan
    /\ revisions' = revisions \cup {[Revision(scan.found) EXCEPT !.torn = TRUE]}
    /\ UNCHANGED <<raw, base, exit, file, capture, proc, now>>

\* Nothing of a directory was synced but the raw segment.
PowerLoss(r, lost, fate) ==
    /\ faults < MaxFaults
    /\ faults' = faults + 1
    /\ file' = [file EXCEPT ![r] = [n \in Names |-> IF n \in lost THEN fate ELSE file[r][n]]]
    /\ capture' = [pc |-> "idle", run |-> NoRun, combined |-> FALSE]
    /\ proc' = [p \in Processors |-> [pc |-> "idle", run |-> NoRun]]
    /\ scan' = NoScan
    /\ UNCHANGED <<raw, base, exit, revisions, now>>
-----------------------------------------------------------------------------
CaptureStep ==
    \/ \E r \in Runs, c \in DOMAIN Captures, ok, combined \in BOOLEAN :
          \E s \in IF r = Min(Runs) THEN {0} ELSE Starts : Record(r, c, s, ok, combined)
    \/ WriteSummary
    \/ WriteReady
ProcessorStep(p) ==
    \/ Claim(p) \/ Normalize(p) \/ Build(p) \/ Rename(p) \/ Accept(p) \/ Publish(p)
ReportStep == StartScan \/ ScanNext \/ WriteRevision
Fault ==
    \/ \E p \in Processors, torn \in BOOLEAN : KillProcessor(p, torn)
    \/ \E torn \in BOOLEAN : KillCapture(torn)
    \/ KillReport
    \/ \E r \in Runs : \E lost \in {l \in SUBSET {n \in Names : Exists(r, n)} : Cardinality(l) <= MaxLost},
          fate \in {"torn", "absent"} : PowerLoss(r, lost, fate)

Next ==
    \/ CaptureStep
    \/ \E p \in Timed : PickNext(p)
    \/ \E p \in Processors : ProcessorStep(p)
    \/ ReportStep
    \/ Fault

\* The timer starts a processor again and again, and a process that runs goes on.
Fairness == /\ \A p \in Timed : WF_vars(PickNext(p))
            /\ \A p \in Processors : WF_vars(ProcessorStep(p))
Spec == Init /\ [][Next]_vars /\ Fairness
-----------------------------------------------------------------------------
(* Properties *)

\* Two processors never work on one segment: whoever finds it started leaves
\* it, even when both picked it while it was pending (_write_new of
\* processing-started.json).
OneProcessorPerSegment ==
    \A p, q \in Processors :
        /\ p # q
        /\ proc[p].pc \notin {"idle", "claim"} /\ proc[q].pc \notin {"idle", "claim"}
        => proc[p].run # proc[q].run

\* A revision is written only over segments whose recorder ended well, whose
\* every frame normalized, and all of whose files are what was published
\* (publish_campaign_report, _load_published_segment).
RevisionRestsOnWholeSegments ==
    [][\A v \in revisions' \ revisions : \A r \in ToSet(v.manifest) :
          /\ exit[r] /\ Errors(ResultsOf(raw[r], r, base[r])) = {}
          /\ Whole(r, "dataset") /\ Whole(r, "summary") /\ Whole(r, "normalization")]_vars

\* The windows of a sample start and end at proper books of the primary
\* instrument, with their receipt and prices as they stand in the raw segment;
\* each ends at the first proper book at the horizon, no later than the cadence
\* of the books allows; those of one segment do not overlap, and those of two
\* are in the order of the segments (build_segment_windows, _load_primary_bbo,
\* _validate_segments).
BookNeeds == {"INVALID_PROVENANCE", "INVALID_JSON", "INVALID_ENVELOPE", "INVALID_DATA",
              "INVALID_TIMESTAMP", "INVALID_BBO_SHAPE"}
Falling(side) == \A i \in 1..(Len(side) - 1) : side[i] >= side[i + 1]
Rising(side) == \A i \in 1..(Len(side) - 1) : side[i] <= side[i + 1]
Proper(f) ==
    /\ f.src = Hyperliquid /\ f.channel = "bbo" /\ f.symbol = Primary
    /\ f.broken \cap BookNeeds = {}
    /\ f.bids # <<>> /\ f.asks # <<>> /\ Falling(f.bids) /\ Rising(f.asks)
    /\ 0 < f.bids[1] /\ f.bids[1] < f.asks[1]
Stands(o, f) == Proper(f) /\ <<o.mono, o.wall, o.bid, o.ask>> = <<f.mono, f.wall, f.bids[1], f.asks[1]>>

\* The steps between the times of proper books: a window overshoots the horizon
\* by less than most of them.
Times(frames) == {frames[i].mono : i \in {k \in DOMAIN frames : Proper(frames[k])}}
Cadence(times) ==
    {x \in times \X times : x[1] < x[2] /\ \A t \in times : t <= x[1] \/ x[2] <= t}
Shorter(steps, d) == {x \in steps : x[2] - x[1] < d}
Regular(overshoot, steps) ==
    \/ overshoot <= 1
    \/ Cardinality(Shorter(steps, overshoot)) * CadenceRank[2] < CadenceRank[1] * Cardinality(steps)
SoundIn(w, frames, times) ==
    LET target == w.start.mono + Horizon IN
    /\ Stands(w.start, frames[w.start.offset]) /\ Stands(w.end, frames[w.end.offset])
    /\ w.end.mono >= target /\ Regular(w.end.mono - target, Cadence(times))
    /\ \A t \in times : t < target \/ w.end.mono <= t
RawFrames(r) == FramesOf(raw[r], r, base[r])
SoundWindow(w) == SoundIn(w, RawFrames(w.segment), Times(RawFrames(w.segment)))
Apart(v, w) == v.end.mono <= w.start.mono \/ w.end.mono <= v.start.mono
WindowsAreSound ==
    \A v \in revisions :
        LET s == v.report.sample IN
        /\ \A i \in DOMAIN s : SoundWindow(s[i])
        /\ \A i, j \in DOMAIN s :
              i < j => IF s[i].segment = s[j].segment THEN Apart(s[i], s[j])
                                                      ELSE s[i].end.wall < s[j].start.wall

\* Once the sample is complete, segments that were received later do not
\* change it, nor the decision taken on it.
Later(r, manifest) == \A q \in ToSet(manifest) : EvidenceOf(q).wall_end < EvidenceOf(r).wall_start
LaterSegmentsKeepSample ==
    \A v, w \in revisions :
        /\ ToSet(v.manifest) \subseteq ToSet(w.manifest) /\ v.report.ready
        /\ \A r \in ToSet(w.manifest) \ ToSet(v.manifest) : Later(r, v.manifest)
        => /\ w.report.sample = v.report.sample
           /\ w.report.decision = v.report.decision

\* A capture that was handed over is started, unless a fault damaged what one
\* was handed over with: that one stays the first of the pending for good
\* (process_next_frontier_captured_segment takes pending[0]).
Damaged(q) == /\ Exists(q, "ready") /\ ~Exists(q, "started")
              /\ file[q]["ready"] = "torn" \/ ~Whole(q, "summary")
CapturesAreStarted ==
    \A r \in Runs :
        Whole(r, "ready") ~> \/ Exists(r, "started") \/ Exists(r, "evidence")
                             \/ ~Exists(r, "ready")
                             \/ \E q \in Runs : Damaged(q)

\* What the documentation of the campaign says, and does not hold: a segment
\* that was interrupted has no evidence file, and is left out of the report.
InterruptedIsIncomplete == \A r \in Runs : Exists(r, "evidence") => Whole(r, "evidence")
=============================================================================
