---------------------------- MODULE FrontierGate -----------------------------
(***************************************************************************)
(* What the campaign computes from a captured segment, as operators: the   *)
(* dataset of data/materialize.py, its acceptance in campaign_dataset.py,  *)
(* the pilot audit of frontier_dataset.py, the movement windows and the    *)
(* adjudication of research/campaign.py.                                   *)
(*                                                                         *)
(* A digest is the value it is a digest of.  Prices are whole numbers, and *)
(* relative moves and frictions are in 1/Scale of the price, rounded down. *)
(***************************************************************************)
EXTENDS Normalization

CONSTANTS Horizon,     \* target_horizon_seconds, in units of the monotonic clock
          Required,    \* required_non_overlapping_windows
          Fee,         \* fee_scenario_bps_per_side, in 1/Scale
          CadenceRank  \* the quantile of the cadence, 99/100 in the code, as a pair

ASSUME GateAssumption ==
    /\ Horizon \in Nat \ {0} /\ Required \in Nat \ {0} /\ Fee \in Nat
    /\ CadenceRank \in (Nat \ {0}) \X (Nat \ {0}) /\ CadenceRank[1] <= CadenceRank[2]

Scale == 100
Sources == {Hyperliquid, Binance}
-----------------------------------------------------------------------------
(* materialize_research_dataset *)

Dataset(results) ==
    LET sorted == ByReceipt(results) IN
    [frames |-> [i \in DOMAIN sorted |-> [frame |-> sorted[i].frame, outcome |-> sorted[i].outcome]],
     events |-> [i \in DOMAIN Records(sorted) |-> Records(sorted)[i].event]]

\* _build_rows: an event keeps the receipt of its frame, and its identity is
\* its own.
SameReceipt(e, f) ==
    /\ <<e.src, e.host, e.boot, e.conn>> = <<f.src, f.host, f.boot, f.conn>>
    /\ <<e.seq, e.mono, e.wall>> = <<f.seq, f.mono, f.wall>>
    /\ <<e.segment, e.offset>> = <<f.segment, f.offset>>
Buildable(results) ==
    LET records == Records(results) IN
    /\ \A i \in DOMAIN results : \A e \in ToSet(results[i].events) : SameReceipt(e, results[i].frame)
    /\ \A i, j \in DOMAIN records : records[i].event.id = records[j].event.id => i = j
-----------------------------------------------------------------------------
(* load_campaign_segment *)

OfType(ds, type) == Keep(ds.events, {i \in DOMAIN ds.events : ds.events[i].type = type})
Side(levels) == IF levels = <<>> THEN NoLevel ELSE levels[1]

\* A BBO with one side only is refused wherever it stands in the dataset.
OneSided(e) == Cardinality({Side(e.bids), Side(e.asks)} \cap {NoLevel}) = 1 /\ Side(e.bids) # Side(e.asks)

Usable(e) ==
    /\ e.src = Hyperliquid /\ e.symbol = Primary
    /\ ~e.suspect
    /\ Side(e.bids) > 0 /\ Side(e.asks) > Side(e.bids)

\* The id of an event is a digest; here it is the row of the event.
Observation(e, row) == [event |-> row, offset |-> e.offset, host |-> e.host, boot |-> e.boot,
                        mono |-> e.mono, wall |-> e.wall, bid |-> Side(e.bids), ask |-> Side(e.asks)]
PrimaryBBO(ds) ==
    LET books == OfType(ds, "BBO")
        usable == Keep(books, {i \in DOMAIN books : Usable(books[i])})
    IN [i \in DOMAIN usable |-> Observation(usable[i], i)]
PrimaryL2Count(ds) ==
    Len(SelectSeq(OfType(ds, "L2_SNAPSHOT"),
                  LAMBDA e : e.src = Hyperliquid /\ e.symbol = Primary /\ ~e.suspect))

Walls(ds) == {ds.frames[i].frame.wall : i \in DOMAIN ds.frames}

\* What a dataset has to have beyond the digests of its files; the constructors
\* of the evidence and of its data look at the wall clock.
Acceptable(ds) ==
    /\ ds.frames # <<>>
    /\ {ds.frames[i].frame.src : i \in DOMAIN ds.frames} = Sources
    /\ Max(Walls(ds)) > Min(Walls(ds)) /\ {Min(Walls(ds)), Max(Walls(ds))} \subseteq Nat
    /\ \A i \in DOMAIN PrimaryBBO(ds) : PrimaryBBO(ds)[i].wall \in Min(Walls(ds))..Max(Walls(ds))
    /\ \A i \in DOMAIN OfType(ds, "BBO") : ~OneSided(OfType(ds, "BBO")[i])

Evidence(ds, segment) ==
    [segment |-> segment, bundle |-> ds, wall_start |-> Min(Walls(ds)), wall_end |-> Max(Walls(ds)),
     bbo |-> PrimaryBBO(ds), l2_count |-> PrimaryL2Count(ds)]
-----------------------------------------------------------------------------
(* Cadence and quantiles *)

\* The value at the nearest rank num/den of the way up a list of numbers: the
\* least of them that so many do not exceed.
NearestRank(values, num, den) ==
    Min({v \in ToSet(values) :
            Cardinality({i \in DOMAIN values : values[i] <= v}) * den >= num * Len(values)})

ByMono(bbo) == Sorted(bbo, [i \in DOMAIN bbo |-> <<bbo[i].mono, bbo[i].wall, bbo[i].event>>])
Steps(q) == [i \in 1..(Len(q) - 1) |-> q[i + 1].mono - q[i].mono]
Deltas(q) == Keep(Steps(q), {i \in 1..(Len(q) - 1) : Steps(q)[i] > 0})
P99(q) == NearestRank(Deltas(q), CadenceRank[1], CadenceRank[2])
Tolerance(q) == Max({P99(q), 1})
InDomain(bbo, d) == Keep(bbo, {i \in DOMAIN bbo : <<bbo[i].host, bbo[i].boot>> = d})

Mid2(o) == o.bid + o.ask    \* twice the mid
SignedReturn(a, b) == (Scale * (Mid2(b) - Mid2(a))) \div Mid2(a)
Magnitude(n) == IF n < 0 THEN -n ELSE n
\* The larger of the two directions, which is the short one.
Friction(o) == (Scale * o.ask * (Scale + Fee)) \div (o.bid * (Scale - Fee)) - Scale
-----------------------------------------------------------------------------
(* build_segment_windows *)

\* The first observation at or after the target of the one at i.
EndsOf(q, i, horizon) == {j \in (i + 1)..Len(q) : q[j].mono >= q[i].mono + horizon}
EndOf(q, i, horizon) == Min(EndsOf(q, i, horizon))

\* A candidate that overshoots the target is a gap.
Candidate(q, i) ==
    LET j == EndOf(q, i, Horizon)
    IN [start |-> q[i], end |-> q[j], gap |-> q[j].mono - (q[i].mono + Horizon) > Tolerance(q)]

ResumeBug(i, end) == i + 1
Resume(i, end) == end

\* The walk over one domain: behind a gap the next start is the next
\* observation; else it is the end.
WalkLoop(q) ==
    LET from[i \in 1..Len(q)] ==
            IF \/ i = Len(q) \/ q[i].mono + Horizon > q[Len(q)].mono
               \/ EndsOf(q, i, Horizon) = {}
            THEN <<>>
            ELSE <<Candidate(q, i)>>
                 \o from[IF Candidate(q, i).gap THEN i + 1 ELSE Resume(i, EndOf(q, i, Horizon))]
    IN from[1]
Walk(q) == IF Len(q) < 2 \/ Deltas(q) = <<>> THEN <<>> ELSE WalkLoop(q)

Candidates(data) ==
    LET domains == {<<data.bbo[i].host, data.bbo[i].boot>> : i \in DOMAIN data.bbo}
    IN UNION {ToSet(Walk(ByMono(InDomain(data.bbo, d)))) : d \in domains}

\* MovementWindow
Window(c, segment) ==
    [segment |-> segment, start |-> c.start, end |-> c.end,
     move |-> SignedReturn(c.start, c.end), friction |-> Friction(c.start)]
Windows(data) == {Window(c, data.segment) : c \in {k \in Candidates(data) : ~k.gap}}
Excluded(data) == Cardinality({c \in Candidates(data) : c.gap})

\* The constructor of a window refuses a wall clock that went back over it,
\* and the report with it.
WindowsRefused(data) == \E w \in Windows(data) : w.end.wall < w.start.wall
-----------------------------------------------------------------------------
(* CampaignManifest and adjudicate_windows *)

\* _validate_segments; segments that touch are ambiguous.
Compatible(segments) ==
    \A a, b \in segments :
        a # b => /\ a.segment # b.segment /\ a.bundle # b.bundle
                 /\ a.wall_end < b.wall_start \/ b.wall_end < a.wall_start

WindowKeyBug(w) == <<w.start.mono, w.end.mono, w.segment, w.start.event>>
WindowKey(w) == <<w.start.wall, w.end.wall, w.segment, w.start.event>>
InOrder(windows) ==
    LET s == SetToSeq(windows) IN Sorted(s, [i \in DOMAIN s |-> WindowKey(s[i])])

Decision(sample) ==
    LET moves == [i \in DOMAIN sample |-> Magnitude(sample[i].move)]
        frictions == [i \in DOMAIN sample |-> sample[i].friction]
        q95 == NearestRank(moves, 95, 100)
    IN IF Len(sample) < Required \/ q95 = 0 THEN "INCONCLUSIVE"
       ELSE IF q95 > NearestRank(frictions, 1, 2) THEN "PASS_FEASIBILITY" ELSE "FAIL_FEASIBILITY_AT_50S"

\* The first Required windows in wall time are the sample.
Adjudicate(segments) ==
    LET ordered == InOrder(UNION {Windows(s) : s \in segments})
        sample == SubSeq(ordered, 1, Min({Required, Len(ordered)}))
    IN [ready |-> Len(ordered) >= Required, sample |-> sample, total |-> Len(ordered),
        excluded |-> FoldSet(LAMBDA s, n : n + Excluded(s), 0, segments),
        decision |-> Decision(sample)]
-----------------------------------------------------------------------------
(* analyze_frontier_pilot_dataset *)

\* horizon_grid_125
Grid125 == {m * k : m \in {1, 2, 5}, k \in {1, 10, 100}}

\* _movement_samples: of every start, unlike the windows of the campaign.
MovementSamples(q, horizon) ==
    LET starts == {i \in 1..(Len(q) - 1) : q[i].mono + horizon <= q[Len(q)].mono}
        ends == {i \in starts : q[EndOf(q, i, horizon)].mono - (q[i].mono + horizon) <= Tolerance(q)}
    IN [n \in 1..Cardinality(ends) |->
           LET i == SetToSortSeq(ends, <)[n] IN Magnitude(SignedReturn(q[i], q[EndOf(q, i, horizon)]))]

\* The status, and the horizon the evidence window is planned for (0: none).
PilotAudit(ds) ==
    LET q == ByMono(PrimaryBBO(ds))
        insufficient == [status |-> "INSUFFICIENT_DATA", target |-> 0]
        lower == Max({1, P99(q)})
        upper == (q[Len(q)].mono - q[1].mono) \div 2
        measured == {h \in Grid125 : lower <= h /\ h <= upper /\ MovementSamples(q, h) # <<>>}
        friction == NearestRank([i \in DOMAIN q |-> Friction(q[i])], 1, 2)
        meeting == {h \in measured : NearestRank(MovementSamples(q, h), 95, 100) >= friction}
    IN IF Len(q) < 2 \/ Deltas(q) = <<>> THEN insufficient
       ELSE [status |-> IF measured = {} THEN "INSUFFICIENT_DATA" ELSE "PILOT_MEASURED",
             target |-> IF meeting # {} THEN Min(meeting)
                        ELSE IF measured = {} THEN lower
                        ELSE Min({h \in Grid125 : h > Max(measured)})]

\* The audit compares monotonic times of one domain only.
AuditRefused(ds) ==
    LET q == PrimaryBBO(ds) IN
    Len(q) >= 2 /\ Cardinality({<<q[i].host, q[i].boot>> : i \in DOMAIN q}) # 1
=============================================================================
