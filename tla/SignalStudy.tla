----------------------------- MODULE SignalStudy ------------------------------
(***************************************************************************)
(* The stage-2 signal study over the segments of a campaign:               *)
(* signal_dataset.py builds a row of features and an outcome for every     *)
(* opportunity, signal_campaign.py collects and freezes the rows,          *)
(* signal_protocol.py places the partition boundaries,                     *)
(* signal_selection_campaign.py rebuilds the rows before confirmation from *)
(* what was received before it, and signal_selection.py judges the two     *)
(* registered hypotheses.                                                  *)
(***************************************************************************)
EXTENDS Simulator, OrderedChecks
LOCAL INSTANCE Combinatorics

CONSTANTS
    Opening,     \* the reference book just before a segment
    Arrivals,    \* what may be received next: a quote and a reference book
    Oddities,    \* bound: odd arrivals of a study
    SizeOf,      \* bound: quotes of each segment
    Horizon, MaxStep, Lookback, MaxAge,        \* HORIZON_NS and its like
    MinSelection, MinConfirmation,             \* rows with features and label
    MinEvaluable, AlphaInverse, ZNum, ZDen,    \* of the selection gate: z is ZNum / ZDen
    Precision,   \* a bound is kept as a multiple of 1 / Precision; in the code, 60 digits
    Costs                                      \* the frozen cost model

Books == [stream : Nat, bid : Nat, bsz : Nat, ask : Nat, asz : Nat, flags : SUBSET STRING]

\* The monotonic clock advances between two arrivals.
ASSUME StudyAssumption ==
    /\ Opening \in Books
    /\ Arrivals \subseteq [step : Nat \ {0}, back : Nat, quote : Books, reference : Books, odd : BOOLEAN]
    /\ SizeOf \in Seq(Nat) /\ {Oddities, Lookback, MaxAge} \subseteq Nat /\ MaxAge < Lookback
    /\ {Horizon, MaxStep, MinSelection, MinConfirmation} \subseteq Nat \ {0}
    /\ {MinEvaluable, AlphaInverse, ZNum, ZDen, Precision} \subseteq Nat \ {0}
    /\ Costs \in [CostNames -> Int]

H1 == "S2-H1-BINANCE-REF-5S-SIGN-V1"
H2 == "S2-H2-HL-BBO-IMBALANCE-SIGN-V1"
Segments == Len(SizeOf)

VARIABLES
    phase,   \* of the study
    books,   \* primary quotes of each segment
    refs,    \* reference books of each segment
    clock,   \* mono and wall of the last arrival, and odd arrivals so far
    dataset, \* the frozen rows
    plan,    \* the walls at which SELECTION and CONFIRMATION start
    report   \* the selection report

vars == <<phase, books, refs, clock, dataset, plan, report>>

None == "none"
-----------------------------------------------------------------------------
(* Features and outcome of an opportunity: signal_dataset.py *)

\* _FORBIDDEN_FLAGS; MISSING_EXCHANGE_TIME and DUPLICATE_CANDIDATE are not among them.
Flagged(q) == q.flags \cap {"GAP", "STALE", "SUSPECT", "BACKFILL"} # {}
Sign(x) == IF x > 0 THEN 1 ELSE IF x < 0 THEN -1 ELSE 0
Mid2(q) == q.bid + q.ask
Missing(reason) == [sign |-> 0, missing |-> reason]
Feature(x) == [sign |-> Sign(x), missing |-> None]
Available(feature) == feature.missing = None

\* _latest_available: the last book of the series received by the target on the
\* monotonic clock and by the decision on the wall clock.
LatestBug(series, target, wall) ==
    LET i == {k \in DOMAIN series : series[k].mono <= target + 1} IN
    IF i = {} THEN {} ELSE {series[Max(i)]}
Latest(series, target, wall) ==
    LET i == {k \in DOMAIN series : series[k].mono <= target /\ series[k].wall <= wall} IN
    IF i = {} THEN {} ELSE {series[Max(i)]}

HasMid(q) == ~Flagged(q) /\ QuoteDefects(q) = {}

\* _reference_return_feature, only the sign of which a hypothesis uses.
ReferenceReturn(series, entry) ==
    LET current == Latest(series, entry.mono, entry.wall)
        anchor == Latest(series, entry.mono - Lookback, entry.wall)
        failed == FirstFailed(
          << Check(series # <<>>, "REFERENCE_BBO_UNAVAILABLE"),
             Check(current # {}, "REFERENCE_CURRENT_UNAVAILABLE"),
             Check(entry.mono >= Lookback, "REFERENCE_LOOKBACK_BEFORE_DOMAIN_START"),
             Check(anchor # {}, "REFERENCE_LOOKBACK_UNAVAILABLE"),
             Check(\A b \in current : entry.mono - b.mono <= MaxAge, "REFERENCE_CURRENT_STALE"),
             Check(\A b \in anchor : entry.mono - Lookback - b.mono <= MaxAge,
                   "REFERENCE_LOOKBACK_STALE"),
             Check(\A b \in current \cup anchor : HasMid(b), "REFERENCE_BBO_INVALID") >>, None)
    IN IF failed # None THEN Missing(failed)
       ELSE CHOOSE f \in {Feature(Mid2(c) - Mid2(a)) : c \in current, a \in anchor} : TRUE

\* _imbalance_feature; a BBO has a size exactly with its price.
Imbalance(q) ==
    IF Flagged(q) THEN Missing("PRIMARY_BBO_QUALITY_INVALID")
    ELSE IF NoPrice \in {q.bid, q.ask} THEN Missing("PRIMARY_BBO_SIZE_MISSING")
    ELSE Feature(q.bsz - q.asz)

\* _outcome_label; Defects knows all flags but BACKFILL.
Backfilled(o) == "BACKFILL" \in o.entry.flags \cup o.exit.flags
Outcome(o) ==
    IF Defects(o) # {} \/ Backfilled(o)
    THEN [available |-> FALSE, direction |-> 0]
    ELSE [available |-> TRUE, direction |-> Sign(Mid2(o.exit) - Mid2(o.entry))]

\* _build_row
Row(segment, o, series) ==
    [segment |-> segment, trial |-> o,
     decidable |-> QuoteDefects(o.entry) = {} /\ "BACKFILL" \notin o.entry.flags,
     feature |-> [h \in {H1, H2} |-> IF h = H1 THEN ReferenceReturn(series, o.entry)
                                               ELSE Imbalance(o.entry)],
     outcome |-> Outcome(o)]

SegmentRows(segment, quotes, series) ==
    LET trials == Opportunities(quotes, Horizon, MaxStep)
        ordered == CausalOrder(series)
    IN [i \in DOMAIN trials |-> Row(segment, trials[i], ordered)]

\* build_gate_feature_dataset and, with the wall at which confirmation starts,
\* build_gate_feature_dataset_before_wall, which reads only what was received
\* before it.
ReceivedBefore(stream, wall) == Keep(stream, {i \in DOMAIN stream : stream[i].wall < wall})
ByEntry(rows) ==
    Sorted(rows, [i \in DOMAIN rows |-> <<rows[i].trial.entry.wall, rows[i].trial.entry.mono>>])
Rows(primary, reference) ==
    ByEntry(FlattenSeq([s \in 1..Segments |-> SegmentRows(s, primary[s], reference[s])]))
EnteredBefore(rows, wall) == Keep(rows, {i \in DOMAIN rows : rows[i].trial.entry.wall < wall})
RowsBefore(wall) ==
    EnteredBefore(Rows([s \in 1..Segments |-> ReceivedBefore(books[s], wall)],
                       [s \in 1..Segments |-> ReceivedBefore(refs[s], wall)]), wall)
BooksRefused(primary) == \E s \in 1..Segments : StreamRefused(primary[s], Horizon, MaxStep)
-----------------------------------------------------------------------------
(* The protocol: signal_protocol.py *)

FeatureReady(row, h) == row.decidable /\ Available(row.feature[h])

\* hypothesis_action
Action(row, h) ==
    IF ~FeatureReady(row, h) \/ row.feature[h].sign = 0 THEN "ABSTAIN"
    ELSE IF row.feature[h].sign > 0 THEN "LONG" ELSE "SHORT"

PlanningReady(row, h) == FeatureReady(row, h) /\ row.outcome.available

\* _suffix_start_for_support, {} if there is none; _first_equal_wall_index.
SuffixStart(rows, end, minimum) ==
    {i \in 1..end : \A h \in {H1, H2} : Cardinality({j \in i..end : PlanningReady(rows[j], h)}) >= minimum}
FirstEqualWall(rows, i) == Min({j \in 1..i : rows[j].trial.entry.wall = rows[i].trial.entry.wall})

ValidLabelsFrom(rows, first, last, wall) ==
    {i \in first..last : rows[i].outcome.available /\ rows[i].trial.exit.wall >= wall}

\* derive_partition_plan and the constructor of PartitionPlan; None is a refusal.
PartitionPlan(rows) ==
    LET confirmations == SuffixStart(rows, Len(rows), MinConfirmation)
        confirmation == FirstEqualWall(rows, Max(confirmations))
        selections == SuffixStart(rows, confirmation - 1, MinSelection)
        selection == FirstEqualWall(rows, Max(selections))
        wall == rows[confirmation].trial.entry.wall
    IN IF \/ confirmations = {} \/ selections = {} \/ selection = 1
          \/ ValidLabelsFrom(rows, selection, confirmation - 1, wall) # {}
       THEN [refused |-> TRUE, selection |-> 0, confirmation |-> 0]
       ELSE [refused |-> FALSE, selection |-> rows[selection].trial.entry.wall, confirmation |-> wall]

InSelection(p, row) == p.selection <= row.trial.entry.wall /\ row.trial.entry.wall < p.confirmation
-----------------------------------------------------------------------------
(* The selection gate: signal_selection.py *)

\* The policy of a hypothesis knows the row of every opportunity.
Trials(rows) == [i \in DOMAIN rows |-> rows[i].trial]
Actions(rows, h) == [i \in DOMAIN rows |-> Action(rows[i], h)]
Ledger(rows, h) ==
    Simulate(Trials(rows), Actions(rows, h), Costs, 1)

\* Rows with an action, an outcome and a direction, each correct (1) or not.
EvaluableBug(row, h) == Action(row, h) # "ABSTAIN"
Evaluable(row, h) ==
    Action(row, h) # "ABSTAIN" /\ row.outcome.available /\ row.outcome.direction # 0
Correct(row, h) == (Action(row, h) = "LONG") = (row.outcome.direction = 1)
Correctness(rows, h) ==
    LET kept == Keep(rows, {i \in DOMAIN rows : Evaluable(rows[i], h)})
    IN [i \in DOMAIN kept |-> IF Correct(kept[i], h) THEN 1 ELSE 0]

\* exact_binomial_upper_tail(correct, n) <= alpha
TailWithinAlpha(correct, n) ==
    AlphaInverse * SumFunction([k \in correct..n |-> choose(n, k)]) <= 2 ^ n

\* correctness_autocorrelations, dependence_design_effect, effective_sample_size:
\* the correlations have one denominator, and only positive ones count.
EffectiveSize(c) ==
    LET n == Len(c)
        centered == [i \in 1..n |-> n * c[i] - SumFunction(c)]
        lag(l) == SumFunction([i \in 1..(n - l) |-> centered[i] * centered[i + l]])
        positive == SumFunction([l \in 1..Min({10, n - 1}) |-> Max({0, lag(l)})])
    IN IF n = 0 THEN 0
       ELSE IF lag(0) = 0 THEN n
       ELSE Max({1, (n * lag(0)) \div (lag(0) + 2 * positive)})

\* wilson_lower_bound for c correct of t with effective size n, as a multiple of
\* 1 / Precision; its irrational root is what is rounded.
Root(x, bound) == Max({r \in 0..bound : r * r <= x})
WilsonLower(c, t, n) ==
    LET a == ZNum * ZNum
        b == n * ZDen * ZDen
        root == Root(Precision * Precision * a * (4 * b * c * (t - c) + a * t * t),
                     Precision * ZNum * t * (a + b))
    IN IF t = 0 THEN -Precision
       ELSE Max({0, (Precision * (2 * b * c + a * t) - root) \div (2 * t * (a + b))})

\* The bound is above one half, without rounding: 1 / 2 is below the share of the
\* correct ones and outside of what z allows, (c / t - 1 / 2)^2 > z^2 / 4n.
AboveHalf(c, t, n) ==
    /\ 2 * c > t
    /\ n * ZDen * ZDen * (2 * c - t) * (2 * c - t) > ZNum * ZNum * t * t

\* _evaluate_trial
TrialResult(rows, h) ==
    LET c == Correctness(rows, h)
        correct == Cardinality({i \in DOMAIN c : c[i] = 1})
        size == EffectiveSize(c)
    IN [hypothesis |-> h, evaluable |-> Len(c), lower |-> WilsonLower(correct, Len(c), size),
        passed |-> /\ Len(c) >= MinEvaluable /\ Len(c) > 0 /\ TailWithinAlpha(correct, Len(c))
                   /\ AboveHalf(correct, Len(c), size) /\ KnownNet(Ledger(rows, h)) > 0]

\* _selection_decision: the higher bound wins, the first hypothesis on a tie.
ChampionOf(passing) ==
    LET best == Max({passing[i].lower : i \in DOMAIN passing})
    IN passing[Min({i \in DOMAIN passing : passing[i].lower = best})].hypothesis
Decision(trials) ==
    LET passing == Keep(trials, {i \in DOMAIN trials : trials[i].passed}) IN
    IF \E i \in DOMAIN trials : trials[i].evaluable < MinEvaluable THEN "INCONCLUSIVE_SELECTION"
    ELSE IF passing = <<>> THEN "STOP_FAIL_SIGNAL_SELECTION"
    ELSE ChampionOf(passing)
-----------------------------------------------------------------------------
Stamp(b, mono, wall, id) ==
    [id |-> id, stream |-> b.stream, mono |-> mono, wall |-> wall, bid |-> b.bid, bsz |-> b.bsz,
     ask |-> b.ask, asz |-> b.asz, flags |-> b.flags]

Undecided == [trials |-> <<>>, decision |-> "NONE"]
NoPlan == [refused |-> TRUE, selection |-> 0, confirmation |-> 0]

Init ==
    /\ phase = 1 /\ books = [s \in 1..Segments |-> <<>>]
    /\ clock = [mono |-> 10, wall |-> 10, odd |-> 0]
    /\ refs = [s \in 1..Segments |-> IF s = 1 THEN <<Stamp(Opening, 9, 9, 9)>> ELSE <<>>]
    /\ dataset = <<>> /\ plan = NoPlan /\ report = Undecided

\* A reference book, if any, and a quote of the segment in capture; the wall
\* clock may be set back, the monotonic clock may not.
Receive(a) ==
    LET mono == clock.mono + a.step
        wall == clock.wall + a.step - a.back
    IN /\ phase \in 1..Segments /\ Len(books[phase]) < SizeOf[phase]
       /\ clock.odd + (IF a.odd THEN 1 ELSE 0) <= Oddities /\ wall >= 0
       /\ clock' = [mono |-> mono, wall |-> wall, odd |-> clock.odd + (IF a.odd THEN 1 ELSE 0)]
       /\ books' = [books EXCEPT ![phase] = Append(@, Stamp(a.quote, mono, wall, mono))]
       /\ refs' = [refs EXCEPT ![phase] =
                      IF a.reference.stream = 0 THEN @ ELSE Append(@, Stamp(a.reference, mono, wall, mono))]
       /\ UNCHANGED <<phase, dataset, plan, report>>

\* The next segment is captured later, after a pause.
NextSegment ==
    /\ phase \in 1..Segments /\ Len(books[phase]) = SizeOf[phase]
    /\ phase' = phase + 1
    /\ clock' = [clock EXCEPT !.mono = @ + 20, !.wall = @ + 20]
    /\ refs' = [s \in 1..Segments |->
                   IF s = phase' THEN <<Stamp(Opening, clock'.mono - 1, clock'.wall - 1, clock'.mono - 1)>> ELSE refs[s]]
    /\ UNCHANGED <<books, dataset, plan, report>>

\* freeze: the dataset and the plan of the boundaries, or a refusal.
Freeze ==
    /\ phase = Segments + 1 /\ dataset = <<>>
    /\ IF BooksRefused(books)
       THEN phase' = -1 /\ UNCHANGED <<dataset, plan>>
       ELSE /\ dataset' = Rows(books, refs)
            /\ plan' = PartitionPlan(dataset')
            /\ phase' = IF plan'.refused THEN -1 ELSE phase + 1
    /\ UNCHANGED <<books, refs, clock, report>>

\* load_verified_selection_rows and evaluate_registered_selection.
SelectionOf(rows) == Keep(rows, {i \in DOMAIN rows : InSelection(plan, rows[i])})
FrozenSelection == SelectionOf(dataset)
RebuiltSelection == SelectionOf(RowsBefore(plan.confirmation))
CrossesConfirmation(r) == HasExit(r.trial) /\ r.trial.exit.wall >= plan.confirmation

Select ==
    /\ phase = Segments + 2
    /\ LET rows == RebuiltSelection
           trials == <<TrialResult(rows, H1), TrialResult(rows, H2)>>
       IN IF \/ BooksRefused([s \in 1..Segments |-> ReceivedBefore(books[s], plan.confirmation)])
             \/ rows # FrozenSelection
             \/ \E r \in ToSet(rows) : CrossesConfirmation(r)
          THEN phase' = -2 /\ report' = report
          ELSE /\ phase' = phase + 1
               /\ report' = [trials |-> trials, decision |-> Decision(trials)]
    /\ UNCHANGED <<books, refs, clock, dataset, plan>>

Next == (\E a \in Arrivals : Receive(a)) \/ NextSegment \/ Freeze \/ Select

Spec == Init /\ [][Next]_vars
-----------------------------------------------------------------------------
(* Properties *)

\* build_fixed_horizon_opportunities: a trial with a valid interval lasts at
\* least the horizon and less than one step more; the trials of a segment do
\* not overlap, and no quote is the end of one and the start of another.
TrialsHoldHorizon ==
    \A i \in DOMAIN dataset :
        LET o == dataset[i].trial IN
        /\ o.interval = {} =>
              o.exit.mono - o.entry.mono \in Horizon..(Horizon + MaxStep - 1)
        /\ \A j \in DOMAIN dataset :
              LET p == dataset[j].trial IN
              dataset[i].segment = dataset[j].segment /\ o.entry.mono < p.entry.mono =>
                  HasExit(o) /\ o.exit.mono <= p.entry.mono /\ o.exit.id # p.entry.id

\* A trade has clean evidence, and with the trade the other way it would have
\* lost the two spreads, once each.
AllKnown == [n \in CostNames |-> 3]
HonestTrade(o, entry) ==
    LET other == IF entry.action = "LONG" THEN "SHORT" ELSE "LONG"
        spreads == o.entry.ask - o.entry.bid + o.exit.ask - o.exit.bid
    IN /\ Defects(o) = {} /\ "BACKFILL" \notin o.entry.flags
       /\ entry.gross + Gross(o, other, 1) = -10000 * spreads

\* The business result is null as soon as a trade has a cost without evidence,
\* and is all that is earned less all that is paid otherwise.
HonestSum(ledger, costs) ==
    LET traded == Entries(ledger, "TRADED")
        earned == SumFunction([i \in traded |-> ledger[i].gross - ledger[i].cost])
    IN ReportNet(ledger) =
          IF traded # {} /\ Evidenced(costs) # CostNames THEN <<>> ELSE <<earned>>

\* run_simulation: every trade of a selection is honest, and so is what its
\* report sums up, under the frozen costs and under known ones.
LedgerIsHonest ==
    phase = Segments + 3 =>
        \A h \in {H1, H2}, costs \in {Costs, AllKnown} :
            LET ledger == Simulate(Trials(FrozenSelection), Actions(FrozenSelection, h), costs, 1)
            IN /\ \A i \in Entries(ledger, "TRADED") :
                     HonestTrade(FrozenSelection[i].trial, ledger[i])
               /\ HonestSum(ledger, costs)

\* build_signal_feature_rows: what a hypothesis does at a decision does not
\* depend on a reference book that was received after it on either clock.
FeatureIsCausal ==
    \A i \in DOMAIN dataset :
        LET row == dataset[i]
            books_of == refs[row.segment]
            known == Keep(books_of, {k \in DOMAIN books_of : 
                              /\ books_of[k].mono <= row.trial.entry.mono
                              /\ books_of[k].wall <= row.trial.entry.wall})
        IN \A h \in {H1, H2} : Action(row, h) = Action(Row(row.segment, row.trial, known), h)

\* The wall clock advanced between any two arrivals of a segment.
HeardIn(s) == ToSet(books[s]) \cup ToSet(refs[s])
Steady ==
    \A s \in 1..Segments : \A x, y \in HeardIn(s) : x.mono < y.mono => x.wall < y.wall

\* Under a plan that was accepted, the rows rebuilt from what was received
\* before confirmation are the frozen ones, and none reaches into it: the
\* selection is only refused if the wall clock was set back or stood still
\* between two arrivals of a segment.
RebuildAgrees == phase = -2 => ~Steady

\* The rows on which a hypothesis acts and the price moves, on clean evidence, and
\* those of them on which it is right.
Judged(rows, h) ==
    {i \in DOMAIN rows :
        LET o == rows[i].trial IN
        /\ Action(rows[i], h) # "ABSTAIN"
        /\ Defects(o) = {} /\ ~Backfilled(o) /\ Mid2(o.exit) # Mid2(o.entry)}
Right(rows, h) ==
    {i \in Judged(rows, h) :
        LET o == rows[i].trial IN
        (Action(rows[i], h) = "LONG") = (Mid2(o.exit) > Mid2(o.entry))}

\* A champion has the frozen support, and so has the other hypothesis; it was
\* right more often than wrong and earned more than the known costs, and no
\* hypothesis that passed has a higher bound.
ChampionIsEarned ==
    report.decision \in {H1, H2} =>
        LET rows == FrozenSelection
            champion == report.decision
        IN /\ \A h \in {H1, H2} : Cardinality(Judged(rows, h)) >= MinEvaluable
           /\ 2 * Cardinality(Right(rows, champion)) > Cardinality(Judged(rows, champion))
           /\ KnownNet(Ledger(rows, champion)) > 0
           /\ \A i, j \in 1..2 : LET best == report.trials[i]  t == report.trials[j] IN
                 best.hypothesis = champion /\ t.passed => t.lower <= best.lower
=============================================================================
