------------------------------ MODULE Simulator ------------------------------
(***************************************************************************)
(* The simulator of src/cryptobot/sim: fixed-horizon opportunities over a  *)
(* stream of quotes, and the ledger a policy leaves on them.  Money is in  *)
(* units of 1/10000, so that costs in basis points are exact.              *)
(***************************************************************************)
EXTENDS Integers, Sequences, FiniteSets, FiniteSetsExt, Functions, Sequencing

NoPrice == 0       \* prices are positive
Unknown == -1      \* the bps of a cost without evidence
NoExit == [id |-> 0, stream |-> 0, mono |-> 0, wall |-> 0, bid |-> NoPrice, bsz |-> 0,
           ask |-> NoPrice, asz |-> 0, flags |-> {}]

\* The order of the builder and of every reader of books.
QuoteKey(q) == <<q.mono, q.wall, q.id>>
CausalOrder(quotes) == Sorted(quotes, [i \in DOMAIN quotes |-> QuoteKey(quotes[i])])

\* invalid_reasons of a quote.
QuoteDefects(q) ==
    (IF NoPrice \in {q.bid, q.ask} THEN {"MISSING_BBO_SIDE"} ELSE {})
    \cup (IF NoPrice \notin {q.bid, q.ask} /\ q.ask <= q.bid THEN {"CROSSED_OR_LOCKED_BBO"} ELSE {})
    \cup (IF q.flags \cap {"GAP", "STALE", "SUSPECT"} # {} THEN {"QUALITY_FLAGS"} ELSE {})
-----------------------------------------------------------------------------
(* build_fixed_horizon_opportunities *)

\* The quotes at or after the horizon of the one at i.
ExitsOf(q, i, horizon) == {j \in (i + 1)..Len(q) : q[j].mono >= q[i].mono + horizon}

IntervalDefectsBug(q, i, j, max_step) ==
    IF q[j].mono - q[i].mono > 10 * max_step THEN {"GAP_EXCEEDS_MAX_STEP_NS"} ELSE {}
IntervalDefects(q, i, j, max_step) ==
    IF \E k \in i..(j - 1) : q[k + 1].mono - q[k].mono > max_step
    THEN {"GAP_EXCEEDS_MAX_STEP_NS"} ELSE {}

NextStartBug(j) == j
NextStart(j) == j + 1

\* The loop over start_index; the position of the exit is the length of the
\* stream plus one when there is none.
TrialLoop(q, horizon, max_step) ==
    LET from[i \in 1..(Len(q) + 2)] ==
            IF i > Len(q) THEN <<>>
            ELSE LET exits == ExitsOf(q, i, horizon) IN
                 IF exits = {}
                 THEN << [entry |-> q[i], exit |-> NoExit, interval |-> {"HORIZON_EXIT_UNAVAILABLE"}] >>
                 ELSE LET j == Min(exits) IN
                      << [entry |-> q[i], exit |-> q[j],
                          interval |-> IntervalDefects(q, i, j, max_step)] >> \o from[NextStart(j)]
    IN from[1]
Opportunities(quotes, horizon, max_step) == TrialLoop(CausalOrder(quotes), horizon, max_step)

HasExit(o) == o.exit # NoExit

\* The builder, or a constructor in it, refuses the whole stream.
StreamRefused(quotes, horizon, max_step) ==
    \/ \E i, j \in DOMAIN quotes : quotes[i].stream # quotes[j].stream
    \/ \E o \in ToSet(Opportunities(quotes, horizon, max_step)) :
          HasExit(o) /\ o.exit.wall < o.entry.wall

\* invalid_reasons of an opportunity.
Defects(o) ==
    {<<"INTERVAL", d>> : d \in o.interval}
    \cup {<<"ENTRY", d>> : d \in QuoteDefects(o.entry)}
    \cup {<<"EXIT", d>> : d \in IF HasExit(o) THEN QuoteDefects(o.exit) ELSE {"MISSING_EXIT_QUOTE"}}
-----------------------------------------------------------------------------
(* run_simulation *)

CostNames == {"fee", "latency", "impact", "funding"}
Money(price, size) == 10000 * price * size

\* _execution_prices: the spread is paid by crossing it, at either end.
ExecutionBug(o, action) == [entry |-> o.entry.ask, exit |-> o.exit.bid]
Execution(o, action) ==
    IF action = "LONG" THEN [entry |-> o.entry.ask, exit |-> o.exit.bid]
                       ELSE [entry |-> o.entry.bid, exit |-> o.exit.ask]

Gross(o, action, size) ==
    LET p == Execution(o, action) IN
    IF action = "LONG" THEN Money(p.exit - p.entry, size) ELSE Money(p.entry - p.exit, size)

\* _per_side_cost on both notionals, _round_trip_cost on that of the entry.
CostOf(name, bps, o, action, size) ==
    LET p == Execution(o, action) IN
    bps * size * (p.entry + (IF name = "funding" THEN 0 ELSE p.exit))

Evidenced(costs) == {n \in CostNames : costs[n] # Unknown}

\* A ledger entry.  An amount that is null is not among the sums of the report
\* and is 0 here; business is null as an empty sequence.
Untraded(o, status) ==
    [opportunity |-> o, status |-> status, action |-> "ABSTAIN", gross |-> 0, cost |-> 0,
     net |-> 0, business |-> IF status = "INVALID" THEN <<>> ELSE <<0>>, unknown |-> {}]

BusinessNet(known_net, costs) == IF Evidenced(costs) = CostNames THEN <<known_net>> ELSE <<>>

Traded(o, action, costs, size) ==
    LET cost == SumFunction([n \in Evidenced(costs) |-> CostOf(n, costs[n], o, action, size)])
        gross == Gross(o, action, size)
    IN [opportunity |-> o, status |-> "TRADED", action |-> action, gross |-> gross, cost |-> cost,
        net |-> gross - cost, business |-> BusinessNet(gross - cost, costs),
        unknown |-> CostNames \ Evidenced(costs)]

\* One entry for every opportunity; what the policy would do with an invalid
\* one is not asked.
Simulate(opportunities, policy, costs, size) ==
    [i \in DOMAIN opportunities |->
        LET o == opportunities[i] IN
        IF Defects(o) # {} THEN Untraded(o, "INVALID")
        ELSE IF policy[i] = "ABSTAIN" THEN Untraded(o, "NO_TRADE")
        ELSE Traded(o, policy[i], costs, size)]

Entries(ledger, status) == {i \in DOMAIN ledger : ledger[i].status = status}
KnownNet(ledger) == SumFunction([i \in DOMAIN ledger |-> ledger[i].net])

\* SimulationReport: a sum of business net only if every traded entry has one.
ReportNet(ledger) ==
    LET traded == Entries(ledger, "TRADED") IN
    IF \E i \in traded : ledger[i].business = <<>> THEN <<>>
    ELSE << SumFunction([i \in traded |-> ledger[i].business[1]]) >>
=============================================================================
