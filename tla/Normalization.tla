---------------------------- MODULE Normalization ----------------------------
(***************************************************************************)
(* The normalization of captured frames into events: the dispatch of       *)
(* data/normalization_pipeline.py, the parsers of adapters/hyperliquid and *)
(* adapters/binance behind it, and the report over a sequence of results.  *)
(*                                                                         *)
(* A frame is a record of what the pipeline distinguishes: its place in    *)
(* the raw segment (segment, offset), its receipt (src, host, boot, conn,  *)
(* seq, mono, wall, flags), and its payload.  Of the payload there remain  *)
(* the channel, the symbol, the two sides of a book, the trades, and       *)
(* broken, the set of the requirements of its parser that it does not      *)
(* meet, each by the name of the error code it leads to.                   *)
(***************************************************************************)
EXTENDS Integers, Sequences, FiniteSets, SequencesExt, OrderedChecks, Sequencing

CONSTANT Registry   \* the instruments: [venue, environment, product, symbol]

Hyperliquid == "hyperliquid-public"
Binance == "binance-usdm-public"
SourceRank == [s \in {Hyperliquid, Binance} |-> IF s = Binance THEN 1 ELSE 2]
Primary == "BTC"

\* A side of a BBO that is null, and a level that does not parse.
NoLevel == 0
Misshapen == -1
NotANumber == -2

Meets(payload, requirement) == requirement \notin payload.broken
Require(payload, requirement) == Check(Meets(payload, requirement), requirement)

Instruments(venue, environment, symbol) ==
    {i \in Registry : /\ i.venue = venue /\ i.environment = environment
                      /\ i.product = "PERPETUAL" /\ i.symbol = symbol}
ListedOnHyperliquid(symbol) == Cardinality(Instruments("hyperliquid", "MAINNET", symbol)) = 1
ListedOnBinance(symbol) == Cardinality(Instruments("binance", "REFERENCE", symbol)) = 1

\* Without a known availability kind a frame has no place in time.
Availability(f) == FirstOf(<<"LIVE_CAPTURE", "LATE_BACKFILL", "HISTORICAL_IMPORT">>, f.flags, "NONE")
KnownAvailability(f) == Check(Availability(f) # "NONE", "INVALID_PROVENANCE")
-----------------------------------------------------------------------------
(* Events *)

\* The envelope copies the receipt of the frame; native is what the identity
\* of the event has besides its place in the raw segment.
Event(f, type, native) ==
    [id |-> <<type, f.segment, f.offset, native>>, type |-> type, src |-> f.src,
     symbol |-> f.symbol, host |-> f.host, boot |-> f.boot, conn |-> f.conn, seq |-> f.seq,
     mono |-> f.mono, wall |-> f.wall, segment |-> f.segment, offset |-> f.offset,
     availability |-> Availability(f), suspect |-> FALSE, bids |-> <<>>, asks |-> <<>>, trade |-> <<>>]

\* A book is kept as it is, and marked, when it is crossed or out of order.
Quoted(side) == side # <<>> /\ side[1] # NoLevel
Suspect(bids, asks) ==
    \/ \E i \in 1..(Len(bids) - 1) : bids[i] < bids[i + 1]
    \/ \E i \in 1..(Len(asks) - 1) : asks[i] > asks[i + 1]
    \/ Quoted(bids) /\ Quoted(asks) /\ bids[1] >= asks[1]

BookEvent(f, type, native) ==
    [Event(f, type, native) EXCEPT !.bids = f.bids, !.asks = f.asks, !.suspect = Suspect(f.bids, f.asks)]
-----------------------------------------------------------------------------
(* The parsers: an error code or "NONE", and the events *)

\* The first level that does not parse decides, the bids before the asks.
LevelCheck(f, shape_code) ==
    LET levels == f.bids \o f.asks
        bad == {i \in DOMAIN levels : levels[i] < NoLevel}
    IN Check(bad = {}, IF bad # {} /\ levels[Min(bad)] = Misshapen THEN shape_code ELSE "INVALID_NUMERIC")

\* normalize_book_frame, _normalize_l2, _normalize_bbo
BookError(f) ==
    LET shape_code == IF f.channel = "l2Book" THEN "INVALID_LEVEL_SHAPE" ELSE "INVALID_BBO_SHAPE" IN
    FirstFailed(<< Require(f, "INVALID_DATA"), Check(ListedOnHyperliquid(f.symbol), "UNSUPPORTED_COIN"),
                   Require(f, "INVALID_TIMESTAMP"), KnownAvailability(f),
                   Require(f, shape_code), LevelCheck(f, shape_code) >>, "NONE")
BookEvents(f) == << BookEvent(f, IF f.channel = "l2Book" THEN "L2_SNAPSHOT" ELSE "BBO", 0) >>

\* _parse_trade
TradeError(t) ==
    FirstFailed(<< Require(t, "INVALID_TRADE_OBJECT"), Check(ListedOnHyperliquid(t.symbol), "UNSUPPORTED_COIN"),
                   Require(t, "INVALID_NATIVE_SIDE"), Require(t, "INVALID_NUMERIC"),
                   Require(t, "INVALID_TIMESTAMP"), Require(t, "INVALID_TID"),
                   Require(t, "INVALID_TRANSACTION_HASH"), Require(t, "INVALID_USERS") >>, "NONE")

\* normalize_trade_frame: one trade that does not parse loses the frame.
TradesError(f) ==
    LET bad == {i \in DOMAIN f.trades : TradeError(f.trades[i]) # "NONE"} IN
    FirstFailed(<< Require(f, "INVALID_TRADES_ARRAY"), KnownAvailability(f),
                   Check(bad = {}, IF bad = {} THEN "NONE" ELSE TradeError(f.trades[Min(bad)])) >>, "NONE")
TradeId(t) == <<t.symbol, t.time, t.tid>>
TradeEvents(f) ==
    [i \in DOMAIN f.trades |->
        [Event(f, "TRADE", i) EXCEPT !.symbol = f.trades[i].symbol, !.trade = TradeId(f.trades[i])]]

\* normalize_context_frame: the exchange gives no time for a context.
ContextError(f) ==
    FirstFailed(<< Check(Meets(f, "INVALID_DATA"), "INVALID_CONTEXT_OBJECT"),
                   Check(ListedOnHyperliquid(f.symbol), "UNSUPPORTED_COIN"),
                   Require(f, "INVALID_CONTEXT_OBJECT"), Require(f, "INVALID_FUNDING"),
                   Require(f, "INVALID_MARK_PRICE"), Require(f, "INVALID_ORACLE_PRICE"),
                   KnownAvailability(f) >>, "NONE")
ContextEvents(f) ==
    << Event(f, "FUNDING_RATE_OBSERVATION", 0), Event(f, "MARK_PRICE", 0), Event(f, "ORACLE_PRICE", 0) >>

\* _instrument, _normalize_book_ticker
TickerError(f) ==
    FirstFailed(<< Require(f, "UNSUPPORTED_SYMBOL"), Require(f, "WRONG_SYMBOL_TYPE"),
                   Check(ListedOnBinance(f.symbol), "UNSUPPORTED_SYMBOL"), Require(f, "UNSUPPORTED_STREAM"),
                   Check(Meets(f, "PRICE_SYMBOL"), "UNSUPPORTED_SYMBOL"),
                   Require(f, "INVALID_EVENT_TIMESTAMP"), Require(f, "INVALID_NATIVE_ID"),
                   Require(f, "INVALID_NUMERIC") >>, "NONE")
TickerEvents(f) == << BookEvent(f, "REFERENCE_BBO", f.native) >>

\* _normalize_agg_trade: the quantity nq is checked before the maker flag, the
\* price and the size after it.
AggTradeError(f) ==
    FirstFailed(<< Require(f, "UNSUPPORTED_SYMBOL"), Require(f, "WRONG_SYMBOL_TYPE"),
                   Check(ListedOnBinance(f.symbol), "UNSUPPORTED_SYMBOL"), Require(f, "UNSUPPORTED_STREAM"),
                   Require(f, "INVALID_EVENT_TIMESTAMP"), Require(f, "INVALID_TRADE_TIMESTAMP"),
                   Require(f, "INVALID_NATIVE_ID"), Check(Meets(f, "NORMAL_QUANTITY"), "INVALID_NUMERIC"),
                   Require(f, "INVALID_MAKER_FLAG"), Require(f, "INVALID_NUMERIC") >>, "NONE")
AggTradeEvents(f) == << [Event(f, "REFERENCE_TRADE", f.native) EXCEPT !.trade = <<f.symbol, 0, f.native>>] >>
-----------------------------------------------------------------------------
(* normalize_frame *)

Result(f, outcome, code, parser_code, events) ==
    [frame |-> f, outcome |-> outcome, code |-> code, parser_code |-> parser_code, events |-> events]
FrameError(f, code) == Result(f, "ERROR", code, "NONE", <<>>)
NotApplicable(f) == Result(f, "NOT_APPLICABLE", "NONE", "NONE", <<>>)

Parsed(f, parser_code, events) ==
    IF parser_code # "NONE" THEN Result(f, "ERROR", "PARSER_ERROR", parser_code, <<>>)
    ELSE IF events = <<>> THEN Result(f, "EMPTY", "NONE", "NONE", <<>>)
    ELSE Result(f, "EVENTS", "NONE", "NONE", events)

\* The dispatcher decodes the payload itself; what it let through the parsers
\* accept again.
NormalizeHyperliquid(f) ==
    LET code == FirstFailed(<< Require(f, "INVALID_JSON"), Require(f, "INVALID_ENVELOPE") >>, "NONE") IN
    CASE code # "NONE" -> FrameError(f, code)
      [] code = "NONE" /\ f.channel \in {"l2Book", "bbo"} -> Parsed(f, BookError(f), BookEvents(f))
      [] code = "NONE" /\ f.channel = "trades" -> Parsed(f, TradesError(f), TradeEvents(f))
      [] code = "NONE" /\ f.channel = "activeAssetCtx" -> Parsed(f, ContextError(f), ContextEvents(f))
      [] OTHER -> NotApplicable(f)

\* An answer to a subscription is an object with result and id.
NormalizeBinance(f) ==
    LET code == FirstFailed(<< KnownAvailability(f), Require(f, "INVALID_JSON"),
                               Require(f, "INVALID_ENVELOPE") >>, "NONE") IN
    CASE code # "NONE" -> Result(f, "ERROR", "PARSER_ERROR", code, <<>>)
      [] code = "NONE" /\ f.channel = "bookTicker" -> Parsed(f, TickerError(f), TickerEvents(f))
      [] code = "NONE" /\ f.channel = "aggTrade" -> Parsed(f, AggTradeError(f), AggTradeEvents(f))
      [] OTHER -> NotApplicable(f)

NormalizeFrame(f) ==
    CASE ~Meets(f, "INVALID_PROVENANCE") -> FrameError(f, "INVALID_PROVENANCE")
      [] Meets(f, "INVALID_PROVENANCE") /\ f.src = Hyperliquid -> NormalizeHyperliquid(f)
      [] Meets(f, "INVALID_PROVENANCE") /\ f.src = Binance -> NormalizeBinance(f)
      [] OTHER -> FrameError(f, "UNSUPPORTED_SOURCE")

NormalizeFrames(frames) == [i \in DOMAIN frames |-> NormalizeFrame(frames[i])]
-----------------------------------------------------------------------------
(* The order of receipt, and the report *)

\* Monotonic time first: it compares within a domain, wall time anywhere.
CausalKey(f) == <<f.mono, f.wall, SourceRank[f.src], f.segment, f.offset>>
Domain(f) == <<f.host, f.boot>>
ByReceipt(results) ==
    Sorted(results, [i \in DOMAIN results |->
                        Domain(results[i].frame) \o CausalKey(results[i].frame)])

\* _records_from_results in causal order: the events, each with its ordinal.
Records(results) ==
    FlattenSeq([i \in DOMAIN results |->
        [n \in DOMAIN results[i].events |-> [ordinal |-> n, event |-> results[i].events[n]]]])
CausalRecords(results) == Records(ByReceipt(results))

Domains(results) == {Domain(results[i].frame) : i \in DOMAIN results}

\* Steps back of the wall clock between consecutive receipts of one domain.
ClockOrderAnomalies(results) ==
    LET s == ByReceipt(results) IN
    Cardinality({i \in 1..(Len(s) - 1) :
        /\ Domain(s[i].frame) = Domain(s[i + 1].frame)
        /\ s[i].frame.mono < s[i + 1].frame.mono
        /\ s[i].frame.wall > s[i + 1].frame.wall})

\* Trades a reconnect delivered again: counted, not removed.
DuplicateTrades(results) ==
    LET trades == SelectSeq(Records(results), LAMBDA r : r.event.trade # <<>>)
        key(r) == <<r.event.src, r.event.type, r.event.trade>>
    IN Len(trades) - Cardinality({key(trades[i]) : i \in DOMAIN trades})

Errors(results) == {i \in DOMAIN results : results[i].outcome = "ERROR"}

\* build_pipeline_report; records stands for the digest over the events.
PipelineReport(results) ==
    [total |-> Len(results), errors |-> Cardinality(Errors(results)), domains |-> Domains(results),
     anomalies |-> ClockOrderAnomalies(results), duplicates |-> DuplicateTrades(results),
     records |-> CausalRecords(results)]
=============================================================================
