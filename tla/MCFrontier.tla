----------------------------- MODULE MCFrontier ------------------------------
EXTENDS Frontier

MCRegistry ==
    {[venue |-> "hyperliquid", environment |-> "MAINNET", product |-> "PERPETUAL", symbol |-> "BTC"],
     [venue |-> "binance", environment |-> "REFERENCE", product |-> "PERPETUAL", symbol |-> "BTC"]}

\* A frame without its place; lapse is the wall time since the capture began.
Frame(src, channel, mono, lapse, bids, asks) ==
    [src |-> src, channel |-> channel, symbol |-> "BTC", mono |-> mono, lapse |-> lapse,
     bids |-> bids, asks |-> asks, trades |-> <<>>, native |-> mono, broken |-> {},
     flags |-> {"LIVE_CAPTURE"}]
Book(mono, lapse, bid, ask) == Frame(Hyperliquid, "bbo", mono, lapse, <<bid>>, <<ask>>)
B(mono, bid, ask) == Book(mono, mono, bid, ask)
Ticker(mono) == Frame(Binance, "bookTicker", mono, mono, <<100>>, <<101>>)
Trade(symbol, tid) == [symbol |-> symbol, time |-> 1, tid |-> tid, broken |-> {}]
Trades(mono, trades) == [Frame(Hyperliquid, "trades", mono, mono, <<>>, <<>>) EXCEPT !.trades = trades]
Context(mono, broken) == [Frame(Hyperliquid, "activeAssetCtx", mono, mono, <<>>, <<>>) EXCEPT !.broken = broken]
Depth(mono, bids, asks) == Frame(Hyperliquid, "l2Book", mono, mono, bids, asks)

\* After the capture before it, or set back so far that they overlap.
MCStarts == {1, -11}
\* The first capture starts at 0, the second at 0 + 11 + 1 or 0 + 11 - 11.
MCClocks == {0, 12}

MCCadenceRank == <<1, 2>>

MCCaptures ==
  << \* rising and falling, a window from every second book
     << Ticker(0), B(0, 100, 102), B(1, 104, 106), B(2, 110, 112), Depth(2, <<110, 109>>, <<112, 113>>),
        B(4, 90, 92), Context(4, {}) >>,
     \* little movement, a gap, a crossed book and a trade sent twice
     << B(0, 100, 102), Trades(0, <<Trade("BTC", 1)>>), B(1, 100, 102), B(2, 103, 102), B(3, 101, 102),
        Trades(3, <<Trade("BTC", 1)>>), Ticker(3), B(5, 100, 102), B(10, 100, 101) >>,
     \* a book with one side
     << Ticker(0), B(0, 100, 102), B(2, 100, NoLevel), B(3, 104, 106) >>,
     \* a frame that does not parse
     << Ticker(0), B(0, 100, 102), B(2, 104, 106), Context(3, {"INVALID_FUNDING"}) >>,
     \* the wall clock went back inside the segment
     << Ticker(0), Book(0, 3, 100, 102), Book(2, 1, 104, 106), B(4, 110, 112) >> >>
=============================================================================
