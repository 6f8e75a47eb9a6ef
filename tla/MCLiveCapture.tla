--------------------------- MODULE MCLiveCapture ----------------------------
(* The Hyperliquid recorder alone and both exchanges under one multiplexer. *)
EXTENDS LiveCapture

MCRoutesOf == [hyperliquid |-> {"ws"}, binance |-> {"public", "market"}]
MCSubscriptions == [ws |-> {"bbo"}, public |-> {"id 1301"}, market |-> {"id 1302"}]
MCCounting == {"ws"}
MCPolicy == [hyperliquid |-> [floor |-> 20, base |-> 20, max |-> 60, jitter |-> 20, strict |-> TRUE],
             binance |-> [floor |-> 1, base |-> 1, max |-> 3, jitter |-> 0, strict |-> FALSE]]
\* The Hyperliquid recorder with and without a timer and a seal; both sources, with
\* a message of each route, or with more of Binance while Hyperliquid is not reached.
DualRun(hyperliquid, public) ==
    [runtime |-> "dual", sources |-> {"hyperliquid", "binance"}, timed |-> TRUE,
     max_sessions |-> [hyperliquid |-> hyperliquid, binance |-> 2],
     max_frames |-> [ws |-> 1, public |-> public, market |-> 1],
     seal_on_shutdown |-> TRUE]
MCRuns ==
    {[runtime |-> "public", sources |-> {"hyperliquid"}, timed |-> t,
      max_sessions |-> [hyperliquid |-> 4, binance |-> 0],
      max_frames |-> [ws |-> 2, public |-> 0, market |-> 0],
      seal_on_shutdown |-> b] :
        t, b \in BOOLEAN}
    \cup {DualRun(1, 1), DualRun(0, 2)}
=============================================================================
