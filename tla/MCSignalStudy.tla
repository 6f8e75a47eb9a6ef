--------------------------- MODULE MCSignalStudy ----------------------------
(* Two segments; ordinary arrivals, and ones with a gap, a wall clock set back,
   a missing side, or a flag. *)
EXTENDS SignalStudy

Book(bid, ask, bsz, asz, flags) ==
    [stream |-> 1, bid |-> bid, ask |-> ask, bsz |-> bsz, asz |-> asz, flags |-> flags]
NoBook == [Book(0, 0, 0, 0, {}) EXCEPT !.stream = 0]
High   == Book(120, 121, 1, 2, {})
Low    == Book(100, 101, 2, 1, {})
Arrival(step, back, quote, reference, odd) ==
    [step |-> step, back |-> back, quote |-> quote, reference |-> reference, odd |-> odd]

MCSizeOf == <<2, 6>>
MCOpening == Book(109, 110, 1, 1, {})
MCArrivals ==
    { Arrival(2, 0, High, Low, FALSE), Arrival(2, 0, Low, High, FALSE),
      Arrival(4, 0, Book(100, 101, 1, 1, {"DUPLICATE_CANDIDATE"}), Low, TRUE),
      Arrival(1, 0, Book(120, 121, 2, 1, {}), High, TRUE), Arrival(2, 3, High, Low, TRUE),
      Arrival(2, 0, Book(100, 0, 1, 0, {}), NoBook, TRUE),
      Arrival(2, 0, Book(100, 101, 2, 1, {"SUSPECT"}), High, TRUE),
      Arrival(2, 0, Book(100, 101, 2, 1, {"BACKFILL"}), High, TRUE) }
MCCosts == [fee |-> 45, latency |-> Unknown, impact |-> Unknown, funding |-> Unknown]
=============================================================================
