------------------------- MODULE LiveCaptureProofs --------------------------
(***************************************************************************)
(* Proofs about LiveCapture for all sources, routes, subscriptions, run    *)
(* configurations, policies and bounds: first what is handed over and what *)
(* a success rests on, then the order in which the frames of a connection  *)
(* reach the recorder, and the pace at which connections are opened again. *)
(***************************************************************************)
EXTENDS LiveCapture, TLAPS, FiniteSetTheorems

Acks == (UNION {Subscriptions[r] : r \in Routes}) \cup {NoAck}
Plain   == [route : Routes, session : Nat, seq : Nat, ack : Acks]
Counted == [route : Routes, session : Nat, seq : Nat, ack : Acks,
            pending : {Cardinality(S) : S \in SUBSET Acks}]
Frame == Plain \cup Counted
FrameOf(s) == {f \in Frame : SourceOf[f.route] = s}
FrameOfRun == {f \in Frame : SourceOf[f.route] \in run.sources}

\* What each variable holds; every frame is of a source of the run.
LiveTypeOK ==
    /\ run \in Runs
    /\ phase \in [Sources -> {"idle", "sleep", "open"}]
    /\ session \in [Sources -> Nat]
    /\ pending \in [Counting -> SUBSET Acks]
    /\ \A r \in Counting : pending[r] \subseteq Subscriptions[r]
    /\ ingest \in [Routes -> Nat]
    /\ inner \in [Sources -> Seq(Frame)] /\ \A s \in Sources : inner[s] \in Seq(FrameOf(s))
    /\ merged \in Seq(FrameOfRun)
    /\ taken \in Seq(FrameOfRun)

\* The stream is left only after a stop was requested.
StopInv == gen # "awaited" => stop # "no"

\* There is no exit code before the recorder has ended.
ExitInv == status = Unfinished => exit = "NONE"

LiveInv == LiveTypeOK /\ StopInv /\ ExitInv /\ SuccessIsEvidenced
-----------------------------------------------------------------------------
\* The source of a route is the one source that has it.
LEMMA SourceOfRoute ==
    /\ \A r \in Routes : SourceOf[r] \in Sources /\ r \in RoutesOf[SourceOf[r]]
    /\ \A s \in Sources : \A r \in RoutesOf[s] : r \in Routes /\ SourceOf[r] = s
<1>1. ASSUME NEW r \in Routes PROVE SourceOf[r] \in Sources /\ r \in RoutesOf[SourceOf[r]]
  <2>1. \E s \in Sources : r \in RoutesOf[s]
    BY DEF Routes
  <2>2. SourceOf[r] = CHOOSE s \in Sources : r \in RoutesOf[s]
    BY DEF SourceOf
  <2>3. QED
    BY <2>1, <2>2
<1>2. ASSUME NEW s \in Sources, NEW r \in RoutesOf[s] PROVE r \in Routes /\ SourceOf[r] = s
  <2>1. r \in Routes
    BY DEF Routes
  <2>2. SourceOf[r] \in Sources /\ r \in RoutesOf[SourceOf[r]]
    BY <1>1, <2>1
  <2>3. QED
    BY <2>1, <2>2, LiveAssumption
<1>3. QED
  BY <1>1, <1>2

\* A new adapter has nothing queued and everything to be acknowledged.
LEMMA NewAdapterType ==
    /\ NewAdapter.phase \in [Sources -> {"idle", "sleep", "open"}]
    /\ NewAdapter.session \in [Sources -> Nat]
    /\ NewAdapter.pending \in [Counting -> SUBSET Acks]
    /\ \A r \in Counting : NewAdapter.pending[r] \subseteq Subscriptions[r]
    /\ NewAdapter.ingest \in [Routes -> Nat]
    /\ NewAdapter.inner \in [Sources -> Seq(Frame)]
    /\ \A s \in Sources : NewAdapter.inner[s] = <<>>
<1>1. \A r \in Routes : Subscriptions[r] \in SUBSET Acks
  BY DEF Acks
<1>2. [r \in Counting |-> Subscriptions[r]] \in [Counting -> SUBSET Acks]
  BY <1>1, LiveAssumption
<1>3. QED
  BY <1>2 DEF NewAdapter

LEMMA LiveInit == Init => LiveInv
<1> SUFFICES ASSUME Init PROVE LiveInv
  OBVIOUS
<1>1. LiveTypeOK
  BY NewAdapterType DEF Init, LiveTypeOK
<1>2. StopInv /\ ExitInv /\ SuccessIsEvidenced
  BY DEF Init, StopInv, ExitInv, SuccessIsEvidenced
<1>3. QED
  BY <1>1, <1>2 DEF LiveInv
-----------------------------------------------------------------------------
(* Types *)

\* A frame that is given keeps the queue and what was taken of the run.
LEMMA YieldType ==
    ASSUME LiveTypeOK, NEW s \in Sources, NEW frame \in FrameOfRun, Yield(s, frame)
    PROVE  merged' \in Seq(FrameOfRun) /\ taken' \in Seq(FrameOfRun)
<1>1. merged \in Seq(FrameOfRun) /\ taken \in Seq(FrameOfRun)
  BY DEF LiveTypeOK
<1>2. /\ merged' = merged \/ merged' = Append(merged, frame)
      /\ taken' = taken \/ taken' = Append(taken, frame)
  BY DEF Yield
<1>3. Append(merged, frame) \in Seq(FrameOfRun) /\ Append(taken, frame) \in Seq(FrameOfRun)
  <2>1. \A S : \A q \in Seq(S), f \in S : Append(q, f) \in Seq(S)
    OBVIOUS
  <2>2. QED
    BY <1>1, <2>1
<1>4. QED
  BY <1>1, <1>2, <1>3

LEMMA BeginSessionType ==
    ASSUME LiveTypeOK, NEW s \in Sources, BeginSession(s)
    PROVE  LiveTypeOK'
<1>1. /\ UNCHANGED <<run, inner, merged, taken>>
      /\ phase' = [phase EXCEPT ![s] = "open"] /\ session' = [session EXCEPT ![s] = @ + 1]
  BY DEF BeginSession
<1>2. \A r \in Routes : Subscriptions[r] \in SUBSET Acks
  BY DEF Acks
<1>3. /\ pending' \in [Counting -> SUBSET Acks]
      /\ \A r \in Counting : pending'[r] \subseteq Subscriptions[r]
      /\ ingest' \in [Routes -> Nat]
  BY <1>2, LiveAssumption DEF BeginSession, LiveTypeOK
<1>4. QED
  BY <1>1, <1>3 DEF LiveTypeOK, FrameOfRun

\* What every frame says, and the frame a route makes of a message.
LEMMA FrameFields ==
    \A f \in Frame : /\ f.route \in Routes /\ f.session \in Nat
                      /\ f.seq \in Nat /\ f.ack \in Acks
  BY DEF Frame, Plain, Counted

LEMMA FrameOnFields ==
    ASSUME NEW r, NEW ack
    PROVE  LET f == FrameOn(r, ack)
           IN /\ f.route = r /\ f.session = session[SourceOf[r]]
              /\ f.seq = ingest[r] + 1 /\ f.ack = ack
              /\ r \in Counting => f.pending = Cardinality(pending[r] \ {ack})
<1>1. CASE r \in Counting
  BY <1>1 DEF FrameOn
<1>2. CASE r \notin Counting
  BY <1>2 DEF FrameOn
<1>3. QED
  BY <1>1, <1>2

LEMMA FrameOnType ==
    ASSUME LiveTypeOK, NEW r \in Routes, NEW ack \in AcksOf(SourceOf[r])
    PROVE  FrameOn(r, ack) \in FrameOf(SourceOf[r])
<1>1. SourceOf[r] \in Sources
  BY SourceOfRoute
<1>2. ack \in Acks
  <2>1. CASE ack = NoAck
    BY <2>1 DEF Acks
  <2>2. CASE ack # NoAck
    <3>1. PICK q \in RoutesOf[SourceOf[r]] : ack \in Subscriptions[q]
      BY <2>2 DEF AcksOf
    <3>2. q \in Routes
      BY <1>1, SourceOfRoute
    <3>3. QED
      BY <3>1, <3>2 DEF Acks
  <2>3. QED
    BY <2>1, <2>2
<1>3. session[SourceOf[r]] \in Nat /\ ingest[r] + 1 \in Nat
  BY <1>1 DEF LiveTypeOK
<1>4. CASE r \in Counting
  <2>1. pending[r] \ {ack} \in SUBSET Acks
    BY <1>4 DEF LiveTypeOK
  <2>2. Cardinality(pending[r] \ {ack}) \in {Cardinality(S) : S \in SUBSET Acks}
    BY <2>1
  <2>3. FrameOn(r, ack) \in Counted
    BY <1>2, <1>3, <1>4, <2>2 DEF FrameOn, Counted
  <2>4. QED
    BY <2>3, FrameOnFields DEF FrameOf, Frame
<1>5. CASE r \notin Counting
  <2>1. FrameOn(r, ack) \in Plain
    BY <1>2, <1>3, <1>5 DEF FrameOn, Plain
  <2>2. QED
    BY <2>1, FrameOnFields DEF FrameOf, Frame
<1>6. QED
  BY <1>4, <1>5

LEMMA ReceiveType ==
    ASSUME LiveTypeOK, NEW r \in Routes, NEW ack \in AcksOf(SourceOf[r]), Receive(r, ack)
    PROVE  LiveTypeOK'
<1> PICK s : s = SourceOf[r]
  OBVIOUS
<1> PICK frame : frame = FrameOn(r, ack)
  OBVIOUS
<1>1. /\ s \in Sources /\ s \in run.sources /\ frame \in FrameOf(s) /\ frame \in FrameOfRun
  BY SourceOfRoute, FrameOnType DEF Receive, AdapterRuns, FrameOf, FrameOfRun
<1>2. /\ ingest' = [ingest EXCEPT ![r] = @ + 1]
      /\ pending' = [q \in Counting |-> IF q = r THEN pending[q] \ {ack} ELSE pending[q]]
      /\ UNCHANGED <<run, phase, session>>
      /\ \/ inner' = [inner EXCEPT ![s] = Append(@, frame)] /\ UNCHANGED <<merged, taken>>
         \/ Yield(s, frame) /\ UNCHANGED inner
  BY DEF Receive
<1>3. /\ run' \in Runs /\ phase' \in [Sources -> {"idle", "sleep", "open"}]
      /\ session' \in [Sources -> Nat] /\ ingest' \in [Routes -> Nat]
  BY <1>2 DEF LiveTypeOK
<1>4. /\ pending' \in [Counting -> SUBSET Acks]
      /\ \A q \in Counting : pending'[q] \subseteq Subscriptions[q]
  BY <1>2 DEF LiveTypeOK
<1>5. merged' \in Seq(FrameOfRun)' /\ taken' \in Seq(FrameOfRun)'
  <2>1. FrameOfRun' = FrameOfRun
    BY <1>2 DEF FrameOfRun
  <2>2. merged' \in Seq(FrameOfRun) /\ taken' \in Seq(FrameOfRun)
    BY <1>1, <1>2, YieldType DEF LiveTypeOK
  <2>3. QED
    BY <2>1, <2>2
<1>6. inner' \in [Sources -> Seq(Frame)] /\ \A t \in Sources : inner'[t] \in Seq(FrameOf(t))
  <2>1. CASE UNCHANGED inner
    BY <2>1 DEF LiveTypeOK
  <2>2. CASE inner' = [inner EXCEPT ![s] = Append(@, frame)]
    <3>1. frame \in Frame /\ inner[s] \in Seq(Frame) /\ inner[s] \in Seq(FrameOf(s))
      BY <1>1 DEF LiveTypeOK, FrameOf
    <3>2. Append(inner[s], frame) \in Seq(Frame) /\ Append(inner[s], frame) \in Seq(FrameOf(s))
      BY <1>1, <3>1
    <3>3. QED
      BY <1>1, <2>2, <3>2 DEF LiveTypeOK
  <2>3. QED
    BY <1>2, <2>1, <2>2
<1>7. QED
  BY <1>3, <1>4, <1>5, <1>6 DEF LiveTypeOK

LEMMA ForwardType ==
    ASSUME LiveTypeOK, NEW s \in Sources, Forward(s)
    PROVE  LiveTypeOK'
<1>1. inner[s] \in Seq(FrameOf(s)) /\ inner[s] # <<>> /\ s \in run.sources
  BY DEF LiveTypeOK, Forward, AdapterRuns
<1>2. Head(inner[s]) \in FrameOf(s) /\ Tail(inner[s]) \in Seq(FrameOf(s)) /\ Tail(inner[s]) \in Seq(Frame)
  <2>1. inner[s] \in Seq(Frame)
    BY DEF LiveTypeOK
  <2>2. QED
    BY <1>1, <2>1
<1>3. Head(inner[s]) \in FrameOfRun
  BY <1>1, <1>2 DEF FrameOf, FrameOfRun
<1>4. /\ UNCHANGED <<run, phase, session, pending, ingest>>
      /\ inner' = [inner EXCEPT ![s] = Tail(inner[s])] /\ Yield(s, Head(inner[s]))
  BY DEF Forward
<1>5. merged' \in Seq(FrameOfRun) /\ taken' \in Seq(FrameOfRun)
  BY <1>3, <1>4, YieldType
<1>6. inner' \in [Sources -> Seq(Frame)] /\ \A t \in Sources : inner'[t] \in Seq(FrameOf(t))
  BY <1>2, <1>4 DEF LiveTypeOK
<1>7. QED
  BY <1>4, <1>5, <1>6 DEF LiveTypeOK, FrameOfRun

LEMMA EndSessionType ==
    ASSUME LiveTypeOK, NEW s \in Sources, EndSession(s)
    PROVE  LiveTypeOK'
<1>1. /\ UNCHANGED <<run, session, pending, ingest, merged, taken>>
      /\ phase' = [phase EXCEPT ![s] = "sleep"] /\ inner' = [inner EXCEPT ![s] = <<>>]
  BY DEF EndSession
<1>2. inner' \in [Sources -> Seq(Frame)] /\ \A t \in Sources : inner'[t] \in Seq(FrameOf(t))
  <2>1. <<>> \in Seq(Frame) /\ <<>> \in Seq(FrameOf(s))
    OBVIOUS
  <2>2. QED
    BY <1>1, <2>1 DEF LiveTypeOK
<1>3. QED
  BY <1>1, <1>2 DEF LiveTypeOK, FrameOfRun

LEMMA TakeType ==
    ASSUME LiveTypeOK, Take
    PROVE  LiveTypeOK'
<1>1. /\ merged \in Seq(FrameOfRun) /\ merged # <<>> /\ taken \in Seq(FrameOfRun)
      /\ taken' = Append(taken, Head(merged)) /\ merged' = Tail(merged)
      /\ UNCHANGED <<run, phase, session, pending, ingest, inner>>
  BY DEF LiveTypeOK, Take, adapter
<1>2. merged' \in Seq(FrameOfRun) /\ taken' \in Seq(FrameOfRun)
  BY <1>1
<1>3. QED
  BY <1>1, <1>2 DEF LiveTypeOK, FrameOfRun

\* The end of the event loop resets the adapters.
LEMMA LoopEndsType ==
    ASSUME LiveTypeOK, LoopEnds, UNCHANGED <<run, taken>>
    PROVE  LiveTypeOK'
<1>1. \A s \in Sources : inner'[s] \in Seq(FrameOf(s))
  BY NewAdapterType DEF LoopEnds
<1>2. QED
  BY <1>1, NewAdapterType DEF LoopEnds, LiveTypeOK, FrameOfRun
-----------------------------------------------------------------------------
(* The exit code *)

\* A validation of at most five checks passes only if every check holds, when
\* no check is named as success.
LEMMA AllHold ==
    ASSUME NEW checks, DOMAIN checks \subseteq 1..5,
           \A i \in DOMAIN checks : checks[i].code # "SUCCESS",
           FirstFailed(checks, "SUCCESS") = "SUCCESS"
    PROVE  \A i \in DOMAIN checks : checks[i].holds
<1> PICK failed : failed = {i \in DOMAIN checks : ~checks[i].holds}
  OBVIOUS
<1>1. CASE failed = {}
  BY <1>1
<1>2. CASE failed # {}
  <2>1. \E x \in failed : \A y \in failed : x <= y
    <3>1. failed \subseteq 1..5
      OBVIOUS
    <3>2. \/ 1 \in failed
          \/ 1 \notin failed /\ 2 \in failed
          \/ 1 \notin failed /\ 2 \notin failed /\ 3 \in failed
          \/ 1 \notin failed /\ 2 \notin failed /\ 3 \notin failed /\ 4 \in failed
          \/ failed = {5}
      BY <1>2, <3>1
    <3>3. QED
      BY <3>1, <3>2
  <2>2. Min(failed) \in failed
    BY <2>1 DEF Min
  <2>3. FirstFailed(checks, "SUCCESS") = checks[Min(failed)].code
    BY <1>2 DEF FirstFailed
  <2>4. QED
    BY <2>2, <2>3
<1>3. QED
  BY <1>1, <1>2

LEMMA PublicSuccess ==
    ASSUME NEW clean \in BOOLEAN, FirstFailed(PublicChecks(clean), "SUCCESS") = "SUCCESS"
    PROVE  status'.state # "FAILED" /\ clean /\ Observed # {} /\ AllAcknowledged
<1> PICK checks : checks = PublicChecks(clean)
  OBVIOUS
<1>1. /\ DOMAIN checks = 1..4
      /\ \A i \in 1..4 : checks[i].code # "SUCCESS"
  BY DEF PublicChecks, Check
<1>2. checks[1].holds /\ checks[2].holds /\ checks[3].holds /\ checks[4].holds
  <2>1. \A i \in DOMAIN checks : checks[i].holds
    BY <1>1, AllHold
  <2>2. 1 \in DOMAIN checks /\ 2 \in DOMAIN checks /\ 3 \in DOMAIN checks /\ 4 \in DOMAIN checks
    BY <1>1
  <2>3. QED
    BY <2>1, <2>2, Zenon
<1>3. /\ checks[1].holds = (/\ status'.state # "FAILED"
                            /\ status'.outcome \notin {"TIMED_OUT", "FAILED"})
      /\ checks[2].holds = clean
      /\ checks[3].holds = (Observed # {})
      /\ checks[4].holds = AllAcknowledged
  BY DEF PublicChecks, Check
<1>4. QED
  BY <1>2, <1>3, Zenon

LEMMA DualSuccess ==
    ASSUME NEW clean \in BOOLEAN, FirstFailed(DualChecks(clean), "SUCCESS") = "SUCCESS"
    PROVE  /\ status' = [state |-> "COMPLETE", outcome |-> "CLEAN_DURABLE"] /\ clean
           /\ Observed # {} /\ run.sources \subseteq ManifestSources' /\ AllAcknowledged
<1> PICK checks : checks = DualChecks(clean)
  OBVIOUS
<1>1. /\ DOMAIN checks = 1..5
      /\ \A i \in 1..5 : checks[i].code # "SUCCESS"
  BY DEF DualChecks, Check
<1>2. /\ checks[1].holds /\ checks[2].holds /\ checks[3].holds /\ checks[4].holds
      /\ checks[5].holds
  <2>1. \A i \in DOMAIN checks : checks[i].holds
    BY <1>1, AllHold
  <2>2. /\ 1 \in DOMAIN checks /\ 2 \in DOMAIN checks /\ 3 \in DOMAIN checks
        /\ 4 \in DOMAIN checks /\ 5 \in DOMAIN checks
    BY <1>1
  <2>3. QED
    BY <2>1, <2>2, Zenon
<1>3. /\ checks[1].holds = (status' = [state |-> "COMPLETE", outcome |-> "CLEAN_DURABLE"])
      /\ checks[2].holds = clean
      /\ checks[3].holds = (/\ run.sources \subseteq SourceIds(Observed)
                            /\ run.sources \subseteq ManifestSources')
      /\ checks[4].holds = (Observed # {})
      /\ checks[5].holds = AllAcknowledged
  BY DEF DualChecks, Check
<1>4. QED
  BY <1>2, <1>3, Zenon

\* The frames of a segment with everything that was taken, as the audit and the
\* manifest see it, and that they are of all sources of the run.
LEMMA WholeSegment ==
    ASSUME LiveTypeOK, log' = Len(taken), taken' = taken
    PROVE  {taken[i] : i \in 1..log}' = {taken[i] : i \in DOMAIN taken}
<1>1. DOMAIN taken = 1..Len(taken)
  BY DEF LiveTypeOK
<1>2. QED
  BY <1>1

LEMMA SegmentOfAllSources ==
    ASSUME LiveTypeOK, log' = Len(taken), taken' = taken, run' = run, sealed', taken # <<>>,
           run.runtime = "public" \/ run.sources \subseteq ManifestSources'
    PROVE  (ManifestSources = run.sources)'
<1>1. /\ taken \in Seq(FrameOfRun) /\ run \in Runs /\ Len(taken) \in Nat \ {0}
      /\ DOMAIN taken = 1..Len(taken)
  BY DEF LiveTypeOK
<1>2. ManifestSources' = {SourceOf[taken[i].route] : i \in DOMAIN taken}
  BY <1>1 DEF ManifestSources, SourceIds
<1>3. ManifestSources' \subseteq run.sources
  <2>1. \A i \in DOMAIN taken : taken[i] \in FrameOfRun
    BY <1>1
  <2>2. QED
    BY <1>2, <2>1 DEF FrameOfRun
<1>4. run.sources \subseteq ManifestSources'
  <2>1. CASE run.runtime = "public"
    <3>1. PICK s \in Sources : run.sources = {s}
      BY <1>1, <2>1, LiveAssumption DEF ValidRun
    <3>2. PICK i \in DOMAIN taken : SourceOf[taken[i].route] \in run.sources
      <4>1. 1 \in DOMAIN taken /\ taken[1] \in FrameOfRun
        BY <1>1
      <4>2. QED
        BY <4>1 DEF FrameOfRun
    <3>3. QED
      BY <1>2, <3>1, <3>2
  <2>2. QED
    BY <2>1
<1>5. QED
  BY <1>3, <1>4

\* A run that completes with exit code 0 has sealed everything that was taken,
\* and that is of every source of the run.
LEMMA CompletesWithEvidence ==
    ASSUME LiveTypeOK, StopInv, Completes, exit' = "SUCCESS"
    PROVE  SuccessIsEvidenced'
<1>1. /\ log' = Len(taken) /\ UNCHANGED <<run, taken, late, stop>>
      /\ stop # "no" /\ gen # "awaited"
      /\ sealed' \in BOOLEAN /\ (sealed' => taken # <<>>)
  BY DEF Completes, StopInv
<1>2. taken \in Seq(FrameOfRun) /\ Len(taken) \in Nat
  BY DEF LiveTypeOK
<1>3. PICK clean \in BOOLEAN :
         /\ log' > 0 /\ ~sealed' => clean = FALSE
         /\ run.runtime = "public" => FirstFailed(PublicChecks(clean), "SUCCESS") = "SUCCESS"
         /\ run.runtime # "public" => FirstFailed(DualChecks(clean), "SUCCESS") = "SUCCESS"
  <2>1. PICK clean \in AuditResults :
           exit' = FirstFailed(IF run.runtime = "public" THEN PublicChecks(clean)
                                                         ELSE DualChecks(clean), "SUCCESS")
    BY DEF Completes, Exit
  <2>2. clean \in BOOLEAN /\ (log' > 0 /\ ~sealed' => clean = FALSE)
    BY <2>1 DEF AuditResults
  <2>3. QED
    BY <2>1, <2>2
<1>4. Observed # {} /\ AllAcknowledged /\ clean
  BY <1>3, PublicSuccess, DualSuccess
<1>5. taken # <<>> => sealed'
  BY <1>1, <1>2, <1>3, <1>4
<1>6. taken # <<>> => (ManifestSources = run.sources)'
  <2>1. run.runtime = "public" \/ run.sources \subseteq ManifestSources'
    BY <1>3, DualSuccess
  <2>2. QED
    BY <1>1, <1>5, <2>1, SegmentOfAllSources
<1>7. taken = <<>> => late' # {}
  BY <1>1, <1>4 DEF Observed
<1>8. (\A s \in run.sources : \A r \in RoutesOf[s] :
          Subscriptions[r] \subseteq AckedIn({taken[i] : i \in 1..log} \cup late, s))'
  <2>1. {taken[i] : i \in 1..log}' \cup late' = Observed
    BY <1>1, WholeSegment DEF Observed
  <2>2. ASSUME NEW s \in run.sources, NEW r \in RoutesOf[s]
        PROVE  Subscriptions[r] \subseteq AckedIn(Observed, s)
    <3>1. ValidRun(run)
      BY LiveAssumption DEF LiveTypeOK
    <3>2. s \in Sources
      BY <2>2, <3>1 DEF ValidRun
    <3>3. SourceOf[r] = s
      BY <2>2, <3>2, SourceOfRoute
    <3>4. Acknowledged(r)
      BY <1>4, <2>2 DEF AllAcknowledged
    <3>5. QED
      BY <3>3, <3>4 DEF Acknowledged
  <2>3. QED
    BY <1>1, <2>1, <2>2 DEF AckedIn
<1>9. QED
  BY <1>1, <1>5, <1>6, <1>7, <1>8 DEF SuccessIsEvidenced

\* A recorder that failed or raised never gives exit code 0.
LEMMA FailsWithoutSuccess ==
    ASSUME Fails \/ Raises
    PROVE  exit' # "SUCCESS"
<1>1. CASE Raises
  BY <1>1 DEF Raises
<1>2. CASE Fails
  <2>1. status'.state = "FAILED"
    BY <1>2 DEF Fails
  <2>2. PICK clean \in BOOLEAN :
           exit' = FirstFailed(IF run.runtime = "public" THEN PublicChecks(clean)
                                                         ELSE DualChecks(clean), "SUCCESS")
    BY <1>2 DEF Fails, Exit, AuditResults
  <2>3. FirstFailed(PublicChecks(clean), "SUCCESS") # "SUCCESS"
    BY <2>1, PublicSuccess
  <2>4. FirstFailed(DualChecks(clean), "SUCCESS") # "SUCCESS"
    <3>1. status' # [state |-> "COMPLETE", outcome |-> "CLEAN_DURABLE"]
      BY <2>1
    <3>2. QED
      BY <3>1, DualSuccess
  <2>5. QED
    BY <2>2, <2>3, <2>4
<1>3. QED
  BY <1>1, <1>2

\* The recorder leaves its stream, with or without a frame of a pull it had cancelled.
Leaves ==
    \/ LeaveStream
    \/ \E r \in Routes : \E ack \in AcksOf(SourceOf[r]) : OutlivesStop(r, ack)

\* A step on the way: the recorder goes on.
GoesOn == UNCHANGED <<status, exit>> /\ status = Unfinished

LEMMA LiveStep == LiveInv /\ [Next]_vars => LiveInv'
<1> SUFFICES ASSUME LiveInv, [Next]_vars PROVE LiveInv'
  OBVIOUS
<1> USE DEF LiveInv
<1>1. CASE AdapterStep
  <2>1. LiveTypeOK'
    BY <1>1, BeginSessionType, ForwardType, EndSessionType, ReceiveType DEF AdapterStep
  <2>2. GoesOn /\ UNCHANGED <<gen, stop>>
    BY <1>1 DEF AdapterStep, BeginSession, Forward, EndSession, Receive, AdapterRuns, GoesOn, result
  <2>3. QED
    BY <2>1, <2>2 DEF GoesOn, StopInv, ExitInv, SuccessIsEvidenced
<1>2. CASE Take
  <2>1. GoesOn /\ UNCHANGED <<gen, stop>>
    BY <1>2 DEF Take, GoesOn, result
  <2>2. QED
    BY <1>2, <2>1, TakeType DEF GoesOn, StopInv, ExitInv, SuccessIsEvidenced
<1>3. CASE Leaves \/ \E by \in {"signal", "timer"} : request_stop(by)
  <2>1. GoesOn /\ UNCHANGED <<run, adapter, merged, taken>>
    BY <1>3 DEF Leaves, LeaveStream, OutlivesStop, AdapterRuns, request_stop, GoesOn, result
  <2>2. StopInv'
    BY <1>3 DEF Leaves, LeaveStream, OutlivesStop, request_stop, StopInv
  <2>3. LiveTypeOK'
    BY <2>1 DEF LiveTypeOK, adapter, FrameOfRun
  <2>4. QED
    BY <2>1, <2>2, <2>3 DEF GoesOn, ExitInv, SuccessIsEvidenced
<1>4. CASE Completes
  <2>1. LiveTypeOK'
    BY <1>4, LoopEndsType DEF Completes
  <2>2. StopInv' /\ ExitInv'
    BY <1>4 DEF Completes, StopInv, ExitInv, Unfinished
  <2>3. SuccessIsEvidenced'
    BY <1>4, CompletesWithEvidence DEF SuccessIsEvidenced
  <2>4. QED
    BY <2>1, <2>2, <2>3
<1>5. CASE Fails \/ Raises
  <2>1. LiveTypeOK'
    BY <1>5, LoopEndsType DEF Fails, Raises
  <2>2. StopInv' /\ ExitInv'
    BY <1>5 DEF Fails, Raises, StopInv, ExitInv, Unfinished
  <2>3. SuccessIsEvidenced'
    BY <1>5, FailsWithoutSuccess DEF SuccessIsEvidenced
  <2>4. QED
    BY <2>1, <2>2, <2>3
<1>6. CASE UNCHANGED vars
  BY <1>6 DEF vars, adapter, result, LiveTypeOK, FrameOfRun, StopInv, ExitInv, SuccessIsEvidenced,
              ManifestSources, SourceIds, AckedIn
<1>7. QED
  BY <1>1, <1>2, <1>3, <1>4, <1>5, <1>6 DEF Next, RuntimeStep, Leaves

\* The invariant holds in every state of every behaviour: whatever the sockets, the
\* acknowledgements and the source tasks do, a run keeps it.
THEOREM LiveInvariant == Spec => []LiveInv
<1>1. QED
  BY LiveInit, LiveStep, PTL DEF Spec

\* Whatever the connections, the recorder and the audit do, exit code 0 is given
\* only for a sealed segment with every frame the recorder took, of all sources,
\* and with every subscription acknowledged among them and the frame of a pull
\* that outlived the stop (_runtime_exit_code, _exit_code).
THEOREM SuccessIsEvidencedHolds == Spec => []SuccessIsEvidenced
<1>1. LiveInv => SuccessIsEvidenced
  BY DEF LiveInv
<1>2. QED
  BY LiveInvariant, <1>1, PTL

\* Every variable keeps its type, and only sources of the run give frames.
THEOREM LiveTypeCorrect == Spec => []LiveTypeOK
<1>1. LiveInv => LiveTypeOK
  BY DEF LiveInv
<1>2. QED
  BY LiveInvariant, <1>1, PTL
-----------------------------------------------------------------------------
(* Acknowledgements *)

\* What the first k frames of a queue acknowledge on a route in a session.
AcksIn(q, k, r, n) == {q[j].ack : j \in {i \in 1..k : q[i].route = r /\ q[i].session = n}}
Own(f, r, n) == IF f.route = r /\ f.session = n THEN {f.ack} ELSE {}
Exact(f, acked) ==
    f.route \in Counting => f.pending = Cardinality(Subscriptions[f.route] \ acked)

\* What left the session, and what waits in its queue.
Yielded(r, n) == AcksIn(taken, Len(taken), r, n) \cup AcksIn(merged, Len(merged), r, n)
Queued(r, n) == AcksIn(inner[SourceOf[r]], Len(inner[SourceOf[r]]), r, n)

TakenExact == \A i \in DOMAIN taken :
    Exact(taken[i], AcksIn(taken, i, taken[i].route, taken[i].session))
MergedExact == \A i \in DOMAIN merged :
    Exact(merged[i], AcksIn(taken, Len(taken), merged[i].route, merged[i].session)
                     \cup AcksIn(merged, i, merged[i].route, merged[i].session))
InnerExact == \A s \in Sources : \A i \in DOMAIN inner[s] :
    Exact(inner[s][i], Yielded(inner[s][i].route, inner[s][i].session)
                       \cup AcksIn(inner[s], i, inner[s][i].route, inner[s][i].session))

\* A queue that the run does not have is empty.
QueueInv ==
    /\ run.runtime = "public" => merged = <<>>
    /\ \A s \in Sources : ~Multiplexed(s) => inner[s] = <<>>

\* A session that counts awaits what its own frames have not acknowledged, and a
\* later one has no frames yet.
SessionInv ==
    status = Unfinished =>
        \A r \in Routes :
            /\ r \in Counting /\ phase[SourceOf[r]] = "open" =>
                  pending[r] = Subscriptions[r] \ (Yielded(r, session[SourceOf[r]])
                                                   \cup Queued(r, session[SourceOf[r]]))
            /\ \A n \in Nat : n > session[SourceOf[r]] => Yielded(r, n) \cup Queued(r, n) = {}

PendingInv == TakenExact /\ MergedExact /\ InnerExact /\ QueueInv /\ SessionInv

LEMMA AppendAcks ==
    ASSUME NEW q \in Seq(Frame), NEW f \in Frame, NEW r, NEW n
    PROVE  /\ \A k \in 0..Len(q) : AcksIn(Append(q, f), k, r, n) = AcksIn(q, k, r, n)
           /\ AcksIn(Append(q, f), Len(q) + 1, r, n) = AcksIn(q, Len(q), r, n) \cup Own(f, r, n)
<1>1. /\ Len(q) \in Nat
      /\ \A i \in 1..Len(q) : Append(q, f)[i] = q[i]
      /\ Append(q, f)[Len(q) + 1] = f
  OBVIOUS
<1>2. \A k \in 0..Len(q) : AcksIn(Append(q, f), k, r, n) = AcksIn(q, k, r, n)
  BY <1>1 DEF AcksIn
<1>3. AcksIn(Append(q, f), Len(q) + 1, r, n) = AcksIn(q, Len(q), r, n) \cup Own(f, r, n)
  <2>1. 1..(Len(q) + 1) = 1..Len(q) \cup {Len(q) + 1}
    BY <1>1
  <2>2. QED
    BY <1>1, <2>1 DEF AcksIn, Own
<1>4. QED
  BY <1>2, <1>3

LEMMA TailAcks ==
    ASSUME NEW q \in Seq(Frame), q # <<>>, NEW r, NEW n
    PROVE  /\ \A k \in 0..Len(Tail(q)) :
                 AcksIn(q, k + 1, r, n) = Own(Head(q), r, n) \cup AcksIn(Tail(q), k, r, n)
           /\ AcksIn(q, Len(q), r, n) = Own(Head(q), r, n) \cup AcksIn(Tail(q), Len(Tail(q)), r, n)
<1>1. /\ Len(q) \in Nat /\ Len(Tail(q)) + 1 = Len(q) /\ Len(Tail(q)) \in Nat
      /\ Head(q) = q[1]
      /\ \A i \in 1..Len(Tail(q)) : Tail(q)[i] = q[i + 1]
  OBVIOUS
<1>2. ASSUME NEW k \in 0..Len(Tail(q))
      PROVE  AcksIn(q, k + 1, r, n) = Own(Head(q), r, n) \cup AcksIn(Tail(q), k, r, n)
  <2>1. ASSUME NEW a PROVE a \in AcksIn(q, k + 1, r, n)
                           <=> a \in Own(Head(q), r, n) \cup AcksIn(Tail(q), k, r, n)
    <3>1. a \in AcksIn(q, k + 1, r, n) <=>
             \E i \in 1..(k + 1) : q[i].route = r /\ q[i].session = n /\ q[i].ack = a
      BY DEF AcksIn
    <3>2. a \in AcksIn(Tail(q), k, r, n) <=>
             \E i \in 1..k : q[i + 1].route = r /\ q[i + 1].session = n /\ q[i + 1].ack = a
      BY <1>1 DEF AcksIn
    <3>3. a \in Own(Head(q), r, n) <=> q[1].route = r /\ q[1].session = n /\ q[1].ack = a
      BY <1>1 DEF Own
    <3>4. \A i \in 1..(k + 1) : i = 1 \/ i - 1 \in 1..k
      BY <1>1
    <3>5. \A i \in 1..k : i + 1 \in 1..(k + 1) /\ (i + 1) - 1 = i
      BY <1>1
    <3>6. QED
      BY <1>1, <3>1, <3>2, <3>3, <3>4, <3>5
  <2>2. QED
    BY <2>1
<1>3. QED
  BY <1>1, <1>2

LEMMA QueueTypes ==
    ASSUME LiveTypeOK
    PROVE  /\ taken \in Seq(Frame) /\ merged \in Seq(Frame)
           /\ \A s \in Sources : inner[s] \in Seq(Frame)
<1>1. \A q \in Seq(FrameOfRun) : q \in Seq(Frame)
  <2> SUFFICES ASSUME NEW q \in Seq(FrameOfRun) PROVE q \in Seq(Frame)
    OBVIOUS
  <2>1. \A i \in 1..Len(q) : q[i] \in Frame
    BY DEF FrameOfRun
  <2>2. QED
    BY <2>1
<1>2. QED
  BY <1>1 DEF LiveTypeOK

\* A frame that is exact when it is given stays so, and is all that is added.
LEMMA YieldExact ==
    ASSUME LiveTypeOK, TakenExact, MergedExact, QueueInv, NEW s \in Sources, NEW f \in Frame,
           Yield(s, f), Exact(f, Yielded(f.route, f.session) \cup {f.ack})
    PROVE  /\ TakenExact' /\ MergedExact'
           /\ \A r, n : Yielded(r, n)' = Yielded(r, n) \cup Own(f, r, n)
<1>1. taken \in Seq(Frame) /\ merged \in Seq(Frame) /\ Len(taken) \in Nat /\ Len(merged) \in Nat
  BY QueueTypes
<1>2. Own(f, f.route, f.session) = {f.ack}
  BY DEF Own
<1>3. CASE merged' = Append(merged, f) /\ taken' = taken
  <2>1. /\ Len(merged') = Len(merged) + 1 /\ DOMAIN merged' = 1..(Len(merged) + 1)
        /\ DOMAIN merged = 1..Len(merged)
        /\ \A i \in 1..Len(merged) : merged'[i] = merged[i]
        /\ merged'[Len(merged) + 1] = f
    BY <1>1, <1>3
  <2>2. \A r, n : /\ \A k \in 0..Len(merged) : AcksIn(merged', k, r, n) = AcksIn(merged, k, r, n)
                  /\ AcksIn(merged', Len(merged) + 1, r, n)
                       = AcksIn(merged, Len(merged), r, n) \cup Own(f, r, n)
    BY <1>1, <1>3, AppendAcks
  <2>3. TakenExact'
    BY <1>3 DEF TakenExact, Exact, AcksIn
  <2>4. \A r, n : Yielded(r, n)' = Yielded(r, n) \cup Own(f, r, n)
    BY <1>3, <2>1, <2>2 DEF Yielded
  <2>5. ASSUME NEW i \in DOMAIN merged'
        PROVE  Exact(merged'[i], AcksIn(taken, Len(taken), merged'[i].route, merged'[i].session)
                                 \cup AcksIn(merged', i, merged'[i].route, merged'[i].session))
    <3>1. CASE i \in 1..Len(merged)
      BY <2>1, <2>2, <3>1 DEF MergedExact
    <3>2. CASE i = Len(merged) + 1
      <4>1. merged'[i] = f
        BY <2>1, <3>2
      <4>2. Yielded(f.route, f.session) \cup {f.ack}
              = AcksIn(taken, Len(taken), f.route, f.session) \cup AcksIn(merged', i, f.route, f.session)
        BY <1>2, <2>2, <3>2 DEF Yielded
      <4>3. QED
        BY <4>1, <4>2
    <3>3. QED
      BY <1>1, <2>1, <3>1, <3>2
  <2>6. MergedExact'
    BY <1>3, <2>5 DEF MergedExact, Exact
  <2>7. QED
    BY <2>3, <2>4, <2>6
<1>4. CASE run.runtime = "public" /\ taken' = Append(taken, f) /\ merged' = merged
  <2>1. merged = <<>> /\ merged' = <<>>
    BY <1>4 DEF QueueInv
  <2>2. /\ Len(taken') = Len(taken) + 1 /\ DOMAIN taken' = 1..(Len(taken) + 1)
        /\ DOMAIN taken = 1..Len(taken)
        /\ \A i \in 1..Len(taken) : taken'[i] = taken[i]
        /\ taken'[Len(taken) + 1] = f
    BY <1>1, <1>4
  <2>3. \A r, n : /\ \A k \in 0..Len(taken) : AcksIn(taken', k, r, n) = AcksIn(taken, k, r, n)
                  /\ AcksIn(taken', Len(taken) + 1, r, n)
                       = AcksIn(taken, Len(taken), r, n) \cup Own(f, r, n)
    BY <1>1, <1>4, AppendAcks
  <2>4. \A r, n : AcksIn(<<>>, 0, r, n) = {}
    BY DEF AcksIn
  <2>5. \A r, n : /\ Yielded(r, n) = AcksIn(taken, Len(taken), r, n)
                  /\ Yielded(r, n)' = AcksIn(taken', Len(taken) + 1, r, n)
    BY <2>1, <2>2, <2>4 DEF Yielded
  <2>6. ASSUME NEW i \in DOMAIN taken'
        PROVE  Exact(taken'[i], AcksIn(taken', i, taken'[i].route, taken'[i].session))
    <3>1. CASE i \in 1..Len(taken)
      BY <2>2, <2>3, <3>1 DEF TakenExact
    <3>2. CASE i = Len(taken) + 1
      <4>1. taken'[i] = f
        BY <2>2, <3>2
      <4>2. Yielded(f.route, f.session) \cup {f.ack} = AcksIn(taken', i, f.route, f.session)
        BY <1>2, <2>3, <2>5, <3>2
      <4>3. QED
        BY <4>1, <4>2
    <3>3. QED
      BY <1>1, <2>2, <3>1, <3>2
  <2>7. TakenExact'
    BY <2>6 DEF TakenExact, Exact
  <2>8. MergedExact'
    BY <2>1 DEF MergedExact
  <2>9. QED
    BY <2>3, <2>5, <2>7, <2>8
<1>5. QED
  BY <1>3, <1>4 DEF Yield

\* The recorder takes the head of the merged queue.
LEMMA TakeExact ==
    ASSUME LiveTypeOK, TakenExact, MergedExact, Take
    PROVE  /\ TakenExact' /\ MergedExact'
           /\ \A r, n : Yielded(r, n)' = Yielded(r, n)
<1> PICK f : f = Head(merged)
  OBVIOUS
<1>1. /\ taken \in Seq(Frame) /\ merged \in Seq(Frame) /\ merged # <<>>
      /\ Len(taken) \in Nat /\ Len(merged) \in Nat /\ f \in Frame
      /\ taken' = Append(taken, f) /\ merged' = Tail(merged)
  BY QueueTypes DEF Take
<1>2. /\ Len(taken') = Len(taken) + 1 /\ DOMAIN taken' = 1..(Len(taken) + 1)
      /\ DOMAIN taken = 1..Len(taken)
      /\ \A i \in 1..Len(taken) : taken'[i] = taken[i]
      /\ taken'[Len(taken) + 1] = f
  BY <1>1
<1>3. /\ Len(merged') + 1 = Len(merged) /\ DOMAIN merged' = 1..Len(merged')
      /\ \A i \in 1..Len(merged') : i + 1 \in DOMAIN merged /\ merged'[i] = merged[i + 1]
      /\ 1 \in DOMAIN merged /\ merged[1] = f /\ Len(merged') \in Nat
  BY <1>1
<1>4. \A r, n : /\ \A k \in 0..Len(taken) : AcksIn(taken', k, r, n) = AcksIn(taken, k, r, n)
                /\ AcksIn(taken', Len(taken'), r, n)
                     = AcksIn(taken, Len(taken), r, n) \cup Own(f, r, n)
  BY <1>1, <1>2, AppendAcks
<1>5. \A r, n : /\ \A k \in 0..Len(merged') :
                      AcksIn(merged, k + 1, r, n) = Own(f, r, n) \cup AcksIn(merged', k, r, n)
                /\ AcksIn(merged, Len(merged), r, n)
                     = Own(f, r, n) \cup AcksIn(merged', Len(merged'), r, n)
  BY <1>1, TailAcks
<1>6. \A r, n : Yielded(r, n)' = Yielded(r, n)
  BY <1>4, <1>5 DEF Yielded
<1>7. ASSUME NEW i \in DOMAIN taken'
      PROVE  Exact(taken'[i], AcksIn(taken', i, taken'[i].route, taken'[i].session))
  <2>1. CASE i \in 1..Len(taken)
    BY <1>2, <1>4, <2>1 DEF TakenExact
  <2>2. CASE i = Len(taken) + 1
    <3>1. Exact(f, AcksIn(taken, Len(taken), f.route, f.session)
                   \cup AcksIn(merged, 1, f.route, f.session))
      BY <1>3 DEF MergedExact
    <3>2. AcksIn(merged, 1, f.route, f.session) = Own(f, f.route, f.session)
      BY <1>3 DEF AcksIn, Own
    <3>3. taken'[i] = f
      BY <1>2, <2>2
    <3>4. AcksIn(taken, Len(taken), f.route, f.session) \cup AcksIn(merged, 1, f.route, f.session)
            = AcksIn(taken', i, f.route, f.session)
      BY <1>2, <1>4, <2>2, <3>2
    <3>5. QED
      BY <3>1, <3>3, <3>4
  <2>3. QED
    BY <1>1, <1>2, <2>1, <2>2
<1>8. ASSUME NEW i \in DOMAIN merged'
      PROVE  Exact(merged'[i], AcksIn(taken', Len(taken'), merged'[i].route, merged'[i].session)
                               \cup AcksIn(merged', i, merged'[i].route, merged'[i].session))
  <2>1. PICK r, n : r = merged'[i].route /\ n = merged'[i].session
    OBVIOUS
  <2>2. Exact(merged'[i], AcksIn(taken, Len(taken), r, n) \cup AcksIn(merged, i + 1, r, n))
    BY <1>3, <2>1 DEF MergedExact
  <2>3. AcksIn(merged, i + 1, r, n) = Own(f, r, n) \cup AcksIn(merged', i, r, n)
    BY <1>3, <1>5
  <2>4. AcksIn(taken, Len(taken), r, n) \cup AcksIn(merged, i + 1, r, n)
          = AcksIn(taken', Len(taken'), r, n) \cup AcksIn(merged', i, r, n)
    BY <1>4, <2>3
  <2>5. QED
    BY <2>1, <2>2, <2>4
<1>9. TakenExact' /\ MergedExact'
  BY <1>7, <1>8 DEF TakenExact, MergedExact, Exact
<1>10. QED
  BY <1>6, <1>9
-----------------------------------------------------------------------------
(* The steps *)

\* Frames of another source are of other routes.
LEMMA OtherSource ==
    ASSUME NEW f \in Frame, NEW q \in Routes, NEW n, SourceOf[q] # SourceOf[f.route]
    PROVE  Own(f, q, n) = {}
  BY DEF Own

LEMMA InnerFrame ==
    ASSUME LiveTypeOK, NEW s \in Sources, NEW i \in DOMAIN inner[s]
    PROVE  inner[s][i] \in Frame /\ inner[s][i].route \in Routes /\ SourceOf[inner[s][i].route] = s
<1>1. inner[s] \in Seq(FrameOf(s))
  BY DEF LiveTypeOK
<1>2. inner[s][i] \in FrameOf(s)
  BY <1>1
<1>3. QED
  BY <1>2, FrameFields DEF FrameOf

\* A frame joins what its session has sent, wherever it goes.
LEMMA SessionGrows ==
    ASSUME LiveTypeOK, SessionInv, NEW r \in Routes, NEW ack \in AcksOf(SourceOf[r]),
           Receive(r, ack),
           \A q \in Routes : \A n : (Yielded(q, n) \cup Queued(q, n))'
                                  = Yielded(q, n) \cup Queued(q, n) \cup Own(FrameOn(r, ack), q, n)
    PROVE  SessionInv'
<1> PICK f : f = FrameOn(r, ack)
  OBVIOUS
<1>1. f.route = r /\ f.session = session[SourceOf[r]] /\ f.ack = ack
  BY FrameOnFields
<1>2. /\ UNCHANGED <<phase, session, status>>
      /\ pending' = [q \in Counting |-> IF q = r THEN pending[q] \ {ack} ELSE pending[q]]
  BY DEF Receive, result
<1>3. SUFFICES ASSUME status = Unfinished, NEW q \in Routes
               PROVE  /\ q \in Counting /\ phase[SourceOf[q]] = "open" =>
                           pending'[q] = Subscriptions[q] \ (Yielded(q, session[SourceOf[q]])
                                                             \cup Queued(q, session[SourceOf[q]]))'
                      /\ \A n \in Nat : n > session[SourceOf[q]]
                                          => (Yielded(q, n) \cup Queued(q, n))' = {}
  BY <1>2 DEF SessionInv
<1>4. \A n \in Nat : n > session[SourceOf[q]] => Own(f, q, n) = {}
  <2>1. session[SourceOf[q]] \in Nat
    BY SourceOfRoute DEF LiveTypeOK
  <2>2. QED
    BY <1>1, <2>1 DEF Own
<1>5. \A n \in Nat : n > session[SourceOf[q]] => (Yielded(q, n) \cup Queued(q, n))' = {}
  BY <1>3, <1>4 DEF SessionInv
<1>6. ASSUME q \in Counting, phase[SourceOf[q]] = "open"
      PROVE  pending'[q] = Subscriptions[q] \ (Yielded(q, session[SourceOf[q]])
                                               \cup Queued(q, session[SourceOf[q]]))'
  <2>1. PICK n : n = session[SourceOf[q]]
    OBVIOUS
  <2>2. pending[q] = Subscriptions[q] \ (Yielded(q, n) \cup Queued(q, n))
    BY <1>3, <1>6, <2>1 DEF SessionInv
  <2>3. (Yielded(q, session[SourceOf[q]]) \cup Queued(q, session[SourceOf[q]]))'
          = Yielded(q, n) \cup Queued(q, n) \cup Own(f, q, n)
    BY <1>2, <2>1
  <2>4. CASE q = r
    <3>1. Own(f, q, n) = {ack} /\ pending'[q] = pending[q] \ {ack}
      BY <1>1, <1>2, <1>6, <2>1, <2>4 DEF Own
    <3>2. QED
      BY <2>2, <2>3, <3>1
  <2>5. CASE q # r
    <3>1. Own(f, q, n) = {} /\ pending'[q] = pending[q]
      BY <1>1, <1>2, <1>6, <2>5 DEF Own
    <3>2. QED
      BY <2>2, <2>3, <3>1
  <2>6. QED
    BY <2>4, <2>5
<1>7. QED
  BY <1>5, <1>6

LEMMA ReceiveExact ==
    ASSUME LiveTypeOK, PendingInv, NEW r \in Routes, NEW ack \in AcksOf(SourceOf[r]),
           Receive(r, ack)
    PROVE  PendingInv'
<1> USE DEF PendingInv
<1> PICK s : s = SourceOf[r]
  OBVIOUS
<1> PICK f : f = FrameOn(r, ack)
  OBVIOUS
<1>1. /\ s \in Sources /\ f \in Frame /\ f.route = r /\ f.session = session[s] /\ f.ack = ack
      /\ phase[s] = "open" /\ status = Unfinished /\ inner \in [Sources -> Seq(Frame)]
      /\ UNCHANGED run
  <2>1. f \in FrameOf(s)
    BY FrameOnType
  <2>2. f.route = r /\ f.session = session[s] /\ f.ack = ack
    BY FrameOnFields
  <2>3. QED
    BY <2>1, <2>2, SourceOfRoute DEF Receive, AdapterRuns, FrameOf, LiveTypeOK
<1>2. Exact(f, Yielded(r, session[s]) \cup Queued(r, session[s]) \cup {ack})
  <2> SUFFICES ASSUME r \in Counting
               PROVE  f.pending = Cardinality(Subscriptions[r] \ (Yielded(r, session[s])
                                                \cup Queued(r, session[s]) \cup {ack}))
    BY <1>1 DEF Exact
  <2>1. pending[r] = Subscriptions[r] \ (Yielded(r, session[s]) \cup Queued(r, session[s]))
    BY <1>1 DEF SessionInv
  <2>2. f.pending = Cardinality(pending[r] \ {ack})
    BY FrameOnFields
  <2>3. pending[r] \ {ack}
          = Subscriptions[r] \ (Yielded(r, session[s]) \cup Queued(r, session[s]) \cup {ack})
    BY <2>1
  <2>4. QED
    BY <2>2, <2>3
<1>3. CASE /\ Multiplexed(s) /\ inner' = [inner EXCEPT ![s] = Append(@, f)]
           /\ UNCHANGED <<merged, taken>>
  <2>1. TakenExact' /\ MergedExact' /\ \A q, n : Yielded(q, n)' = Yielded(q, n)
    BY <1>3 DEF TakenExact, MergedExact, Yielded, Exact, AcksIn
  <2>2. /\ inner[s] \in Seq(Frame) /\ inner'[s] = Append(inner[s], f)
        /\ Len(inner[s]) \in Nat /\ Len(inner'[s]) = Len(inner[s]) + 1
        /\ DOMAIN inner'[s] = 1..(Len(inner[s]) + 1) /\ DOMAIN inner[s] = 1..Len(inner[s])
        /\ \A i \in 1..Len(inner[s]) : inner'[s][i] = inner[s][i]
        /\ inner'[s][Len(inner[s]) + 1] = f
        /\ \A t \in Sources \ {s} : inner'[t] = inner[t]
    BY <1>1, <1>3
  <2>3. \A q, n : /\ \A k \in 0..Len(inner[s]) : AcksIn(inner'[s], k, q, n) = AcksIn(inner[s], k, q, n)
                  /\ AcksIn(inner'[s], Len(inner[s]) + 1, q, n)
                       = AcksIn(inner[s], Len(inner[s]), q, n) \cup Own(f, q, n)
    BY <1>1, <2>2, AppendAcks
  <2>4. InnerExact'
    <3>1. ASSUME NEW t \in Sources, NEW i \in DOMAIN inner'[t]
          PROVE  Exact(inner'[t][i], Yielded(inner'[t][i].route, inner'[t][i].session)
                          \cup AcksIn(inner'[t], i, inner'[t][i].route, inner'[t][i].session))
      <4>1. CASE t # s
        BY <2>2, <4>1 DEF InnerExact
      <4>2. CASE t = s /\ i \in 1..Len(inner[s])
        <5>1. PICK g : g = inner[s][i] /\ inner'[t][i] = g
          BY <2>2, <4>2
        <5>2. Exact(g, Yielded(g.route, g.session) \cup AcksIn(inner[s], i, g.route, g.session))
          <6>1. i \in DOMAIN inner[s]
            BY <2>2, <4>2
          <6>2. Exact(inner[s][i], Yielded(inner[s][i].route, inner[s][i].session)
                                   \cup AcksIn(inner[s], i, inner[s][i].route, inner[s][i].session))
            BY <1>1, <6>1 DEF InnerExact
          <6>3. QED
            BY <5>1, <6>2
        <5>3. AcksIn(inner'[s], i, g.route, g.session) = AcksIn(inner[s], i, g.route, g.session)
          BY <2>2, <2>3, <4>2
        <5>4. QED
          BY <4>2, <5>1, <5>2, <5>3
      <4>3. CASE t = s /\ i = Len(inner[s]) + 1
        <5>1. inner'[t][i] = f
          BY <2>2, <4>3
        <5>2. Own(f, r, session[s]) = {ack}
          BY <1>1 DEF Own
        <5>3. Yielded(r, session[s]) \cup Queued(r, session[s]) \cup {ack}
                = Yielded(r, session[s]) \cup AcksIn(inner'[t], i, r, session[s])
          BY <2>3, <4>3, <5>2 DEF Queued
        <5>4. QED
          BY <1>1, <1>2, <5>1, <5>3
      <4>4. QED
        BY <2>2, <4>1, <4>2, <4>3
    <3>2. QED
      BY <2>1, <3>1 DEF InnerExact, Exact
  <2>5. QueueInv'
    BY <1>1, <1>3, <2>2 DEF QueueInv, Multiplexed
  <2>6. \A q \in Routes : \A n : Queued(q, n)' = Queued(q, n) \cup Own(f, q, n)
    <3>1. ASSUME NEW q \in Routes, NEW n PROVE Queued(q, n)' = Queued(q, n) \cup Own(f, q, n)
      <4>1. CASE SourceOf[q] = s
        BY <2>2, <2>3, <4>1 DEF Queued
      <4>2. CASE SourceOf[q] # s
        <5>1. SourceOf[q] \in Sources \ {s}
          BY <4>2, SourceOfRoute
        <5>2. Own(f, q, n) = {}
          BY <1>1, <4>2, OtherSource
        <5>3. QED
          BY <2>2, <5>1, <5>2 DEF Queued
      <4>3. QED
        BY <4>1, <4>2
    <3>2. QED
      BY <3>1
  <2>7. SessionInv'
    BY <2>1, <2>6, SessionGrows
  <2>8. QED
    BY <2>1, <2>4, <2>5, <2>7
<1>4. CASE ~Multiplexed(s) /\ Yield(s, f) /\ UNCHANGED inner
  <2>1. inner[s] = <<>> /\ Queued(r, session[s]) = {}
    BY <1>1, <1>4 DEF QueueInv, Queued, AcksIn
  <2>2. Exact(f, Yielded(f.route, f.session) \cup {f.ack})
    BY <1>1, <1>2, <2>1
  <2>3. /\ TakenExact' /\ MergedExact'
        /\ \A q, n : Yielded(q, n)' = Yielded(q, n) \cup Own(f, q, n)
    BY <1>1, <1>4, <2>2, YieldExact
  <2>4. InnerExact'
    <3>1. ASSUME NEW t \in Sources, NEW i \in DOMAIN inner[t]
          PROVE  Exact(inner[t][i], Yielded(inner[t][i].route, inner[t][i].session)'
                          \cup AcksIn(inner[t], i, inner[t][i].route, inner[t][i].session))
      <4>1. t # s
        BY <2>1
      <4>2. Own(f, inner[t][i].route, inner[t][i].session) = {}
        BY <1>1, <4>1, InnerFrame, OtherSource
      <4>3. Yielded(inner[t][i].route, inner[t][i].session)'
              = Yielded(inner[t][i].route, inner[t][i].session)
        <5>1. inner' = inner
          BY <1>4
        <5>2. QED
          BY <2>3, <4>2, <5>1
      <4>4. QED
        BY <4>3 DEF InnerExact
    <3>2. QED
      BY <1>4, <3>1 DEF InnerExact, Exact
  <2>5. QueueInv'
    BY <1>1, <1>4 DEF QueueInv, Multiplexed, Yield
  <2>6. SessionInv'
    <3>1. \A q \in Routes : \A n : Queued(q, n)' = Queued(q, n)
      BY <1>4 DEF Queued
    <3>2. QED
      BY <2>3, <3>1, SessionGrows
  <2>7. QED
    BY <2>3, <2>4, <2>5, <2>6
<1>5. QED
  BY <1>3, <1>4 DEF Receive

LEMMA ForwardExact ==
    ASSUME LiveTypeOK, PendingInv, NEW s \in Sources, Forward(s)
    PROVE  PendingInv'
<1> USE DEF PendingInv
<1> PICK f : f = Head(inner[s])
  OBVIOUS
<1>1. /\ status = Unfinished /\ inner \in [Sources -> Seq(Frame)] /\ inner[s] # <<>>
      /\ inner' = [inner EXCEPT ![s] = Tail(inner[s])] /\ Yield(s, f)
      /\ UNCHANGED <<run, phase, session, pending, status>>
  BY DEF Forward, AdapterRuns, LiveTypeOK, result
<1>2. /\ inner[s] \in Seq(Frame) /\ f = inner[s][1] /\ 1 \in DOMAIN inner[s]
      /\ inner'[s] = Tail(inner[s]) /\ Len(inner'[s]) \in Nat /\ DOMAIN inner'[s] = 1..Len(inner'[s])
      /\ \A i \in 1..Len(inner'[s]) : i + 1 \in DOMAIN inner[s] /\ inner'[s][i] = inner[s][i + 1]
      /\ \A t \in Sources \ {s} : inner'[t] = inner[t]
  BY <1>1
<1>3. f \in Frame /\ f.route \in Routes /\ SourceOf[f.route] = s
  BY <1>2, InnerFrame
<1>4. Exact(f, Yielded(f.route, f.session) \cup {f.ack})
  <2>1. Exact(f, Yielded(f.route, f.session) \cup AcksIn(inner[s], 1, f.route, f.session))
    BY <1>2 DEF InnerExact
  <2>2. AcksIn(inner[s], 1, f.route, f.session) = {f.ack}
    BY <1>2 DEF AcksIn
  <2>3. QED
    BY <2>1, <2>2
<1>5. /\ TakenExact' /\ MergedExact'
      /\ \A q, n : Yielded(q, n)' = Yielded(q, n) \cup Own(f, q, n)
  BY <1>1, <1>3, <1>4, YieldExact
<1>6. \A q, n : /\ \A k \in 0..Len(inner'[s]) :
                      AcksIn(inner[s], k + 1, q, n) = Own(f, q, n) \cup AcksIn(inner'[s], k, q, n)
                /\ AcksIn(inner[s], Len(inner[s]), q, n)
                     = Own(f, q, n) \cup AcksIn(inner'[s], Len(inner'[s]), q, n)
  <2>1. PICK q0 : q0 = inner[s]
    OBVIOUS
  <2>2. q0 \in Seq(Frame) /\ q0 # <<>> /\ f = Head(q0) /\ inner'[s] = Tail(q0)
    BY <1>1, <1>2, <2>1
  <2>3. \A q, n : /\ \A k \in 0..Len(Tail(q0)) :
                        AcksIn(q0, k + 1, q, n) = Own(Head(q0), q, n) \cup AcksIn(Tail(q0), k, q, n)
                  /\ AcksIn(q0, Len(q0), q, n)
                       = Own(Head(q0), q, n) \cup AcksIn(Tail(q0), Len(Tail(q0)), q, n)
    BY <2>2, TailAcks
  <2>4. QED
    BY <2>1, <2>2, <2>3
<1>7. InnerExact'
  <2>1. ASSUME NEW t \in Sources, NEW i \in DOMAIN inner'[t], NEW g, g = inner'[t][i]
        PROVE  Exact(g, Yielded(g.route, g.session)' \cup AcksIn(inner'[t], i, g.route, g.session))
    <3>1. Yielded(g.route, g.session)' = Yielded(g.route, g.session) \cup Own(f, g.route, g.session)
      BY <1>5
    <3>2. CASE t # s
      <4>1. inner'[t] = inner[t] /\ i \in DOMAIN inner[t] /\ g = inner[t][i]
        BY <1>2, <2>1, <3>2
      <4>2. g.route \in Routes /\ SourceOf[g.route] = t
        BY <4>1, InnerFrame
      <4>3. Own(f, g.route, g.session) = {}
        BY <1>3, <3>2, <4>2, OtherSource
      <4>4. Exact(g, Yielded(g.route, g.session) \cup AcksIn(inner[t], i, g.route, g.session))
        BY <4>1 DEF InnerExact
      <4>5. QED
        BY <3>1, <4>1, <4>3, <4>4
    <3>3. CASE t = s
      <4>1. i \in 1..Len(inner'[s]) /\ g = inner[s][i + 1] /\ i + 1 \in DOMAIN inner[s]
        BY <1>2, <2>1, <3>3
      <4>2. Exact(g, Yielded(g.route, g.session) \cup AcksIn(inner[s], i + 1, g.route, g.session))
        BY <4>1 DEF InnerExact
      <4>3. AcksIn(inner[s], i + 1, g.route, g.session)
              = Own(f, g.route, g.session) \cup AcksIn(inner'[s], i, g.route, g.session)
        BY <1>2, <1>6, <4>1
      <4>4. Yielded(g.route, g.session) \cup AcksIn(inner[s], i + 1, g.route, g.session)
              = Yielded(g.route, g.session)' \cup AcksIn(inner'[s], i, g.route, g.session)
        BY <3>1, <4>3
      <4>5. QED
        BY <3>3, <4>2, <4>4
    <3>4. QED
      BY <3>2, <3>3
  <2>2. QED
    BY <2>1 DEF InnerExact, Exact, Yielded
<1>8. QueueInv'
  BY <1>1, <1>2 DEF QueueInv, Multiplexed, Yield
<1>9. SessionInv'
  <2>1. ASSUME NEW q \in Routes, NEW n
        PROVE  Yielded(q, n)' \cup Queued(q, n)' = Yielded(q, n) \cup Queued(q, n)
    <3>1. CASE SourceOf[q] = s
      <4>1. Queued(q, n) = Own(f, q, n) \cup Queued(q, n)'
        BY <1>6, <3>1 DEF Queued
      <4>2. QED
        BY <1>5, <4>1
    <3>2. CASE SourceOf[q] # s
      <4>1. Queued(q, n)' = Queued(q, n)
        BY <1>2, <3>2, SourceOfRoute DEF Queued
      <4>2. Own(f, q, n) = {}
        BY <1>3, <3>2, OtherSource
      <4>3. QED
        BY <1>5, <4>1, <4>2
    <3>3. QED
      BY <3>1, <3>2
  <2>2. ASSUME NEW q \in Routes
        PROVE  /\ q \in Counting /\ phase'[SourceOf[q]] = "open" =>
                     pending'[q] = Subscriptions[q] \ (Yielded(q, session[SourceOf[q]])'
                                                       \cup Queued(q, session[SourceOf[q]])')
               /\ \A n \in Nat : n > session'[SourceOf[q]] => Yielded(q, n)' \cup Queued(q, n)' = {}
    <3>1. PICK m : m = session[SourceOf[q]]
      OBVIOUS
    <3>2. Yielded(q, session[SourceOf[q]])' = Yielded(q, m)' /\ Queued(q, session[SourceOf[q]])' = Queued(q, m)'
      BY <1>1, <3>1 DEF Yielded, Queued
    <3>3. QED
      BY <1>1, <2>1, <3>1, <3>2 DEF SessionInv
  <2>3. QED
    BY <2>2 DEF SessionInv
<1>10. QED
  BY <1>5, <1>7, <1>8, <1>9

\* What was taken does not change its exactness on its own.
LEMMA SameTaken ==
    ASSUME TakenExact, taken' = taken
    PROVE  TakenExact'
<1> SUFFICES ASSUME NEW i \in DOMAIN taken
             PROVE  Exact(taken[i], AcksIn(taken, i, taken[i].route, taken[i].session))'
  BY DEF TakenExact
<1>1. Exact(taken[i], AcksIn(taken, i, taken[i].route, taken[i].session))
  BY DEF TakenExact
<1>2. QED
  BY <1>1 DEF Exact, AcksIn

\* A new session awaits everything, and has sent nothing.
LEMMA BeginSessionExact ==
    ASSUME LiveTypeOK, PendingInv, NEW s \in Sources, BeginSession(s)
    PROVE  PendingInv'
<1> USE DEF PendingInv
<1>1. /\ status = Unfinished /\ UNCHANGED <<run, inner, merged, taken, status>>
      /\ session \in [Sources -> Nat] /\ session' = [session EXCEPT ![s] = @ + 1]
      /\ phase \in [Sources -> {"idle", "sleep", "open"}] /\ phase' = [phase EXCEPT ![s] = "open"]
      /\ pending' = [r \in Counting |-> IF r \in RoutesOf[s] THEN Subscriptions[r] ELSE pending[r]]
  BY DEF BeginSession, AdapterRuns, LiveTypeOK, result
<1>2. TakenExact' /\ MergedExact' /\ InnerExact' /\ QueueInv'
  <2>1. TakenExact'
    BY <1>1 DEF TakenExact, Exact, AcksIn
  <2>2. MergedExact'
    BY <1>1 DEF MergedExact, Exact
  <2>3. InnerExact'
    BY <1>1 DEF InnerExact, Exact, Yielded
  <2>4. QueueInv'
    BY <1>1 DEF QueueInv, Multiplexed
  <2>5. QED
    BY <2>1, <2>2, <2>3, <2>4
<1>3. ASSUME NEW q \in Routes
      PROVE  /\ q \in Counting /\ phase'[SourceOf[q]] = "open" =>
                   pending'[q] = Subscriptions[q] \ (Yielded(q, session'[SourceOf[q]])
                                                     \cup Queued(q, session'[SourceOf[q]]))
             /\ \A n \in Nat : n > session'[SourceOf[q]] => Yielded(q, n) \cup Queued(q, n) = {}
  <2>1. CASE SourceOf[q] = s
    <3>1. session'[s] \in Nat /\ session'[s] > session[s] /\ session[s] \in Nat
      BY <1>1
    <3>2. \A n \in Nat : n > session[s] => Yielded(q, n) \cup Queued(q, n) = {}
      BY <1>1, <2>1 DEF SessionInv
    <3>3. q \in Counting => pending'[q] = Subscriptions[q]
      BY <1>1, <2>1, SourceOfRoute
    <3>4. QED
      BY <2>1, <3>1, <3>2, <3>3
  <2>2. CASE SourceOf[q] # s
    <3>1. /\ SourceOf[q] \in Sources \ {s} /\ q \notin RoutesOf[s]
      BY <2>2, SourceOfRoute
    <3>2. /\ session'[SourceOf[q]] = session[SourceOf[q]] /\ phase'[SourceOf[q]] = phase[SourceOf[q]]
          /\ q \in Counting => pending'[q] = pending[q]
      BY <1>1, <3>1
    <3>3. QED
      BY <1>1, <3>2 DEF SessionInv
  <2>3. QED
    BY <2>1, <2>2
<1>4. SessionInv'
  BY <1>1, <1>3 DEF SessionInv, Yielded, Queued
<1>5. QED
  BY <1>2, <1>4

\* A failed session drops what waits in its queue.
LEMMA EndSessionExact ==
    ASSUME LiveTypeOK, PendingInv, NEW s \in Sources, EndSession(s)
    PROVE  PendingInv'
<1> USE DEF PendingInv
<1>1. /\ status = Unfinished /\ UNCHANGED <<run, session, pending, merged, taken, status>>
      /\ inner \in [Sources -> Seq(Frame)] /\ inner' = [inner EXCEPT ![s] = <<>>]
      /\ phase \in [Sources -> {"idle", "sleep", "open"}] /\ phase' = [phase EXCEPT ![s] = "sleep"]
  BY DEF EndSession, AdapterRuns, LiveTypeOK, result
<1>2. inner'[s] = <<>> /\ \A t \in Sources \ {s} : inner'[t] = inner[t]
  BY <1>1
<1>3. TakenExact' /\ MergedExact'
  <2>1. TakenExact'
    BY <1>1, SameTaken
  <2>2. MergedExact'
    BY <1>1 DEF MergedExact, Exact
  <2>3. QED
    BY <2>1, <2>2
<1>4. QueueInv'
  BY <1>1, <1>2 DEF QueueInv, Multiplexed
<1>5. \A q, n : Yielded(q, n)' = Yielded(q, n)
  BY <1>1 DEF Yielded
<1>6. InnerExact'
  <2>1. ASSUME NEW t \in Sources, NEW i \in DOMAIN inner'[t], NEW g, g = inner'[t][i]
        PROVE  Exact(g, Yielded(g.route, g.session)' \cup AcksIn(inner'[t], i, g.route, g.session))
    <3>1. inner'[t] = inner[t] /\ i \in DOMAIN inner[t] /\ g = inner[t][i]
      BY <1>2, <2>1
    <3>2. Exact(g, Yielded(g.route, g.session) \cup AcksIn(inner[t], i, g.route, g.session))
      BY <3>1 DEF InnerExact
    <3>3. QED
      BY <1>5, <3>1, <3>2
  <2>2. QED
    BY <2>1 DEF InnerExact, Exact, Yielded
<1>7. ASSUME NEW q \in Routes
      PROVE  \/ /\ SourceOf[q] = s /\ phase'[SourceOf[q]] # "open"
                /\ \A n : Queued(q, n)' = {}
             \/ /\ phase'[SourceOf[q]] = phase[SourceOf[q]]
                /\ \A n : Queued(q, n)' = Queued(q, n)
  <2>1. CASE SourceOf[q] = s
    BY <1>1, <1>2, <2>1 DEF Queued, AcksIn
  <2>2. CASE SourceOf[q] # s
    BY <1>1, <1>2, <2>2, SourceOfRoute DEF Queued
  <2>3. QED
    BY <2>1, <2>2
<1>8. ASSUME NEW q \in Routes
      PROVE  /\ q \in Counting /\ phase'[SourceOf[q]] = "open" =>
                   pending'[q] = Subscriptions[q] \ (Yielded(q, session[SourceOf[q]])'
                                                     \cup Queued(q, session[SourceOf[q]])')
             /\ \A n \in Nat : n > session'[SourceOf[q]] => Yielded(q, n)' \cup Queued(q, n)' = {}
  <2>1. PICK m : m = session[SourceOf[q]]
    OBVIOUS
  <2>2. /\ Yielded(q, session[SourceOf[q]])' = Yielded(q, m)'
        /\ Queued(q, session[SourceOf[q]])' = Queued(q, m)'
    BY <1>1, <2>1 DEF Yielded, Queued
  <2>3. QED
    BY <1>1, <1>5, <1>7, <2>1, <2>2 DEF SessionInv
<1>9. SessionInv'
  BY <1>8 DEF SessionInv
<1>10. QED
  BY <1>3, <1>4, <1>6, <1>9

LEMMA TakeKeepsExact ==
    ASSUME LiveTypeOK, PendingInv, Take
    PROVE  PendingInv'
<1> USE DEF PendingInv
<1>1. /\ TakenExact' /\ MergedExact' /\ \A q, n : Yielded(q, n)' = Yielded(q, n)
      /\ status = Unfinished /\ UNCHANGED <<run, inner, session, phase, pending, status>>
      /\ run.runtime = "dual"
  BY TakeExact DEF Take, adapter, result
<1>2. InnerExact'
  <2>1. ASSUME NEW t \in Sources, NEW i \in DOMAIN inner[t], NEW g, g = inner[t][i]
        PROVE  Exact(g, Yielded(g.route, g.session)' \cup AcksIn(inner[t], i, g.route, g.session))
    <3>1. Exact(g, Yielded(g.route, g.session) \cup AcksIn(inner[t], i, g.route, g.session))
      BY <2>1 DEF InnerExact
    <3>2. QED
      BY <1>1, <3>1
  <2>2. QED
    BY <1>1, <2>1 DEF InnerExact, Exact, Yielded
<1>3. QueueInv'
  BY <1>1 DEF QueueInv, Multiplexed
<1>4. ASSUME NEW q \in Routes
      PROVE  /\ q \in Counting /\ phase[SourceOf[q]] = "open" =>
                   pending[q] = Subscriptions[q] \ (Yielded(q, session[SourceOf[q]])'
                                                    \cup Queued(q, session[SourceOf[q]])')
             /\ \A n \in Nat : n > session[SourceOf[q]] => Yielded(q, n)' \cup Queued(q, n)' = {}
  <2>1. PICK m : m = session[SourceOf[q]]
    OBVIOUS
  <2>2. /\ Yielded(q, session[SourceOf[q]])' = Yielded(q, m)'
        /\ Queued(q, session[SourceOf[q]])' = Queued(q, m)'
    BY <1>1, <2>1 DEF Yielded, Queued
  <2>3. \A n : Queued(q, n)' = Queued(q, n)
    BY <1>1 DEF Queued
  <2>4. QED
    BY <1>1, <2>1, <2>2, <2>3 DEF SessionInv
<1>5. SessionInv'
  BY <1>1, <1>4 DEF SessionInv
<1>6. QED
  BY <1>1, <1>2, <1>3, <1>5

\* With the event loop, every queue ends.
LEMMA LoopEndsExact ==
    ASSUME LiveTypeOK, PendingInv, LoopEnds, UNCHANGED <<run, taken>>, status' # Unfinished
    PROVE  PendingInv'
<1>1. merged' = <<>> /\ \A s \in Sources : inner'[s] = <<>>
  BY NewAdapterType DEF LoopEnds
<1>2. TakenExact'
  BY DEF PendingInv, TakenExact, Exact, AcksIn
<1>3. MergedExact' /\ InnerExact' /\ QueueInv'
  BY <1>1 DEF MergedExact, InnerExact, QueueInv, Multiplexed
<1>4. SessionInv'
  BY DEF SessionInv, Unfinished
<1>5. QED
  BY <1>2, <1>3, <1>4 DEF PendingInv

LEMMA PendingInit == Init => PendingInv
<1> SUFFICES ASSUME Init PROVE PendingInv
  OBVIOUS
<1>1. /\ taken = <<>> /\ merged = <<>> /\ \A s \in Sources : inner[s] = <<>> /\ phase[s] # "open"
  BY NewAdapterType DEF Init, NewAdapter
<1>2. \A q, n : AcksIn(<<>>, 0, q, n) = {}
  BY DEF AcksIn
<1>3. \A q \in Routes : \A n : Yielded(q, n) = {} /\ Queued(q, n) = {}
  BY <1>1, <1>2, SourceOfRoute DEF Yielded, Queued
<1>4. TakenExact /\ MergedExact /\ InnerExact /\ QueueInv
  BY <1>1 DEF TakenExact, MergedExact, InnerExact, QueueInv
<1>5. SessionInv
  BY <1>1, <1>3, SourceOfRoute DEF SessionInv
<1>6. QED
  BY <1>4, <1>5 DEF PendingInv

LEMMA PendingStep == LiveTypeOK /\ PendingInv /\ [Next]_vars => PendingInv'
<1> SUFFICES ASSUME LiveTypeOK, PendingInv, [Next]_vars PROVE PendingInv'
  OBVIOUS
<1>1. CASE AdapterStep
  <2>1. CASE \E s \in Sources : BeginSession(s) \/ Forward(s) \/ EndSession(s)
    BY <2>1, BeginSessionExact, ForwardExact, EndSessionExact
  <2>2. CASE \E r \in Routes : \E ack \in AcksOf(SourceOf[r]) : Receive(r, ack)
    BY <2>2, ReceiveExact
  <2>3. QED
    BY <1>1, <2>1, <2>2 DEF AdapterStep
<1>2. CASE Take
  BY <1>2, TakeKeepsExact
<1>3. CASE Completes \/ Fails \/ Raises
  <2>1. LoopEnds /\ UNCHANGED <<run, taken>>
    BY <1>3 DEF Completes, Fails, Raises
  <2>2. status' # Unfinished
    BY <1>3 DEF Completes, Fails, Raises, Unfinished
  <2>3. QED
    BY <2>1, <2>2, LoopEndsExact
<1>4. CASE Leaves \/ (\E by \in {"signal", "timer"} : request_stop(by)) \/ UNCHANGED vars
  <2>1. UNCHANGED <<run, phase, session, pending, inner, merged, taken, status>>
    BY <1>4 DEF Leaves, LeaveStream, OutlivesStop, request_stop, vars, adapter, result
  <2>2. TakenExact'
    BY <2>1 DEF PendingInv, TakenExact, Exact, AcksIn
  <2>3. MergedExact'
    BY <2>1 DEF PendingInv, MergedExact, Exact
  <2>4. InnerExact'
    BY <2>1 DEF PendingInv, InnerExact, Exact, Yielded
  <2>5. QueueInv' /\ SessionInv'
    BY <2>1 DEF PendingInv, QueueInv, SessionInv, Multiplexed, Yielded, Queued
  <2>6. QED
    BY <2>2, <2>3, <2>4, <2>5 DEF PendingInv
<1>5. QED
  BY <1>1, <1>2, <1>3, <1>4 DEF Next, RuntimeStep, Leaves

\* The number of outstanding subscriptions a Hyperliquid frame carries is what its
\* own session has not acknowledged up to it, through every queue and reconnect,
\* and whatever acknowledgements come (classify_public_payload, and the pending
\* set of HyperliquidPublicAdapter.frames).
THEOREM PendingIsOfItsSessionHolds == Spec => []PendingIsOfItsSession
<1>1. LiveTypeOK /\ PendingInv => PendingIsOfItsSession
  BY DEF PendingInv, TakenExact, Exact, AcksIn, PendingIsOfItsSession
<1>2. Spec => []PendingInv
  BY LiveTypeCorrect, PendingInit, PendingStep, PTL DEF Spec
<1>3. QED
  BY LiveTypeCorrect, <1>1, <1>2, PTL
-----------------------------------------------------------------------------
(* Counting the frames of a connection *)

\* How many of the first k frames of a queue are of a route in a session.
Of(q, k, r, n) == {i \in 1..k : q[i].route = r /\ q[i].session = n}
CountIn(q, k, r, n) == Cardinality(Of(q, k, r, n))
One(f, r, n) == IF f.route = r /\ f.session = n THEN 1 ELSE 0

\* A count is a number, and that of no frames is zero.
LEMMA CountType ==
    ASSUME NEW q, NEW k \in Nat, NEW r, NEW n
    PROVE  /\ IsFiniteSet(Of(q, k, r, n)) /\ CountIn(q, k, r, n) \in Nat
           /\ CountIn(q, 0, r, n) = 0
<1>1. IsFiniteSet(1..k) /\ Of(q, k, r, n) \in SUBSET (1..k)
  BY FS_Interval DEF Of
<1>2. IsFiniteSet(Of(q, k, r, n))
  BY <1>1, FS_Subset
<1>3. CountIn(q, k, r, n) \in Nat
  BY <1>2, FS_CardinalityType DEF CountIn
<1>4. Of(q, 0, r, n) = {}
  BY DEF Of
<1>5. QED
  BY <1>2, <1>3, <1>4, FS_EmptySet DEF CountIn

\* The next frame of a queue adds itself to the count.
LEMMA NextCount ==
    ASSUME NEW q, NEW k \in Nat, NEW r, NEW n
    PROVE  CountIn(q, k + 1, r, n) = CountIn(q, k, r, n) + One(q[k + 1], r, n)
<1>1. 1..(k + 1) = 1..k \cup {k + 1} /\ k + 1 \notin 1..k
  OBVIOUS
<1>2. CASE q[k + 1].route = r /\ q[k + 1].session = n
  <2>1. Of(q, k + 1, r, n) = Of(q, k, r, n) \cup {k + 1} /\ k + 1 \notin Of(q, k, r, n)
    BY <1>1, <1>2 DEF Of
  <2>2. QED
    BY <1>2, <2>1, CountType, FS_AddElement DEF CountIn, One
<1>3. CASE ~(q[k + 1].route = r /\ q[k + 1].session = n)
  <2>1. Of(q, k + 1, r, n) = Of(q, k, r, n)
    BY <1>1, <1>3 DEF Of
  <2>2. QED
    BY <1>3, <2>1, CountType DEF CountIn, One
<1>4. QED
  BY <1>2, <1>3

\* A frame that is appended is counted after the others.
LEMMA AppendCount ==
    ASSUME NEW q \in Seq(Frame), NEW f \in Frame, NEW r, NEW n
    PROVE  /\ \A k \in 0..Len(q) : CountIn(Append(q, f), k, r, n) = CountIn(q, k, r, n)
           /\ CountIn(Append(q, f), Len(q) + 1, r, n) = CountIn(q, Len(q), r, n) + One(f, r, n)
<1>1. /\ Len(q) \in Nat /\ \A i \in 1..Len(q) : Append(q, f)[i] = q[i]
      /\ Append(q, f)[Len(q) + 1] = f
  OBVIOUS
<1>2. ASSUME NEW k \in 0..Len(q) PROVE CountIn(Append(q, f), k, r, n) = CountIn(q, k, r, n)
  <2>1. Of(Append(q, f), k, r, n) = Of(q, k, r, n)
    BY <1>1 DEF Of
  <2>2. QED
    BY <2>1 DEF CountIn
<1>3. CountIn(Append(q, f), Len(q) + 1, r, n)
        = CountIn(Append(q, f), Len(q), r, n) + One(f, r, n)
  BY ZenonT(30), <1>1, NextCount
<1>4. QED
  BY <1>1, <1>2, <1>3

\* Without its head, a queue counts one frame less where the head counted.
LEMMA TailCount ==
    ASSUME NEW q \in Seq(Frame), q # <<>>, NEW r, NEW n
    PROVE  /\ \A k \in 0..Len(Tail(q)) :
                 CountIn(q, k + 1, r, n) = One(Head(q), r, n) + CountIn(Tail(q), k, r, n)
           /\ CountIn(q, Len(q), r, n) = One(Head(q), r, n) + CountIn(Tail(q), Len(Tail(q)), r, n)
<1>1. /\ Len(q) \in Nat /\ Len(Tail(q)) + 1 = Len(q) /\ Len(Tail(q)) \in Nat
      /\ Head(q) = q[1]
      /\ \A i \in 1..Len(Tail(q)) : Tail(q)[i] = q[i + 1]
  OBVIOUS
<1>2. ASSUME NEW k \in 0..Len(Tail(q))
      PROVE  CountIn(q, k + 1, r, n) = One(Head(q), r, n) + CountIn(Tail(q), k, r, n)
  <2> PICK A : A = {i \in 2..(k + 1) : q[i].route = r /\ q[i].session = n}
    OBVIOUS
  <2> PICK B : B = Of(Tail(q), k, r, n)
    OBVIOUS
  <2> PICK shift : shift = [i \in B |-> i + 1]
    OBVIOUS
  <2>1. IsFiniteSet(B) /\ Cardinality(B) \in Nat /\ CountIn(Tail(q), k, r, n) = Cardinality(B)
    BY <1>1, CountType DEF CountIn
  <2>2. \A i \in B : i \in 1..k /\ shift[i] = i + 1 /\ shift[i] \in A
    BY <1>1 DEF Of
  <2>3. \A a \in A : a - 1 \in B /\ shift[a - 1] = a
    <3>1. ASSUME NEW a \in A PROVE a - 1 \in B
      <4>1. a \in 2..(k + 1) /\ a - 1 \in 1..k /\ a - 1 \in 1..Len(Tail(q)) /\ (a - 1) + 1 = a
        BY <1>1
      <4>2. Tail(q)[a - 1] = q[a]
        BY <1>1, <4>1
      <4>3. QED
        BY <4>1, <4>2 DEF Of
    <3>2. QED
      BY <3>1
  <2>4. shift \in [B -> A] /\ \A i, j \in B : shift[i] = shift[j] => i = j
    BY <2>2
  <2>5. shift \in Bijection(B, A)
    BY <2>3, <2>4 DEF Bijection, Injection, Surjection, IsInjective
  <2>6. IsFiniteSet(A) /\ Cardinality(A) = Cardinality(B)
    BY <2>1, <2>5, FS_Bijection DEF ExistsBijection
  <2>7. 1..(k + 1) = {1} \cup 2..(k + 1) /\ 1 \notin A
    BY <1>1
  <2>8. CASE q[1].route = r /\ q[1].session = n
    <3>1. Of(q, k + 1, r, n) = A \cup {1}
      BY <2>7, <2>8 DEF Of
    <3>2. CountIn(q, k + 1, r, n) = Cardinality(A) + 1
      BY <2>6, <2>7, <3>1, FS_AddElement DEF CountIn
    <3>3. One(Head(q), r, n) = 1
      BY <1>1, <2>8 DEF One
    <3>4. QED
      BY <2>1, <2>6, <3>2, <3>3
  <2>9. CASE ~(q[1].route = r /\ q[1].session = n)
    <3>1. Of(q, k + 1, r, n) = A
      BY <2>7, <2>9 DEF Of
    <3>2. CountIn(q, k + 1, r, n) = Cardinality(A)
      BY <3>1 DEF CountIn
    <3>3. One(Head(q), r, n) = 0
      BY <1>1, <2>9 DEF One
    <3>4. QED
      BY <2>1, <2>6, <3>2, <3>3
  <2>10. QED
    BY <2>8, <2>9
<1>3. QED
  BY <1>1, <1>2
-----------------------------------------------------------------------------
(* Sequence numbers *)

\* What left a connection, and what waits in the queue of its session.
Sent(r, n) == CountIn(taken, Len(taken), r, n) + CountIn(merged, Len(merged), r, n)
Waiting(r, n) == CountIn(inner[SourceOf[r]], Len(inner[SourceOf[r]]), r, n)

\* The sequence number of a frame is its place among those of its connection.
TakenSeq == \A i \in DOMAIN taken :
    taken[i].seq = CountIn(taken, i, taken[i].route, taken[i].session)
MergedSeq == \A i \in DOMAIN merged :
    merged[i].seq = CountIn(taken, Len(taken), merged[i].route, merged[i].session)
                    + CountIn(merged, i, merged[i].route, merged[i].session)
InnerSeq == \A s \in Sources : \A i \in DOMAIN inner[s] :
    inner[s][i].seq = Sent(inner[s][i].route, inner[s][i].session)
                      + CountIn(inner[s], i, inner[s][i].route, inner[s][i].session)

\* A connection has numbered what it sent and what still waits, and nothing is
\* there of a later session.
IngestInv ==
    status = Unfinished =>
        \A r \in Routes :
            /\ phase[SourceOf[r]] = "open" =>
                  ingest[r] = Sent(r, session[SourceOf[r]]) + Waiting(r, session[SourceOf[r]])
            /\ \A n \in Nat : n > session[SourceOf[r]] => Sent(r, n) + Waiting(r, n) = 0

SeqInv == TakenSeq /\ MergedSeq /\ InnerSeq /\ IngestInv

\* What is counted are numbers.
LEMMA SentType ==
    ASSUME LiveTypeOK
    PROVE  /\ \A r, n : /\ CountIn(taken, Len(taken), r, n) \in Nat
                        /\ CountIn(merged, Len(merged), r, n) \in Nat
                        /\ Sent(r, n) \in Nat
           /\ \A r \in Routes : \A n : Waiting(r, n) \in Nat
           /\ \A f, r, n : One(f, r, n) \in {0, 1}
<1>1. /\ Len(taken) \in Nat /\ Len(merged) \in Nat
      /\ \A r \in Routes : Len(inner[SourceOf[r]]) \in Nat
  BY QueueTypes, SourceOfRoute
<1>2. QED
  BY <1>1, CountType DEF Sent, Waiting, One

\* A frame with the next number keeps the numbers, and is all that is added.
LEMMA YieldSeq ==
    ASSUME LiveTypeOK, TakenSeq, MergedSeq, QueueInv, NEW s \in Sources, NEW f \in Frame,
           Yield(s, f), f.seq = Sent(f.route, f.session) + 1
    PROVE  /\ TakenSeq' /\ MergedSeq'
           /\ \A r, n : Sent(r, n)' = Sent(r, n) + One(f, r, n)
<1>1. taken \in Seq(Frame) /\ merged \in Seq(Frame) /\ Len(taken) \in Nat /\ Len(merged) \in Nat
  BY QueueTypes
<1>2. One(f, f.route, f.session) = 1
  BY DEF One
<1>3. CASE merged' = Append(merged, f) /\ taken' = taken
  <2>1. /\ Len(merged') = Len(merged) + 1 /\ DOMAIN merged' = 1..(Len(merged) + 1)
        /\ DOMAIN merged = 1..Len(merged)
        /\ \A i \in 1..Len(merged) : merged'[i] = merged[i]
        /\ merged'[Len(merged) + 1] = f
    BY <1>1, <1>3
  <2>2. \A r, n : /\ \A k \in 0..Len(merged) : CountIn(merged', k, r, n) = CountIn(merged, k, r, n)
                  /\ CountIn(merged', Len(merged) + 1, r, n)
                       = CountIn(merged, Len(merged), r, n) + One(f, r, n)
    <3>1. \A r, n : /\ \A k \in 0..Len(merged) :
                           CountIn(Append(merged, f), k, r, n) = CountIn(merged, k, r, n)
                    /\ CountIn(Append(merged, f), Len(merged) + 1, r, n)
                         = CountIn(merged, Len(merged), r, n) + One(f, r, n)
      BY <1>1, AppendCount
    <3>2. merged' = Append(merged, f)
      BY <1>3
    <3>3. QED
      BY <3>1, <3>2
  <2>3. TakenSeq'
    BY <1>3 DEF TakenSeq, CountIn, Of
  <2>4. \A r, n : Sent(r, n)' = Sent(r, n) + One(f, r, n)
    <3> SUFFICES ASSUME NEW r, NEW n PROVE Sent(r, n)' = Sent(r, n) + One(f, r, n)
      OBVIOUS
    <3>1. Sent(r, n)' = CountIn(taken, Len(taken), r, n)
                        + (CountIn(merged, Len(merged), r, n) + One(f, r, n))
      BY <1>3, <2>1, <2>2 DEF Sent
    <3>2. Sent(r, n) = CountIn(taken, Len(taken), r, n) + CountIn(merged, Len(merged), r, n)
      BY DEF Sent
    <3>3. QED
      BY <3>1, <3>2, SentType
  <2>5. ASSUME NEW i \in DOMAIN merged'
        PROVE  merged'[i].seq = CountIn(taken, Len(taken), merged'[i].route, merged'[i].session)
                                + CountIn(merged', i, merged'[i].route, merged'[i].session)
    <3>1. CASE i \in 1..Len(merged)
      BY <2>1, <2>2, <3>1 DEF MergedSeq
    <3>2. CASE i = Len(merged) + 1
      <4>1. merged'[i] = f
        BY <2>1, <3>2
      <4>2. CountIn(merged', i, f.route, f.session)
              = CountIn(merged, Len(merged), f.route, f.session) + 1
        BY <1>2, <2>2, <3>2
      <4>3. QED
        BY <4>1, <4>2, SentType DEF Sent
    <3>3. QED
      BY <1>1, <2>1, <3>1, <3>2
  <2>6. MergedSeq'
    <3>1. taken' = taken
      BY <1>3
    <3>2. QED
      BY <2>5, <3>1 DEF MergedSeq, CountIn, Of
  <2>7. QED
    BY <2>3, <2>4, <2>6
<1>4. CASE run.runtime = "public" /\ taken' = Append(taken, f) /\ merged' = merged
  <2>1. merged = <<>> /\ merged' = <<>>
    BY <1>4 DEF QueueInv
  <2>2. /\ Len(taken') = Len(taken) + 1 /\ DOMAIN taken' = 1..(Len(taken) + 1)
        /\ DOMAIN taken = 1..Len(taken)
        /\ \A i \in 1..Len(taken) : taken'[i] = taken[i]
        /\ taken'[Len(taken) + 1] = f
    BY <1>1, <1>4
  <2>3. \A r, n : /\ \A k \in 0..Len(taken) : CountIn(taken', k, r, n) = CountIn(taken, k, r, n)
                  /\ CountIn(taken', Len(taken) + 1, r, n)
                       = CountIn(taken, Len(taken), r, n) + One(f, r, n)
    <3>1. \A r, n : /\ \A k \in 0..Len(taken) :
                           CountIn(Append(taken, f), k, r, n) = CountIn(taken, k, r, n)
                    /\ CountIn(Append(taken, f), Len(taken) + 1, r, n)
                         = CountIn(taken, Len(taken), r, n) + One(f, r, n)
      BY <1>1, AppendCount
    <3>2. taken' = Append(taken, f)
      BY <1>4
    <3>3. QED
      BY <3>1, <3>2
  <2>4. \A r, n : CountIn(<<>>, 0, r, n) = 0
    BY CountType
  <2>5. \A r, n : /\ Sent(r, n) = CountIn(taken, Len(taken), r, n)
                  /\ Sent(r, n)' = CountIn(taken', Len(taken) + 1, r, n)
    <3>1. \A r, n : CountIn(taken', Len(taken) + 1, r, n) \in Nat
      BY <1>1, CountType
    <3>2. \A r, n : CountIn(merged, Len(merged), r, n) = 0 /\ CountIn(merged', Len(merged'), r, n) = 0
      BY <2>1, <2>4
    <3>3. QED
      BY <2>2, <3>1, <3>2, SentType DEF Sent
  <2>6. ASSUME NEW i \in DOMAIN taken'
        PROVE  taken'[i].seq = CountIn(taken', i, taken'[i].route, taken'[i].session)
    <3>1. CASE i \in 1..Len(taken)
      BY <2>2, <2>3, <3>1 DEF TakenSeq
    <3>2. CASE i = Len(taken) + 1
      <4>1. taken'[i] = f
        BY <2>2, <3>2
      <4>2. CountIn(taken', i, f.route, f.session) = Sent(f.route, f.session) + 1
        BY <1>2, <2>3, <2>5, <3>2
      <4>3. QED
        BY <4>1, <4>2
    <3>3. QED
      BY <1>1, <2>2, <3>1, <3>2
  <2>7. TakenSeq'
    BY <2>6 DEF TakenSeq, CountIn, Of
  <2>8. MergedSeq'
    BY <2>1 DEF MergedSeq
  <2>9. QED
    BY <2>3, <2>5, <2>7, <2>8
<1>5. QED
  BY <1>3, <1>4 DEF Yield

\* The recorder takes the head of the merged queue, in its place.
LEMMA TakeSeq ==
    ASSUME LiveTypeOK, TakenSeq, MergedSeq, Take
    PROVE  /\ TakenSeq' /\ MergedSeq'
           /\ \A r, n : Sent(r, n)' = Sent(r, n)
<1> PICK f : f = Head(merged)
  OBVIOUS
<1>1. /\ taken \in Seq(Frame) /\ merged \in Seq(Frame) /\ merged # <<>>
      /\ Len(taken) \in Nat /\ Len(merged) \in Nat /\ f \in Frame
      /\ taken' = Append(taken, f) /\ merged' = Tail(merged)
  BY QueueTypes DEF Take
<1>2. /\ Len(taken') = Len(taken) + 1 /\ DOMAIN taken' = 1..(Len(taken) + 1)
      /\ DOMAIN taken = 1..Len(taken)
      /\ \A i \in 1..Len(taken) : taken'[i] = taken[i]
      /\ taken'[Len(taken) + 1] = f
  BY <1>1
<1>3. /\ Len(merged') + 1 = Len(merged) /\ DOMAIN merged' = 1..Len(merged')
      /\ \A i \in 1..Len(merged') : i + 1 \in DOMAIN merged /\ merged'[i] = merged[i + 1]
      /\ 1 \in DOMAIN merged /\ merged[1] = f /\ Len(merged') \in Nat
  BY <1>1
<1>4. \A r, n : /\ \A k \in 0..Len(taken) : CountIn(taken', k, r, n) = CountIn(taken, k, r, n)
                /\ CountIn(taken', Len(taken'), r, n)
                     = CountIn(taken, Len(taken), r, n) + One(f, r, n)
  BY <1>1, <1>2, AppendCount
<1>5. \A r, n : /\ \A k \in 0..Len(merged') :
                      CountIn(merged, k + 1, r, n) = One(f, r, n) + CountIn(merged', k, r, n)
                /\ CountIn(merged, Len(merged), r, n)
                     = One(f, r, n) + CountIn(merged', Len(merged'), r, n)
  BY ZenonT(30), <1>1, TailCount
<1>6. \A r, n : \A k \in Nat : CountIn(merged', k, r, n) \in Nat
  BY CountType
<1>7. ASSUME NEW r, NEW n PROVE Sent(r, n)' = Sent(r, n)
  <2>1. Sent(r, n) = CountIn(taken, Len(taken), r, n) + CountIn(merged, Len(merged), r, n)
    BY DEF Sent
  <2>2. Sent(r, n)' = CountIn(taken', Len(taken'), r, n) + CountIn(merged', Len(merged'), r, n)
    BY DEF Sent, CountIn, Of
  <2>3. CountIn(merged', Len(merged'), r, n) \in Nat
    BY <1>3, <1>6
  <2>4. /\ CountIn(taken', Len(taken'), r, n) = CountIn(taken, Len(taken), r, n) + One(f, r, n)
        /\ CountIn(merged, Len(merged), r, n)
             = One(f, r, n) + CountIn(merged', Len(merged'), r, n)
    BY <1>4, <1>5
  <2>5. QED
    BY <2>1, <2>2, <2>3, <2>4, SentType
<1>8. ASSUME NEW i \in DOMAIN taken'
      PROVE  taken'[i].seq = CountIn(taken', i, taken'[i].route, taken'[i].session)
  <2>1. CASE i \in 1..Len(taken)
    BY <1>2, <1>4, <2>1 DEF TakenSeq
  <2>2. CASE i = Len(taken) + 1
    <3>1. f.seq = CountIn(taken, Len(taken), f.route, f.session)
                  + CountIn(merged, 1, f.route, f.session)
      BY <1>3 DEF MergedSeq
    <3>2. CountIn(merged, 1, f.route, f.session) = One(f, f.route, f.session)
      <4>1. CountIn(merged, 0 + 1, f.route, f.session)
              = CountIn(merged, 0, f.route, f.session) + One(merged[0 + 1], f.route, f.session)
        BY NextCount
      <4>2. QED
        BY <1>3, <4>1, CountType, SentType
    <3>3. taken'[i] = f
      BY <1>2, <2>2
    <3>4. QED
      BY <1>2, <1>4, <2>2, <3>1, <3>2, <3>3
  <2>3. QED
    BY <1>1, <1>2, <2>1, <2>2
<1>9. ASSUME NEW i \in DOMAIN merged'
      PROVE  merged'[i].seq = CountIn(taken', Len(taken'), merged'[i].route, merged'[i].session)
                              + CountIn(merged', i, merged'[i].route, merged'[i].session)
  <2>1. PICK r, n : r = merged'[i].route /\ n = merged'[i].session
    OBVIOUS
  <2>2. merged'[i].seq = CountIn(taken, Len(taken), r, n) + CountIn(merged, i + 1, r, n)
    BY <1>3, <2>1 DEF MergedSeq
  <2>3. CountIn(merged, i + 1, r, n) = One(f, r, n) + CountIn(merged', i, r, n)
    BY <1>3, <1>5
  <2>4. i \in Nat
    BY <1>3
  <2>5. CountIn(taken', Len(taken'), r, n) = CountIn(taken, Len(taken), r, n) + One(f, r, n)
    BY <1>4
  <2>6. CountIn(merged', i, r, n) \in Nat /\ One(f, r, n) \in Nat /\ CountIn(taken, Len(taken), r, n) \in Nat
    BY <1>6, <2>4, SentType
  <2>7. merged'[i].seq = CountIn(taken', Len(taken'), r, n) + CountIn(merged', i, r, n)
    BY <2>2, <2>3, <2>5, <2>6
  <2>8. QED
    BY <2>1, <2>7
<1>10. TakenSeq' /\ MergedSeq'
  BY <1>8, <1>9 DEF TakenSeq, MergedSeq, CountIn, Of
<1>11. QED
  BY <1>7, <1>10

\* Frames of another source are not counted on a route.
LEMMA OtherOne ==
    ASSUME NEW f \in Frame, NEW q \in Routes, NEW n, SourceOf[q] # SourceOf[f.route]
    PROVE  One(f, q, n) = 0
  BY DEF One

\* A frame that joins its connection has the number that is given next.
LEMMA IngestGrows ==
    ASSUME LiveTypeOK, IngestInv, NEW r \in Routes, NEW ack \in AcksOf(SourceOf[r]),
           Receive(r, ack),
           \A q \in Routes : \A n : (Sent(q, n) + Waiting(q, n))'
                                  = Sent(q, n) + Waiting(q, n) + One(FrameOn(r, ack), q, n)
    PROVE  IngestInv'
<1> PICK f : f = FrameOn(r, ack)
  OBVIOUS
<1>1. f.route = r /\ f.session = session[SourceOf[r]]
  BY FrameOnFields
<1>2. /\ UNCHANGED <<phase, session, status>>
      /\ ingest' = [ingest EXCEPT ![r] = @ + 1] /\ ingest \in [Routes -> Nat]
  BY DEF Receive, result, LiveTypeOK
<1>3. SUFFICES ASSUME status = Unfinished, NEW q \in Routes
               PROVE  /\ phase[SourceOf[q]] = "open" =>
                           ingest'[q] = (Sent(q, session[SourceOf[q]])
                                         + Waiting(q, session[SourceOf[q]]))'
                      /\ \A n \in Nat : n > session[SourceOf[q]]
                                          => (Sent(q, n) + Waiting(q, n))' = 0
  BY <1>2 DEF IngestInv
<1>4. \A n \in Nat : n > session[SourceOf[q]] => One(f, q, n) = 0
  <2>1. session[SourceOf[q]] \in Nat
    BY SourceOfRoute DEF LiveTypeOK
  <2>2. QED
    BY <1>1, <2>1 DEF One
<1>5. \A n \in Nat : n > session[SourceOf[q]] => (Sent(q, n) + Waiting(q, n))' = 0
  BY <1>3, <1>4 DEF IngestInv
<1>6. ASSUME phase[SourceOf[q]] = "open"
      PROVE  ingest'[q] = (Sent(q, session[SourceOf[q]]) + Waiting(q, session[SourceOf[q]]))'
  <2>1. PICK n : n = session[SourceOf[q]]
    OBVIOUS
  <2>2. ingest[q] = Sent(q, n) + Waiting(q, n)
    BY <1>3, <1>6, <2>1 DEF IngestInv
  <2>3. (Sent(q, session[SourceOf[q]]) + Waiting(q, session[SourceOf[q]]))'
          = Sent(q, n) + Waiting(q, n) + One(f, q, n)
    BY <1>2, <2>1
  <2>4. CASE q = r
    <3>1. One(f, q, n) = 1 /\ ingest'[q] = ingest[q] + 1
      BY <1>1, <1>2, <2>1, <2>4 DEF One
    <3>2. QED
      BY <2>2, <2>3, <3>1
  <2>5. CASE q # r
    <3>1. One(f, q, n) = 0 /\ ingest'[q] = ingest[q] /\ ingest[q] \in Nat
      BY <1>1, <1>2, <2>5 DEF One
    <3>2. QED
      BY <2>2, <2>3, <3>1
  <2>6. QED
    BY <2>4, <2>5
<1>7. QED
  BY <1>5, <1>6

\* A message gets the next number of its connection, whichever queue it joins.
LEMMA ReceiveSeq ==
    ASSUME LiveTypeOK, QueueInv, SeqInv, NEW r \in Routes, NEW ack \in AcksOf(SourceOf[r]),
           Receive(r, ack)
    PROVE  SeqInv'
<1> USE DEF SeqInv
<1> PICK s : s = SourceOf[r]
  OBVIOUS
<1> PICK f : f = FrameOn(r, ack)
  OBVIOUS
<1>1. /\ s \in Sources /\ f \in Frame /\ f.route = r /\ f.session = session[s]
      /\ f.seq = ingest[r] + 1 /\ phase[s] = "open" /\ status = Unfinished
      /\ inner \in [Sources -> Seq(Frame)]
  <2>1. f \in FrameOf(s)
    BY FrameOnType
  <2>2. f.route = r /\ f.session = session[s] /\ f.seq = ingest[r] + 1
    BY FrameOnFields
  <2>3. QED
    BY <2>1, <2>2, SourceOfRoute DEF Receive, AdapterRuns, FrameOf, LiveTypeOK
<1>2. f.seq = Sent(r, session[s]) + Waiting(r, session[s]) + 1
  BY <1>1 DEF IngestInv
<1>3. CASE /\ inner' = [inner EXCEPT ![s] = Append(@, f)]
           /\ UNCHANGED <<merged, taken>>
  <2>1. TakenSeq' /\ MergedSeq' /\ \A q, n : Sent(q, n)' = Sent(q, n)
    BY <1>3 DEF TakenSeq, MergedSeq, Sent, CountIn, Of
  <2>2. /\ inner[s] \in Seq(Frame) /\ inner'[s] = Append(inner[s], f)
        /\ Len(inner[s]) \in Nat /\ Len(inner'[s]) = Len(inner[s]) + 1
        /\ DOMAIN inner'[s] = 1..(Len(inner[s]) + 1) /\ DOMAIN inner[s] = 1..Len(inner[s])
        /\ \A i \in 1..Len(inner[s]) : inner'[s][i] = inner[s][i]
        /\ inner'[s][Len(inner[s]) + 1] = f
        /\ \A t \in Sources \ {s} : inner'[t] = inner[t]
    BY <1>1, <1>3
  <2>3. \A q, n : /\ \A k \in 0..Len(inner[s]) : CountIn(inner'[s], k, q, n) = CountIn(inner[s], k, q, n)
                  /\ CountIn(inner'[s], Len(inner[s]) + 1, q, n)
                       = CountIn(inner[s], Len(inner[s]), q, n) + One(f, q, n)
    <3>1. \A q, n : /\ \A k \in 0..Len(inner[s]) :
                          CountIn(Append(inner[s], f), k, q, n) = CountIn(inner[s], k, q, n)
                    /\ CountIn(Append(inner[s], f), Len(inner[s]) + 1, q, n)
                         = CountIn(inner[s], Len(inner[s]), q, n) + One(f, q, n)
      BY <1>1, <2>2, AppendCount
    <3>2. QED
      BY <2>2, <3>1
  <2>4. InnerSeq'
    <3>1. ASSUME NEW t \in Sources, NEW i \in DOMAIN inner'[t], NEW g, g = inner'[t][i]
          PROVE  g.seq = Sent(g.route, g.session) + CountIn(inner'[t], i, g.route, g.session)
      <4>1. CASE t # s
        BY <2>2, <3>1, <4>1 DEF InnerSeq
      <4>2. CASE t = s /\ i \in 1..Len(inner[s])
        <5>1. i \in DOMAIN inner[s] /\ g = inner[s][i]
          BY <2>2, <3>1, <4>2
        <5>2. g.seq = Sent(g.route, g.session) + CountIn(inner[s], i, g.route, g.session)
          BY <1>1, <5>1 DEF InnerSeq
        <5>3. CountIn(inner'[s], i, g.route, g.session) = CountIn(inner[s], i, g.route, g.session)
          BY <2>2, <2>3, <4>2
        <5>4. QED
          BY <4>2, <5>2, <5>3
      <4>3. CASE t = s /\ i = Len(inner[s]) + 1
        <5>1. g = f
          BY <2>2, <3>1, <4>3
        <5>2. One(f, r, session[s]) = 1
          BY <1>1 DEF One
        <5>3. CountIn(inner'[s], i, r, session[s]) = Waiting(r, session[s]) + 1
          BY <2>3, <4>3, <5>2 DEF Waiting
        <5>4. QED
          BY <1>1, <1>2, <4>3, <5>1, <5>3, SentType
      <4>4. QED
        BY <2>2, <3>1, <4>1, <4>2, <4>3
    <3>2. QED
      BY <2>1, <3>1 DEF InnerSeq, CountIn, Of
  <2>5. \A q \in Routes : \A n : Waiting(q, n)' = Waiting(q, n) + One(f, q, n)
    <3>1. ASSUME NEW q \in Routes, NEW n PROVE Waiting(q, n)' = Waiting(q, n) + One(f, q, n)
      <4>1. CASE SourceOf[q] = s
        <5>1. /\ Waiting(q, n) = CountIn(inner[s], Len(inner[s]), q, n)
              /\ Waiting(q, n)' = CountIn(inner'[s], Len(inner'[s]), q, n)
          BY <4>1 DEF Waiting, CountIn, Of
        <5>2. QED
          BY <2>2, <2>3, <5>1
      <4>2. CASE SourceOf[q] # s
        <5>1. SourceOf[q] \in Sources \ {s}
          BY <4>2, SourceOfRoute
        <5>2. One(f, q, n) = 0
          BY <1>1, <4>2, OtherOne
        <5>3. Waiting(q, n)' = Waiting(q, n)
          BY <2>2, <5>1 DEF Waiting
        <5>4. QED
          BY <5>2, <5>3, SentType
      <4>3. QED
        BY <4>1, <4>2
    <3>2. QED
      BY <3>1
  <2>6. \A q \in Routes : \A n : (Sent(q, n) + Waiting(q, n))'
                                 = Sent(q, n) + Waiting(q, n) + One(f, q, n)
    <3>1. ASSUME NEW q \in Routes, NEW n
          PROVE  Sent(q, n)' + Waiting(q, n)' = Sent(q, n) + Waiting(q, n) + One(f, q, n)
      <4>1. Sent(q, n)' = Sent(q, n) /\ Waiting(q, n)' = Waiting(q, n) + One(f, q, n)
        BY <2>1, <2>5
      <4>2. Sent(q, n) \in Nat /\ Waiting(q, n) \in Nat /\ One(f, q, n) \in Nat
        BY SentType
      <4>3. QED
        BY <4>1, <4>2
    <3>2. QED
      BY <3>1
  <2>7. IngestInv'
    BY <2>6, IngestGrows
  <2>8. QED
    BY <2>1, <2>4, <2>7
<1>4. CASE ~Multiplexed(s) /\ Yield(s, f) /\ UNCHANGED inner
  <2>1. inner[s] = <<>> /\ Waiting(r, session[s]) = 0
    BY <1>1, <1>4, CountType DEF QueueInv, Waiting
  <2>2. f.seq = Sent(f.route, f.session) + 1
    BY <1>1, <1>2, <2>1, SentType
  <2>3. /\ TakenSeq' /\ MergedSeq'
        /\ \A q, n : Sent(q, n)' = Sent(q, n) + One(f, q, n)
    BY <1>1, <1>4, <2>2, YieldSeq
  <2>4. InnerSeq'
    <3>1. ASSUME NEW t \in Sources, NEW i \in DOMAIN inner[t], NEW g, g = inner[t][i]
          PROVE  g.seq = Sent(g.route, g.session)' + CountIn(inner[t], i, g.route, g.session)
      <4>1. t # s
        BY <2>1
      <4>2. One(f, g.route, g.session) = 0
        BY <1>1, <3>1, <4>1, InnerFrame, OtherOne
      <4>3. g.seq = Sent(g.route, g.session) + CountIn(inner[t], i, g.route, g.session)
        BY <3>1 DEF InnerSeq
      <4>4. Sent(g.route, g.session)' = Sent(g.route, g.session)
        <5>1. Sent(g.route, g.session)' = Sent(g.route, g.session) + One(f, g.route, g.session)
          BY <2>3, <3>1
        <5>2. QED
          BY <4>2, <5>1, SentType
      <4>5. QED
        BY <4>3, <4>4
    <3>2. QED
      BY <1>4, <3>1 DEF InnerSeq, CountIn, Of, Sent
  <2>5. IngestInv'
    <3>1. ASSUME NEW q \in Routes, NEW n
          PROVE  Sent(q, n)' + Waiting(q, n)' = Sent(q, n) + Waiting(q, n) + One(f, q, n)
      <4>1. Sent(q, n)' = Sent(q, n) + One(f, q, n)
        BY <2>3
      <4>2. Waiting(q, n)' = Waiting(q, n)
        BY <1>4 DEF Waiting
      <4>3. Sent(q, n) \in Nat /\ Waiting(q, n) \in Nat /\ One(f, q, n) \in Nat
        BY SentType
      <4>4. QED
        BY <4>1, <4>2, <4>3
    <3>2. QED
      BY <3>1, IngestGrows
  <2>6. QED
    BY <2>3, <2>4, <2>5
<1>5. QED
  BY <1>3, <1>4 DEF Receive

\* A frame that is passed on keeps its place in its connection.
LEMMA ForwardSeq ==
    ASSUME LiveTypeOK, QueueInv, SeqInv, NEW s \in Sources, Forward(s)
    PROVE  SeqInv'
<1> USE DEF SeqInv
<1> PICK f : f = Head(inner[s])
  OBVIOUS
<1>1. /\ status = Unfinished /\ inner \in [Sources -> Seq(Frame)] /\ inner[s] # <<>>
      /\ inner' = [inner EXCEPT ![s] = Tail(inner[s])] /\ Yield(s, f)
      /\ UNCHANGED <<run, phase, session, ingest, status>>
  BY DEF Forward, AdapterRuns, LiveTypeOK, result
<1>2. /\ inner[s] \in Seq(Frame) /\ f = inner[s][1] /\ 1 \in DOMAIN inner[s]
      /\ inner'[s] = Tail(inner[s]) /\ Len(inner'[s]) \in Nat /\ DOMAIN inner'[s] = 1..Len(inner'[s])
      /\ \A i \in 1..Len(inner'[s]) : i + 1 \in DOMAIN inner[s] /\ inner'[s][i] = inner[s][i + 1]
      /\ \A t \in Sources \ {s} : inner'[t] = inner[t]
  BY <1>1
<1>3. f \in Frame /\ f.route \in Routes /\ SourceOf[f.route] = s
  BY <1>2, InnerFrame
<1>4. f.seq = Sent(f.route, f.session) + 1
  <2>1. f.seq = Sent(f.route, f.session) + CountIn(inner[s], 1, f.route, f.session)
    BY <1>2 DEF InnerSeq
  <2>2. CountIn(inner[s], 0 + 1, f.route, f.session)
          = CountIn(inner[s], 0, f.route, f.session) + One(inner[s][0 + 1], f.route, f.session)
    BY NextCount
  <2>3. One(f, f.route, f.session) = 1
    BY DEF One
  <2>4. QED
    BY <1>2, <2>1, <2>2, <2>3, CountType
<1>5. /\ TakenSeq' /\ MergedSeq'
      /\ \A q, n : Sent(q, n)' = Sent(q, n) + One(f, q, n)
  BY <1>1, <1>3, <1>4, YieldSeq
<1>6. \A q, n : /\ \A k \in 0..Len(inner'[s]) :
                      CountIn(inner[s], k + 1, q, n) = One(f, q, n) + CountIn(inner'[s], k, q, n)
                /\ CountIn(inner[s], Len(inner[s]), q, n)
                     = One(f, q, n) + CountIn(inner'[s], Len(inner'[s]), q, n)
  <2>1. PICK q0 : q0 = inner[s]
    OBVIOUS
  <2>2. q0 \in Seq(Frame) /\ q0 # <<>> /\ f = Head(q0) /\ inner'[s] = Tail(q0)
    BY <1>1, <1>2, <2>1
  <2>3. \A q, n : /\ \A k \in 0..Len(Tail(q0)) :
                        CountIn(q0, k + 1, q, n) = One(Head(q0), q, n) + CountIn(Tail(q0), k, q, n)
                  /\ CountIn(q0, Len(q0), q, n)
                       = One(Head(q0), q, n) + CountIn(Tail(q0), Len(Tail(q0)), q, n)
    BY <2>2, TailCount
  <2>4. QED
    BY <2>1, <2>2, <2>3
<1>7. \A q, n : \A k \in Nat : CountIn(inner'[s], k, q, n) \in Nat
  BY CountType
<1>8. InnerSeq'
  <2>1. ASSUME NEW t \in Sources, NEW i \in DOMAIN inner'[t], NEW g, g = inner'[t][i]
        PROVE  g.seq = Sent(g.route, g.session)' + CountIn(inner'[t], i, g.route, g.session)
    <3>1. Sent(g.route, g.session)' = Sent(g.route, g.session) + One(f, g.route, g.session)
      BY <1>5
    <3>2. CASE t # s
      <4>1. inner'[t] = inner[t] /\ i \in DOMAIN inner[t] /\ g = inner[t][i]
        BY <1>2, <2>1, <3>2
      <4>2. g.route \in Routes /\ SourceOf[g.route] = t
        BY <4>1, InnerFrame
      <4>3. One(f, g.route, g.session) = 0
        BY <1>3, <3>2, <4>2, OtherOne
      <4>4. g.seq = Sent(g.route, g.session) + CountIn(inner[t], i, g.route, g.session)
        BY <4>1 DEF InnerSeq
      <4>5. QED
        BY <3>1, <4>1, <4>3, <4>4, SentType
    <3>3. CASE t = s
      <4>1. i \in 1..Len(inner'[s]) /\ g = inner[s][i + 1] /\ i + 1 \in DOMAIN inner[s]
        BY <1>2, <2>1, <3>3
      <4>2. g.seq = Sent(g.route, g.session) + CountIn(inner[s], i + 1, g.route, g.session)
        BY <4>1 DEF InnerSeq
      <4>3. CountIn(inner[s], i + 1, g.route, g.session)
              = One(f, g.route, g.session) + CountIn(inner'[s], i, g.route, g.session)
        BY <1>2, <1>6, <4>1
      <4>4. CountIn(inner'[s], i, g.route, g.session) \in Nat
        BY <1>2, <1>7, <4>1
      <4>5. QED
        BY <3>1, <3>3, <4>2, <4>3, <4>4, SentType
    <3>4. QED
      BY <3>2, <3>3
  <2>2. QED
    BY <2>1 DEF InnerSeq, CountIn, Of, Sent
<1>9. ASSUME NEW q \in Routes, NEW n
      PROVE  Sent(q, n)' + Waiting(q, n)' = Sent(q, n) + Waiting(q, n)
  <2>1. Sent(q, n)' = Sent(q, n) + One(f, q, n)
    BY <1>5
  <2>2. CASE SourceOf[q] = s
    <3>1. /\ Waiting(q, n) = CountIn(inner[s], Len(inner[s]), q, n)
          /\ Waiting(q, n)' = CountIn(inner'[s], Len(inner'[s]), q, n)
      BY <2>2 DEF Waiting, CountIn, Of
    <3>2. Waiting(q, n) = One(f, q, n) + Waiting(q, n)' /\ Waiting(q, n)' \in Nat
      BY <1>2, <1>6, <1>7, <3>1
    <3>3. QED
      BY <2>1, <3>2, SentType
  <2>3. CASE SourceOf[q] # s
    <3>1. Waiting(q, n)' = Waiting(q, n)
      BY <1>2, <2>3, SourceOfRoute DEF Waiting
    <3>2. One(f, q, n) = 0
      BY <1>3, <2>3, OtherOne
    <3>3. QED
      BY <2>1, <3>1, <3>2, SentType
  <2>4. QED
    BY <2>2, <2>3
<1>10. IngestInv'
  <2> SUFFICES ASSUME NEW q \in Routes
               PROVE  /\ phase[SourceOf[q]] = "open" =>
                            ingest[q] = Sent(q, session[SourceOf[q]])' + Waiting(q, session[SourceOf[q]])'
                      /\ \A n \in Nat : n > session[SourceOf[q]] => Sent(q, n)' + Waiting(q, n)' = 0
    BY <1>1 DEF IngestInv
  <2>1. PICK m : m = session[SourceOf[q]]
    OBVIOUS
  <2>2. /\ Sent(q, session[SourceOf[q]])' = Sent(q, m)'
        /\ Waiting(q, session[SourceOf[q]])' = Waiting(q, m)'
    BY <1>1, <2>1 DEF Sent, Waiting
  <2>3. QED
    BY <1>1, <1>9, <2>1, <2>2 DEF IngestInv
<1>11. QED
  BY <1>5, <1>8, <1>10

\* A new session has sent nothing and starts to number from the first frame.
LEMMA BeginSessionSeq ==
    ASSUME LiveTypeOK, SeqInv, NEW s \in Sources, BeginSession(s)
    PROVE  SeqInv'
<1> USE DEF SeqInv
<1>1. /\ status = Unfinished /\ UNCHANGED <<inner, merged, taken, status>>
      /\ session \in [Sources -> Nat] /\ session' = [session EXCEPT ![s] = @ + 1]
      /\ phase \in [Sources -> {"idle", "sleep", "open"}] /\ phase' = [phase EXCEPT ![s] = "open"]
      /\ ingest' = [r \in Routes |-> IF r \in RoutesOf[s] THEN 0 ELSE ingest[r]]
  BY DEF BeginSession, AdapterRuns, LiveTypeOK, result
<1>2. TakenSeq' /\ MergedSeq' /\ InnerSeq'
  <2>1. TakenSeq'
    BY <1>1 DEF TakenSeq, CountIn, Of
  <2>2. MergedSeq'
    BY <1>1 DEF MergedSeq, CountIn, Of
  <2>3. InnerSeq'
    BY <1>1 DEF InnerSeq, CountIn, Of, Sent
  <2>4. QED
    BY <2>1, <2>2, <2>3
<1>3. ASSUME NEW q \in Routes
      PROVE  /\ phase'[SourceOf[q]] = "open" =>
                   ingest'[q] = Sent(q, session'[SourceOf[q]]) + Waiting(q, session'[SourceOf[q]])
             /\ \A n \in Nat : n > session'[SourceOf[q]] => Sent(q, n) + Waiting(q, n) = 0
  <2>1. CASE SourceOf[q] = s
    <3>1. session'[s] \in Nat /\ session'[s] > session[s] /\ session[s] \in Nat
      BY <1>1
    <3>2. \A n \in Nat : n > session[s] => Sent(q, n) + Waiting(q, n) = 0
      BY <1>1, <2>1 DEF IngestInv
    <3>3. ingest'[q] = 0
      BY <1>1, <2>1, SourceOfRoute
    <3>4. QED
      BY <2>1, <3>1, <3>2, <3>3
  <2>2. CASE SourceOf[q] # s
    <3>1. /\ SourceOf[q] \in Sources \ {s} /\ q \notin RoutesOf[s]
      BY <2>2, SourceOfRoute
    <3>2. /\ session'[SourceOf[q]] = session[SourceOf[q]] /\ phase'[SourceOf[q]] = phase[SourceOf[q]]
          /\ ingest'[q] = ingest[q]
      BY <1>1, <3>1
    <3>3. QED
      BY <1>1, <3>2 DEF IngestInv
  <2>3. QED
    BY <2>1, <2>2
<1>4. IngestInv'
  BY <1>1, <1>3 DEF IngestInv, Sent, Waiting
<1>5. QED
  BY <1>2, <1>4

\* A failed session loses what waits in its queue; its numbers end with it.
LEMMA EndSessionSeq ==
    ASSUME LiveTypeOK, SeqInv, NEW s \in Sources, EndSession(s)
    PROVE  SeqInv'
<1> USE DEF SeqInv
<1>1. /\ status = Unfinished /\ UNCHANGED <<session, ingest, merged, taken, status>>
      /\ inner \in [Sources -> Seq(Frame)] /\ inner' = [inner EXCEPT ![s] = <<>>]
      /\ phase \in [Sources -> {"idle", "sleep", "open"}] /\ phase' = [phase EXCEPT ![s] = "sleep"]
  BY DEF EndSession, AdapterRuns, LiveTypeOK, result
<1>2. inner'[s] = <<>> /\ \A t \in Sources \ {s} : inner'[t] = inner[t]
  BY <1>1
<1>3. TakenSeq' /\ MergedSeq' /\ \A q, n : Sent(q, n)' = Sent(q, n)
  BY <1>1 DEF TakenSeq, MergedSeq, CountIn, Of, Sent
<1>4. InnerSeq'
  <2>1. ASSUME NEW t \in Sources, NEW i \in DOMAIN inner'[t], NEW g, g = inner'[t][i]
        PROVE  g.seq = Sent(g.route, g.session)' + CountIn(inner'[t], i, g.route, g.session)
    <3>1. inner'[t] = inner[t] /\ i \in DOMAIN inner[t] /\ g = inner[t][i]
      BY <1>2, <2>1
    <3>2. g.seq = Sent(g.route, g.session) + CountIn(inner[t], i, g.route, g.session)
      BY <3>1 DEF InnerSeq
    <3>3. QED
      BY <1>3, <3>1, <3>2
  <2>2. QED
    BY <2>1 DEF InnerSeq, CountIn, Of, Sent
<1>5. ASSUME NEW q \in Routes
      PROVE  \/ /\ SourceOf[q] = s /\ phase'[SourceOf[q]] # "open"
                /\ \A n : Waiting(q, n)' = 0
             \/ /\ phase'[SourceOf[q]] = phase[SourceOf[q]]
                /\ \A n : Waiting(q, n)' = Waiting(q, n)
  <2>1. CASE SourceOf[q] = s
    <3>1. \A n : Waiting(q, n)' = CountIn(<<>>, 0, q, n)
      BY <1>2, <2>1 DEF Waiting, CountIn, Of
    <3>2. QED
      BY <1>1, <2>1, <3>1, CountType
  <2>2. CASE SourceOf[q] # s
    BY <1>1, <1>2, <2>2, SourceOfRoute DEF Waiting
  <2>3. QED
    BY <2>1, <2>2
<1>6. ASSUME NEW q \in Routes
      PROVE  /\ phase'[SourceOf[q]] = "open" =>
                   ingest[q] = Sent(q, session[SourceOf[q]])' + Waiting(q, session[SourceOf[q]])'
             /\ \A n \in Nat : n > session'[SourceOf[q]] => Sent(q, n)' + Waiting(q, n)' = 0
  <2>1. PICK m : m = session[SourceOf[q]]
    OBVIOUS
  <2>2. /\ Sent(q, session[SourceOf[q]])' = Sent(q, m)'
        /\ Waiting(q, session[SourceOf[q]])' = Waiting(q, m)'
    BY <1>1, <2>1 DEF Sent, Waiting
  <2>3. /\ phase[SourceOf[q]] = "open" => ingest[q] = Sent(q, m) + Waiting(q, m)
        /\ \A n \in Nat : n > m => Sent(q, n) + Waiting(q, n) = 0
    BY <1>1, <2>1 DEF IngestInv
  <2>4. CASE /\ SourceOf[q] = s /\ phase'[SourceOf[q]] # "open"
             /\ \A n : Waiting(q, n)' = 0
    <3>1. ASSUME NEW n \in Nat, n > m PROVE Sent(q, n)' + Waiting(q, n)' = 0
      <4>1. Sent(q, n) + Waiting(q, n) = 0 /\ Sent(q, n) \in Nat /\ Waiting(q, n) \in Nat
        BY <2>3, <3>1, SentType
      <4>2. QED
        BY <1>3, <2>4, <4>1
    <3>2. QED
      BY <1>1, <2>1, <2>4, <3>1
  <2>5. CASE /\ phase'[SourceOf[q]] = phase[SourceOf[q]]
             /\ \A n : Waiting(q, n)' = Waiting(q, n)
    BY <1>1, <1>3, <2>1, <2>2, <2>3, <2>5
  <2>6. QED
    BY <1>5, <2>4, <2>5
<1>7. IngestInv'
  BY <1>1, <1>6 DEF IngestInv
<1>8. QED
  BY <1>3, <1>4, <1>7

\* At the start nothing has been numbered.
LEMMA SeqInit == Init => SeqInv
<1> SUFFICES ASSUME Init PROVE SeqInv
  OBVIOUS
<1>1. /\ taken = <<>> /\ merged = <<>> /\ \A s \in Sources : inner[s] = <<>> /\ phase[s] # "open"
  BY NewAdapterType DEF Init, NewAdapter
<1>2. \A q \in Routes : \A n : Sent(q, n) = 0 /\ Waiting(q, n) = 0
  <2>1. \A q, n : CountIn(<<>>, 0, q, n) = 0
    BY CountType
  <2>2. QED
    BY <1>1, <2>1, SourceOfRoute DEF Sent, Waiting
<1>3. TakenSeq /\ MergedSeq /\ InnerSeq
  BY <1>1 DEF TakenSeq, MergedSeq, InnerSeq
<1>4. IngestInv
  BY <1>1, <1>2, SourceOfRoute DEF IngestInv
<1>5. QED
  BY <1>3, <1>4 DEF SeqInv

\* Every step keeps the numbers of the frames that it does not lose.
LEMMA SeqStep == LiveTypeOK /\ QueueInv /\ SeqInv /\ [Next]_vars => SeqInv'
<1> SUFFICES ASSUME LiveTypeOK, QueueInv, SeqInv, [Next]_vars PROVE SeqInv'
  OBVIOUS
<1>1. CASE AdapterStep
  <2>1. CASE \E s \in Sources : BeginSession(s) \/ Forward(s) \/ EndSession(s)
    BY <2>1, BeginSessionSeq, ForwardSeq, EndSessionSeq
  <2>2. CASE \E r \in Routes : \E ack \in AcksOf(SourceOf[r]) : Receive(r, ack)
    BY <2>2, ReceiveSeq
  <2>3. QED
    BY <1>1, <2>1, <2>2 DEF AdapterStep
<1>2. CASE Take
  <2>1. /\ TakenSeq' /\ MergedSeq' /\ \A q, n : Sent(q, n)' = Sent(q, n)
        /\ UNCHANGED <<inner, session, phase, ingest, status>>
    BY <1>2, TakeSeq DEF SeqInv, Take, adapter, result
  <2>2. InnerSeq'
    <3>1. ASSUME NEW t \in Sources, NEW i \in DOMAIN inner[t], NEW g, g = inner[t][i]
          PROVE  g.seq = Sent(g.route, g.session)' + CountIn(inner[t], i, g.route, g.session)
      BY <2>1, <3>1 DEF SeqInv, InnerSeq
    <3>2. QED
      BY <2>1, <3>1 DEF InnerSeq, CountIn, Of, Sent
  <2>3. IngestInv'
    <3>1. ASSUME NEW q \in Routes
          PROVE  /\ Sent(q, session[SourceOf[q]])' = Sent(q, session[SourceOf[q]])
                 /\ Waiting(q, session[SourceOf[q]])' = Waiting(q, session[SourceOf[q]])
                 /\ \A n : Sent(q, n)' = Sent(q, n) /\ Waiting(q, n)' = Waiting(q, n)
      <4>1. PICK m : m = session[SourceOf[q]]
        OBVIOUS
      <4>2. /\ Sent(q, session[SourceOf[q]])' = Sent(q, m)'
            /\ Waiting(q, session[SourceOf[q]])' = Waiting(q, m)'
        BY <2>1, <4>1 DEF Sent, Waiting
      <4>3. \A n : Waiting(q, n)' = Waiting(q, n)
        BY <2>1 DEF Waiting
      <4>4. QED
        BY <2>1, <4>1, <4>2, <4>3
    <3>2. QED
      BY <2>1, <3>1 DEF SeqInv, IngestInv
  <2>4. QED
    BY <2>1, <2>2, <2>3 DEF SeqInv
<1>3. CASE Completes \/ Fails \/ Raises
  <2>1. LoopEnds /\ UNCHANGED taken /\ status' # Unfinished
    BY <1>3 DEF Completes, Fails, Raises, Unfinished
  <2>2. merged' = <<>> /\ \A s \in Sources : inner'[s] = <<>>
    BY <2>1, NewAdapterType DEF LoopEnds
  <2>3. TakenSeq'
    BY <2>1 DEF SeqInv, TakenSeq, CountIn, Of
  <2>4. MergedSeq' /\ InnerSeq' /\ IngestInv'
    BY <2>1, <2>2 DEF MergedSeq, InnerSeq, IngestInv, Unfinished
  <2>5. QED
    BY <2>3, <2>4 DEF SeqInv
<1>4. CASE Leaves \/ (\E by \in {"signal", "timer"} : request_stop(by)) \/ UNCHANGED vars
  <2>1. UNCHANGED <<phase, session, ingest, inner, merged, taken, status>>
    BY <1>4 DEF Leaves, LeaveStream, OutlivesStop, request_stop, vars, adapter, result
  <2>2. TakenSeq'
    BY <2>1 DEF SeqInv, TakenSeq, CountIn, Of
  <2>3. MergedSeq'
    BY <2>1 DEF SeqInv, MergedSeq, CountIn, Of
  <2>4. InnerSeq'
    BY <2>1 DEF SeqInv, InnerSeq, CountIn, Of, Sent
  <2>5. IngestInv'
    BY <2>1 DEF SeqInv, IngestInv, Sent, Waiting
  <2>6. QED
    BY <2>2, <2>3, <2>4, <2>5 DEF SeqInv
<1>5. QED
  BY <1>1, <1>2, <1>3, <1>4 DEF Next, RuntimeStep, Leaves
-----------------------------------------------------------------------------
(* Sessions *)

SameSource(f, g) == SourceOf[f.route] = SourceOf[g.route]

\* In a queue no frame is behind one of a later session of its source; nor is
\* one that is still queued behind one that left the queue; and no frame is of
\* a session that has not begun.
InSessionOrder(q) ==
    \A i \in DOMAIN q : \A j \in 1..(i - 1) : SameSource(q[j], q[i]) => q[j].session <= q[i].session
Behind(p, q) ==
    \A i \in DOMAIN q : \A j \in DOMAIN p : SameSource(p[j], q[i]) => p[j].session <= q[i].session
Begun(q) == \A i \in DOMAIN q : q[i].session <= session[SourceOf[q[i].route]]

SessionOrder ==
    /\ InSessionOrder(taken) /\ InSessionOrder(merged) /\ Behind(taken, merged)
    /\ status = Unfinished => Begun(taken) /\ Begun(merged)
    /\ \A s \in Sources : /\ inner[s] # <<>> => phase[s] = "open"
                          /\ \A i \in DOMAIN inner[s] : inner[s][i].session = session[s]

\* A frame of the current session is behind all others of its source.
LEMMA YieldOrder ==
    ASSUME LiveTypeOK, QueueInv, SessionOrder, status = Unfinished, NEW s \in Sources,
           NEW f \in FrameOf(s), f.session = session[s], Yield(s, f)
    PROVE  /\ InSessionOrder(taken') /\ InSessionOrder(merged') /\ Behind(taken', merged')
           /\ Begun(taken') /\ Begun(merged')
<1>1. /\ taken \in Seq(Frame) /\ merged \in Seq(Frame) /\ Len(taken) \in Nat /\ Len(merged) \in Nat
      /\ DOMAIN taken = 1..Len(taken) /\ DOMAIN merged = 1..Len(merged)
  BY QueueTypes
<1>2. f \in Frame /\ SourceOf[f.route] = s /\ session[s] \in Nat
  BY DEF FrameOf, LiveTypeOK
<1>3. /\ \A i \in DOMAIN taken : SameSource(taken[i], f) => taken[i].session <= f.session
      /\ \A i \in DOMAIN merged : SameSource(merged[i], f) => merged[i].session <= f.session
  BY <1>2 DEF SessionOrder, Begun, SameSource
<1>4. CASE merged' = Append(merged, f) /\ taken' = taken
  <2>1. /\ DOMAIN merged' = 1..(Len(merged) + 1)
        /\ \A i \in 1..Len(merged) : merged'[i] = merged[i]
        /\ merged'[Len(merged) + 1] = f
    BY <1>1, <1>4
  <2>2. ASSUME NEW i \in DOMAIN merged'
        PROVE  \/ i \in DOMAIN merged /\ merged'[i] = merged[i]
               \/ i = Len(merged) + 1 /\ merged'[i] = f
    <3>1. i \in 1..Len(merged) \/ i = Len(merged) + 1
      BY <1>1, <2>1
    <3>2. QED
      BY <1>1, <2>1, <3>1
  <2>3. InSessionOrder(merged')
    <3> SUFFICES ASSUME NEW i \in DOMAIN merged', NEW j \in 1..(i - 1), SameSource(merged'[j], merged'[i])
                 PROVE  merged'[j].session <= merged'[i].session
      BY DEF InSessionOrder
    <3>1. j \in DOMAIN merged /\ merged'[j] = merged[j]
      BY <1>1, <2>1
    <3>2. QED
      BY <1>3, <2>2, <3>1 DEF SessionOrder, InSessionOrder
  <2>4. Behind(taken', merged')
    BY <1>3, <1>4, <2>2 DEF SessionOrder, Behind
  <2>5. Begun(merged')
    BY <1>2, <2>2 DEF SessionOrder, Begun
  <2>6. QED
    BY <1>4, <2>3, <2>4, <2>5 DEF SessionOrder
<1>5. CASE run.runtime = "public" /\ taken' = Append(taken, f) /\ merged' = merged
  <2>1. /\ DOMAIN taken' = 1..(Len(taken) + 1)
        /\ \A i \in 1..Len(taken) : taken'[i] = taken[i]
        /\ taken'[Len(taken) + 1] = f
        /\ merged' = <<>>
    BY <1>1, <1>5 DEF QueueInv
  <2>2. ASSUME NEW i \in DOMAIN taken'
        PROVE  \/ i \in DOMAIN taken /\ taken'[i] = taken[i]
               \/ i = Len(taken) + 1 /\ taken'[i] = f
    <3>1. i \in 1..Len(taken) \/ i = Len(taken) + 1
      BY <1>1, <2>1
    <3>2. QED
      BY <1>1, <2>1, <3>1
  <2>3. InSessionOrder(taken')
    <3> SUFFICES ASSUME NEW i \in DOMAIN taken', NEW j \in 1..(i - 1), SameSource(taken'[j], taken'[i])
                 PROVE  taken'[j].session <= taken'[i].session
      BY DEF InSessionOrder
    <3>1. j \in DOMAIN taken /\ taken'[j] = taken[j]
      BY <1>1, <2>1
    <3>2. QED
      BY <1>3, <2>2, <3>1 DEF SessionOrder, InSessionOrder
  <2>4. Begun(taken')
    BY <1>2, <2>2 DEF SessionOrder, Begun
  <2>5. InSessionOrder(merged') /\ Behind(taken', merged') /\ Begun(merged')
    BY <2>1 DEF InSessionOrder, Behind, Begun
  <2>6. QED
    BY <2>3, <2>4, <2>5
<1>6. QED
  BY <1>4, <1>5 DEF Yield

\* The head of the merged queue is behind everything that was taken.
LEMMA TakeOrder ==
    ASSUME LiveTypeOK, SessionOrder, status = Unfinished, Take
    PROVE  /\ InSessionOrder(taken') /\ InSessionOrder(merged') /\ Behind(taken', merged')
           /\ Begun(taken') /\ Begun(merged')
<1> PICK f : f = Head(merged)
  OBVIOUS
<1>1. /\ taken \in Seq(Frame) /\ merged \in Seq(Frame) /\ merged # <<>>
      /\ Len(taken) \in Nat /\ Len(merged) \in Nat /\ f \in Frame
      /\ taken' = Append(taken, f) /\ merged' = Tail(merged)
  BY QueueTypes DEF Take
<1>2. /\ DOMAIN taken' = 1..(Len(taken) + 1) /\ DOMAIN taken = 1..Len(taken)
      /\ \A i \in 1..Len(taken) : taken'[i] = taken[i]
      /\ taken'[Len(taken) + 1] = f
  BY <1>1
<1>3. /\ Len(merged') + 1 = Len(merged) /\ DOMAIN merged' = 1..Len(merged')
      /\ \A i \in 1..Len(merged') : i + 1 \in DOMAIN merged /\ merged'[i] = merged[i + 1]
      /\ 1 \in DOMAIN merged /\ merged[1] = f /\ Len(merged') \in Nat
  BY <1>1
<1>4. ASSUME NEW i \in DOMAIN taken'
      PROVE  \/ i \in DOMAIN taken /\ taken'[i] = taken[i]
             \/ i = Len(taken) + 1 /\ taken'[i] = f
  <2>1. i \in 1..Len(taken) \/ i = Len(taken) + 1
    BY <1>1, <1>2
  <2>2. QED
    BY <1>1, <1>2, <2>1
<1>5. \A i \in DOMAIN taken : SameSource(taken[i], f) => taken[i].session <= f.session
  BY <1>3 DEF SessionOrder, Behind
<1>6. \A i \in DOMAIN merged' : SameSource(f, merged'[i]) => f.session <= merged'[i].session
  <2> SUFFICES ASSUME NEW i \in 1..Len(merged'), SameSource(f, merged'[i])
               PROVE  f.session <= merged'[i].session
    BY <1>3
  <2>1. i + 1 \in DOMAIN merged /\ merged'[i] = merged[i + 1] /\ 1 \in 1..((i + 1) - 1)
    BY <1>3
  <2>2. QED
    BY <1>3, <2>1 DEF SessionOrder, InSessionOrder
<1>7. InSessionOrder(taken')
  <2> SUFFICES ASSUME NEW i \in DOMAIN taken', NEW j \in 1..(i - 1), SameSource(taken'[j], taken'[i])
               PROVE  taken'[j].session <= taken'[i].session
    BY DEF InSessionOrder
  <2>1. j \in DOMAIN taken /\ taken'[j] = taken[j]
    BY <1>1, <1>2
  <2>2. QED
    BY <1>4, <1>5, <2>1 DEF SessionOrder, InSessionOrder
<1>8. InSessionOrder(merged')
  <2> SUFFICES ASSUME NEW i \in 1..Len(merged'), NEW j \in 1..(i - 1), SameSource(merged'[j], merged'[i])
               PROVE  merged'[j].session <= merged'[i].session
    BY <1>3 DEF InSessionOrder
  <2>1. /\ j \in 1..Len(merged') /\ j + 1 \in 1..((i + 1) - 1)
        /\ i + 1 \in DOMAIN merged /\ merged'[i] = merged[i + 1] /\ merged'[j] = merged[j + 1]
    BY <1>3
  <2>2. QED
    BY <2>1 DEF SessionOrder, InSessionOrder
<1>9. Behind(taken', merged')
  BY <1>3, <1>4, <1>6 DEF SessionOrder, Behind
<1>10. Begun(taken') /\ Begun(merged')
  BY <1>3, <1>4 DEF SessionOrder, Begun
<1>11. QED
  BY <1>7, <1>8, <1>9, <1>10

\* Every step keeps the sessions of a source in order.
LEMMA OrderStep == LiveTypeOK /\ QueueInv /\ SessionOrder /\ [Next]_vars => SessionOrder'
<1> SUFFICES ASSUME LiveTypeOK, QueueInv, SessionOrder, [Next]_vars PROVE SessionOrder'
  OBVIOUS
<1>1. ASSUME NEW s \in Sources, BeginSession(s) PROVE SessionOrder'
  <2>1. /\ UNCHANGED <<inner, merged, taken, status>>
        /\ session \in [Sources -> Nat] /\ session' = [session EXCEPT ![s] = @ + 1]
        /\ phase \in [Sources -> {"idle", "sleep", "open"}] /\ phase' = [phase EXCEPT ![s] = "open"]
        /\ status = Unfinished /\ phase[s] # "open"
    BY <1>1 DEF BeginSession, AdapterRuns, LiveTypeOK, result
  <2>2. /\ taken \in Seq(Frame) /\ merged \in Seq(Frame)
        /\ \A i \in DOMAIN taken : taken[i].session \in Nat /\ SourceOf[taken[i].route] \in Sources
        /\ \A i \in DOMAIN merged : merged[i].session \in Nat /\ SourceOf[merged[i].route] \in Sources
    <3>1. taken \in Seq(Frame) /\ merged \in Seq(Frame)
      BY QueueTypes
    <3>2. \A g \in Frame : g.session \in Nat /\ SourceOf[g.route] \in Sources
      BY SourceOfRoute, FrameFields
    <3>3. /\ \A i \in DOMAIN taken : taken[i] \in Frame
          /\ \A i \in DOMAIN merged : merged[i] \in Frame
      BY <3>1
    <3>4. QED
      BY <3>1, <3>2, <3>3
  <2>3. \A t \in Sources : session[t] <= session'[t]
    BY <2>1
  <2>4. Begun(taken)' /\ Begun(merged)'
    <3>1. ASSUME NEW t \in Sources, NEW n \in Nat, n <= session[t] PROVE n <= session'[t]
      <4>1. session[t] \in Nat /\ session'[t] \in Nat
        BY <2>1
      <4>2. QED
        BY <2>3, <3>1, <4>1
    <3>2. QED
      BY <2>1, <2>2, <3>1 DEF SessionOrder, Begun
  <2>5. InSessionOrder(taken)' /\ InSessionOrder(merged)' /\ Behind(taken, merged)'
    BY <2>1 DEF SessionOrder, InSessionOrder, Behind
  <2>6. \A t \in Sources : /\ inner'[t] # <<>> => phase'[t] = "open"
                           /\ \A i \in DOMAIN inner'[t] : inner'[t][i].session = session'[t]
    <3>1. inner[s] = <<>>
      BY <2>1 DEF SessionOrder
    <3>2. \A t \in Sources \ {s} : session'[t] = session[t] /\ phase'[t] = phase[t]
      BY <2>1
    <3>3. QED
      BY <2>1, <3>1, <3>2 DEF SessionOrder
  <2>7. QED
    BY <2>4, <2>5, <2>6 DEF SessionOrder
<1>2. ASSUME NEW s \in Sources, Forward(s) PROVE SessionOrder'
  <2> PICK f : f = Head(inner[s])
    OBVIOUS
  <2>1. /\ status = Unfinished /\ inner \in [Sources -> Seq(Frame)] /\ inner[s] # <<>>
        /\ inner' = [inner EXCEPT ![s] = Tail(inner[s])] /\ Yield(s, f)
        /\ UNCHANGED <<phase, session, status>>
    BY <1>2 DEF Forward, AdapterRuns, LiveTypeOK, result
  <2>2. /\ inner[s] \in Seq(FrameOf(s)) /\ f = inner[s][1] /\ 1 \in DOMAIN inner[s]
        /\ \A i \in DOMAIN inner'[s] : i + 1 \in DOMAIN inner[s] /\ inner'[s][i] = inner[s][i + 1]
        /\ \A t \in Sources \ {s} : inner'[t] = inner[t]
    BY <2>1 DEF LiveTypeOK
  <2>3. f \in FrameOf(s) /\ f.session = session[s]
    BY <2>2 DEF SessionOrder
  <2>4. /\ InSessionOrder(taken') /\ InSessionOrder(merged') /\ Behind(taken', merged')
        /\ Begun(taken') /\ Begun(merged')
    BY <2>1, <2>3, YieldOrder
  <2>5. Begun(taken)' /\ Begun(merged)'
    BY <2>1, <2>4 DEF Begun
  <2>6. \A t \in Sources : /\ inner'[t] # <<>> => phase[t] = "open"
                           /\ \A i \in DOMAIN inner'[t] : inner'[t][i].session = session[t]
    BY <2>1, <2>2 DEF SessionOrder
  <2>7. QED
    BY <2>1, <2>4, <2>5, <2>6 DEF SessionOrder, InSessionOrder, Behind
<1>3. ASSUME NEW s \in Sources, EndSession(s) PROVE SessionOrder'
  <2>1. /\ UNCHANGED <<session, merged, taken, status>>
        /\ inner \in [Sources -> Seq(Frame)] /\ inner' = [inner EXCEPT ![s] = <<>>]
        /\ phase \in [Sources -> {"idle", "sleep", "open"}] /\ phase' = [phase EXCEPT ![s] = "sleep"]
    BY <1>3 DEF EndSession, LiveTypeOK, result
  <2>2. \A t \in Sources : t # s => inner'[t] = inner[t] /\ phase'[t] = phase[t]
    BY <2>1
  <2>3. inner'[s] = <<>>
    BY <2>1
  <2>4. \A t \in Sources : /\ inner'[t] # <<>> => phase'[t] = "open"
                           /\ \A i \in DOMAIN inner'[t] : inner'[t][i].session = session'[t]
    BY <2>1, <2>2, <2>3 DEF SessionOrder
  <2>5. QED
    BY <2>1, <2>4 DEF SessionOrder, InSessionOrder, Behind, Begun
<1>4. ASSUME NEW r \in Routes, NEW ack \in AcksOf(SourceOf[r]), Receive(r, ack) PROVE SessionOrder'
  <2> PICK s : s = SourceOf[r]
    OBVIOUS
  <2> PICK f : f = FrameOn(r, ack)
    OBVIOUS
  <2>1. /\ s \in Sources /\ f \in FrameOf(s) /\ f.session = session[s] /\ f \in Frame
        /\ phase[s] = "open" /\ status = Unfinished /\ inner \in [Sources -> Seq(Frame)]
        /\ UNCHANGED <<phase, session, status>>
    <3>1. f \in FrameOf(s)
      BY FrameOnType
    <3>2. f.session = session[s]
      BY FrameOnFields
    <3>3. s \in Sources /\ f \in Frame
      BY <3>1, SourceOfRoute DEF FrameOf
    <3>4. phase[s] = "open" /\ status = Unfinished /\ UNCHANGED <<phase, session, status>>
      BY <1>4 DEF Receive, AdapterRuns, result
    <3>5. QED
      BY <3>1, <3>2, <3>3, <3>4 DEF LiveTypeOK
  <2>2. CASE inner' = [inner EXCEPT ![s] = Append(@, f)] /\ UNCHANGED <<merged, taken>>
    <3>1. /\ \A i \in DOMAIN inner'[s] : \/ i \in DOMAIN inner[s] /\ inner'[s][i] = inner[s][i]
                                         \/ inner'[s][i] = f
          /\ \A t \in Sources : t # s => inner'[t] = inner[t]
      BY <2>1, <2>2
    <3>2. \A t \in Sources : /\ inner'[t] # <<>> => phase'[t] = "open"
                             /\ \A i \in DOMAIN inner'[t] : inner'[t][i].session = session'[t]
      <4>1. \A t \in Sources : /\ inner[t] # <<>> => phase[t] = "open"
                               /\ \A i \in DOMAIN inner[t] : inner[t][i].session = session[t]
        BY DEF SessionOrder
      <4>2. ASSUME NEW t \in Sources, t # s
            PROVE  /\ inner'[t] # <<>> => phase'[t] = "open"
                   /\ \A i \in DOMAIN inner'[t] : inner'[t][i].session = session'[t]
        BY <2>1, <3>1, <4>1, <4>2
      <4>3. phase'[s] = "open" /\ \A i \in DOMAIN inner'[s] : inner'[s][i].session = session'[s]
        BY <2>1, <3>1, <4>1
      <4>4. QED
        BY <4>2, <4>3
    <3>3. InSessionOrder(taken)' /\ InSessionOrder(merged)' /\ Behind(taken, merged)'
      <4>1. InSessionOrder(taken) /\ InSessionOrder(merged) /\ Behind(taken, merged)
        BY DEF SessionOrder
      <4>2. InSessionOrder(taken)' /\ InSessionOrder(merged)'
        BY <2>2, <4>1 DEF InSessionOrder
      <4>3. Behind(taken, merged)'
        BY <2>2, <4>1 DEF Behind
      <4>4. QED
        BY <4>2, <4>3
    <3>4. Begun(taken)' /\ Begun(merged)'
      <4>1. Begun(taken) /\ Begun(merged)
        BY <2>1 DEF SessionOrder
      <4>2. QED
        BY <2>1, <2>2, <4>1 DEF Begun
    <3>5. QED
      BY <3>2, <3>3, <3>4 DEF SessionOrder
  <2>3. CASE Yield(s, f) /\ UNCHANGED inner
    <3>1. /\ InSessionOrder(taken') /\ InSessionOrder(merged') /\ Behind(taken', merged')
          /\ Begun(taken') /\ Begun(merged')
      BY <2>1, <2>3, YieldOrder
    <3>2. Begun(taken)' /\ Begun(merged)'
      BY <2>1, <3>1 DEF Begun
    <3>3. QED
      BY <2>1, <2>3, <3>1, <3>2 DEF SessionOrder, InSessionOrder, Behind
  <2>4. QED
    BY <1>4, <2>2, <2>3 DEF Receive
<1>5. CASE Take
  <2>1. UNCHANGED <<inner, phase, session, status>> /\ status = Unfinished
    BY <1>5 DEF Take, adapter, result
  <2>2. /\ InSessionOrder(taken') /\ InSessionOrder(merged') /\ Behind(taken', merged')
        /\ Begun(taken') /\ Begun(merged')
    BY <1>5, <2>1, TakeOrder
  <2>3. Begun(taken)' /\ Begun(merged)'
    BY <2>1, <2>2 DEF Begun
  <2>4. QED
    BY <2>1, <2>2, <2>3 DEF SessionOrder, InSessionOrder, Behind
<1>6. CASE Completes \/ Fails \/ Raises
  <2>1. LoopEnds /\ UNCHANGED taken /\ status' # Unfinished
    BY <1>6 DEF Completes, Fails, Raises, Unfinished
  <2>2. merged' = <<>> /\ \A s \in Sources : inner'[s] = <<>>
    BY <2>1, NewAdapterType DEF LoopEnds
  <2>3. InSessionOrder(taken)'
    BY <2>1 DEF SessionOrder, InSessionOrder
  <2>4. InSessionOrder(merged)' /\ Behind(taken, merged)'
    BY <2>2 DEF InSessionOrder, Behind
  <2>5. \A s \in Sources : /\ inner'[s] # <<>> => phase'[s] = "open"
                           /\ \A i \in DOMAIN inner'[s] : inner'[s][i].session = session'[s]
    BY <2>2
  <2>6. QED
    BY <2>1, <2>3, <2>4, <2>5 DEF SessionOrder, Unfinished
<1>7. CASE Leaves \/ (\E by \in {"signal", "timer"} : request_stop(by)) \/ UNCHANGED vars
  <2>1. UNCHANGED <<phase, session, inner, merged, taken, status>>
    BY <1>7 DEF Leaves, LeaveStream, OutlivesStop, request_stop, vars, adapter, result
  <2>2. QED
    BY <2>1 DEF SessionOrder, InSessionOrder, Behind, Begun
<1>8. CASE AdapterStep
  BY <1>1, <1>2, <1>3, <1>4, <1>8 DEF AdapterStep
<1>9. QED
  BY <1>5, <1>6, <1>7, <1>8 DEF Next, RuntimeStep, Leaves

\* The place of a frame among those of its connection is one more than the
\* number of them before it.
LEMMA PlaceOfFrame ==
    ASSUME LiveTypeOK, TakenSeq, NEW i \in DOMAIN taken
    PROVE  taken[i].seq =
             1 + Cardinality({j \in {k \in 1..(i - 1) : SameSource(taken[k], taken[i])} :
                                 /\ taken[j].route = taken[i].route
                                 /\ taken[j].session = taken[i].session})
<1> PICK r, n : r = taken[i].route /\ n = taken[i].session
  OBVIOUS
<1>1. i \in Nat /\ i - 1 \in Nat /\ (i - 1) + 1 = i
  BY QueueTypes
<1>2. CountIn(taken, i, r, n) = CountIn(taken, i - 1, r, n) + One(taken[i], r, n)
  <2>1. CountIn(taken, (i - 1) + 1, r, n)
          = CountIn(taken, i - 1, r, n) + One(taken[(i - 1) + 1], r, n)
    BY <1>1, NextCount
  <2>2. QED
    BY <1>1, <2>1
<1>3. One(taken[i], r, n) = 1 /\ CountIn(taken, i - 1, r, n) \in Nat
  BY <1>1, CountType DEF One
<1>4. Of(taken, i - 1, r, n)
        = {j \in {k \in 1..(i - 1) : SameSource(taken[k], taken[i])} :
              taken[j].route = taken[i].route /\ taken[j].session = taken[i].session}
  BY DEF Of, SameSource
<1>5. taken[i].seq = CountIn(taken, i, r, n)
  BY DEF TakenSeq
<1>6. taken[i].seq = 1 + CountIn(taken, i - 1, r, n)
  BY <1>2, <1>3, <1>5
<1>7. QED
  BY <1>4, <1>6 DEF CountIn

\* The recorder is given the frames of a connection without a gap from the
\* first, in order, and no frame of a session behind one of a later session of
\* its source, whatever the queues of the adapters and of the multiplexer hold
\* and whatever a failed route makes them lose (frames and session_frames of the
\* adapters, merge_capture_sources).
THEOREM ConnectionOrderHolds == Spec => []ConnectionOrder
<1>1. LiveTypeOK /\ SeqInv /\ SessionOrder => ConnectionOrder
  <2> SUFFICES ASSUME LiveTypeOK, SeqInv, SessionOrder, NEW i \in DOMAIN taken
               PROVE  /\ \A j \in {k \in 1..(i - 1) : SameSource(taken[k], taken[i])} :
                            taken[j].session <= taken[i].session
                      /\ taken[i].seq =
                           1 + Cardinality({j \in {k \in 1..(i - 1) : SameSource(taken[k], taken[i])} :
                                               /\ taken[j].route = taken[i].route
                                               /\ taken[j].session = taken[i].session})
    BY DEF ConnectionOrder, SameSource
  <2>1. \A j \in 1..(i - 1) : SameSource(taken[j], taken[i]) => taken[j].session <= taken[i].session
    BY DEF SessionOrder, InSessionOrder
  <2>2. QED
    BY <2>1, PlaceOfFrame DEF SeqInv
<1>2. Init => SessionOrder
  <2> SUFFICES ASSUME Init PROVE SessionOrder
    OBVIOUS
  <2>1. taken = <<>> /\ merged = <<>> /\ \A s \in Sources : inner[s] = <<>>
    BY NewAdapterType DEF Init
  <2>2. QED
    BY <2>1 DEF SessionOrder, InSessionOrder, Behind, Begun
<1>3. Spec => [](LiveTypeOK /\ QueueInv)
  <2>1. PendingInv => QueueInv
    BY DEF PendingInv
  <2>2. QED
    BY LiveTypeCorrect, PendingInit, PendingStep, <2>1, PTL DEF Spec
<1>4. Spec => []SeqInv
  BY <1>3, SeqInit, SeqStep, PTL DEF Spec
<1>5. Spec => []SessionOrder
  BY <1>2, <1>3, OrderStep, PTL DEF Spec
<1>6. QED
  BY <1>1, <1>3, <1>4, <1>5, PTL
-----------------------------------------------------------------------------
(* The pace of reconnects *)

\* The smaller and the larger of two integers.
LEMMA TwoIntegers ==
    ASSUME NEW a \in Int, NEW b \in Int
    PROVE  /\ Min({a, b}) = IF a <= b THEN a ELSE b
           /\ Max({a, b}) = IF a <= b THEN b ELSE a
<1>1. Min({a, b}) = IF a <= b THEN a ELSE b
  <2> PICK m : m = IF a <= b THEN a ELSE b
    OBVIOUS
  <2>1. m \in {a, b} /\ \A y \in {a, b} : m <= y
    OBVIOUS
  <2>2. \A x \in {a, b} : (\A y \in {a, b} : x <= y) => x = m
    OBVIOUS
  <2>3. QED
    BY <2>1, <2>2 DEF Min
<1>2. Max({a, b}) = IF a <= b THEN b ELSE a
  <2> PICK m : m = IF a <= b THEN b ELSE a
    OBVIOUS
  <2>1. m \in {a, b} /\ \A y \in {a, b} : m >= y
    OBVIOUS
  <2>2. \A x \in {a, b} : (\A y \in {a, b} : x >= y) => x = m
    OBVIOUS
  <2>3. QED
    BY <2>1, <2>2 DEF Max
<1>3. QED
  BY <1>1, <1>2

\* A power of two counts the subsets of a finite set.
LEMMA PowerOfTwo ==
    ASSUME NEW k \in Nat
    PROVE  2 ^ k \in Nat
<1>1. IsFiniteSet(1..k) /\ Cardinality(1..k) = k
  BY FS_Interval
<1>2. IsFiniteSet(SUBSET (1..k)) /\ Cardinality(SUBSET (1..k)) = 2 ^ k
  BY <1>1, FS_SUBSET
<1>3. QED
  BY <1>2, FS_CardinalityType

\* The delay that n failures in a row double the base delay to.
Doubled(p, n) == Min({p.max, p.base * 2 ^ Min({n, 30})})

\* It is the base delay at first, and never more than the maximum.
LEMMA DoubledType ==
    ASSUME NEW p, ValidPolicy(p), NEW n \in Nat
    PROVE  Doubled(p, n) \in Nat /\ Doubled(p, n) <= p.max /\ Doubled(p, 0) = p.base
<1>1. p.base \in Nat /\ p.max \in Nat /\ p.base <= p.max
  BY DEF ValidPolicy
<1>2. Min({n, 30}) \in Nat /\ Min({0, 30}) = 0
  BY TwoIntegers
<1>3. 2 ^ Min({n, 30}) \in Nat
  BY <1>2, PowerOfTwo
<1>4. p.base * 2 ^ Min({n, 30}) \in Nat
  BY <1>1, <1>3
<1>5. Doubled(p, n) \in Nat /\ Doubled(p, n) <= p.max
  BY <1>1, <1>4, TwoIntegers DEF Doubled
<1>6. Doubled(p, 0) = p.base
  <2>1. p.base * 2 ^ 0 = p.base
    <3>1. 2 ^ 0 = 1
      OBVIOUS
    <3>2. QED
      BY <1>1, <3>1
  <2>2. Doubled(p, 0) = Min({p.max, p.base})
    BY <1>2, <2>1 DEF Doubled
  <2>3. QED
    BY <1>1, <2>2, TwoIntegers
<1>7. QED
  BY <1>5, <1>6

\* The jitter is a part of the delay.
LEMMA JitterOf ==
    ASSUME NEW base \in Nat, NEW jitter \in Nat
    PROVE  /\ (base * jitter) \div 100 \in Nat
           /\ 100 * ((base * jitter) \div 100) <= base * jitter
           /\ base * (100 + jitter) = 100 * base + base * jitter
           /\ base * (100 - jitter) = 100 * base - base * jitter
<1>1. \A x \in Nat : x \div 100 \in Nat /\ 100 * (x \div 100) <= x
  OBVIOUS
<1>2. base * jitter \in Nat
  OBVIOUS
<1>3. base * (100 + jitter) = 100 * base + base * jitter
  OBVIOUS
<1>4. base * (100 - jitter) = 100 * base - base * jitter
  OBVIOUS
<1>5. QED
  BY <1>1, <1>2, <1>3, <1>4

\* Whatever the random number, a delay is within the jitter of the doubled one,
\* the floor and the maximum.
LEMMA DelayBounds ==
    ASSUME NEW p, ValidPolicy(p), NEW n \in Nat, n > 0, NEW d \in Delays(p, n)
    PROVE  /\ d \in Int /\ p.floor <= d /\ d <= Max({p.floor, p.max})
           /\ 100 * d <= Max({100 * p.floor, Doubled(p, n - 1) * (100 + p.jitter)})
           /\ 100 * d >= Doubled(p, n - 1) * (100 - p.jitter)
<1> PICK base : base = Doubled(p, n - 1)
  OBVIOUS
<1> PICK floor, max, jitter : floor = p.floor /\ max = p.max /\ jitter = p.jitter
  OBVIOUS
<1> PICK span : span = (base * jitter) \div 100
  OBVIOUS
<1>1. floor \in Nat /\ max \in Nat /\ jitter \in Nat /\ base \in Nat /\ base <= max
  <2>1. floor \in Nat /\ max \in Nat /\ jitter \in Nat
    BY DEF ValidPolicy
  <2>2. n - 1 \in Nat
    OBVIOUS
  <2>3. QED
    BY <2>1, <2>2, DoubledType
<1>2. /\ span \in Nat /\ 100 * span <= base * jitter /\ base * jitter \in Nat
      /\ base * (100 + jitter) = 100 * base + base * jitter
      /\ base * (100 - jitter) = 100 * base - base * jitter
  <2>1. /\ span \in Nat /\ 100 * span <= base * jitter
    BY <1>1, JitterOf
  <2>2. base * jitter \in Nat
    BY <1>1
  <2>3. base * (100 + jitter) = 100 * base + base * jitter
    BY <1>1
  <2>4. base * (100 - jitter) = 100 * base - base * jitter
    BY <1>1
  <2>5. QED
    BY <2>1, <2>2, <2>3, <2>4
<1>3. PICK x : d = Clamp(floor, x, max) /\ x \in {base + 0, base + span, base - span}
  BY DEF Delays, Doubled
<1>4. x \in Int /\ base - span <= x /\ x <= base + span
  BY <1>1, <1>2, <1>3
<1>5. /\ x <= max /\ floor <= x => d = x
      /\ x <= max /\ x < floor => d = floor
      /\ max < x /\ floor <= max => d = max
      /\ max < x /\ max < floor => d = floor
  <2>1. floor \in Int /\ x \in Int /\ max \in Int
    BY <1>1, <1>4
  <2>2. PICK low : low = Min({x, max})
    OBVIOUS
  <2>3. low = IF x <= max THEN x ELSE max
    BY <2>1, <2>2, TwoIntegers
  <2>4. low \in Int
    BY <2>1, <2>3
  <2>5. Max({floor, low}) = IF floor <= low THEN low ELSE floor
    BY <2>1, <2>4, TwoIntegers
  <2>6. d = Max({floor, low})
    BY <1>3, <2>2 DEF Clamp
  <2>7. QED
    BY <2>1, <2>3, <2>5, <2>6
<1>6. d \in Int /\ floor <= d
  BY <1>1, <1>4, <1>5
<1>7. d <= Max({floor, max})
  <2>1. floor \in Int /\ max \in Int
    BY <1>1
  <2>2. Max({floor, max}) = IF floor <= max THEN max ELSE floor
    BY <2>1, TwoIntegers
  <2>3. QED
    BY <1>1, <1>4, <1>5, <2>2
<1>8. 100 * d <= Max({100 * floor, base * (100 + jitter)})
  <2>1. PICK most \in Int : most = base * (100 + jitter)
    BY <1>1
  <2>2. 100 * x <= most
    BY <1>1, <1>2, <1>4, <2>1
  <2>3. PICK least \in Int : least = 100 * floor
    BY <1>1
  <2>4. Max({least, most}) = IF least <= most THEN most ELSE least
    BY TwoIntegers
  <2>5. d = floor \/ d <= x
    BY <1>1, <1>4, <1>5
  <2>6. 100 * d <= least \/ 100 * d <= most
    BY <1>4, <1>6, <2>2, <2>3, <2>5
  <2>7. 100 * d <= Max({least, most})
    BY <1>6, <2>4, <2>6
  <2>8. QED
    BY <2>1, <2>3, <2>7
<1>9. 100 * d >= base * (100 - jitter)
  <2>1. d >= base - span
    BY <1>1, <1>2, <1>4, <1>5
  <2>2. 100 * d >= 100 * base - 100 * span
    BY <1>1, <1>2, <1>6, <2>1
  <2>3. QED
    BY <1>1, <1>2, <1>6, <2>2
<1>10. QED
  BY <1>6, <1>7, <1>8, <1>9

\* The failures of an adapter are counted, and its delay is a number.
PaceInv == failures \in [Sources -> Nat] /\ delay \in [Sources -> Int]

\* The delay of a failed session is one that the failures so far lead to.
LEMMA EndSessionPace ==
    ASSUME PaceInv, NEW s \in Sources, EndSession(s)
    PROVE  /\ PaceInv'
           /\ \E n \in Nat : /\ n = (IF fruitful[s] THEN 0 ELSE failures[s])
                             /\ delay'[s] \in Delays(Policy[s], n + 1)
           /\ \A t \in Sources : t # s => phase'[t] = phase[t] \/ phase'[t] # "sleep"
<1> PICK n : n = (IF fruitful[s] THEN 0 ELSE failures[s])
  OBVIOUS
<1>1. n \in Nat
  BY DEF PaceInv
<1>2. failures' = [failures EXCEPT ![s] = n + 1] /\ failures'[s] = n + 1
  BY DEF EndSession, PaceInv
<1>3. PICK d \in Delays(Policy[s], n + 1) : delay' = [delay EXCEPT ![s] = d]
  BY <1>2 DEF EndSession
<1>4. ValidPolicy(Policy[s])
  BY LiveAssumption
<1>5. d \in Int
  <2>1. n + 1 \in Nat /\ n + 1 > 0
    BY <1>1
  <2>2. QED
    BY <1>3, <1>4, <2>1, DelayBounds
<1>6. PaceInv' /\ delay'[s] = d
  BY <1>1, <1>2, <1>3, <1>5 DEF PaceInv
<1>7. \A t \in Sources : t # s => phase'[t] = phase[t] \/ phase'[t] # "sleep"
  BY DEF EndSession
<1>8. QED
  BY <1>1, <1>3, <1>6, <1>7

\* The delays of one step: what ReconnectIsPaced says of it.
PacedStep ==
    \A s \in Sources : phase[s] = "open" /\ phase'[s] = "sleep" =>
        /\ Policy[s].floor <= delay'[s] /\ delay'[s] <= Max({Policy[s].floor, Policy[s].max})
        /\ fruitful[s] => 100 * delay'[s] <= Max({100 * Policy[s].floor,
                                                  Policy[s].base * (100 + Policy[s].jitter)})
        /\ ~fruitful[s] => 100 * delay'[s] >= Doubled(Policy[s], failures[s])
                                              * (100 - Policy[s].jitter)

\* Only the end of a session makes an adapter sleep, with the delay its
\* failures lead to.
LEMMA PaceStep == PaceInv /\ [Next]_vars => PaceInv' /\ PacedStep
<1> SUFFICES ASSUME PaceInv, [Next]_vars PROVE PaceInv' /\ PacedStep
  OBVIOUS
<1>1. ASSUME NEW s \in Sources, EndSession(s) PROVE PaceInv' /\ PacedStep
  <2>1. PaceInv' /\ \A t \in Sources : t # s => phase'[t] = phase[t] \/ phase'[t] # "sleep"
    BY <1>1, EndSessionPace
  <2>2. PICK n \in Nat : /\ n = (IF fruitful[s] THEN 0 ELSE failures[s])
                         /\ delay'[s] \in Delays(Policy[s], n + 1)
    BY <1>1, EndSessionPace
  <2>3. PICK p : p = Policy[s] /\ ValidPolicy(p)
    BY LiveAssumption
  <2>4. PICK d : d = delay'[s]
    OBVIOUS
  <2>5. n + 1 \in Nat /\ n + 1 > 0 /\ (n + 1) - 1 = n
    BY <2>2
  <2>6. d \in Delays(p, n + 1)
    BY <2>2, <2>3, <2>4
  <2>7. /\ p.floor <= d /\ d <= Max({p.floor, p.max})
        /\ 100 * d <= Max({100 * p.floor, Doubled(p, n) * (100 + p.jitter)})
        /\ 100 * d >= Doubled(p, n) * (100 - p.jitter)
    <3>1. PICK m \in Nat : m = n + 1 /\ m > 0 /\ m - 1 = n
      BY <2>5
    <3>2. d \in Delays(p, m)
      BY <2>6, <3>1
    <3>3. /\ p.floor <= d /\ d <= Max({p.floor, p.max})
          /\ 100 * d <= Max({100 * p.floor, Doubled(p, m - 1) * (100 + p.jitter)})
          /\ 100 * d >= Doubled(p, m - 1) * (100 - p.jitter)
      BY ZenonT(30), <2>3, <3>1, <3>2, DelayBounds
    <3>4. QED
      BY <3>1, <3>3
  <2>8. Doubled(p, 0) = p.base
    BY <2>3, DoubledType
  <2>9. /\ fruitful[s] => 100 * d <= Max({100 * p.floor, p.base * (100 + p.jitter)})
        /\ ~fruitful[s] => 100 * d >= Doubled(p, failures[s]) * (100 - p.jitter)
    BY <2>2, <2>7, <2>8
  <2>10. PacedStep
    BY ZenonT(30), <2>1, <2>3, <2>4, <2>7, <2>9 DEF PacedStep
  <2>11. QED
    BY <2>1, <2>10
<1>2. CASE \E s \in Sources : BeginSession(s) \/ Forward(s)
  <2>1. CASE \E s \in Sources : Forward(s)
    BY <2>1 DEF Forward, PaceInv, PacedStep
  <2>2. ASSUME NEW s \in Sources, BeginSession(s) PROVE PaceInv' /\ PacedStep
    <3>1. /\ failures' = failures /\ delay' = [delay EXCEPT ![s] = 0]
          /\ phase' = [phase EXCEPT ![s] = "open"]
      BY <2>2 DEF BeginSession
    <3>2. \A t \in Sources : phase'[t] = "sleep" => phase[t] # "open"
      BY <2>2, <3>1 DEF BeginSession
    <3>3. QED
      BY <3>1, <3>2 DEF PaceInv, PacedStep
  <2>3. QED
    BY <1>2, <2>1, <2>2
<1>3. CASE \E r \in Routes : \E ack \in AcksOf(SourceOf[r]) : Receive(r, ack)
  BY <1>3 DEF Receive, PaceInv, PacedStep
<1>4. CASE Completes \/ Fails \/ Raises
  <2>1. LoopEnds
    BY <1>4 DEF Completes, Fails, Raises
  <2>2. PaceInv'
    BY <2>1 DEF LoopEnds, NewAdapter, PaceInv
  <2>3. \A s \in Sources : phase'[s] = "idle"
    BY <2>1 DEF LoopEnds, NewAdapter
  <2>4. QED
    BY <2>2, <2>3 DEF PacedStep
<1>5. CASE Take \/ Leaves \/ (\E by \in {"signal", "timer"} : request_stop(by)) \/ UNCHANGED vars
  <2>1. UNCHANGED <<phase, failures, delay>>
    BY <1>5 DEF Take, Leaves, LeaveStream, OutlivesStop, request_stop, vars, adapter
  <2>2. QED
    BY <2>1 DEF PaceInv, PacedStep
<1>6. CASE AdapterStep
  BY <1>1, <1>2, <1>3, <1>6 DEF AdapterStep
<1>7. QED
  BY <1>4, <1>5, <1>6 DEF Next, RuntimeStep, Leaves

\* However long the adapter fails, the next connection is opened after a delay
\* between the floor and the maximum; a session that gave a frame brings the
\* delay back to the base, and after one that gave none it has doubled, for
\* every policy the constructors accept and every random number (delay_seconds
\* and the loops of frames that count consecutive_failures).
THEOREM ReconnectIsPacedHolds == Spec => ReconnectIsPaced
<1>1. Init => PaceInv
  BY DEF Init, NewAdapter, PaceInv
<1>2. PaceInv /\ [Next]_vars
        => [\A s \in Sources : phase[s] = "open" /\ phase'[s] = "sleep" =>
              LET p == Policy[s]
                  doubled == Min({p.max, p.base * 2 ^ Min({failures[s], 30})})
              IN /\ p.floor <= delay'[s] /\ delay'[s] <= Max({p.floor, p.max})
                 /\ fruitful[s] => 100 * delay'[s] <= Max({100 * p.floor, p.base * (100 + p.jitter)})
                 /\ ~fruitful[s] => 100 * delay'[s] >= doubled * (100 - p.jitter)]_vars
  BY PaceStep, Zenon DEF PacedStep, Doubled
<1>3. Spec => []PaceInv
  BY <1>1, PaceStep, PTL DEF Spec
<1>4. QED
  BY <1>2, <1>3, PTL DEF Spec, ReconnectIsPaced
=============================================================================
