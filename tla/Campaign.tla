------------------------------ MODULE Campaign ------------------------------
(***************************************************************************)
(* The fixed-duration evidence campaign: research/development_campaign.py  *)
(* over runtime/frontier_segment.py, both under src/cryptobot.  Two        *)
(* services, started again and again by systemd timers, share the files of *)
(* a campaign root: the capture service records one segment a cycle, the   *)
(* process service turns captured segments into published members.  The    *)
(* status command looks on, and it too recovers the start.  All they know  *)
(* of each other, and of their own past, is which files exist.             *)
(*                                                                         *)
(* A file is created (open "xb"), then written: in between it is empty, and*)
(* it stays empty if the process is killed there or the disk is full.      *)
(***************************************************************************)
EXTENDS Naturals, FiniteSets

CONSTANTS MaxRuns,      \* bound: capture attempts
          MaxTime,      \* bound: the wall clock
          MaxKills,     \* bound: kills of a service
          Duration,     \* duration_seconds of the protocol
          Disturbances  \* what happens besides: kills, kills that tear a file

ASSUME CampaignAssumption ==
    /\ MaxRuns \in Nat /\ MaxTime \in Nat /\ MaxKills \in Nat
    /\ Duration \in Nat \ {0}
    /\ Disturbances \subseteq {"kill", "torn"}

VARIABLES
    now,        \* the wall clock
    kills,      \* kills so far
    at,         \* started_wall_ns of each attempt
    file,       \* the files of each run
    start,      \* campaign-start.json: its state, first_run_id, started_wall_ns
    complete,   \* campaign-complete.json
    service     \* each service: its step, the run it works on, 0 while there is
                \* none, and the earliest accepted run it has found

disk  == <<at, file, start, complete>>
clock == <<now, kills>>
vars  == <<clock, disk, service>>
-----------------------------------------------------------------------------
Runs       == 1 .. MaxRuns
Services   == {"capture", "process", "status"}
FileStates == {"absent", "empty", "whole"}
\* attempt-<run>.json, capture-ready.json, processing-started.json,
\* segment-evidence.json and development-membership.json
RunFiles   == {"attempt", "ready", "processing", "evidence", "membership"}
Steps      == {"idle", "recover", "create", "write", "plan", "attempt", "record",
               "ready", "finish", "complete", "completing", "work", "processing",
               "normalize", "evidence", "bind", "binding"}

\* The steps at which a service has created a file and not yet written it.
Writing    == {"write", "attempt", "ready", "completing", "processing", "evidence",
               "binding"}

Exists(r, f)  == file[r][f] # "absent"
Deadline      == start.at + Duration
Idle          == [pc |-> "idle", run |-> 0, candidate |-> 0]
At(p, step)   == service[p].pc = step
Run(p)        == service[p].run
GoesTo(p, step)     == service' = [service EXCEPT ![p].pc = step]
Takes(p, step, r)   == service' = [service EXCEPT ![p].pc = step, ![p].run = r]
Ends(p)             == service' = [service EXCEPT ![p] = Idle]
Creates(r, f) == file' = [file EXCEPT ![r][f] = "empty"]
Writes(r, f)  == file' = [file EXCEPT ![r][f] = "whole"]

\* Segment directories are sorted by their names, which begin with the attempt's
\* wall clock.
Before(r, q) == at[r] < at[q] \/ (at[r] = at[q] /\ r <= q)
First(S)     == CHOOSE r \in S : \A q \in S : Before(r, q)
-----------------------------------------------------------------------------
Init ==
    /\ now = 0 /\ kills = 0
    /\ at = [r \in Runs |-> 0]
    /\ file = [r \in Runs |-> [f \in RunFiles |-> "absent"]]
    /\ start = [file |-> "absent", run |-> 0, at |-> 0]
    /\ complete = "absent"
    /\ service = [p \in Services |-> Idle]

\* The timer starts the service again.
CycleStarts(p) ==
    /\ At(p, "idle")
    /\ GoesTo(p, "recover")
    /\ UNCHANGED <<clock, disk>>
-----------------------------------------------------------------------------
(* recover_campaign_start, of all three *)

AcceptedBug == {r \in Runs : Exists(r, "attempt")}
Accepted    == {r \in Runs : Exists(r, "attempt") /\ Exists(r, "ready")}

\* A service goes on when it knows the start.
WithStart(p) ==
    CASE p = "status"  -> Ends(p)
      [] p = "process" -> GoesTo(p, "work")
      [] p = "capture" -> GoesTo(p, IF Run(p) = 0 THEN "plan" ELSE "finish")

\* A file that does not decode ends the cycle with an error.
StartUndecodable ==
    \/ start.file = "empty"
    \/ start.file = "absent" /\ \E r \in Runs : file[r]["attempt"] = "empty"

StartIsRead(p) ==
    /\ At(p, "recover")
    /\ \/ StartUndecodable /\ Ends(p)
       \/ start.file = "whole" /\ WithStart(p)
       \/ /\ start.file = "absent" /\ ~StartUndecodable /\ Accepted = {}
          /\ IF p = "capture" THEN GoesTo(p, "plan") ELSE Ends(p)
       \/ /\ start.file = "absent" /\ ~StartUndecodable /\ Accepted # {}
          /\ service' = [service EXCEPT ![p].pc = "create",
                                        ![p].candidate = First(Accepted)]
    /\ UNCHANGED <<clock, disk>>

\* _write_immutable accepts a file of another service if it has the same bytes.
SameStartBug(p) == TRUE
SameStart(p)    == start.file = "whole" /\ start.run = service[p].candidate

StartIsCreated(p) ==
    /\ At(p, "create")
    /\ \/ /\ start.file = "absent"
          /\ start' = [start EXCEPT !.file = "empty"]
          /\ GoesTo(p, "write")
       \/ /\ start.file # "absent"
          /\ UNCHANGED start
          /\ IF SameStart(p) THEN WithStart(p) ELSE Ends(p)
    /\ UNCHANGED <<clock, at, file, complete>>

StartedAt(r)    == at[r]

StartIsWritten(p) ==
    /\ At(p, "write")
    /\ LET first == service[p].candidate IN
       start' = [file |-> "whole", run |-> first, at |-> StartedAt(first)]
    /\ WithStart(p)
    /\ UNCHANGED <<clock, at, file, complete>>

Recovers(p) == StartIsRead(p) \/ StartIsCreated(p) \/ StartIsWritten(p)
-----------------------------------------------------------------------------
(* capture_development_segment_sync *)

\* start as it was read at "recover": while no start is known no run is accepted,
\* and only this service makes one accepted.
OverDropped == FALSE
OverBug     == start.file = "whole" /\ now > Deadline
Over        == start.file = "whole" /\ now >= Deadline

NextRun == Cardinality({r \in Runs : Exists(r, "attempt")}) + 1

\* bound: no attempt beyond MaxRuns, and none that could start a campaign whose
\* deadline the clock of the model does not reach.
WithinBounds == NextRun \in Runs /\ (start.file = "absent" => now + Duration <= MaxTime)

\* plan_capture, then record_capture_attempt with the same reading of the clock.
Plans ==
    /\ At("capture", "plan")
    /\ \/ Over /\ GoesTo("capture", "complete") /\ UNCHANGED <<at, file>>
       \/ /\ ~Over /\ WithinBounds
          /\ at' = [at EXCEPT ![NextRun] = now]
          /\ Creates(NextRun, "attempt")
          /\ Takes("capture", "attempt", NextRun)
    /\ UNCHANGED <<clock, start, complete>>

AttemptIsWritten ==
    /\ At("capture", "attempt")
    /\ Writes(Run("capture"), "attempt")
    /\ GoesTo("capture", "record")
    /\ UNCHANGED <<clock, at, start, complete>>

\* The recorder runs; only a segment it accepts becomes capture-ready.
Records ==
    /\ At("capture", "record")
    /\ \/ Ends("capture") /\ UNCHANGED file
       \/ Creates(Run("capture"), "ready") /\ GoesTo("capture", "ready")
    /\ UNCHANGED <<clock, at, start, complete>>

ReadyIsWritten ==
    /\ At("capture", "ready")
    /\ Writes(Run("capture"), "ready")
    /\ GoesTo("capture", "recover")
    /\ UNCHANGED <<clock, at, start, complete>>

\* The clock is read again after the segment.
ReachedBug == now + 1 >= Deadline
Reached    == now >= Deadline

Finishes ==
    /\ At("capture", "finish")
    /\ IF Reached THEN GoesTo("capture", "complete") ELSE Ends("capture")
    /\ UNCHANGED <<clock, disk>>

\* publish_campaign_complete; an existing marker is read and checked.
Completes ==
    /\ At("capture", "complete")
    /\ \/ /\ complete = "absent"
          /\ complete' = "empty"
          /\ GoesTo("capture", "completing")
       \/ complete # "absent" /\ UNCHANGED complete /\ Ends("capture")
    /\ UNCHANGED <<clock, at, file, start>>

CompleteIsWritten ==
    /\ At("capture", "completing")
    /\ complete' = "whole"
    /\ Ends("capture")
    /\ UNCHANGED <<clock, at, file, start>>

Capture ==
    \/ Plans \/ AttemptIsWritten \/ Records \/ ReadyIsWritten
    \/ Finishes \/ Completes \/ CompleteIsWritten
-----------------------------------------------------------------------------
(* process_development_segment_sync *)

\* _discover_unbound_processed_segments, discover_pending_captured_segments.
Unbound == {r \in Runs : Exists(r, "evidence") /\ ~Exists(r, "membership")}
PendingBug == {r \in Runs : Exists(r, "ready") /\ ~Exists(r, "evidence")}
Pending == {r \in Runs : /\ Exists(r, "ready")
                         /\ ~Exists(r, "evidence") /\ ~Exists(r, "processing")}

\* bind_development_membership reads the evidence and the attempt, and refuses
\* an attempt outside the campaign's window.
InWindow(r) == start.at <= at[r] /\ at[r] < Deadline
CanBind(r)    == file[r]["evidence"] = "whole" /\ file[r]["attempt"] = "whole" /\ InWindow(r)
Binds(r) ==
    IF CanBind(r) THEN Takes("process", "binding", r) /\ Creates(r, "membership")
                  ELSE Ends("process") /\ UNCHANGED file

\* A published segment without membership comes first, then the first pending one.
Works ==
    /\ At("process", "work")
    /\ \/ Unbound # {} /\ Binds(First(Unbound))
       \/ /\ Unbound = {} /\ Pending # {}
          /\ IF /\ file[First(Pending)]["ready"] = "whole"
                /\ ~Exists(First(Pending), "processing")
             THEN /\ Takes("process", "processing", First(Pending))
                  /\ Creates(First(Pending), "processing")
             ELSE Ends("process") /\ UNCHANGED file
       \/ Unbound = {} /\ Pending = {} /\ Ends("process") /\ UNCHANGED file
    /\ UNCHANGED <<clock, at, start, complete>>

ProcessingIsWritten ==
    /\ At("process", "processing")
    /\ Writes(Run("process"), "processing")
    /\ GoesTo("process", "normalize")
    /\ UNCHANGED <<clock, at, start, complete>>

\* Normalisation and materialisation, which may refuse the segment.
Normalizes ==
    /\ At("process", "normalize")
    /\ \/ Ends("process") /\ UNCHANGED file
       \/ Creates(Run("process"), "evidence") /\ GoesTo("process", "evidence")
    /\ UNCHANGED <<clock, at, start, complete>>

EvidenceIsWritten ==
    /\ At("process", "evidence")
    /\ Writes(Run("process"), "evidence")
    /\ GoesTo("process", "bind")
    /\ UNCHANGED <<clock, at, start, complete>>

PublishedIsBound ==
    /\ At("process", "bind")
    /\ Binds(Run("process"))
    /\ UNCHANGED <<clock, at, start, complete>>

MembershipIsWritten ==
    /\ At("process", "binding")
    /\ Writes(Run("process"), "membership")
    /\ Ends("process")
    /\ UNCHANGED <<clock, at, start, complete>>

Process ==
    \/ Works \/ ProcessingIsWritten \/ Normalizes \/ EvidenceIsWritten
    \/ PublishedIsBound \/ MembershipIsWritten
-----------------------------------------------------------------------------
CaptureService == CycleStarts("capture") \/ Recovers("capture") \/ Capture
ProcessService == CycleStarts("process") \/ Recovers("process") \/ Process
StatusCommand  == CycleStarts("status") \/ Recovers("status")

\* SIGTERM, SIGKILL or a reboot: the services handle none of them.
Kill(p) ==
    /\ "kill" \in Disturbances /\ kills < MaxKills
    /\ ~At(p, "idle")
    /\ service[p].pc \in Writing => "torn" \in Disturbances
    /\ kills' = kills + 1
    /\ Ends(p)
    /\ UNCHANGED <<now, disk>>

Tick ==
    /\ now < MaxTime /\ now' = now + 1
    /\ UNCHANGED <<kills, disk, service>>

Next ==
    \/ CaptureService \/ ProcessService \/ StatusCommand
    \/ \E p \in Services: Kill(p)
    \/ Tick

Spec == Init /\ [][Next]_vars

\* The timers start the services again and again, a status command once started
\* ends, and time passes.  Nothing is assumed of the recorder's or the
\* normaliser's success.
FairSpec ==
    /\ Spec /\ WF_vars(Tick)
    /\ WF_vars(CaptureService) /\ WF_vars(ProcessService) /\ WF_vars(Recovers("status"))
-----------------------------------------------------------------------------
(* Properties *)

CampaignTypeOK ==
    /\ now \in Nat /\ at \in [Runs -> 0 .. now]
    /\ file \in [Runs -> [RunFiles -> FileStates]]
    /\ start \in [file: FileStates, run: 0 .. MaxRuns, at: 0 .. now]
    /\ complete \in FileStates
    /\ service \in [Services -> [pc: Steps, run: 0 .. MaxRuns, candidate: 0 .. MaxRuns]]

\* The clock of the campaign starts with the earliest accepted capture, whichever
\* service or command finds it and whatever was killed in between.
StartIsFirstAccepted ==
    start.file = "whole" =>
        /\ start.run \in Runs /\ Exists(start.run, "ready")
        /\ start.at = at[start.run]
        /\ \A r \in Runs : Exists(r, "ready") => start.at <= at[r]

\* No capture is accepted that started outside the window, so that binding never
\* refuses a published segment.
AcceptedInWindow == start.file = "whole" =>
    \A r \in Runs : Exists(r, "ready") => start.at <= at[r] /\ at[r] < Deadline

\* Once the campaign is complete nothing is captured any more.
NoCaptureAfterComplete ==
    [][complete # "absent" => {r \in Runs : Exists(r, "attempt")}' =
                              {r \in Runs : Exists(r, "attempt")}]_vars

\* A member was captured, accepted, processed and published, in that order, and
\* belongs to a campaign with a known start.
MembershipRestsOnEvidence ==
    \A r \in Runs : Exists(r, "membership") =>
        /\ start.file = "whole"
        /\ \A f \in {"attempt", "ready", "processing", "evidence"} : file[r][f] = "whole"

\* The marker of completion is published by elapsed time only.
CompleteByTime ==
    complete # "absent" => start.file = "whole" /\ now >= Deadline

\* Every accepted capture becomes a member, or stays visible as an incomplete or
\* refused processing (runbook stage2_development_campaign.md:97-99).
Settled(r) ==
    \/ file[r]["membership"] = "whole"
    \/ Exists(r, "processing") /\ ~Exists(r, "evidence") /\ At("process", "idle")
AcceptedIsSettled == \A r \in Runs : Exists(r, "ready") ~> Settled(r)

\* A campaign that has started completes.
CampaignCompletes == start.file = "whole" ~> complete = "whole"
=============================================================================
