--------------------------- MODULE CampaignProofs ---------------------------
(***************************************************************************)
(* Proofs about Campaign for every number of attempts and kills, every     *)
(* duration of the campaign, and with kills that tear a file.              *)
(***************************************************************************)
EXTENDS Campaign, FiniteSetTheorems, WellFoundedInduction, TLAPS
-----------------------------------------------------------------------------
(* The inductive invariant. *)

Known     == start.file = "whole"
NoneReady == \A r \in Runs : ~Exists(r, "ready")
Window(r) == start.at <= at[r] /\ at[r] < Deadline

CaptureSteps == {"plan", "attempt", "record", "ready", "finish", "complete", "completing"}
ProcessSteps == {"work", "processing", "normalize", "evidence", "bind", "binding"}

\* Attempts are numbered without a gap, so that the next number is new.
AttemptsInv == \A q, r \in Runs : q < r /\ Exists(r, "attempt") => Exists(q, "attempt")

\* Each file of a run rests on a whole one before it.
FilesInv ==
    \A r \in Runs :
        /\ Exists(r, "ready") => file[r]["attempt"] = "whole"
        /\ Exists(r, "processing") => file[r]["ready"] = "whole" /\ Known
        /\ Exists(r, "evidence") => file[r]["processing"] = "whole"
        /\ Exists(r, "membership") => file[r]["evidence"] = "whole"

\* Until the start is known at most one capture is accepted; from then on each
\* one is inside the window.
StartInv ==
    /\ Known => /\ start.run \in Runs /\ Exists(start.run, "ready")
                /\ start.at = at[start.run]
                /\ \A r \in Runs : Exists(r, "ready") => Window(r)
    /\ ~Known => \A q, r \in Runs : Exists(q, "ready") /\ Exists(r, "ready") => q = r
    /\ start.file = "empty" => ~NoneReady

CompleteInv == complete # "absent" => Known /\ now >= Deadline

\* What a service knows at each step.
ServiceInv(p) ==
    /\ service[p].pc \in CaptureSteps => p = "capture"
    /\ service[p].pc \in ProcessSteps => p = "process"
    /\ service[p].pc \in {"create", "write"} =>
          service[p].candidate \in Runs /\ Exists(service[p].candidate, "ready")
    /\ service[p].pc = "write" => start.file = "empty"
    /\ service[p].pc \in {"plan", "attempt", "record"} /\ ~Known => NoneReady
    /\ service[p].pc \in {"attempt", "record", "ready"} \cup (ProcessSteps \ {"work"}) =>
          service[p].run \in Runs
    /\ service[p].pc \in {"attempt", "record"} /\ Known => Window(service[p].run)
    /\ service[p].pc \in {"finish", "complete", "completing"} \cup ProcessSteps => Known
    /\ service[p].pc \in {"complete", "completing"} => now >= Deadline
    /\ service[p].pc = "attempt" => file[service[p].run]["attempt"] = "empty"
    /\ service[p].pc = "record" => /\ file[service[p].run]["attempt"] = "whole"
                                   /\ file[service[p].run]["ready"] = "absent"
    /\ service[p].pc = "ready" => file[service[p].run]["ready"] = "empty"
    /\ service[p].pc = "processing" => file[service[p].run]["processing"] = "empty"
    /\ service[p].pc = "normalize" => /\ file[service[p].run]["processing"] = "whole"
                                      /\ file[service[p].run]["evidence"] = "absent"
    /\ service[p].pc = "evidence" => file[service[p].run]["evidence"] = "empty"
    /\ service[p].pc = "bind" => file[service[p].run]["evidence"] = "whole"
    /\ service[p].pc = "binding" => Exists(service[p].run, "membership")

\* One service at a time writes the start.
OneWriter ==
    \A p, q \in Services : service[p].pc = "write" /\ service[q].pc = "write" => p = q

CampaignInv ==
    /\ CampaignTypeOK /\ AttemptsInv /\ FilesInv /\ StartInv /\ CompleteInv
    /\ \A p \in Services : ServiceInv(p)
    /\ OneWriter
-----------------------------------------------------------------------------
(* The earliest run of a set, the numbers of the attempts, files and steps. *)

LEMMA LeastNat ==
    ASSUME NEW T, T \subseteq Nat, T # {}
    PROVE  \E n \in T : \A m \in T : n <= m
<1> DEFINE Less == {ss \in Nat \X Nat : ss[1] < ss[2]}
<1>1. IsWellFoundedOn(Less, Nat)
  BY NatLessThanWellFounded, Zenon DEF OpToRel
<1>2. PICK n \in T : \A m \in T : ~(<<m, n>> \in Less)
  <2> HIDE DEF Less
  <2> QED
    BY <1>1, WFMin
<1>3. ASSUME NEW m \in T
      PROVE  n <= m
  <2>1. m < n => <<m, n>> \in Less
    BY n \in Nat, m \in Nat
  <2>2. ~(m < n)
    BY <1>2, <2>1
  <2> QED
    BY <2>2
<1> QED
  BY <1>3

LEMMA FirstIsOne ==
    ASSUME CampaignTypeOK, NEW S, S \subseteq Runs, S # {}
    PROVE  First(S) \in S
<1>1. at \in [Runs -> Nat] /\ Runs \subseteq Nat
  BY CampaignAssumption DEF CampaignTypeOK, Runs
<1>2. PICK n \in {at[r] : r \in S} : \A m \in {at[r] : r \in S} : n <= m
  <2>1. {at[r] : r \in S} \subseteq Nat /\ {at[r] : r \in S} # {}
    BY <1>1
  <2> QED
    BY <2>1, LeastNat
<1>3. PICK r \in {q \in S : at[q] = n} : \A q \in {p \in S : at[p] = n} : r <= q
  <2>1. {q \in S : at[q] = n} \subseteq Nat /\ {q \in S : at[q] = n} # {}
    BY <1>1, <1>2
  <2> QED
    BY <2>1, LeastNat
<1>4. \A q \in S : Before(r, q)
  <2> SUFFICES ASSUME NEW q \in S PROVE Before(r, q)
    OBVIOUS
  <2>1. at[r] = n /\ n <= at[q] /\ at[q] \in Nat /\ n \in Nat
    BY <1>1, <1>2, <1>3
  <2>2. at[q] = n => r <= q
    BY <1>3
  <2> QED
    BY <2>1, <2>2 DEF Before
<1> QED
  BY <1>3, <1>4 DEF First

LEMMA NextIsNew ==
    ASSUME AttemptsInv, NextRun \in Runs
    PROVE  /\ ~Exists(NextRun, "attempt")
           /\ \A q \in Runs : q < NextRun => Exists(q, "attempt")
<1> DEFINE A == {r \in Runs : Exists(r, "attempt")}
           n == Cardinality(A)
<1>1. IsFiniteSet(Runs) /\ Runs \subseteq Nat \ {0} /\ \A k \in Runs : 1 .. k \subseteq Runs
  BY CampaignAssumption, FS_Interval DEF Runs
<1>2. IsFiniteSet(A) /\ n \in Nat
  BY <1>1, FS_Subset, FS_CardinalityType
<1>3. NextRun = n + 1
  BY DEF NextRun
<1>4. ASSUME n + 1 \in A
      PROVE  FALSE
  <2>1. 1 .. n + 1 \subseteq A
    BY <1>1, <1>2, <1>4 DEF AttemptsInv
  <2>2. Cardinality(1 .. n + 1) = n + 1
    BY <1>2, FS_Interval
  <2>3. Cardinality(1 .. n + 1) <= n
    BY <1>2, <2>1, FS_Subset
  <2> QED
    BY <1>2, <2>2, <2>3
<1>5. ASSUME NEW q \in Runs, q < n + 1, q \notin A
      PROVE  FALSE
  <2>1. A \subseteq 1 .. q - 1
    <3> SUFFICES ASSUME NEW r \in A PROVE r \in 1 .. q - 1
      OBVIOUS
    <3>1. r \in Nat \ {0} /\ q \in Nat \ {0} /\ r # q
      BY <1>1, <1>5
    <3>2. ~(q < r)
      BY <1>5 DEF AttemptsInv
    <3> QED
      BY <3>1, <3>2
  <2>2. IsFiniteSet(1 .. q - 1) /\ Cardinality(1 .. q - 1) = q - 1
    <3>1. q \in Nat \ {0}
      BY <1>1
    <3> QED
      BY <3>1, FS_Interval
  <2>3. n <= q - 1
    BY <2>1, <2>2, FS_Subset
  <2> QED
    BY <1>1, <1>2, <1>5, <2>3
<1> HIDE DEF A, n
<1>6. n + 1 \in Runs
  BY <1>3
<1> QED
  BY <1>3, <1>4, <1>5, <1>6 DEF A

ServiceStates == [pc: Steps, run: 0 .. MaxRuns, candidate: 0 .. MaxRuns]
OthersWait(p) == \A q \in Services : q # p => service'[q] = service[q]

LEMMA SetService ==
    ASSUME CampaignTypeOK, NEW p \in Services
    PROVE  /\ service[p] \in ServiceStates
           /\ Ends(p) => /\ service' \in [Services -> ServiceStates] /\ OthersWait(p)
                         /\ service'[p] = Idle
           /\ \A step \in Steps :
                 GoesTo(p, step) =>
                    /\ service' \in [Services -> ServiceStates] /\ OthersWait(p)
                    /\ service'[p].pc = step /\ service'[p].run = service[p].run
                    /\ service'[p].candidate = service[p].candidate
           /\ \A step \in Steps, r \in Runs :
                 Takes(p, step, r) =>
                    /\ service' \in [Services -> ServiceStates] /\ OthersWait(p)
                    /\ service'[p].pc = step /\ service'[p].run = r
<1>1. service \in [Services -> ServiceStates]
  BY DEF CampaignTypeOK, ServiceStates
<1>2. Idle \in ServiceStates
  BY CampaignAssumption DEF Idle, ServiceStates, Steps
<1>3. Runs \subseteq 0 .. MaxRuns
  BY CampaignAssumption DEF Runs
<1>4. ASSUME Ends(p)
      PROVE  /\ service' \in [Services -> ServiceStates] /\ OthersWait(p)
             /\ service'[p] = Idle
  BY <1>1, <1>2, <1>4 DEF Ends, OthersWait
<1>5. ASSUME NEW step \in Steps, GoesTo(p, step)
      PROVE  /\ service' \in [Services -> ServiceStates] /\ OthersWait(p)
             /\ service'[p].pc = step /\ service'[p].run = service[p].run
             /\ service'[p].candidate = service[p].candidate
  BY <1>1, <1>5 DEF GoesTo, OthersWait, ServiceStates
<1>6. ASSUME NEW step \in Steps, NEW r \in Runs, Takes(p, step, r)
      PROVE  /\ service' \in [Services -> ServiceStates] /\ OthersWait(p)
             /\ service'[p].pc = step /\ service'[p].run = r
  BY <1>1, <1>3, <1>6 DEF Takes, OthersWait, ServiceStates
<1> QED
  BY <1>1, <1>4, <1>5, <1>6
-----------------------------------------------------------------------------
(* The kinds of steps. *)

\* A service that moves on, or ends, without touching a file.
LEMMA QuietStep ==
    ASSUME CampaignInv, NEW p \in Services, UNCHANGED <<now, disk>>,
           service' \in [Services -> ServiceStates], OthersWait(p),
           service'[p].pc # "write", ServiceInv(p)'
    PROVE  CampaignInv'
<1>1. UNCHANGED <<now, at, file, start, complete>>
  BY DEF disk
<1>2. CampaignTypeOK'
  BY <1>1 DEF CampaignInv, CampaignTypeOK, ServiceStates
<1>3. AttemptsInv' /\ FilesInv' /\ StartInv' /\ CompleteInv'
  BY <1>1 DEF CampaignInv, AttemptsInv, FilesInv, StartInv, CompleteInv, Known, NoneReady,
              Window, Deadline, Exists
<1>4. ASSUME NEW q \in Services, q # p
      PROVE  ServiceInv(q)'
  <2>1. ServiceInv(q) /\ service'[q] = service[q]
    BY <1>4 DEF CampaignInv, OthersWait
  <2> QED
    BY <1>1, <2>1 DEF ServiceInv, Known, NoneReady, Window, Deadline, Exists
<1>5. OneWriter'
  BY DEF CampaignInv, OneWriter, OthersWait
<1> QED
  BY <1>2, <1>3, <1>4, <1>5 DEF CampaignInv

\* A service that creates or writes a file of a run: the capture service an
\* attempt or its acceptance, the process service one of the others.
LEMMA FileStep ==
    ASSUME CampaignInv, NEW p \in {"capture", "process"}, NEW r \in Runs,
           NEW f \in RunFiles, NEW v \in FileStates, v # "absent",
           file' = [file EXCEPT ![r][f] = v], UNCHANGED <<now, start, complete>>,
           at' \in [Runs -> 0 .. now], \A q \in Runs : Exists(q, "attempt") => at'[q] = at[q],
           service' \in [Services -> ServiceStates], OthersWait(p),
           service'[p].pc # "write", ServiceInv(p)',
           p = "capture" <=> f \in {"attempt", "ready"},
           AttemptsInv', FilesInv',
           f = "ready" => Exists(r, "ready") \/ (Known /\ Window(r)) \/ (~Known /\ NoneReady)
    PROVE  CampaignInv'
<1>1. /\ CampaignTypeOK /\ FilesInv /\ StartInv /\ CompleteInv
      /\ \A q \in Services : ServiceInv(q)
  BY DEF CampaignInv
<1>2. /\ file' \in [Runs -> [RunFiles -> FileStates]]
      /\ file'[r][f] = v
      /\ \A q \in Runs, g \in RunFiles : q # r \/ g # f => file'[q][g] = file[q][g]
  <2>1. file \in [Runs -> [RunFiles -> FileStates]]
    BY <1>1 DEF CampaignTypeOK
  <2> QED
    BY <2>1
<1>3. /\ CampaignTypeOK' /\ p \in Services
  BY <1>1, <1>2 DEF CampaignTypeOK, ServiceStates, Services
<1>4. /\ \A q \in Runs, g \in RunFiles : Exists(q, g) => Exists(q, g)'
      /\ \A q \in Runs : Exists(q, "ready")' => Exists(q, "ready") \/ (q = r /\ f = "ready")
      /\ Known' = Known /\ Deadline' = Deadline
  BY <1>2 DEF Exists, Known, Deadline, RunFiles
<1>5. \A q \in Runs : Exists(q, "ready")' => at'[q] = at[q]
  <2> SUFFICES ASSUME NEW q \in Runs, Exists(q, "ready")'
               PROVE  at'[q] = at[q]
    OBVIOUS
  <2>1. CASE f = "attempt"
    <3>1. Exists(q, "ready")
      BY <1>4, <2>1
    <3> QED
      BY <1>1, <3>1 DEF FilesInv, Exists
  <2>2. CASE f # "attempt"
    <3>1. file'[q]["attempt"] = "whole" /\ file'[q]["attempt"] = file[q]["attempt"]
      BY <1>2, <2>2 DEF FilesInv, Exists, RunFiles
    <3> QED
      BY <3>1 DEF Exists
  <2> QED
    BY <2>1, <2>2
<1>6. CompleteInv'
  BY <1>1, <1>4 DEF CompleteInv
<1>7. StartInv'
  <2>1. ASSUME Known
        PROVE  /\ start.run \in Runs /\ Exists(start.run, "ready")'
               /\ start.at = at'[start.run]
               /\ \A q \in Runs : Exists(q, "ready")' => Window(q)'
    <3>1. start.run \in Runs /\ Exists(start.run, "ready") /\ start.at = at[start.run]
      BY <1>1, <2>1 DEF StartInv
    <3>2. ASSUME NEW q \in Runs, Exists(q, "ready")'
          PROVE  Window(q)'
      <4>1. Window(q)
        BY <1>1, <1>4, <2>1, <3>2 DEF StartInv
      <4> QED
        BY <1>4, <1>5, <3>2, <4>1 DEF Window
    <3>3. Exists(start.run, "ready")'
      BY <1>4, <3>1 DEF RunFiles
    <3> QED
      BY <1>5, <3>1, <3>2, <3>3
  <2>2. ASSUME ~Known, NEW q \in Runs, NEW t \in Runs, Exists(q, "ready")', Exists(t, "ready")'
        PROVE  q = t
    BY <1>1, <1>4, <2>2 DEF StartInv, NoneReady
  <2>3. start.file = "empty" => ~NoneReady'
    BY <1>1, <1>4 DEF StartInv, NoneReady, RunFiles
  <2> QED
    BY <1>4, <2>1, <2>2, <2>3 DEF StartInv
<1>8. ASSUME NEW q \in Services, q # p
      PROVE  ServiceInv(q)'
  <2>1. ServiceInv(q) /\ service'[q] = service[q]
    BY <1>1, <1>8 DEF OthersWait
  <2>3. CASE p = "process"
    <3>1. /\ service[q].pc \notin ProcessSteps
          /\ \A t \in Runs : /\ file'[t]["attempt"] = file[t]["attempt"]
                             /\ file'[t]["ready"] = file[t]["ready"]
      BY <1>2, <1>8, <2>1, <2>3 DEF ServiceInv, RunFiles
    <3>2. /\ \A t \in Runs : Exists(t, "ready")' <=> Exists(t, "ready")
          /\ NoneReady' <=> NoneReady
      BY <3>1 DEF Exists, NoneReady
    <3>3. service[q].pc \in {"attempt", "record"} /\ Known => Window(service[q].run)'
      <4>1. service[q].pc \in {"attempt", "record"} =>
               service[q].run \in Runs /\ Exists(service[q].run, "attempt")
        BY <2>1 DEF ServiceInv, Exists
      <4> QED
        BY <1>4, <2>1, <4>1 DEF ServiceInv, Window
    <3> QED
      BY <1>4, <2>1, <3>1, <3>2, <3>3 DEF ServiceInv, ProcessSteps
  <2>4. CASE p = "capture"
    <3>1. /\ service[q].pc \notin CaptureSteps
          /\ \A t \in Runs : /\ file'[t]["processing"] = file[t]["processing"]
                             /\ file'[t]["evidence"] = file[t]["evidence"]
                             /\ file'[t]["membership"] = file[t]["membership"]
      BY <1>2, <1>8, <2>1, <2>4 DEF ServiceInv, RunFiles
    <3>2. /\ \A t \in Runs : Exists(t, "ready") => Exists(t, "ready")'
          /\ \A t \in Runs : Exists(t, "membership") => Exists(t, "membership")'
      BY <1>4 DEF RunFiles
    <3> QED
      BY <1>4, <2>1, <3>1, <3>2 DEF ServiceInv, CaptureSteps, ProcessSteps
  <2> QED
    BY <2>3, <2>4
<1>9. OneWriter'
  BY <1>3 DEF CampaignInv, OneWriter, OthersWait
<1> QED
  BY <1>3, <1>6, <1>7, <1>8, <1>9 DEF CampaignInv
-----------------------------------------------------------------------------
(* The initial states, and the steps that only move a service. *)

LEMMA InitHolds == Init => CampaignInv
<1> SUFFICES ASSUME Init PROVE CampaignInv
  OBVIOUS
<1>1. CampaignTypeOK
  BY CampaignAssumption
  DEF Init, CampaignTypeOK, FileStates, RunFiles, Idle, Steps, Runs
<1>2. \A r \in Runs, f \in RunFiles : ~Exists(r, f)
  BY DEF Init, Exists
<1>3. AttemptsInv /\ FilesInv /\ StartInv /\ CompleteInv
  BY <1>2 DEF Init, AttemptsInv, FilesInv, StartInv, CompleteInv, Known, RunFiles
<1>4. \A p \in Services : service[p].pc = "idle"
  BY DEF Init, Idle
<1>5. \A p \in Services : ServiceInv(p)
  BY <1>4 DEF ServiceInv, CaptureSteps, ProcessSteps
<1> QED
  BY <1>1, <1>3, <1>4, <1>5 DEF CampaignInv, OneWriter

\* A service that ends, or begins, knows nothing.
LEMMA RestHolds ==
    ASSUME CampaignInv, NEW p \in Services, UNCHANGED <<now, disk>>,
           Ends(p) \/ GoesTo(p, "recover")
    PROVE  CampaignInv'
<1>1. CampaignTypeOK
  BY DEF CampaignInv
<1>2. /\ service' \in [Services -> ServiceStates] /\ OthersWait(p)
      /\ service'[p].pc \in {"idle", "recover"}
  <2>1. "recover" \in Steps /\ Idle.pc = "idle"
    BY DEF Steps, Idle
  <2> QED
    BY <1>1, <2>1, SetService
<1>3. ServiceInv(p)'
  BY <1>2 DEF ServiceInv, CaptureSteps, ProcessSteps
<1> QED
  BY <1>2, <1>3, QuietStep

\* A service that knows the start goes on from it.
LEMMA WithStartGoes ==
    ASSUME CampaignTypeOK, NEW p \in Services, Known', WithStart(p)
    PROVE  /\ service' \in [Services -> ServiceStates] /\ OthersWait(p)
           /\ service'[p].pc # "write" /\ ServiceInv(p)'
<1>1. \/ p = "status" /\ Ends(p)
      \/ p = "process" /\ GoesTo(p, "work")
      \/ p = "capture" /\ GoesTo(p, "plan")
      \/ p = "capture" /\ GoesTo(p, "finish")
  BY DEF WithStart, Services
<1>2. {"work", "plan", "finish"} \subseteq Steps /\ Idle.pc = "idle"
  BY DEF Steps, Idle
<1>3. /\ service' \in [Services -> ServiceStates] /\ OthersWait(p)
      /\ \/ service'[p].pc = "idle"
         \/ p = "process" /\ service'[p].pc = "work"
         \/ p = "capture" /\ service'[p].pc \in {"plan", "finish"}
  BY <1>1, <1>2, SetService
<1>4. ServiceInv(p)'
  BY <1>3 DEF ServiceInv, CaptureSteps, ProcessSteps
<1> QED
  BY <1>3, <1>4

LEMMA WithStartHolds ==
    ASSUME CampaignInv, NEW p \in Services, UNCHANGED <<now, disk>>, Known, WithStart(p)
    PROVE  CampaignInv'
<1>1. CampaignTypeOK /\ Known'
  BY DEF CampaignInv, Known, disk
<1>2. /\ service' \in [Services -> ServiceStates] /\ OthersWait(p)
      /\ service'[p].pc # "write" /\ ServiceInv(p)'
  BY <1>1, WithStartGoes
<1> QED
  BY <1>2, QuietStep
-----------------------------------------------------------------------------
(* Recovering the start. *)

LEMMA StartIsReadHolds ==
    ASSUME CampaignInv, NEW p \in Services, StartIsRead(p)
    PROVE  CampaignInv'
<1>1. /\ CampaignTypeOK /\ FilesInv /\ UNCHANGED <<now, disk>>
      /\ UNCHANGED <<at, file, start, complete>>
  BY DEF CampaignInv, StartIsRead, clock, disk
<1>2. CASE Ends(p)
  BY <1>1, <1>2, RestHolds
<1>3. CASE start.file = "whole" /\ WithStart(p)
  BY <1>1, <1>3, WithStartHolds DEF Known
<1>4. CASE Accepted = {} /\ p = "capture" /\ GoesTo(p, "plan")
  <2>1. "plan" \in Steps
    BY DEF Steps
  <2>2. /\ service' \in [Services -> ServiceStates] /\ OthersWait(p)
        /\ service'[p].pc = "plan"
    BY <1>1, <1>4, <2>1, SetService
  <2>3. NoneReady
    BY <1>1, <1>4 DEF NoneReady, Accepted, FilesInv, Exists
  <2>4. NoneReady'
    BY <1>1, <2>3 DEF NoneReady, Exists
  <2>5. ServiceInv(p)'
    BY <1>4, <2>2, <2>4 DEF ServiceInv, CaptureSteps, ProcessSteps
  <2> QED
    BY <1>1, <2>2, <2>5, QuietStep
<1>5. CASE /\ Accepted # {}
           /\ service' = [service EXCEPT ![p].pc = "create",
                                         ![p].candidate = First(Accepted)]
  <2>1. First(Accepted) \in Accepted
    BY <1>1, <1>5, FirstIsOne DEF Accepted
  <2>2. First(Accepted) \in Runs /\ Exists(First(Accepted), "ready")
    BY <2>1 DEF Accepted
  <2>3. PICK c \in Runs : c = First(Accepted) /\ Exists(c, "ready")
    BY <2>2
  <2>4. service \in [Services -> ServiceStates] /\ c \in 0 .. MaxRuns /\ "create" \in Steps
    BY <1>1, CampaignAssumption DEF CampaignTypeOK, ServiceStates, Runs, Steps
  <2>5. /\ service' \in [Services -> ServiceStates] /\ OthersWait(p)
        /\ service'[p].pc = "create" /\ service'[p].candidate = c
    BY <1>5, <2>3, <2>4 DEF ServiceStates, OthersWait
  <2>6. Exists(c, "ready")'
    BY <1>1, <2>3 DEF Exists
  <2>7. ServiceInv(p)'
    BY <2>5, <2>6 DEF ServiceInv, CaptureSteps, ProcessSteps
  <2> QED
    BY <1>1, <2>5, <2>7, QuietStep
<1> QED
  BY <1>2, <1>3, <1>4, <1>5 DEF StartIsRead

\* The start is known from now on, or its file exists: only the services that
\* found the same accepted capture go on.
LEMMA StartIsCreatedHolds ==
    ASSUME CampaignInv, NEW p \in Services, StartIsCreated(p)
    PROVE  CampaignInv'
<1>1. /\ CampaignTypeOK /\ StartInv /\ CompleteInv /\ ServiceInv(p)
      /\ At(p, "create") /\ UNCHANGED <<now, at, file, complete>>
  BY DEF CampaignInv, StartIsCreated, clock
<1>2. CASE start.file # "absent" /\ UNCHANGED start
  <2>1. UNCHANGED <<now, disk>>
    BY <1>1, <1>2 DEF disk
  <2>2. (Known /\ WithStart(p)) \/ Ends(p)
    BY <1>2 DEF StartIsCreated, SameStart, Known
  <2> QED
    BY <2>1, <2>2, WithStartHolds, RestHolds
<1>3. CASE /\ start.file = "absent" /\ start' = [start EXCEPT !.file = "empty"]
           /\ GoesTo(p, "write")
  <2>1. /\ "write" \in Steps /\ "empty" \in FileStates
        /\ start \in [file: FileStates, run: 0 .. MaxRuns, at: 0 .. now]
    BY <1>1 DEF CampaignTypeOK, Steps, FileStates
  <2>2. /\ service' \in [Services -> ServiceStates] /\ OthersWait(p)
        /\ service'[p].pc = "write" /\ service'[p].candidate = service[p].candidate
    BY <1>1, <1>3, <2>1, SetService
  <2>3. /\ start'.file = "empty" /\ start'.run = start.run /\ start'.at = start.at
        /\ start' \in [file: FileStates, run: 0 .. MaxRuns, at: 0 .. now]
    BY <1>3, <2>1
  <2>4. ~Known /\ ~Known' /\ complete = "absent"
    BY <1>1, <1>3, <2>3 DEF Known, CompleteInv
  <2>5. \A r \in Runs, f \in RunFiles : Exists(r, f)' <=> Exists(r, f)
    BY <1>1 DEF Exists
  <2>6. PICK c \in Runs : c = service[p].candidate /\ Exists(c, "ready")
    BY <1>1 DEF ServiceInv, At
  <2>7. ~NoneReady /\ ~NoneReady'
    BY <2>5, <2>6 DEF NoneReady, RunFiles
  <2>8. CampaignTypeOK'
    BY <1>1, <2>2, <2>3 DEF CampaignTypeOK, ServiceStates
  <2>9. AttemptsInv' /\ CompleteInv'
    BY <1>1, <2>4, <2>5 DEF CampaignInv, AttemptsInv, CompleteInv, RunFiles
  <2>10. FilesInv'
    BY <1>1, <2>4 DEF CampaignInv, FilesInv, Exists
  <2>11. StartInv'
    BY <1>1, <2>4, <2>5, <2>7 DEF StartInv, RunFiles
  <2>12. ServiceInv(p)'
    BY <2>2, <2>3, <2>5, <2>6 DEF ServiceInv, CaptureSteps, ProcessSteps, RunFiles
  <2>13. ASSUME NEW q \in Services, q # p
         PROVE  ServiceInv(q)' /\ service'[q].pc # "write"
    <3>1. ServiceInv(q) /\ service'[q] = service[q]
      BY <2>2, <2>13 DEF CampaignInv, OthersWait
    <3> QED
      BY <1>1, <1>3, <2>4, <2>5, <2>7, <3>1 DEF ServiceInv, Exists
  <2>14. OneWriter'
    BY <2>13 DEF OneWriter
  <2> QED
    BY <2>8, <2>9, <2>10, <2>11, <2>12, <2>13, <2>14 DEF CampaignInv
<1> QED
  BY <1>2, <1>3 DEF StartIsCreated

\* The one accepted capture starts the campaign.
LEMMA StartIsWrittenHolds ==
    ASSUME CampaignInv, NEW p \in Services, StartIsWritten(p)
    PROVE  CampaignInv'
<1>1. /\ CampaignTypeOK /\ StartInv /\ CompleteInv /\ ServiceInv(p)
      /\ At(p, "write") /\ UNCHANGED <<now, at, file, complete>> /\ WithStart(p)
  BY DEF CampaignInv, StartIsWritten, clock
<1>2. PICK c \in Runs : c = service[p].candidate /\ Exists(c, "ready")
  BY <1>1 DEF ServiceInv, At
<1>3. /\ start' = [file |-> "whole", run |-> c, at |-> at[c]]
      /\ start.file = "empty" /\ ~Known /\ complete = "absent"
  BY <1>1, <1>2 DEF StartIsWritten, StartedAt, ServiceInv, At, Known, CompleteInv
<1>4. Known' /\ start'.run = c /\ start'.at = at[c] /\ Deadline' = at[c] + Duration
  BY <1>3 DEF Known, Deadline
<1>5. /\ service' \in [Services -> ServiceStates] /\ OthersWait(p)
      /\ service'[p].pc # "write" /\ ServiceInv(p)'
  BY <1>1, <1>4, WithStartGoes
<1>6. \A r \in Runs, f \in RunFiles : Exists(r, f)' <=> Exists(r, f)
  BY <1>1 DEF Exists
<1>7. CampaignTypeOK'
  <2>1. c \in 0 .. MaxRuns /\ at[c] \in 0 .. now /\ "whole" \in FileStates
    BY <1>1, CampaignAssumption DEF CampaignTypeOK, Runs, FileStates
  <2>2. start' \in [file: FileStates, run: 0 .. MaxRuns, at: 0 .. now]
    BY <1>3, <2>1
  <2> QED
    BY <1>1, <1>5, <2>2 DEF CampaignTypeOK, ServiceStates
<1>8. AttemptsInv' /\ CompleteInv'
  BY <1>1, <1>3, <1>6 DEF CampaignInv, AttemptsInv, CompleteInv, RunFiles
<1>9. FilesInv'
  BY <1>1, <1>4 DEF CampaignInv, FilesInv, Exists
<1>10. StartInv'
  <2>1. \A r \in Runs : Exists(r, "ready") => r = c
    BY <1>1, <1>2, <1>3 DEF StartInv
  <2>2. Window(c)'
    <3>1. at[c] \in Nat /\ Duration \in Nat \ {0}
      BY <1>1, CampaignAssumption DEF CampaignTypeOK
    <3> QED
      BY <1>1, <1>4, <3>1 DEF Window
  <2>3. start'.file # "empty"
    BY <1>3
  <2> QED
    BY <1>1, <1>2, <1>4, <1>6, <2>1, <2>2, <2>3 DEF StartInv, RunFiles
<1>11. ASSUME NEW q \in Services, q # p
       PROVE  ServiceInv(q)' /\ service'[q].pc # "write"
  <2>1. ServiceInv(q) /\ service'[q] = service[q] /\ service[q].pc # "write"
    BY <1>1, <1>5, <1>11 DEF CampaignInv, OthersWait, OneWriter, At
  <2>2. service[q].pc \notin {"plan", "attempt", "record", "complete", "completing"}
    BY <1>2, <1>3, <2>1 DEF ServiceInv, NoneReady
  <2> QED
    BY <1>1, <1>4, <1>6, <2>1, <2>2 DEF ServiceInv, Exists
<1>12. OneWriter'
  BY <1>11 DEF OneWriter
<1> QED
  BY <1>5, <1>7, <1>8, <1>9, <1>10, <1>11, <1>12 DEF CampaignInv
-----------------------------------------------------------------------------
(* The capture service. *)

\* A service that has read the clock past the deadline goes on to completion.
LEMMA ToCompleteHolds ==
    ASSUME CampaignInv, UNCHANGED <<now, disk>>, Known, now >= Deadline,
           GoesTo("capture", "complete")
    PROVE  CampaignInv'
<1>1. /\ CampaignTypeOK /\ "capture" \in Services /\ "complete" \in Steps
      /\ UNCHANGED <<at, file, start, complete>>
  BY DEF CampaignInv, Services, Steps, disk
<1>2. /\ service' \in [Services -> ServiceStates] /\ OthersWait("capture")
      /\ service'["capture"].pc = "complete"
  BY <1>1, SetService
<1>3. Known' /\ (now >= Deadline)'
  BY <1>1 DEF Known, Deadline
<1>4. ServiceInv("capture")'
  BY <1>2, <1>3 DEF ServiceInv, CaptureSteps, ProcessSteps
<1> QED
  BY <1>1, <1>2, <1>4, QuietStep

LEMMA PlansHolds ==
    ASSUME CampaignInv, Plans
    PROVE  CampaignInv'
<1>1. /\ CampaignTypeOK /\ AttemptsInv /\ FilesInv /\ ServiceInv("capture")
      /\ At("capture", "plan") /\ UNCHANGED <<now, start, complete>>
      /\ "capture" \in Services
  BY DEF CampaignInv, Plans, clock, Services
<1>2. CASE Over /\ GoesTo("capture", "complete") /\ UNCHANGED <<at, file>>
  BY <1>1, <1>2, ToCompleteHolds DEF Over, Known, disk
<1>3. CASE /\ ~Over /\ WithinBounds
           /\ at' = [at EXCEPT ![NextRun] = now]
           /\ Creates(NextRun, "attempt")
           /\ Takes("capture", "attempt", NextRun)
  <2>1. PICK r \in Runs : r = NextRun
    BY <1>3 DEF WithinBounds
  <2>2. ~Exists(r, "attempt") /\ \A q \in Runs : q < r => Exists(q, "attempt")
    BY <1>1, <2>1, NextIsNew
  <2>3. "attempt" \in Steps /\ "attempt" \in RunFiles /\ "empty" \in FileStates
    BY DEF Steps, RunFiles, FileStates
  <2>4. /\ at' \in [Runs -> 0 .. now] /\ at'[r] = now
        /\ \A q \in Runs : Exists(q, "attempt") => at'[q] = at[q]
    BY <1>1, <1>3, <2>1, <2>2 DEF CampaignTypeOK
  <2>5. file' = [file EXCEPT ![r]["attempt"] = "empty"]
    BY <1>3, <2>1 DEF Creates
  <2>6. /\ file'[r]["attempt"] = "empty"
        /\ \A q \in Runs, g \in RunFiles :
              q # r \/ g # "attempt" => file'[q][g] = file[q][g]
    <3>1. file \in [Runs -> [RunFiles -> FileStates]]
      BY <1>1 DEF CampaignTypeOK
    <3> QED
      BY <2>3, <2>5, <3>1
  <2>7. /\ service' \in [Services -> ServiceStates] /\ OthersWait("capture")
        /\ service'["capture"].pc = "attempt" /\ service'["capture"].run = r
    BY <1>1, <1>3, <2>1, <2>3, SetService
  <2>8. AttemptsInv'
    <3>1. \A q \in Runs : Exists(q, "attempt")' <=> Exists(q, "attempt") \/ q = r
      BY <2>6 DEF Exists, RunFiles
    <3> QED
      BY <1>1, <2>2, <3>1 DEF AttemptsInv
  <2>9. FilesInv'
    <3>1. Known' = Known
      BY <1>1 DEF Known
    <3> QED
      BY <1>1, <2>2, <2>6, <3>1 DEF FilesInv, Exists, RunFiles
  <2>10. ServiceInv("capture")'
    <3>1. Known => start.at \in 0 .. now /\ ~(now >= Deadline) /\ Deadline \in Nat
      BY <1>1, <1>3, CampaignAssumption DEF Over, Known, CampaignTypeOK, Deadline
    <3>2. Known' = Known /\ start' = start
      BY <1>1 DEF Known
    <3>3. Known' => Window(r)'
      BY <1>1, <2>4, <3>1, <3>2 DEF Window, Deadline
    <3>4. ~Known => NoneReady'
      BY <1>1, <2>6 DEF ServiceInv, At, NoneReady, Exists, RunFiles
    <3> QED
      BY <2>6, <2>7, <3>2, <3>3, <3>4 DEF ServiceInv, CaptureSteps, ProcessSteps
  <2> QED
    BY <1>1, <2>3, <2>4, <2>5, <2>7, <2>8, <2>9, <2>10, FileStep
<1> QED
  BY <1>2, <1>3 DEF Plans

LEMMA AttemptIsWrittenHolds ==
    ASSUME CampaignInv, AttemptIsWritten
    PROVE  CampaignInv'
<1>1. /\ CampaignTypeOK /\ AttemptsInv /\ FilesInv /\ ServiceInv("capture")
      /\ At("capture", "attempt") /\ UNCHANGED <<now, at, start, complete>>
      /\ "capture" \in Services
  BY DEF CampaignInv, AttemptIsWritten, clock, Services
<1>2. PICK r \in Runs : r = Run("capture") /\ file[r]["attempt"] = "empty"
  BY <1>1 DEF ServiceInv, At, Run
<1>3. "record" \in Steps /\ "attempt" \in RunFiles /\ "whole" \in FileStates
  BY DEF Steps, RunFiles, FileStates
<1>4. file' = [file EXCEPT ![r]["attempt"] = "whole"]
  BY <1>2 DEF AttemptIsWritten, Writes
<1>5. /\ file'[r]["attempt"] = "whole"
      /\ \A q \in Runs, g \in RunFiles :
            q # r \/ g # "attempt" => file'[q][g] = file[q][g]
  <2>1. file \in [Runs -> [RunFiles -> FileStates]]
    BY <1>1 DEF CampaignTypeOK
  <2> QED
    BY <1>3, <1>4, <2>1
<1>6. /\ service' \in [Services -> ServiceStates] /\ OthersWait("capture")
      /\ service'["capture"].pc = "record" /\ service'["capture"].run = r
  BY <1>1, <1>2, <1>3, SetService DEF AttemptIsWritten, Run
<1>7. AttemptsInv'
  <2>1. \A q \in Runs : Exists(q, "attempt")' <=> Exists(q, "attempt")
    BY <1>2, <1>5 DEF Exists, RunFiles
  <2> QED
    BY <1>1, <2>1 DEF AttemptsInv
<1>8. FilesInv' /\ file'[r]["ready"] = "absent" /\ Known' = Known
  <2>1. Known' = Known
    BY <1>1 DEF Known
  <2> QED
    BY <1>1, <1>2, <1>5, <2>1 DEF FilesInv, Exists, RunFiles
<1>9. ServiceInv("capture")'
  <2>1. ~Known => NoneReady'
    BY <1>1, <1>5 DEF ServiceInv, At, NoneReady, Exists, RunFiles
  <2>2. Known => Window(r)'
    BY <1>1, <1>2 DEF ServiceInv, At, Run, Window, Deadline
  <2> QED
    BY <1>5, <1>6, <1>8, <2>1, <2>2 DEF ServiceInv, CaptureSteps, ProcessSteps
<1>10. at' \in [Runs -> 0 .. now] /\ \A q \in Runs : at'[q] = at[q]
  BY <1>1 DEF CampaignTypeOK
<1> QED
  BY <1>1, <1>3, <1>4, <1>6, <1>7, <1>8, <1>9, <1>10, FileStep

LEMMA RecordsHolds ==
    ASSUME CampaignInv, Records
    PROVE  CampaignInv'
<1>1. /\ CampaignTypeOK /\ AttemptsInv /\ FilesInv /\ ServiceInv("capture")
      /\ At("capture", "record") /\ UNCHANGED <<now, at, start, complete>>
      /\ "capture" \in Services
  BY DEF CampaignInv, Records, clock, Services
<1>2. CASE Ends("capture") /\ UNCHANGED file
  <2>1. UNCHANGED <<now, disk>>
    BY <1>1, <1>2 DEF disk
  <2> QED
    BY <1>1, <1>2, <2>1, RestHolds
<1>3. CASE Creates(Run("capture"), "ready") /\ GoesTo("capture", "ready")
  <2>1. PICK r \in Runs : /\ r = Run("capture") /\ file[r]["attempt"] = "whole"
                          /\ file[r]["ready"] = "absent"
    BY <1>1 DEF ServiceInv, At, Run
  <2>2. "ready" \in Steps /\ "ready" \in RunFiles /\ "empty" \in FileStates
    BY DEF Steps, RunFiles, FileStates
  <2>3. file' = [file EXCEPT ![r]["ready"] = "empty"]
    BY <1>3, <2>1 DEF Creates
  <2>4. /\ file'[r]["ready"] = "empty"
        /\ \A q \in Runs, g \in RunFiles :
              q # r \/ g # "ready" => file'[q][g] = file[q][g]
    <3>1. file \in [Runs -> [RunFiles -> FileStates]]
      BY <1>1 DEF CampaignTypeOK
    <3> QED
      BY <2>2, <2>3, <3>1
  <2>5. /\ service' \in [Services -> ServiceStates] /\ OthersWait("capture")
        /\ service'["capture"].pc = "ready" /\ service'["capture"].run = r
    BY <1>1, <1>3, <2>1, <2>2, SetService DEF Run
  <2>6. AttemptsInv'
    <3>1. \A q \in Runs : Exists(q, "attempt")' <=> Exists(q, "attempt")
      BY <2>4 DEF Exists, RunFiles
    <3> QED
      BY <1>1, <3>1 DEF AttemptsInv
  <2>7. FilesInv'
    <3>1. Known' = Known
      BY <1>1 DEF Known
    <3> QED
      BY <1>1, <2>1, <2>4, <3>1 DEF FilesInv, Exists, RunFiles
  <2>8. ServiceInv("capture")'
    BY <2>4, <2>5 DEF ServiceInv, CaptureSteps, ProcessSteps
  <2>9. (Known /\ Window(r)) \/ (~Known /\ NoneReady)
    BY <1>1, <2>1 DEF ServiceInv, At, Run
  <2>10. at' \in [Runs -> 0 .. now] /\ \A q \in Runs : at'[q] = at[q]
    BY <1>1 DEF CampaignTypeOK
  <2> QED
    BY <1>1, <2>2, <2>3, <2>5, <2>6, <2>7, <2>8, <2>9, <2>10, FileStep
<1> QED
  BY <1>2, <1>3 DEF Records

LEMMA ReadyIsWrittenHolds ==
    ASSUME CampaignInv, ReadyIsWritten
    PROVE  CampaignInv'
<1>1. /\ CampaignTypeOK /\ AttemptsInv /\ FilesInv /\ ServiceInv("capture")
      /\ At("capture", "ready") /\ UNCHANGED <<now, at, start, complete>>
      /\ "capture" \in Services
  BY DEF CampaignInv, ReadyIsWritten, clock, Services
<1>2. PICK r \in Runs : r = Run("capture") /\ file[r]["ready"] = "empty"
  BY <1>1 DEF ServiceInv, At, Run
<1>3. "recover" \in Steps /\ "ready" \in RunFiles /\ "whole" \in FileStates
  BY DEF Steps, RunFiles, FileStates
<1>4. file' = [file EXCEPT ![r]["ready"] = "whole"]
  BY <1>2 DEF ReadyIsWritten, Writes
<1>5. /\ file'[r]["ready"] = "whole"
      /\ \A q \in Runs, g \in RunFiles :
            q # r \/ g # "ready" => file'[q][g] = file[q][g]
  <2>1. file \in [Runs -> [RunFiles -> FileStates]]
    BY <1>1 DEF CampaignTypeOK
  <2> QED
    BY <1>3, <1>4, <2>1
<1>6. /\ service' \in [Services -> ServiceStates] /\ OthersWait("capture")
      /\ service'["capture"].pc = "recover"
  BY <1>1, <1>3, SetService DEF ReadyIsWritten
<1>7. AttemptsInv'
  <2>1. \A q \in Runs : Exists(q, "attempt")' <=> Exists(q, "attempt")
    BY <1>5 DEF Exists, RunFiles
  <2> QED
    BY <1>1, <2>1 DEF AttemptsInv
<1>8. FilesInv'
  <2>1. Known' = Known
    BY <1>1 DEF Known
  <2> QED
    BY <1>1, <1>2, <1>5, <2>1 DEF FilesInv, Exists, RunFiles
<1>9. ServiceInv("capture")'
  BY <1>6 DEF ServiceInv, CaptureSteps, ProcessSteps
<1>10. /\ at' \in [Runs -> 0 .. now] /\ \A q \in Runs : at'[q] = at[q]
       /\ Exists(r, "ready")
  BY <1>1, <1>2 DEF CampaignTypeOK, Exists
<1> QED
  BY <1>1, <1>3, <1>4, <1>6, <1>7, <1>8, <1>9, <1>10, FileStep

LEMMA FinishesHolds ==
    ASSUME CampaignInv, Finishes
    PROVE  CampaignInv'
<1>1. /\ Known /\ UNCHANGED <<now, disk>> /\ "capture" \in Services
      /\ (now >= Deadline /\ GoesTo("capture", "complete")) \/ Ends("capture")
  BY DEF CampaignInv, ServiceInv, Finishes, Reached, At, Services, clock
<1> QED
  BY <1>1, ToCompleteHolds, RestHolds

\* The marker of completion is created, and written, when the time has come.
LEMMA MarkerHolds ==
    ASSUME CampaignInv, UNCHANGED <<now, at, file, start>>, Known, now >= Deadline,
           \/ complete' = "empty" /\ GoesTo("capture", "completing")
           \/ complete' = "whole" /\ Ends("capture")
    PROVE  CampaignInv'
<1>1. CampaignTypeOK /\ "capture" \in Services /\ "completing" \in Steps
  BY DEF CampaignInv, Services, Steps
<1>2. /\ service' \in [Services -> ServiceStates] /\ OthersWait("capture")
      /\ service'["capture"].pc \in {"completing", "idle"}
  <2>1. Idle.pc = "idle"
    BY DEF Idle
  <2> QED
    BY <1>1, <2>1, SetService
<1>3. CampaignTypeOK'
  BY <1>1, <1>2 DEF CampaignTypeOK, FileStates, ServiceStates
<1>4. Known' /\ (now >= Deadline)'
  BY DEF Known, Deadline
<1>5. AttemptsInv' /\ FilesInv' /\ StartInv' /\ CompleteInv'
  BY <1>4 DEF CampaignInv, AttemptsInv, FilesInv, StartInv, CompleteInv, Known, NoneReady,
              Window, Deadline, Exists
<1>6. ServiceInv("capture")'
  BY <1>2, <1>4 DEF ServiceInv, CaptureSteps, ProcessSteps
<1>7. ASSUME NEW q \in Services, q # "capture"
      PROVE  ServiceInv(q)'
  <2>1. ServiceInv(q) /\ service'[q] = service[q]
    BY <1>2, <1>7 DEF CampaignInv, OthersWait
  <2> QED
    BY <1>4, <2>1 DEF ServiceInv, Known, NoneReady, Window, Deadline, Exists
<1>8. OneWriter'
  BY <1>2 DEF CampaignInv, OneWriter, OthersWait
<1> QED
  BY <1>3, <1>5, <1>6, <1>7, <1>8 DEF CampaignInv

LEMMA CompletesHolds ==
    ASSUME CampaignInv, Completes \/ CompleteIsWritten
    PROVE  CampaignInv'
<1>1. Known /\ now >= Deadline /\ UNCHANGED <<now, at, file, start>>
  BY DEF CampaignInv, ServiceInv, Completes, CompleteIsWritten, At, Services, clock
<1>2. CASE UNCHANGED complete /\ Ends("capture")
  <2>1. UNCHANGED <<now, disk>> /\ "capture" \in Services
    BY <1>1, <1>2 DEF disk, Services
  <2> QED
    BY <1>2, <2>1, RestHolds
<1>3. \/ UNCHANGED complete /\ Ends("capture")
      \/ complete' = "empty" /\ GoesTo("capture", "completing")
      \/ complete' = "whole" /\ Ends("capture")
  BY DEF Completes, CompleteIsWritten
<1> QED
  BY <1>1, <1>2, <1>3, MarkerHolds
-----------------------------------------------------------------------------
(* The process service. *)

LEMMA ProcessStep ==
    ASSUME CampaignInv, NEW r \in Runs, NEW f \in {"processing", "evidence", "membership"},
           NEW v \in FileStates, v # "absent",
           file' = [file EXCEPT ![r][f] = v], UNCHANGED <<now, at, start, complete>>,
           service' \in [Services -> ServiceStates], OthersWait("process"),
           service'["process"].pc # "write", ServiceInv("process")',
           f = "processing" => /\ Known /\ file[r]["ready"] = "whole"
                               /\ v = "whole" \/ ~Exists(r, "evidence"),
           f = "evidence" => /\ file[r]["processing"] = "whole"
                             /\ v = "whole" \/ ~Exists(r, "membership"),
           f = "membership" => file[r]["evidence"] = "whole"
    PROVE  CampaignInv'
<1>1. CampaignTypeOK /\ AttemptsInv /\ FilesInv /\ f \in RunFiles
  BY DEF CampaignInv, RunFiles
<1>2. /\ file'[r][f] = v
      /\ \A q \in Runs, g \in RunFiles : q # r \/ g # f => file'[q][g] = file[q][g]
  <2>1. file \in [Runs -> [RunFiles -> FileStates]]
    BY <1>1 DEF CampaignTypeOK
  <2> QED
    BY <1>1, <2>1
<1>3. AttemptsInv'
  BY <1>1, <1>2 DEF AttemptsInv, Exists, RunFiles
<1>4. FilesInv'
  <2>1. Known' = Known
    BY DEF Known
  <2>2. \A q \in Runs : /\ file'[q]["attempt"] = file[q]["attempt"]
                        /\ file'[q]["ready"] = file[q]["ready"]
    BY <1>2 DEF RunFiles
  <2>3. CASE f = "processing"
    BY <1>1, <1>2, <2>1, <2>2, <2>3 DEF FilesInv, Exists, RunFiles
  <2>4. CASE f = "evidence"
    BY <1>1, <1>2, <2>1, <2>2, <2>4 DEF FilesInv, Exists, RunFiles
  <2>5. CASE f = "membership"
    BY <1>1, <1>2, <2>1, <2>2, <2>5 DEF FilesInv, Exists, RunFiles
  <2> QED
    BY <2>3, <2>4, <2>5
<1>5. at' \in [Runs -> 0 .. now] /\ \A q \in Runs : at'[q] = at[q]
  BY <1>1 DEF CampaignTypeOK
<1>6. /\ "process" \in {"capture", "process"} /\ f \notin {"attempt", "ready"}
      /\ f # "ready" /\ UNCHANGED <<now, start, complete>>
  OBVIOUS
<1> QED
  BY <1>1, <1>3, <1>4, <1>5, <1>6, FileStep

LEMMA BindsHolds ==
    ASSUME CampaignInv, Known, NEW r \in Runs, Binds(r), UNCHANGED <<now, at, start, complete>>
    PROVE  CampaignInv'
<1>1. CampaignTypeOK /\ "process" \in Services
  BY DEF CampaignInv, Services
<1>2. CASE Ends("process") /\ UNCHANGED file
  <2>1. UNCHANGED <<now, disk>>
    BY <1>2 DEF disk
  <2> QED
    BY <1>1, <1>2, <2>1, RestHolds
<1>3. CASE CanBind(r) /\ Takes("process", "binding", r) /\ Creates(r, "membership")
  <2>1. /\ "binding" \in Steps /\ "membership" \in RunFiles /\ "empty" \in FileStates
        /\ file[r]["evidence"] = "whole"
    BY <1>3 DEF Steps, RunFiles, FileStates, CanBind
  <2>2. file' = [file EXCEPT ![r]["membership"] = "empty"]
    BY <1>3 DEF Creates
  <2>3. Exists(r, "membership")'
    <3>1. file \in [Runs -> [RunFiles -> FileStates]]
      BY <1>1 DEF CampaignTypeOK
    <3> QED
      BY <2>1, <2>2, <3>1 DEF Exists
  <2>4. /\ service' \in [Services -> ServiceStates] /\ OthersWait("process")
        /\ service'["process"].pc = "binding" /\ service'["process"].run = r
    BY <1>1, <1>3, <2>1, SetService
  <2>5. ServiceInv("process")'
    <3>1. Known'
      BY DEF Known
    <3> QED
      BY <2>3, <2>4, <3>1 DEF ServiceInv, CaptureSteps, ProcessSteps
  <2> QED
    BY <2>1, <2>2, <2>4, <2>5, ProcessStep
<1> QED
  BY <1>2, <1>3 DEF Binds

LEMMA WorksHolds ==
    ASSUME CampaignInv, Works
    PROVE  CampaignInv'
<1>1. /\ CampaignTypeOK /\ Known /\ UNCHANGED <<now, at, start, complete>>
      /\ "process" \in Services
  BY DEF CampaignInv, ServiceInv, ProcessSteps, Works, At, clock, Services
<1>2. CASE Unbound # {} /\ Binds(First(Unbound))
  <2>1. First(Unbound) \in Runs
    BY <1>1, <1>2, FirstIsOne DEF Unbound
  <2> QED
    BY <1>1, <1>2, <2>1, BindsHolds
<1>3. CASE Ends("process") /\ UNCHANGED file
  <2>1. UNCHANGED <<now, disk>>
    BY <1>1, <1>3 DEF disk
  <2> QED
    BY <1>1, <1>3, <2>1, RestHolds
<1>4. CASE /\ Pending # {}
           /\ file[First(Pending)]["ready"] = "whole"
           /\ Takes("process", "processing", First(Pending))
           /\ Creates(First(Pending), "processing")
  <2>1. First(Pending) \in Pending
    BY <1>1, <1>4, FirstIsOne DEF Pending
  <2>2. PICK r \in Runs : /\ r = First(Pending) /\ ~Exists(r, "evidence")
                          /\ file[r]["ready"] = "whole"
    BY <1>4, <2>1 DEF Pending
  <2>3. "processing" \in Steps /\ "processing" \in RunFiles /\ "empty" \in FileStates
    BY DEF Steps, RunFiles, FileStates
  <2>4. file' = [file EXCEPT ![r]["processing"] = "empty"]
    BY <1>4, <2>2 DEF Creates
  <2>5. file'[r]["processing"] = "empty"
    <3>1. file \in [Runs -> [RunFiles -> FileStates]]
      BY <1>1 DEF CampaignTypeOK
    <3> QED
      BY <2>3, <2>4, <3>1
  <2>6. /\ service' \in [Services -> ServiceStates] /\ OthersWait("process")
        /\ service'["process"].pc = "processing" /\ service'["process"].run = r
    BY <1>1, <1>4, <2>2, <2>3, SetService
  <2>7. ServiceInv("process")'
    <3>1. Known'
      BY <1>1 DEF Known
    <3> QED
      BY <2>5, <2>6, <3>1 DEF ServiceInv, CaptureSteps, ProcessSteps
  <2> QED
    BY <1>1, <2>2, <2>3, <2>4, <2>6, <2>7, ProcessStep
<1> QED
  BY <1>2, <1>3, <1>4 DEF Works

LEMMA ProcessingIsWrittenHolds ==
    ASSUME CampaignInv, ProcessingIsWritten
    PROVE  CampaignInv'
<1>1. /\ CampaignTypeOK /\ FilesInv /\ Known /\ ServiceInv("process")
      /\ At("process", "processing") /\ UNCHANGED <<now, at, start, complete>>
      /\ "process" \in Services
  BY DEF CampaignInv, ServiceInv, ProcessSteps, ProcessingIsWritten, At, clock, Services
<1>2. PICK r \in Runs : r = Run("process") /\ file[r]["processing"] = "empty"
  BY <1>1 DEF ServiceInv, At, Run, ProcessSteps
<1>3. /\ "normalize" \in Steps /\ "processing" \in RunFiles /\ "whole" \in FileStates
      /\ file[r]["ready"] = "whole" /\ file[r]["evidence"] = "absent"
  BY <1>1, <1>2 DEF Steps, RunFiles, FileStates, FilesInv, Exists
<1>4. file' = [file EXCEPT ![r]["processing"] = "whole"]
  BY <1>2 DEF ProcessingIsWritten, Writes
<1>5. file'[r]["processing"] = "whole" /\ file'[r]["evidence"] = "absent"
  <2>1. file \in [Runs -> [RunFiles -> FileStates]] /\ "evidence" \in RunFiles
    BY <1>1 DEF CampaignTypeOK, RunFiles
  <2> QED
    BY <1>3, <1>4, <2>1
<1>6. /\ service' \in [Services -> ServiceStates] /\ OthersWait("process")
      /\ service'["process"].pc = "normalize" /\ service'["process"].run = r
  BY <1>1, <1>2, <1>3, SetService DEF ProcessingIsWritten, Run
<1>7. ServiceInv("process")'
  <2>1. Known'
    BY <1>1 DEF Known
  <2> QED
    BY <1>5, <1>6, <2>1 DEF ServiceInv, CaptureSteps, ProcessSteps
<1> QED
  BY <1>1, <1>3, <1>4, <1>6, <1>7, ProcessStep

LEMMA NormalizesHolds ==
    ASSUME CampaignInv, Normalizes
    PROVE  CampaignInv'
<1>1. /\ CampaignTypeOK /\ FilesInv /\ Known /\ ServiceInv("process")
      /\ At("process", "normalize") /\ UNCHANGED <<now, at, start, complete>>
      /\ "process" \in Services
  BY DEF CampaignInv, ServiceInv, ProcessSteps, Normalizes, At, clock, Services
<1>2. CASE Ends("process") /\ UNCHANGED file
  <2>1. UNCHANGED <<now, disk>>
    BY <1>1, <1>2 DEF disk
  <2> QED
    BY <1>1, <1>2, <2>1, RestHolds
<1>3. CASE Creates(Run("process"), "evidence") /\ GoesTo("process", "evidence")
  <2>1. PICK r \in Runs : /\ r = Run("process") /\ file[r]["processing"] = "whole"
                          /\ file[r]["evidence"] = "absent"
    BY <1>1 DEF ServiceInv, At, Run, ProcessSteps
  <2>2. /\ "evidence" \in Steps /\ "evidence" \in RunFiles /\ "empty" \in FileStates
        /\ ~Exists(r, "membership")
    BY <1>1, <2>1 DEF Steps, RunFiles, FileStates, FilesInv, Exists
  <2>3. file' = [file EXCEPT ![r]["evidence"] = "empty"]
    BY <1>3, <2>1 DEF Creates
  <2>4. file'[r]["evidence"] = "empty"
    <3>1. file \in [Runs -> [RunFiles -> FileStates]]
      BY <1>1 DEF CampaignTypeOK
    <3> QED
      BY <2>2, <2>3, <3>1
  <2>5. /\ service' \in [Services -> ServiceStates] /\ OthersWait("process")
        /\ service'["process"].pc = "evidence" /\ service'["process"].run = r
    BY <1>1, <1>3, <2>1, <2>2, SetService DEF Run
  <2>6. ServiceInv("process")'
    <3>1. Known'
      BY <1>1 DEF Known
    <3> QED
      BY <2>4, <2>5, <3>1 DEF ServiceInv, CaptureSteps, ProcessSteps
  <2> QED
    BY <1>1, <2>1, <2>2, <2>3, <2>5, <2>6, ProcessStep
<1> QED
  BY <1>2, <1>3 DEF Normalizes

LEMMA EvidenceIsWrittenHolds ==
    ASSUME CampaignInv, EvidenceIsWritten
    PROVE  CampaignInv'
<1>1. /\ CampaignTypeOK /\ FilesInv /\ Known /\ ServiceInv("process")
      /\ At("process", "evidence") /\ UNCHANGED <<now, at, start, complete>>
      /\ "process" \in Services
  BY DEF CampaignInv, ServiceInv, ProcessSteps, EvidenceIsWritten, At, clock, Services
<1>2. PICK r \in Runs : r = Run("process") /\ file[r]["evidence"] = "empty"
  BY <1>1 DEF ServiceInv, At, Run, ProcessSteps
<1>3. /\ "bind" \in Steps /\ "evidence" \in RunFiles /\ "whole" \in FileStates
      /\ file[r]["processing"] = "whole"
  BY <1>1, <1>2 DEF Steps, RunFiles, FileStates, FilesInv, Exists
<1>4. file' = [file EXCEPT ![r]["evidence"] = "whole"]
  BY <1>2 DEF EvidenceIsWritten, Writes
<1>5. file'[r]["evidence"] = "whole"
  <2>1. file \in [Runs -> [RunFiles -> FileStates]]
    BY <1>1 DEF CampaignTypeOK
  <2> QED
    BY <1>3, <1>4, <2>1
<1>6. /\ service' \in [Services -> ServiceStates] /\ OthersWait("process")
      /\ service'["process"].pc = "bind" /\ service'["process"].run = r
  BY <1>1, <1>2, <1>3, SetService DEF EvidenceIsWritten, Run
<1>7. ServiceInv("process")'
  <2>1. Known'
    BY <1>1 DEF Known
  <2> QED
    BY <1>5, <1>6, <2>1 DEF ServiceInv, CaptureSteps, ProcessSteps
<1> QED
  BY <1>1, <1>3, <1>4, <1>6, <1>7, ProcessStep

LEMMA PublishedIsBoundHolds ==
    ASSUME CampaignInv, PublishedIsBound
    PROVE  CampaignInv'
<1>1. Known /\ Run("process") \in Runs /\ UNCHANGED <<now, at, start, complete>>
  BY DEF CampaignInv, ServiceInv, ProcessSteps, PublishedIsBound, At, Run, clock, Services
<1>2. Binds(Run("process"))
  BY DEF PublishedIsBound
<1> QED
  BY <1>1, <1>2, BindsHolds

LEMMA MembershipIsWrittenHolds ==
    ASSUME CampaignInv, MembershipIsWritten
    PROVE  CampaignInv'
<1>1. /\ CampaignTypeOK /\ FilesInv /\ ServiceInv("process")
      /\ At("process", "binding") /\ UNCHANGED <<now, at, start, complete>>
      /\ "process" \in Services
  BY DEF CampaignInv, MembershipIsWritten, clock, Services
<1>2. PICK r \in Runs : r = Run("process") /\ file[r]["evidence"] = "whole"
  BY <1>1 DEF ServiceInv, At, Run, ProcessSteps, FilesInv
<1>3. "whole" \in FileStates /\ file' = [file EXCEPT ![r]["membership"] = "whole"]
  BY <1>2 DEF FileStates, MembershipIsWritten, Writes
<1>4. /\ service' \in [Services -> ServiceStates] /\ OthersWait("process")
      /\ service'["process"].pc = "idle"
  <2>1. Idle.pc = "idle"
    BY DEF Idle
  <2> QED
    BY <1>1, <2>1, SetService DEF MembershipIsWritten
<1>5. ServiceInv("process")'
  BY <1>4 DEF ServiceInv, CaptureSteps, ProcessSteps
<1> QED
  BY <1>1, <1>2, <1>3, <1>4, <1>5, ProcessStep
-----------------------------------------------------------------------------
(* Time, and the whole. *)

LEMMA TickHolds ==
    ASSUME CampaignInv, Tick
    PROVE  CampaignInv'
<1>1. /\ CampaignTypeOK /\ now \in Nat /\ now' = now + 1
      /\ UNCHANGED <<at, file, start, complete, service>>
  BY DEF CampaignInv, CampaignTypeOK, Tick, disk
<1>2. CampaignTypeOK'
  <2>1. 0 .. now \subseteq 0 .. now + 1
    BY <1>1
  <2>2. at' \in [Runs -> 0 .. now'] /\ start' \in [file: FileStates, run: 0 .. MaxRuns,
                                                   at: 0 .. now']
    BY <1>1, <2>1 DEF CampaignTypeOK
  <2> QED
    BY <1>1, <2>2 DEF CampaignTypeOK
<1>3. /\ Deadline' = Deadline /\ (now >= Deadline => now' >= Deadline')
      /\ \A r \in Runs : Window(r)' <=> Window(r)
  <2>1. Deadline \in Nat
    BY <1>1, CampaignAssumption DEF CampaignTypeOK, Deadline
  <2> QED
    BY <1>1, <2>1 DEF Deadline, Window
<1>4. \A r \in Runs, f \in RunFiles : Exists(r, f)' <=> Exists(r, f)
  BY <1>1 DEF Exists
<1>5. Known' = Known /\ NoneReady' = NoneReady
  BY <1>1 DEF Known, NoneReady, Exists
<1>6. AttemptsInv' /\ FilesInv' /\ CompleteInv'
  BY <1>1, <1>3, <1>5 DEF CampaignInv, AttemptsInv, FilesInv, CompleteInv, Exists
<1>7. StartInv'
  BY <1>1, <1>3, <1>4, <1>5 DEF CampaignInv, StartInv, RunFiles
<1>8. ASSUME NEW p \in Services
      PROVE  ServiceInv(p)'
  <2>1. ServiceInv(p) /\ service'[p] = service[p]
    BY <1>1 DEF CampaignInv
  <2> QED
    BY <1>1, <1>3, <1>5, <2>1 DEF ServiceInv, Exists
<1>9. OneWriter'
  BY <1>1 DEF CampaignInv, OneWriter
<1> QED
  BY <1>2, <1>6, <1>7, <1>8, <1>9 DEF CampaignInv

LEMMA StutterHolds ==
    ASSUME CampaignInv, UNCHANGED vars
    PROVE  CampaignInv'
  BY DEF CampaignInv, vars, clock, disk, CampaignTypeOK, AttemptsInv, FilesInv, StartInv,
         CompleteInv, ServiceInv, OneWriter, Known, NoneReady, Window, Deadline, Exists

\* Every step of a service, every kill and every tick keeps the invariant.
THEOREM CampaignInductive == CampaignInv /\ [Next]_vars => CampaignInv'
<1> SUFFICES ASSUME CampaignInv, [Next]_vars
             PROVE  CampaignInv'
  OBVIOUS
<1>1. ASSUME NEW p \in Services, CycleStarts(p)
      PROVE  CampaignInv'
  BY <1>1, RestHolds DEF CycleStarts, clock
<1>2. ASSUME NEW p \in Services, Recovers(p)
      PROVE  CampaignInv'
  BY <1>2, StartIsReadHolds, StartIsCreatedHolds, StartIsWrittenHolds DEF Recovers
<1>3. CASE Capture
  BY <1>3, PlansHolds, AttemptIsWrittenHolds, RecordsHolds, ReadyIsWrittenHolds,
     FinishesHolds, CompletesHolds DEF Capture
<1>4. CASE Process
  BY <1>4, WorksHolds, ProcessingIsWrittenHolds, NormalizesHolds, EvidenceIsWrittenHolds,
     PublishedIsBoundHolds, MembershipIsWrittenHolds DEF Process
<1>5. ASSUME NEW p \in Services, Kill(p)
      PROVE  CampaignInv'
  BY <1>5, RestHolds DEF Kill
<1>6. CASE Tick
  BY <1>6, TickHolds
<1>7. CASE UNCHANGED vars
  BY <1>7, StutterHolds
<1>8. "capture" \in Services /\ "process" \in Services /\ "status" \in Services
  BY DEF Services
<1> QED
  BY <1>1, <1>2, <1>3, <1>4, <1>5, <1>6, <1>7, <1>8
  DEF Next, CaptureService, ProcessService, StatusCommand

LEMMA CampaignInvHolds == Spec => []CampaignInv
BY InitHolds, CampaignInductive, PTL DEF Spec

\* Clocks, files, the start, the marker and the services keep their types.
THEOREM CampaignTypeCorrect == Spec => []CampaignTypeOK
<1>1. CampaignInv => CampaignTypeOK
  BY DEF CampaignInv
<1> QED
  BY <1>1, CampaignInvHolds, PTL

\* recover_campaign_start: the campaign's clock is that of the earliest accepted
\* capture, whoever writes it and whoever is killed while writing.
THEOREM StartIsFirstAcceptedHolds == Spec => []StartIsFirstAccepted
<1>1. CampaignInv => StartIsFirstAccepted
  BY DEF CampaignInv, StartInv, StartIsFirstAccepted, Known, Window
<1> QED
  BY <1>1, CampaignInvHolds, PTL

\* plan_capture lets nothing start outside the campaign's window, so that
\* bind_development_membership refuses no accepted capture.
THEOREM AcceptedInWindowHolds == Spec => []AcceptedInWindow
<1>1. CampaignInv => AcceptedInWindow
  BY DEF CampaignInv, StartInv, AcceptedInWindow, Known, Window
<1> QED
  BY <1>1, CampaignInvHolds, PTL

\* A membership file exists only for a run whose attempt, acceptance, processing
\* and evidence are written whole, in a campaign with a known start.
THEOREM MembershipRestsOnEvidenceHolds == Spec => []MembershipRestsOnEvidence
<1>1. CampaignInv => MembershipRestsOnEvidence
  BY DEF CampaignInv, FilesInv, MembershipRestsOnEvidence, Known, Exists
<1> QED
  BY <1>1, CampaignInvHolds, PTL

\* publish_campaign_complete is reached after the deadline only.
THEOREM CompleteByTimeHolds == Spec => []CompleteByTime
<1>1. CampaignInv => CompleteByTime
  BY DEF CampaignInv, CompleteInv, CompleteByTime, Known
<1> QED
  BY <1>1, CampaignInvHolds, PTL

\* Once the marker of completion exists no step adds an attempt.
THEOREM NoCaptureAfterCompleteHolds == Spec => NoCaptureAfterComplete
<1> DEFINE Attempts == {r \in Runs : Exists(r, "attempt")}
<1>1. ASSUME CampaignInv, [Next]_vars, complete # "absent"
      PROVE  Attempts' = Attempts
  <2> SUFFICES \A r \in Runs : Exists(r, "attempt")' <=> Exists(r, "attempt")
    OBVIOUS
  <2>1. CampaignTypeOK /\ Over
    BY <1>1 DEF CampaignInv, CompleteInv, Known, Over
  <2>2. file \in [Runs -> [RunFiles -> FileStates]] /\ "attempt" \in RunFiles
    BY <2>1 DEF CampaignTypeOK, RunFiles
  <2>3. CASE UNCHANGED file
    BY <2>3 DEF Exists
  <2>4. CASE AttemptIsWritten
    <3>1. PICK r \in Runs : r = Run("capture") /\ file[r]["attempt"] = "empty"
      BY <1>1, <2>4 DEF CampaignInv, ServiceInv, AttemptIsWritten, At, Run, Services
    <3>2. file' = [file EXCEPT ![r]["attempt"] = "whole"]
      BY <2>4, <3>1 DEF AttemptIsWritten, Writes
    <3> QED
      BY <2>2, <3>1, <3>2 DEF Exists
  <2>5. ASSUME NEW r, NEW f \in RunFiles \ {"attempt"}, Creates(r, f) \/ Writes(r, f)
        PROVE  \A q \in Runs : Exists(q, "attempt")' <=> Exists(q, "attempt")
    BY <2>2, <2>5 DEF Creates, Writes, Exists
  <2>6. \/ UNCHANGED file \/ AttemptIsWritten
        \/ \E r : \E f \in RunFiles \ {"attempt"} : Creates(r, f) \/ Writes(r, f)
    <3>1. CASE UNCHANGED vars
      BY <3>1 DEF vars, disk
    <3>2. ASSUME NEW p \in Services, CycleStarts(p) \/ Recovers(p) \/ Kill(p)
          PROVE  UNCHANGED file
      BY <3>2 DEF CycleStarts, Recovers, StartIsRead, StartIsCreated, StartIsWritten, Kill,
                  disk
    <3>3. CASE Plans \/ Finishes \/ Completes \/ CompleteIsWritten \/ Tick
      BY <2>1, <3>3 DEF Plans, Finishes, Completes, CompleteIsWritten, Tick, disk
    <3>4. CASE Records \/ ReadyIsWritten
      BY <3>4 DEF Records, ReadyIsWritten, RunFiles
    <3>5. CASE Process
      BY <3>5 DEF Process, Works, Binds, ProcessingIsWritten, Normalizes, EvidenceIsWritten,
                  PublishedIsBound, MembershipIsWritten, RunFiles
    <3>6. "capture" \in Services /\ "process" \in Services /\ "status" \in Services
      BY DEF Services
    <3> QED
      BY <1>1, <3>1, <3>2, <3>3, <3>4, <3>5, <3>6
      DEF Next, CaptureService, ProcessService, StatusCommand, Capture
  <2> QED
    BY <2>3, <2>4, <2>5, <2>6
<1>2. CampaignInv /\ [Next]_vars
         => [complete # "absent" => {r \in Runs : Exists(r, "attempt")}' =
                                    {r \in Runs : Exists(r, "attempt")}]_vars
  BY <1>1
<1> QED
  BY <1>2, CampaignInvHolds, PTL DEF Spec, NoCaptureAfterComplete
=============================================================================
